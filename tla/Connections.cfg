CONSTANTS
  SN = {s1, s2}
  Junk = {junk}
  Listeners = 1
  Remotes = 1
  Route <- Routes
  Tag = {t1}
  NoTag = NoTag
  SendOptions <- AllOptions
  CommandHWM = 4
  MaxInputs = 4
SPECIFICATION Spec
INVARIANTS TypeOK IndicesAgree SocketsOwned RoundRobinValid OnlyActivePeers
PROPERTIES CallbacksKeepPromise
