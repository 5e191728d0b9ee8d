SPECIFICATION Spec
CONSTANTS
  k1 = k1
  c1 = c1
  a = a
  b = b
  x = x
  huge = huge
  Category = {a, b}
  Command = {x}
  Bare = {huge}
  TooLong = {huge}
  Categories <- MCCategories
  Commands <- MCCommandSet
  Aliases <- MCAliases
  Messages <- MCMessages
  LocalSN = FALSE
  MaxQueue <- MCMaxQueue
  Worker = {w1}
  Key = {k1}
  NoKey = NoKey
  Client = {c1}
  KeyOf <- MCKeyOf
  Remote = {r1}
  Allowed = {0, 1, 3, 4}
  Levels = {3}
  None = None
  MaxListeners = 1
  MaxMessages = 2
  MaxFlight = 1
INVARIANTS
  TypeOK
  AccessDecisions
  AccessAtArrival
  
CHECK_DEADLOCK FALSE
