CONSTANTS
  SN = {s1}
  Junk = {}
  Listeners = 1
  Remotes = 0
  Route <- Routes
  Tag = {t1}
  NoTag = NoTag
  SendOptions <- InOptions
  CommandHWM = 8
  MaxInputs = 5
SPECIFICATION FairSpec
PROPERTIES RequestAnswered
