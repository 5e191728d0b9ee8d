CONSTANTS
  SN = {s1}
  Junk = {}
  Listeners = 1
  Remotes = 1
  Route <- Routes
  Tag = {t1}
  NoTag = NoTag
  SendOptions <- OutOptions
  CommandHWM = 8
  MaxInputs = 4
SPECIFICATION FairSpec
PROPERTIES RequestAnswered 
