\* One object with a tagged thread.
CONSTANTS
  c1 = c1
  Client = {c1}
  Address = {1}
  MaxObjects = 1
  MaxMessages = 1
SPECIFICATION Spec
INVARIANT CallbackFindsProxy
CHECK_DEADLOCK FALSE
