\* Three objects at two addresses, and one message to each of them, from the
\* client or from a tagged thread.
CONSTANTS
  Client = {c1}
  Address = {1, 2}
  MaxObjects = 3
  MaxMessages = 1
SPECIFICATION FairSpec
INVARIANTS TypeOK CachedSocketAlive SentBeforeQuitTaken
PROPERTIES StartReturns DestructorReturns
\* Nothing is left to do when the last object is gone.
CHECK_DEADLOCK FALSE
