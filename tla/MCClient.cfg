\* An address that is used three times in a row, a chunk per connection.
CONSTANTS
  MaxGen = 3
  MaxReads = 1
SPECIFICATION FairSpec
INVARIANT OwnConn
INVARIANT ReplyFirst
INVARIANT NothingCutOff
INVARIANT NoLinkLeak
PROPERTY EOFPropagates
PROPERTY GoroutineEnds
CHECK_DEADLOCK FALSE
