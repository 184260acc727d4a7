\* A redirected connection, a CONNECT tunnel, and other users of a pool of three
\* goroutines: room for a whole relay, and each kind of task is refused at some time.
CONSTANTS
  c1 = c1
  c2 = c2
  NoConn = NoConn
  Stopped = Stopped
  Conns = {c1, c2}
  Redir = {c1}
  PoolSize = 3
SPECIFICATION FairSpec
INVARIANT HangsUpForCause
PROPERTY RedirReleases
PROPERTY ConnectEnds
PROPERTY AcceptsAgain
CHECK_DEADLOCK FALSE
