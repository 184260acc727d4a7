\* Every way to cut the handshake and up to three chunks of data.
CONSTANTS
  Offers <- MCOffers
  Requests <- MCRequests
  Resolves <- MCResolves
  Chunks <- MCChunks
  MaxChunks = 3
  ClientPort = 1080
SPECIFICATION FairSpec
INVARIANT DialsWhatWasAsked
INVARIANT RefusesOnlyFragments
INVARIANT StreamKept
PROPERTY HandshakeEnds
CHECK_DEADLOCK FALSE
