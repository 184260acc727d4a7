\* Two sessions that race with each other and with an administrator who resets
\* the used traffic, deletes the user and edits the plan.
CONSTANTS
  s1 = s1
  s2 = s2
  p1 = p1
  NoBucket = NoBucket
  Sessions = {s1, s2}
  Plans = {p1}
  Limits = {1}
  Bandwidths = {0, 2}
  Charges = {0}
  MaxMoved = 2
SPECIFICATION FairSpec
INVARIANT ChargedWithinTraffic
PROPERTY CountFinal
PROPERTY BucketSettles
PROPERTY SessionEnds
