\* Two callers, every kind of amount from 0 to beyond the capacity of 16, and
\* windows of up to MaxSupplied ticks, opened and closed at any moment.
CONSTANTS
  c1 = c1
  c2 = c2
  NoOne = NoOne
  Callers = {c1, c2}
  Bandwidth = 1
  UintMod = 256
  Requests = {0, 5, 16, 17}
  MaxSupplied = 6
SPECIFICATION MeterFairSpec
INVARIANT HandOff
INVARIANT NeverReadsTooMuch
INVARIANT RateBound
PROPERTY ImplementsTokenBucket
PROPERTY WaitReturns
