SPECIFICATION Spec
CONSTANTS
  Ids = {1, 2, 3, 4}
  Limit = 2
  MaxAdds = 8
INVARIANTS TypeOK SizeBounded MissOutsideRangeIsTrue EveryMemberIsQueued
PROPERTIES KeepsThePromise
