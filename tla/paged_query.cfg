SPECIFICATION MCSpec
CONSTANTS
  Null = Null
  MaxKey = 5
  AnyMaxKey = 3
  Key <- MCKey
  PageSizes <- MCPageSizes
  MaxChanges = 3
INVARIANTS NothingMissed PageAsDefined
PROPERTY PagesAreAdjacent
CHECK_DEADLOCK FALSE
