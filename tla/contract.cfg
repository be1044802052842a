SPECIFICATION ContractSpec
CONSTANTS
  MaxKey = 4
  pk_value = 2
  Part = {"table", "singleton", "greetings", "events"}
  UsedKey = {0, 2, 4}
  UsedValue = {0, 1}
  MaxAction = 12
  MaxHeader = 5
  Size = {2, 3, 5, 7}
  MaxEvents = 6
INVARIANTS
  EventsArrive
  IndexAgrees
  
CHECK_DEADLOCK FALSE
