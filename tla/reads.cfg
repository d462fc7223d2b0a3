\* Readers of one and of several statements, while others write.
SPECIFICATION Spec
CONSTANTS
  None = None
  x = x
  y = y
  Branches = {x, y}
  Year = 1
  Stores <- MCStores
  NewItems <- MCNewItems
  NewTenders <- MCNewTenders
  NewGerees <- MCNewGerees
  MaxWrites = 2
  Capacities = {1, 2, 4}
  Calls <- MCCalls
INVARIANTS ListsWhole StepsAgree RowsAddUp AnswersBetween
CHECK_DEADLOCK FALSE
