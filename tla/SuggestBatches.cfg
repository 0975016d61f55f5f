CONSTANTS
  Items = 2
  Patience = 2
  MaxRuns = 2
  MaxLoads = 2
  MaxStops = 1
SPECIFICATION SuggestSpec
INVARIANTS AnswersItsCall 
 
CHECK_DEADLOCK FALSE
