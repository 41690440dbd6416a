SPECIFICATION Spec
CONSTANTS
  Names = {"ttynum", "pid"}
  MaxFields = 3
  Chars = {"c", "nul"}
  MaxText = 6
  Missing = 2
  MaxFamily = 4
  MaxCalls = 6
  Tables <- MCTables
  Given <- MCGiven
INVARIANTS
  FormatsInStep
  TextsSurvive
  
  FamiliesSignalled
