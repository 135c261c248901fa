SPECIFICATION Spec
CONSTANTS
  Var <- MCVar
  Mem <- MCMem
  Obj <- MCObj
  Fun <- MCFun
  Site <- MCSite
  Programs <- MCTwoObjects
  MaxCxt = 2
  None = None
  MaxRounds = 26
  Candidates <- MCTwoSolutions
INVARIANT Complete
