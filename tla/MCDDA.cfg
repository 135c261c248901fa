SPECIFICATION FairSpec
CONSTANTS
  Var <- MCVar
  Mem <- MCMem
  Obj <- MCObj
  Fun <- MCFun
  Site <- MCSite
  Programs <- MCPrograms
  MaxCxt = 2
  None = None
  MaxRounds = 26
  Candidates <- MCSolutions
INVARIANTS TypeOK Precise NoAssertionFails Settled Complete Exact RefinesFlow
PROPERTY Terminates
