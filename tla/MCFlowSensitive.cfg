SPECIFICATION FairSpec
CONSTANTS
  Var <- MCVar
  Mem <- MCMem
  Obj <- MCObj
  Fun <- MCFun
  Site <- MCSite
  Programs <- MCPrograms
  Candidates <- MCCandidates
  MaxCxt = 2
  None = None
INVARIANTS NothingLost RefinesPreAnalysis LeastSolution
PROPERTY Terminates
