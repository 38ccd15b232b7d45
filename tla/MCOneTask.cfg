SPECIFICATION Spec
CONSTANTS
  scope1 = scope1
  scope2 = scope2
  req = req
  r1 = r1
  r2 = r2
  w1 = w1
  w2 = w2
  None = None
  Keys <- MCKeys
  Objects <- MCObjects
  BasisObject <- MCBasisObject
  Revisions <- MCRevisions
  Requests <- MCRequests
  ExistingTasks = 1
  MaxTasks = 3
  MaxWork = 2
SYMMETRY Symmetry
CHECK_DEADLOCK FALSE
INVARIANTS
  OneTaskPerProposal
