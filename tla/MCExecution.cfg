SPECIFICATION Spec
CONSTANTS
  req = req
  grant = grant
  r1 = r1
  r2 = r2
  ann = ann
  bob = bob
  w1 = w1
  w2 = w2
  NoUser = NoUser
  None = None
  Users = {ann, bob}
  Owner = ann
  Managers = {ann}
  Reviewers = {ann}
  InitialAssignee = bob
  Objects = {req, grant}
  Grants = {grant}
  Arrivals <- MCArrivals
  Revisions = {r1, r2}
  Revocations = {}
  InitialBases <- MCInitialBases
  InitialLinks <- MCInitialLinks
  InitialObjects <- MCInitialObjects
  Offers <- MCOffers
  Regulations <- MCRegulations
  FactSets <- MCFactSets
  Requests <- MCRequests
  MaxSteps = 3
  MaxBlockers = 1
SYMMETRY Symmetry
INVARIANTS
  TypeOK
  OneExecutor
  PendingIsKnown
PROPERTIES
  StopHolds
  EndsOnce
  ImplementsHold
