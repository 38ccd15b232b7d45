CONSTANTS
  ann = ann
  bob = bob
  cat = cat
  Users <- MCUsers
  Owner = ann
  NoUser = NoUser
  InitialAssignee = bob
  InitialMembers <- MCInitialMembers
  Shifting = {}
  Memberships = {}
  Criteria = {c1}
  Transitions <- MCTransitions
  RequiresReview = TRUE
  MaxProposals = 1
  MaxPackages = 1
  MaxVersion = 4
  Edited = {1, 2, 3}
SPECIFICATION ClosureSpec
PROPERTY FinalNeedsVerdict
CHECK_DEADLOCK FALSE
