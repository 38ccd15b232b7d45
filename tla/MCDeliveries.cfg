CONSTANTS
  ann = ann
  bob = bob
  cat = cat
  Users <- MCUsers
  Owner = ann
  NoUser = NoUser
  InitialAssignee = bob
  InitialMembers <- MCInitialMembers
  Shifting = {bob}
  Memberships <- MCMemberships
  Criteria = {c1}
  Transitions <- MCTransitions
  RequiresReview = TRUE
  MaxProposals = 2
  MaxPackages = 2
  MaxVersion = 6
  Edited = {2, 3}
  MaxDeliveries = 2
  MaxAcceptances = 2
SPECIFICATION DeliverySpec
INVARIANTS
  TypeOK
  VerdictIsReviewed
  AcceptedIsEarned
  SupersededOnce
  QueueMatchesRule
  DeliveredIsAccepted
  SummaryIsCurrent
PROPERTIES
  FinalNeedsVerdict
  VersionTracksContent
  ImplementsLedger
  AcceptedForGood
CHECK_DEADLOCK FALSE
