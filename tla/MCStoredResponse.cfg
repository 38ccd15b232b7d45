CONSTANTS
  first = first
  repeat = repeat
  other = other
  again = again
  Nobody = Nobody
  Requests <- MCRequests
  Hash <- MCHash
  NoOps = {"h2"}
  EndsSession = {"h1"}
SPECIFICATION Spec
INVARIANT StoredResponseIsOwn
CHECK_DEADLOCK FALSE
