SPECIFICATION Spec
CONSTANTS
  r1 = r1
  r2 = r2
  r3 = r3
  d1 = d1
  d2 = d2
  e1 = e1
  e2 = e2
  None = None
  Revisions = {r1, r2, r3}
  Digests = {d1, d2}
  Events = {e1, e2}
  w1 = w1
  w2 = w2
  Importers <- MCImporters
  Messages <- MCMessages
SYMMETRY Symmetry
PROPERTIES
  NeverOlderConfirmed
