CONSTANTS
  a1 = a1
  a2 = a2
  v1 = v1
  v2 = v2
  k1 = k1
  c1 = c1
  c2 = c2
  noVersion = noVersion
  Assets = {a1, a2}
  Sets <- OneSet
  Versions = {v1, v2}
  SetOf <- InOneSet
  NoVersion = noVersion
  Scans = {k1}
  Clients = {c1, c2}
  Builders = {c1}
  Staff = {c2}
  Prod = TRUE
SPECIFICATION Spec
SYMMETRY Symmetry
INVARIANTS
  TypeOK
  NumbersDense
  BackedByApproval
  LinkCovers
  AttestationAgrees
  AttestedIsBacked
PROPERTIES
  KeepsPromise
