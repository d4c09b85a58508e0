CONSTANTS
  a1 = a1
  v1 = v1
  v2 = v2
  noVersion = noVersion
  k1 = k1
  c1 = c1
  c2 = c2
  Assets = {a1}
  Sets = {1}
  Versions = {v1, v2}
  SetOf <- MCSetOf
  NoVersion = noVersion
  Scans = {k1}
  Clients = {c1, c2}
  Prod = FALSE
  MaxOthers = 1
SPECIFICATION Spec
SYMMETRY Symmetry
INVARIANTS
  TypeOK
  ApprovalStands
  RunsApprovedScope
