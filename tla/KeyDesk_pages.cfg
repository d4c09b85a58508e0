CONSTANTS
  k1 = k1
  k2 = k2
  k3 = k3
  c1 = c1
  c2 = c2
  noKey = noKey
  Keys = {k1, k2, k3}
  NoKey = noKey
  Clients = {c1, c2}
  Grants <- MCGrants
  Expiries = {0}
  MaxNow = 1
SPECIFICATION Spec
SYMMETRY Symmetry
INVARIANTS
  TypeOK
  TangledInHaste
  WizardInOrder
