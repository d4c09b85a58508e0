CONSTANTS
  k1 = k1
  k2 = k2
  k3 = k3
  c1 = c1
  c2 = c2
  Keys = {k1, k2, k3}
  Clients = {c1, c2}
  Grants <- MCGrants
  Expiries = {0, 1}
  MaxNow = 2
SPECIFICATION KeysSpec
SYMMETRY Symmetry
INVARIANTS
  OneLiveKey
  KeptAsAsked
