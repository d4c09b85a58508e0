CONSTANTS
  b1 = b1
  b2 = b2
  l1 = l1
  l2 = l2
  r1 = r1
  r2 = r2
  none = none
  o1 = o1
  o2 = o2
  Browsers = {b1, b2}
  Logins = {l1, l2}
  Orgs = {o1, o2}
  Requests = {r1, r2}
  None = none
SPECIFICATION Spec
SYMMETRY Symmetry
INVARIANTS
  CookieIsOwn
  LogoutEnds
