CONSTANTS
  u1 = u1
  u2 = u2
  u3 = u3
  t1 = t1
  t2 = t2
  t3 = t3
  founders = founders
  shared = shared
  i1 = i1
  c1 = c1
  c2 = c2
  Prod = TRUE
  Tokens = {t1, t2, t3}
  StaffTokens = {}
  Users = {u1, u2, u3}
  Founder = u1
  UserOf <- MCUserOf
  Addresses = {founders, shared}
  AddressOf <- MCAddressOf
  Invites = {i1}
  Granted = {"organization_owner", "report_viewer"}
  Clients = {c1, c2}
SPECIFICATION Spec
SYMMETRY Symmetry
INVARIANTS
  TypeOK
  OwnerUnlessOverlapped
  RevokedIsRefused
  SweptUnlessLate
  InvitationBinds
