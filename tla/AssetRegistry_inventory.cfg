CONSTANTS
  i1 = i1
  a1 = a1
  a2 = a2
  c1 = c1
  c2 = c2
  k1 = k1
  bad = bad
  noIdentifier = noIdentifier
  noAsset = noAsset
  Identifiers = {i1}
  NoIdentifier = noIdentifier
  Malformed = bad
  Files <- TwoFiles
  Assets = {a1, a2}
  Challenges = {1, 2}
  NoAsset = noAsset
  Keys = {k1}
  Clients = {c1, c2}
SPECIFICATION Spec
SYMMETRY Symmetry
INVARIANTS
  TypeOK
  UniqueLive
  ActiveIsProven
  AnswersAgree
  ImportAccounts
PROPERTIES
  KeepsInventory
