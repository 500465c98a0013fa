\* Three connections, two updates of each name, two pairs of servers.
CONSTANTS
  a = a
  b = b
  c = c
  k1 = k1
  k2 = k2
  Handlers = {h1, h2, h3}
  Names = {a, b, c}
  Keys = {k1, k2}
  Hash <- Hashes
  Pairs = {p, q}
  Header = Header
  None = None
  MaxUpdates = 2
SPECIFICATION Spec
SYMMETRY Connections
INVARIANTS
  TypeOK
  EveryUpdateKept
  OneHeader
  FoundIsListed
PROPERTIES
  AnswersAgree
  ListOnlyGrows
