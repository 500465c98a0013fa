\* Two clients, one name that is announced once, files of one and three lines.
CONSTANTS
  a = a
  k = k
  x = x
  y = y
  z = z
  Text = {x, y, z}
  Zeros = z
  MaxLeaks = 1
  Files <- Three
  Handlers = {c1, c2}
  Names = {a}
  Keys = {k}
  Hash <- Hashes
  Pairs = {p}
  m_uploadServers = p
  Header = Header
  None = None
  MaxUpdates = 1
SPECIFICATION StoreSpec
SYMMETRY Clients
INVARIANTS
  StoreTypeOK
  QuietDownload
  NoMixture
  ListedIsStored
  ReadYourWrites
