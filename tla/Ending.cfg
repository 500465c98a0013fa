\* How connections end when no call of the C library fails.
CONSTANTS
  c1 = c1
  c2 = c2
  logAcc = logAcc
  repoAcc = repoAcc
  serviceAcc = serviceAcc
  None = None
  Client = {c1, c2}
  Acceptor = {logAcc, serviceAcc}
  App <- AllApps
  ListenFd <- Ports
  ClientFd = {7, 8}
  Disturbance = {"timeout", "sigint", "hangup", "wholeBuffers"}
SPECIFICATION LoopSpec
CHECK_DEADLOCK FALSE
INVARIANTS
  ShutdownReleases
PROPERTY ConnectionsEnd
