\* Everything that may go wrong does.
CONSTANTS
  c1 = c1
  c2 = c2
  logAcc = logAcc
  repoAcc = repoAcc
  serviceAcc = serviceAcc
  None = None
  Client = {c1, c2}
  Acceptor = {logAcc, repoAcc, serviceAcc}
  App <- AllApps
  ListenFd <- Ports
  ClientFd = {7, 8}
  Disturbance = {"timeout", "sigint", "hangup", "openfail", "fcloseFail", "wholeBuffers"}
SPECIFICATION Spec
CHECK_DEADLOCK FALSE
SYMMETRY Peers
INVARIANTS
  TypeOK
  InterestIsOwned
  LiveHasTimer
  CallbacksReachLive
  LiveIsRegistered
  WriteInterestIsResponse
PROPERTY Refinement
