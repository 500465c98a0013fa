\* Only SIGINT.
CONSTANTS
  c1 = c1
  c2 = c2
  logAcc = logAcc
  repoAcc = repoAcc
  serviceAcc = serviceAcc
  None = None
  Client = {c1}
  Acceptor = {logAcc, repoAcc, serviceAcc}
  App <- AllApps
  ListenFd <- Ports
  ClientFd = {7, 8}
  Disturbance = {"sigint"}
SPECIFICATION Spec
CHECK_DEADLOCK FALSE
PROPERTY NoWaitAfterShutdown
