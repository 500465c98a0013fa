\* The sets of misfortunes that must not cause some kind of fault, each the
\* widest of its kind; under the first, the peers are fair as well.
CONSTANTS
  c1 = c1
  c2 = c2
  logAcc = logAcc
  repoAcc = repoAcc
  serviceAcc = serviceAcc
  None = None
  Client = {c1, c2}
  Acceptor = {logAcc, repoAcc, serviceAcc}
  App <- AllApps
  ListenFd <- Ports
  ClientFd = {7, 8}
  Disturbance = {"openfail", "fcloseFail"}
  Choices = {{"openfail", "fcloseFail"},
             {"sigint", "openfail", "fcloseFail"},
             {"timeout", "hangup", "wholeBuffers"},
             {"fcloseFail", "hangup", "wholeBuffers"},
             {"hangup", "wholeBuffers"}}
SPECIFICATION ChoiceSpec
CHECK_DEADLOCK FALSE
INVARIANT FaultsCaused
PROPERTY Answered
