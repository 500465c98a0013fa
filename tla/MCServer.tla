------------------------------ MODULE MCServer ------------------------------
EXTENDS Server, TLC
CONSTANTS c1, c2, logAcc, repoAcc, serviceAcc
MCApps == (logAcc :> "log") @@ (repoAcc :> "repo") @@ (serviceAcc :> "service")
AllApps == [a \in Acceptor |-> MCApps[a]]
MCListenFd == (logAcc :> 4) @@ (repoAcc :> 5) @@ (serviceAcc :> 6)
Ports == [a \in Acceptor |-> MCListenFd[a]]
Peers == Permutations(Client)
=============================================================================
