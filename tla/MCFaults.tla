------------------------------ MODULE MCFaults ------------------------------
(* The server under one of several sets of misfortunes, chosen before it   *)
(* starts: so that each kind of fault meets the widest sets of misfortunes *)
(* that must not cause it.                                                 *)
EXTENDS MCServer

CONSTANT Choices
VARIABLE chosen

Under(D) == INSTANCE Server WITH Disturbance <- D

ChoiceInit == Init /\ chosen \in Choices

ChoiceNext ==
  /\ \E D \in Choices : chosen = D /\ Under(D)!Next
  /\ UNCHANGED chosen

(* Fairness is that of the set Disturbance.                                *)
ChoiceSpec ==
  /\ ChoiceInit /\ [][ChoiceNext]_<<vars, chosen>>
  /\ LoopFairness /\ PeerFairness

(* Whatever is chosen, the server only comes to the faults that the chosen *)
(* misfortunes are among the causes of (FaultHasCause of module Server).   *)
FaultsCaused == \A D \in Choices : chosen = D => Under(D)!FaultHasCause

(* Where fopen and fclose fail and nothing else goes wrong, every request  *)
(* is answered (RequestsAnswered of module Server).                        *)
Answered == chosen = Disturbance => RequestsAnswered

=============================================================================
