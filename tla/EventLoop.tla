------------------------------ MODULE EventLoop ------------------------------
(***************************************************************************)
(* What a single-threaded reactor promises about the connections it        *)
(* serves, with no descriptor, set, table or timer in sight: handlers run  *)
(* one at a time, those of timers too; a connection is admitted and served *)
(* only when no handler runs, is served only while it is open, and is      *)
(* never opened again once released; an interrupt turns waiting            *)
(* connections away.                                                       *)
(* Module Server implements it (Refinement there).                         *)
(***************************************************************************)
CONSTANTS Client, None

VARIABLES
  conn,     \* conn[c]: "away", "waiting", "open", "released"
  active,   \* the connection whose handler is running, or None
  status    \* "up", "down" (interrupted), "crashed"

loopVars == <<conn, active, status>>

Init ==
  /\ conn = [c \in Client |-> "away"]
  /\ active = None
  /\ status = "up"

Arrive(c) ==
  /\ status = "up"
  /\ conn[c] = "away"
  /\ conn' = [conn EXCEPT ![c] = "waiting"]
  /\ UNCHANGED <<active, status>>

Admit(c) ==
  /\ status = "up"
  /\ active = None
  /\ conn[c] = "waiting"
  /\ conn' = [conn EXCEPT ![c] = "open"]
  /\ active' = c
  /\ UNCHANGED status

Serve(c) ==
  /\ status # "crashed"
  /\ active = None
  /\ conn[c] = "open"
  /\ active' = c
  /\ UNCHANGED <<conn, status>>

(* The handler returns, its connection kept or released.  A handler whose  *)
(* connection was released under it cannot return.                         *)
Return(c) ==
  /\ status # "crashed"
  /\ active = c
  /\ conn[c] = "open"
  /\ active' = None
  /\ \E s \in {"open", "released"} : conn' = [conn EXCEPT ![c] = s]
  /\ UNCHANGED status

Interrupt ==
  /\ status # "crashed"
  /\ status' = "down"
  /\ \E S \in SUBSET {c \in Client : conn[c] = "open"} :
       conn' = [c \in Client |-> IF c \in S \/ conn[c] = "waiting"
                                 THEN "released" ELSE conn[c]]
  /\ UNCHANGED active

Crash ==
  /\ status # "crashed"
  /\ status' = "crashed"
  /\ UNCHANGED <<conn, active>>

Next ==
  \/ Interrupt
  \/ Crash
  \/ \E c \in Client :
       Arrive(c) \/ Admit(c) \/ Serve(c) \/ Return(c)

Spec == Init /\ [][Next]_loopVars

=============================================================================
