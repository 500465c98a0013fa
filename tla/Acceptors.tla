----------------------------- MODULE Acceptors -----------------------------
(***************************************************************************)
(* Acceptor<EH_APPL> of src/inc/acceptor.h: it accepts a connection,       *)
(* makes the handler, opens it and schedules its timer.  Its parts         *)
(* are steps of their own, because SIGINT can be delivered between them.   *)
(***************************************************************************)
EXTENDS Handlers

(* The handler is told its socket.                                         *)
NoFdSet(c, f) == UNCHANGED sock
SetFd(c, f) == sock' = [sock EXCEPT ![c] = f]

(* accept(2) succeeds, with any descriptor the kernel has free, and the    *)
(* handler is constructed.                                                 *)
AcceptClient(a, c, f) ==
  /\ pc = "dispatch"
  /\ IsNext(ListenFd[a])
  /\ ListenFd[a] \in readCurrent
  /\ a \in listening
  /\ c \in backlog
  /\ dial[c] = a
  /\ f \in ClientFd \ OpenFds
  /\ readCurrent' = readCurrent \ {ListenFd[a]}
  /\ backlog' = backlog \ {c}
  /\ SetFd(c, f)
  /\ obj' = [obj EXCEPT ![c] = "live"]
  /\ pc' = "open"
  /\ cur' = c
  /\ UNCHANGED <<dial, peer, phase, listening, regVars, timerVars, running,
                 writeCurrent, fault, file>>

(* accept(2) fails: no connection, no descriptor (EMFILE), or the          *)
(* listening socket was closed by SIGINT in this very round (EBADF).       *)
AcceptFails(a) ==
  /\ pc = "dispatch"
  /\ IsNext(ListenFd[a])
  /\ ListenFd[a] \in readCurrent
  /\ \/ a \notin listening
     \/ ~\E c \in backlog : dial[c] = a
     \/ ClientFd \subseteq OpenFds
  /\ readCurrent' = readCurrent \ {ListenFd[a]}
  /\ UNCHANGED <<netVars, regVars, timerVars, running, writeCurrent, pc, cur,
                 obj, fault, file>>

(* Open: RegisterIO and RegisterSignal.  The service's is done.            *)
OpenHandler(c) ==
  /\ pc = "open"
  /\ cur = c
  /\ RegisterRead(c, sock[c])
  /\ RegisterSignal(c)
  /\ pc' = IF AppOf(c) = "service" THEN "arm" ELSE "fopen"
  /\ UNCHANGED <<netVars, writeMaster, timerVars, running, readCurrent,
                 writeCurrent, cur, obj, fault, file>>

(* The logger and the repository go on to fopen their file, already known  *)
(* to SIGINT.                                                              *)
OpenFile(c) ==
  /\ pc = "fopen"
  /\ cur = c
  /\ file' = [file EXCEPT ![c] = "open"]
  /\ pc' = "arm"
  /\ UNCHANGED <<netVars, regVars, timerVars, running, readCurrent,
                 writeCurrent, cur, obj, fault>>

OpenFailsDestroys(c) ==
  /\ "openfail" \in Disturbance
  /\ pc = "fopen"
  /\ cur = c
  /\ obj' = [obj EXCEPT ![c] = "freed"]
  /\ ReturnToLoop
  /\ UNCHANGED <<netVars, regVars, timerVars, fault, file>>

(* The fopen fails: Open returns SYS_ERR, HandleInput reports it and       *)
(* leaves the handler registered, without a timer.                         *)
OpenFileFails(c) ==
  /\ "openfail" \in Disturbance
  /\ pc = "fopen"
  /\ cur = c
  /\ file' = [file EXCEPT ![c] = "failed"]
  /\ ReturnToLoop
  /\ UNCHANGED <<netVars, regVars, timerVars, obj, fault>>

(* SchedualTimer and SetTimer.                                             *)
ArmTimer(c) ==
  /\ pc = "arm"
  /\ cur = c
  /\ SchedualTimer(c)
  /\ ReturnToLoop
  /\ UNCHANGED <<netVars, regVars, due, obj, fault, file>>

-----------------------------------------------------------------------------
(* SIGINT: Selector::SignalHandler calls HandleSignal, hence HandleClose,  *)
(* of every object in the signal table, on top of whatever is running.     *)
(* A signal that finds the server in pselect makes it return EINTR; one    *)
(* that comes just before the call does not.                               *)
HandleSignal ==
  LET C == sigTable \cap Client
      A == sigTable \cap Acceptor
      F == {c \in C : FcloseMayFail(c)}
  IN /\ "sigint" \in Disturbance
     /\ pc # "returned"
     /\ \/ \E c \in C : CrashInClose(c)
        \/ \E failed \in SUBSET F :
             /\ \A c \in C \ failed : CloseFault(c) = "none"
             /\ CloseAll(C \ failed, failed, A)
             /\ timer' = Cancelled(C \ failed)
             /\ running' = FALSE
             /\ pc' \in IF pc = "select" THEN {"select", "top"} ELSE {pc}
             /\ UNCHANGED <<due, readCurrent, writeCurrent, cur, fault>>

=============================================================================
