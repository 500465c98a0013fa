------------------------------ MODULE Selector ------------------------------
(***************************************************************************)
(* The select(2) reactor of src/src/selector.cpp: its two interest sets,   *)
(* its descriptor table, its signal table, its timer queue (lib/lib.a,     *)
(* external) and the steps of HandleEvents that call no handler.  Nothing  *)
(* registers for OUT_OF_BAND, so the except sets stay empty and are left   *)
(* out.                                                                    *)
(***************************************************************************)
EXTENDS Sockets

VARIABLES
  readMaster, writeMaster,    \* m_readMasterSet, m_writeMasterSet
  readCurrent, writeCurrent,  \* m_readCurrentSet, m_writeCurrentSet
  table,                      \* m_eventHandlerTable: entries are never erased
  sigTable,                   \* m_signalTable[SIGINT]
  running,                    \* m_isRunning
  timer,                      \* the node of c's handler: "none" is TimerId -1
  due,                        \* nodes in the queue whose time has elapsed
  obj,                        \* c's handler: "none", "live", "freed" (Destroy)
  pc, cur,                    \* where the server's thread is, and in whom
  fault                       \* the first undefined or fatal step, or "none"

regVars == <<readMaster, writeMaster, table, sigTable>>
timerVars == <<timer, due>>
loopVars == <<running, readCurrent, writeCurrent, pc, cur>>

selectorVars == <<regVars, timerVars, loopVars, obj, fault>>

(* The places where a handler is on the stack, waiting in a system call or *)
(* about to make one: in Open before and after its fopen, before SetTimer, *)
(* in HandleInput and its upload, in HandleOutput, in a HandleClose that   *)
(* has done with its file, in HandleTimer and in its HandleClose.          *)
InHandler == {"open", "fopen", "arm", "input", "upload", "output", "close",
              "expire", "closeTimer"}

Control == {"top", "copy", "select", "timers", "dispatch", "returned"}
             \cup InHandler

Faults == {"none", "freed", "timer", "file", "sigpipe"}

SelectorTypeOK ==
  /\ readMaster \subseteq Fd /\ writeMaster \subseteq Fd
  /\ readCurrent \subseteq Fd /\ writeCurrent \subseteq Fd
  /\ table \in [Fd -> Client \cup Acceptor \cup {None}]
  /\ sigTable \subseteq Client \cup Acceptor
  /\ running \in BOOLEAN
  /\ timer \in [Client -> {"none", "armed", "cancelled", "freed"}]
  /\ due \subseteq Client
  /\ obj \in [Client -> {"none", "live", "freed"}]
  /\ pc \in Control
  /\ cur \in Client \cup {None}
  /\ fault \in Faults

(* Acceptor::Open registers every acceptor for SIGINT.                     *)
NoAcceptorSignals == {}
AcceptorSignals == Acceptor

(* main has opened every acceptor when it calls HandleEvents.              *)
SelectorInit ==
  /\ readMaster = Listening(Acceptor)
  /\ writeMaster = {}
  /\ readCurrent = {}
  /\ writeCurrent = {}
  /\ table = [f \in Fd |->
       IF f \in Listening(Acceptor)
       THEN CHOOSE a \in Acceptor : ListenFd[a] = f
       ELSE None]
  /\ sigTable = AcceptorSignals
  /\ running = TRUE
  /\ timer = [c \in Client |-> "none"]
  /\ due = {}
  /\ obj = [c \in Client |-> "none"]
  /\ pc = "top"
  /\ cur = None
  /\ fault = "none"

-----------------------------------------------------------------------------
(* The reactor's interface, as the effect of each call.  A definition with *)
(* a variant before it (No..., Keeps..., Clears...) is one a run is tested *)
(* against: the variant is the mistake the run must notice.                *)

RegisterRead(h, f) ==
  /\ readMaster' = readMaster \cup {f}
  /\ table' = [table EXCEPT ![f] = h]

NoWriteInterest(h, f) == UNCHANGED <<writeMaster, table>>

RegisterWrite(h, f) ==
  /\ writeMaster' = writeMaster \cup {f}
  /\ table' = [table EXCEPT ![f] = h]

KeepsInterest(readFds, writeFds) == UNCHANGED <<readMaster, writeMaster, table>>

ClearsReadOnly(readFds, writeFds) ==
  /\ readMaster' = readMaster \ readFds
  /\ UNCHANGED <<writeMaster, table>>

(* The table keeps its entry: the FIXME in UnRegisterIO.                   *)
UnRegisterIO(readFds, writeFds) ==
  /\ readMaster' = readMaster \ readFds
  /\ writeMaster' = writeMaster \ writeFds
  /\ UNCHANGED table

NoSignalRegistered(h) == UNCHANGED sigTable

RegisterSignal(h) == sigTable' = sigTable \cup {h}

UnRegisterSignal(H) == sigTable' = sigTable \ H

NoTimerScheduled(c) == UNCHANGED timer

SchedualTimer(c) == timer' = [timer EXCEPT ![c] = "armed"]

(* Cancelling through TimerId -1, or through a node the queue has already  *)
(* freed, is a fault; otherwise the node is marked and stays in the queue. *)
CancelFault(c) == IF timer[c] \in {"none", "freed"} THEN "timer" ELSE "none"

NotCancelled(S) == timer

Cancelled(S) == [c \in Client |-> IF c \in S THEN "cancelled" ELSE timer[c]]

(* The queue frees a node once it has been popped and served.              *)
NodesFreed(S) == [c \in Client |-> IF c \in S THEN "freed" ELSE timer[c]]

(* Undefined behaviour or a fatal signal: what follows is not modelled.    *)
Crash(f) ==
  /\ fault' = f
  /\ UNCHANGED <<netVars, regVars, timerVars, loopVars, obj>>

-----------------------------------------------------------------------------
(* HandleEvents.                                                           *)

(* while(m_isRunning)                                                      *)
TestRunning ==
  /\ pc = "top"
  /\ pc' = IF running THEN "copy" ELSE "returned"
  /\ UNCHANGED <<netVars, regVars, timerVars, running, readCurrent,
                 writeCurrent, cur, obj, fault>>

CopySets ==
  /\ pc = "copy"
  /\ readCurrent' = readMaster
  /\ writeCurrent' = writeMaster
  /\ pc' = "select"
  /\ UNCHANGED <<netVars, regVars, timerVars, running, cur, obj, fault>>

(* pselect fails with EBADF when it is asked about a closed descriptor.    *)
PselectFails ==
  /\ pc = "select"
  /\ ~(readCurrent \cup writeCurrent \subseteq OpenFds)
  /\ pc' = "top"
  /\ UNCHANGED <<netVars, regVars, timerVars, running, readCurrent,
                 writeCurrent, cur, obj, fault>>

(* pselect returns when a descriptor is ready or the nearest node of the   *)
(* timer queue elapses.  Whether a socket has room for a write is up to    *)
(* the peer's window: any part of writeCurrent may be reported.  NO_TIMERS *)
(* (thirty days) counts as forever.                                        *)
PselectReturns ==
  /\ pc = "select"
  /\ readCurrent \cup writeCurrent \subseteq OpenFds
  /\ \E W \in SUBSET writeCurrent :
       /\ Readable(readCurrent) # {} \/ W # {} \/ due # {}
       /\ readCurrent' = Readable(readCurrent)
       /\ writeCurrent' = W
  /\ pc' = "timers"
  /\ UNCHANGED <<netVars, regVars, timerVars, running, cur, obj, fault>>

(* TQDispatchExpiredTimers frees an elapsed node that was cancelled.       *)
DropCancelledTimer(c) ==
  /\ pc = "timers"
  /\ c \in due
  /\ timer[c] = "cancelled"
  /\ timer' = NodesFreed({c})
  /\ due' = due \ {c}
  /\ UNCHANGED <<netVars, regVars, loopVars, obj, fault>>

(* ... and returns when no node in the queue has elapsed.                  *)
TimersDispatched ==
  /\ pc = "timers"
  /\ due = {}
  /\ pc' = "dispatch"
  /\ UNCHANGED <<netVars, regVars, timerVars, running, readCurrent,
                 writeCurrent, cur, obj, fault>>

(* ForEachSafe walks the table in ascending order of the descriptors; the  *)
(* bits already tested have been taken out of the current sets.            *)
IsNext(f) ==
  /\ f \in readCurrent \cup writeCurrent
  /\ \A g \in readCurrent \cup writeCurrent : f <= g

(* SelectFunc finds f's bit set and calls the entry's HandleInput ...      *)
CallHandleInput(c, f) ==
  /\ pc = "dispatch"
  /\ IsNext(f)
  /\ f \in readCurrent
  /\ table[f] = c
  /\ \/ /\ obj[c] = "freed"
        /\ Crash("freed")
     \/ /\ obj[c] # "freed"
        /\ readCurrent' = readCurrent \ {f}
        /\ pc' = "input"
        /\ cur' = c
        /\ UNCHANGED <<netVars, regVars, timerVars, running, writeCurrent,
                       obj, fault>>

(* ... or, its read bit served or clear, HandleOutput.                     *)
CallHandleOutput(c, f) ==
  /\ pc = "dispatch"
  /\ IsNext(f)
  /\ f \notin readCurrent
  /\ table[f] = c
  /\ \/ /\ obj[c] = "freed"
        /\ Crash("freed")
     \/ /\ obj[c] # "freed"
        /\ writeCurrent' = writeCurrent \ {f}
        /\ pc' = "output"
        /\ cur' = c
        /\ UNCHANGED <<netVars, regVars, timerVars, running, readCurrent,
                       obj, fault>>

EndOfRound ==
  /\ pc = "dispatch"
  /\ readCurrent \cup writeCurrent = {}
  /\ pc' = "top"
  /\ UNCHANGED <<netVars, regVars, timerVars, running, readCurrent,
                 writeCurrent, cur, obj, fault>>

(* 240 seconds after SchedualTimer the node has elapsed, whether or not    *)
(* it has been cancelled.                                                  *)
Elapse(c) ==
  /\ "timeout" \in Disturbance
  /\ timer[c] \in {"armed", "cancelled"}
  /\ c \notin due
  /\ due' = due \cup {c}
  /\ UNCHANGED <<netVars, regVars, timer, loopVars, obj, fault>>

=============================================================================
