---------------------------- MODULE ServerProofs ----------------------------
(***************************************************************************)
(* Safety of the server for any number of connections, acceptors and       *)
(* descriptors, whatever goes wrong around it.                             *)
(***************************************************************************)
EXTENDS Server, TLAPS

USE ConstantsAssumption DEF Phases

-----------------------------------------------------------------------------
(* The inductive invariant.  That interest is owned is not inductive on    *)
(* its own: it needs to know who has a socket, what is still fresh, how    *)
(* far a handler under construction is, and who never asks to write.       *)

SocketIsLive ==
  /\ \A c \in Client : sock[c] # NoFd <=> obj[c] = "live"
  /\ \A c, d \in Client : sock[c] # NoFd /\ sock[c] = sock[d] => c = d

FreshHasNothing ==
  /\ \A c \in backlog : obj[c] = "none" /\ peer[c] # "away"
  /\ \A c \in Client : peer[c] = "away" => obj[c] = "none"
  /\ \A c \in Client : obj[c] = "none" => timer[c] = "none"

UnderConstruction ==
  /\ pc \in InHandler => cur \in Client
  /\ pc \in {"open", "fopen", "arm"} => obj[cur] = "live" /\ timer[cur] = "none"
  /\ pc = "open" => cur \notin sigTable

OnlyFileHandlersWrite ==
  /\ writeMaster \subseteq ClientFd
  /\ \A c \in Client : AppOf(c) = "log" => sock[c] \notin writeMaster

Ownership ==
  /\ SocketIsLive
  /\ FreshHasNothing
  /\ UnderConstruction
  /\ OnlyFileHandlersWrite
  /\ InterestIsOwned
  /\ CallbacksReachLive
  /\ LiveIsRegistered

IInv == TypeOK /\ Ownership

-----------------------------------------------------------------------------
(* Types.                                                                  *)

(* HandleClose ends in no fault, or in that of a FILE* or of a TimerId.    *)
LEMMA CloseFaultType ==
  ASSUME TypeOK, NEW c \in Client
  PROVE  CloseFault(c) \in Faults
  BY DEF CloseFault, CancelFault, Faults

(* Descriptors of connections are descriptors.                             *)
LEMMA SocketsType ==
  ASSUME TypeOK, NEW S \in SUBSET Client
  PROVE  /\ Sockets(S) \subseteq ClientFd
         /\ \A c \in S : sock[c] # NoFd => sock[c] \in Sockets(S)
  BY DEF TypeOK, NetTypeOK, Sockets, NoFd

(* Closing any number of handlers and acceptors keeps the types.           *)
LEMMA CloseAllType ==
  ASSUME TypeOK,
         NEW S \in SUBSET Client, NEW F \in SUBSET Client,
         NEW A \in SUBSET Acceptor,
         CloseAll(S, F, A)
  PROVE  /\ NetTypeOK' /\ FileTypeOK'
         /\ readMaster' \subseteq Fd /\ writeMaster' \subseteq Fd
         /\ table' \in [Fd -> Client \cup Acceptor \cup {None}]
         /\ sigTable' \subseteq Client \cup Acceptor
         /\ obj' \in [Client -> {"none", "live", "freed"}]
  BY DEF TypeOK, NetTypeOK, SelectorTypeOK, FileTypeOK, CloseAll,
         UnRegisterIO, UnRegisterSignal

(* A crash changes nothing but fault.                                      *)
LEMMA CrashType ==
  ASSUME TypeOK, NEW f \in Faults, Crash(f), UNCHANGED file
  PROVE  TypeOK'
  BY DEF TypeOK, NetTypeOK, SelectorTypeOK, FileTypeOK, Crash,
         netVars, regVars, timerVars, loopVars

(* The two ways fclose returns, or does not.                               *)
LEMMA FcloseType ==
  ASSUME TypeOK, NEW c \in Client
  PROVE  /\ CrashInFclose(c) => TypeOK'
         /\ \A p \in Control : CloseFile(c, p) => TypeOK'
         /\ FcloseFails(c) => file' \in [Client -> {"none", "open", "failed", "closed"}]
<1>1. CrashInFclose(c) => TypeOK'
  BY CrashType DEF CrashInFclose, Faults
<1>2. ASSUME NEW p \in Control, CloseFile(c, p) PROVE TypeOK'
  BY <1>2 DEF CloseFile, TypeOK, NetTypeOK, SelectorTypeOK, FileTypeOK,
              netVars, regVars, timerVars
<1>3. FcloseFails(c) => file' \in [Client -> {"none", "open", "failed", "closed"}]
  BY DEF FcloseFails, TypeOK, FileTypeOK
<1> QED BY <1>1, <1>2, <1>3

LEMMA HandleCloseType ==
  ASSUME TypeOK, NEW c \in Client, HandleClose(c)
  PROVE  TypeOK'
<1>1. CASE CrashInFclose(c)
  BY <1>1, FcloseType
<1>2. CASE CloseFile(c, "close")
  BY <1>2, FcloseType DEF Control, InHandler
<1>3. CASE FcloseFails(c) /\ ReturnToLoop /\ UNCHANGED timerVars
  <2>1. FileTypeOK'
    BY <1>3, FcloseType DEF FileTypeOK
  <2> QED
    BY <1>3, <2>1 DEF FcloseFails, TypeOK, NetTypeOK, SelectorTypeOK,
                      ReturnToLoop, timerVars, netVars, regVars, Control
<1> QED BY <1>1, <1>2, <1>3 DEF HandleClose

(* The rest of HandleClose.                                                *)
LEMMA FinishCloseType ==
  ASSUME TypeOK, NEW c \in Client, FinishClose(c)
  PROVE  TypeOK'
<1>1. CASE Crash("timer") /\ UNCHANGED file
  BY <1>1, CrashType DEF Faults
<1>2. CASE /\ CloseAll({c}, {}, {})
           /\ timer' = Cancelled({c})
           /\ ReturnToLoop
           /\ UNCHANGED <<due, fault>>
  <2>1. timer' \in [Client -> {"none", "armed", "cancelled", "freed"}]
    BY <1>2 DEF Cancelled, TypeOK, SelectorTypeOK
  <2>2. /\ NetTypeOK' /\ FileTypeOK'
        /\ readMaster' \subseteq Fd /\ writeMaster' \subseteq Fd
        /\ table' \in [Fd -> Client \cup Acceptor \cup {None}]
        /\ sigTable' \subseteq Client \cup Acceptor
        /\ obj' \in [Client -> {"none", "live", "freed"}]
    BY <1>2, CloseAllType
  <2>3. SelectorTypeOK'
    BY <1>2, <2>1, <2>2 DEF TypeOK, SelectorTypeOK, ReturnToLoop, Control
  <2> QED BY <2>2, <2>3 DEF TypeOK
<1> QED BY <1>1, <1>2 DEF FinishClose

(* A timer's handler: called, closing its file, and closing the rest.      *)
LEMMA TimerType ==
  ASSUME TypeOK, NEW c \in Client,
         HandleTimer(c) \/ TimerCloses(c) \/ FinishTimer(c)
  PROVE  TypeOK'
<1>1. CASE HandleTimer(c)
  <2>1. CASE Crash("freed") /\ UNCHANGED file
    BY <2>1, CrashType DEF Faults
  <2>2. CASE /\ pc' = "expire"
             /\ cur' = c
             /\ UNCHANGED <<netVars, regVars, timerVars, running, readCurrent,
                            writeCurrent, obj, fault, file>>
    BY <2>2 DEF TypeOK, NetTypeOK, SelectorTypeOK, FileTypeOK, netVars,
                regVars, timerVars, Control, InHandler
  <2> QED BY <1>1, <2>1, <2>2 DEF HandleTimer
<1>2. ASSUME TimerServed(c)
      PROVE  /\ timer' \in [Client -> {"none", "armed", "cancelled", "freed"}]
             /\ due' \subseteq Client /\ pc' \in Control
             /\ cur' \in Client \cup {None}
             /\ UNCHANGED <<running, readCurrent, writeCurrent>>
  BY <1>2 DEF TimerServed, NodesFreed, TypeOK, SelectorTypeOK, Control
<1>3. CASE TimerCloses(c)
  <2>1. CASE CrashInFclose(c)
    BY <2>1, FcloseType
  <2>2. CASE CloseFile(c, "closeTimer")
    BY <2>2, FcloseType DEF Control, InHandler
  <2>3. CASE FcloseFails(c) /\ TimerServed(c)
    <3>1. FileTypeOK'
      BY <2>3, FcloseType DEF FileTypeOK
    <3> QED
      BY <1>2, <2>3, <3>1 DEF FcloseFails, TypeOK, NetTypeOK, SelectorTypeOK,
                              netVars, regVars
  <2> QED BY <1>3, <2>1, <2>2, <2>3 DEF TimerCloses
<1>4. CASE FinishTimer(c)
  <2>1. CloseAll({c}, {}, {}) /\ TimerServed(c) /\ UNCHANGED fault
    BY <1>4 DEF FinishTimer
  <2>2. /\ NetTypeOK' /\ FileTypeOK'
        /\ readMaster' \subseteq Fd /\ writeMaster' \subseteq Fd
        /\ table' \in [Fd -> Client \cup Acceptor \cup {None}]
        /\ sigTable' \subseteq Client \cup Acceptor
        /\ obj' \in [Client -> {"none", "live", "freed"}]
    BY <2>1, CloseAllType
  <2>3. SelectorTypeOK'
    BY <1>2, <2>1, <2>2 DEF TypeOK, SelectorTypeOK
  <2> QED BY <2>2, <2>3 DEF TypeOK
<1> QED BY <1>1, <1>3, <1>4

LEMMA InitType == Init => TypeOK
<1> SUFFICES ASSUME Init PROVE TypeOK OBVIOUS
<1>1. table \in [Fd -> Client \cup Acceptor \cup {None}]
  <2>1. \A f \in Listening(Acceptor) :
          (CHOOSE a \in Acceptor : ListenFd[a] = f) \in Acceptor
    BY DEF Listening
  <2> QED BY <2>1 DEF Init, SelectorInit
<1> QED
  BY <1>1 DEF Init, NetInit, SelectorInit, TypeOK, NetTypeOK, SelectorTypeOK,
              FileTypeOK, Fd, Listening, AcceptorSignals, Control, Faults, NoFd

(* The steps of HandleEvents.                                              *)
LEMMA LoopType ==
  ASSUME TypeOK, Loop, UNCHANGED file
  PROVE  TypeOK'
<1> USE DEF TypeOK, NetTypeOK, SelectorTypeOK, FileTypeOK, netVars, regVars,
            timerVars, Control, InHandler
<1>1. CASE TestRunning BY <1>1 DEF TestRunning
<1>2. CASE CopySets BY <1>2 DEF CopySets
<1>3. CASE PselectFails BY <1>3 DEF PselectFails
<1>4. CASE PselectReturns
  <2>1. Readable(readCurrent) \subseteq readCurrent
    BY DEF Readable
  <2> QED BY <1>4, <2>1 DEF PselectReturns
<1>5. CASE TimersDispatched BY <1>5 DEF TimersDispatched
<1>6. CASE EndOfRound BY <1>6 DEF EndOfRound
<1>7. ASSUME NEW c \in Client, DropCancelledTimer(c) PROVE TypeOK'
  BY <1>7 DEF DropCancelledTimer, NodesFreed, loopVars
<1>8. ASSUME NEW c \in Client, NEW f \in ClientFd, CallHandleInput(c, f)
      PROVE TypeOK'
  <2>1. CASE Crash("freed") BY <2>1, <1>8, CrashType DEF Faults
  <2> QED BY <1>8, <2>1 DEF CallHandleInput
<1>9. ASSUME NEW c \in Client, NEW f \in ClientFd, CallHandleOutput(c, f)
      PROVE TypeOK'
  <2>1. CASE Crash("freed") BY <2>1, <1>9, CrashType DEF Faults
  <2> QED BY <1>9, <2>1 DEF CallHandleOutput
<1> QED BY <1>1, <1>2, <1>3, <1>4, <1>5, <1>6, <1>7, <1>8, <1>9 DEF Loop

(* What the handlers' actions are made of.                                 *)
LEMMA AnswerType ==
  ASSUME TypeOK, NEW c \in Client,
         NEW n \in {"none", "open", "failed", "closed"}, Answer(c, n)
  PROVE  TypeOK'
  BY DEF Answer, ReturnToLoop, TypeOK, NetTypeOK, SelectorTypeOK, FileTypeOK,
         regVars, timerVars, Control

LEMMA SigpipeType ==
  ASSUME TypeOK, NEW c \in Client, Sigpipe(c)
  PROVE  TypeOK'
  BY CrashType DEF Sigpipe, Faults

LEMMA KeepSendingType ==
  ASSUME TypeOK, NEW c \in Client, NEW n \in {"none", "open", "failed", "closed"},
         KeepSending(c, n), sock[c] # NoFd
  PROVE  TypeOK'
<1>1. sock[c] \in Fd
  BY DEF TypeOK, NetTypeOK, Fd
<1>2. /\ writeMaster' \subseteq Fd
      /\ table' \in [Fd -> Client \cup Acceptor \cup {None}]
  BY <1>1 DEF KeepSending, RegisterWrite, TypeOK, SelectorTypeOK
<1>3. phase' \in [Client -> Phases]
  BY DEF KeepSending, WholeBuffer, TypeOK, NetTypeOK
<1> QED
  BY <1>2, <1>3 DEF KeepSending, ReturnToLoop, TypeOK, NetTypeOK, SelectorTypeOK,
              FileTypeOK, timerVars, Control

LEMMA EndSendingType ==
  ASSUME TypeOK, NEW c \in Client, NEW p \in {"idle", "request"},
         EndSending(c, p)
  PROVE  TypeOK'
  BY DEF EndSending, UnRegisterIO, ReturnToLoop, TypeOK, NetTypeOK,
         SelectorTypeOK, FileTypeOK, timerVars, Control

LEMMA StartSendingType ==
  ASSUME TypeOK, NEW c \in Client, NEW b \in BOOLEAN, StartSending(c, b),
         sock[c] # NoFd
  PROVE  TypeOK'
<1>1. CASE EndSending(c, "idle") BY <1>1, EndSendingType
<1>2. CASE KeepSending(c, "open") BY <1>2, KeepSendingType
<1>3. CASE Sigpipe(c) BY <1>3, SigpipeType
<1>4. CASE SendAfterClose(c)
  <2>1. CASE (Crash("timer") \/ Crash("freed") \/ Crash("file")) /\ UNCHANGED file
    BY <2>1, CrashType DEF Faults
  <2>2. CASE KeepSending(c, "closed") BY <2>2, KeepSendingType
  <2> QED BY <1>4, <2>1, <2>2 DEF SendAfterClose
<1> QED BY <1>1, <1>2, <1>3, <1>4 DEF StartSending

(* The steps that run a handler, or make one.                              *)
LEMMA DispatchedType ==
  ASSUME IInv, Dispatched
  PROVE  TypeOK'
<1> USE DEF IInv
<1> DEFINE Files == {"none", "open", "failed", "closed"}
<1>0. \A c \in Client : obj[c] = "live" => sock[c] # NoFd
  BY DEF Ownership, SocketIsLive
<1>1. ASSUME NEW a \in Acceptor, AcceptFails(a) PROVE TypeOK'
  BY <1>1 DEF AcceptFails, TypeOK, NetTypeOK, SelectorTypeOK, FileTypeOK,
              netVars, regVars, timerVars
<1>2. ASSUME NEW a \in Acceptor, NEW c \in Client, NEW f \in ClientFd,
             AcceptClient(a, c, f)
      PROVE  TypeOK'
  BY <1>2 DEF AcceptClient, SetFd, TypeOK, NetTypeOK, SelectorTypeOK,
              FileTypeOK, regVars, timerVars, Control, InHandler
<1>3. CASE ResumeFreed
  BY <1>3, CrashType DEF ResumeFreed, Faults
<1>4. ASSUME NEW c \in Client, OpenHandler(c) PROVE TypeOK'
  <2>1. sock[c] \in Fd
    BY <1>0, <1>4 DEF OpenHandler, Ownership, UnderConstruction, TypeOK,
                      NetTypeOK, Fd
  <2>2. /\ readMaster' \subseteq Fd
        /\ table' \in [Fd -> Client \cup Acceptor \cup {None}]
    BY <1>4, <2>1 DEF OpenHandler, RegisterRead, TypeOK, SelectorTypeOK
  <2> QED
    BY <1>4, <2>2 DEF OpenHandler, RegisterSignal, TypeOK, NetTypeOK,
                      SelectorTypeOK, FileTypeOK, netVars, timerVars, Control,
                      InHandler
<1>5. ASSUME NEW c \in Client, OpenFile(c) \/ OpenFileFails(c) PROVE TypeOK'
  BY <1>5 DEF OpenFile, OpenFileFails, ReturnToLoop, TypeOK, NetTypeOK,
              SelectorTypeOK, FileTypeOK, netVars, regVars, timerVars,
              Control, InHandler
<1>6. ASSUME NEW c \in Client, ArmTimer(c) PROVE TypeOK'
  BY <1>6 DEF ArmTimer, SchedualTimer, ReturnToLoop, TypeOK, NetTypeOK,
              SelectorTypeOK, FileTypeOK, netVars, regVars, Control
<1>7. ASSUME NEW c \in Client, FinishClose(c) \/ HandleTimer(c)
                               \/ TimerCloses(c) \/ FinishTimer(c)
      PROVE  TypeOK'
  BY <1>7, FinishCloseType, TimerType
<1>8. ASSUME NEW c \in Client, LogHandleInput(c) PROVE TypeOK'
  BY <1>8, HandleCloseType, CrashType, AnswerType, SigpipeType
     DEF LogHandleInput, Faults
<1>9. ASSUME NEW c \in Client, RepoHandleInput(c) PROVE TypeOK'
  <2>1. sock[c] # NoFd
    BY <1>0, <1>9 DEF RepoHandleInput, InHandleInput
  <2>2. file[c] \in Files
    BY DEF TypeOK, FileTypeOK
  <2> QED
    BY <1>9, <2>1, <2>2, HandleCloseType, CrashType, AnswerType, SigpipeType,
       StartSendingType
       DEF RepoHandleInput, Faults
<1>10. ASSUME NEW c \in Client, ServiceHandleInput(c) PROVE TypeOK'
  <2>1. sock[c] # NoFd
    BY <1>0, <1>10 DEF ServiceHandleInput, InHandleInput
  <2>2. CASE /\ phase' = [phase EXCEPT ![c] = "response"]
             /\ pc' = "upload"
             /\ UNCHANGED <<dial, peer, backlog, sock, listening, regVars,
                            timerVars, running, readCurrent, writeCurrent,
                            cur, obj, fault, file>>
    BY <2>2 DEF TypeOK, NetTypeOK, SelectorTypeOK, FileTypeOK, regVars,
                timerVars, Control, InHandler
  <2>3. ("wholeBuffers" \in Disturbance) \in BOOLEAN
    OBVIOUS
  <2> QED
    BY <1>10, <2>1, <2>2, <2>3, HandleCloseType, AnswerType, SigpipeType,
       StartSendingType
       DEF ServiceHandleInput
<1>11. ASSUME NEW c \in Client, SendChunk(c) PROVE TypeOK'
  <2>1. phase' \in [Client -> Phases]
    BY <1>11 DEF SendChunk, WholeBuffer, TypeOK, NetTypeOK
  <2> QED
    BY <1>11, <2>1 DEF SendChunk, ReturnToLoop, TypeOK, NetTypeOK,
                       SelectorTypeOK, FileTypeOK, regVars, timerVars, Control
<1>12. ASSUME NEW c \in Client, SendLastChunk(c) PROVE TypeOK'
  BY <1>12, EndSendingType DEF SendLastChunk
<1>13. ASSUME NEW c \in Client, SendFails(c) PROVE TypeOK'
  BY <1>13, HandleCloseType DEF SendFails
<1>14. ASSUME NEW c \in Client, SendBroken(c) PROVE TypeOK'
  BY <1>14, CrashType, SigpipeType DEF SendBroken, Faults
<1>15. ASSUME NEW c \in Client, IgnoreOutput(c) PROVE TypeOK'
  BY <1>15 DEF IgnoreOutput, ReturnToLoop, TypeOK, NetTypeOK, SelectorTypeOK,
               FileTypeOK, netVars, regVars, timerVars, Control
<1> QED
  BY <1>1, <1>2, <1>3, <1>4, <1>5, <1>6, <1>7, <1>8, <1>9, <1>10, <1>11,
     <1>12, <1>13, <1>14, <1>15
     DEF Dispatched

(* SIGINT, the peers, time, and the body of an upload.                     *)
LEMMA OutsideType ==
  ASSUME IInv,
         Interrupt \/ \E c \in Client : Upload(c) \/ Timeout(c) \/ Peer(c)
  PROVE  TypeOK'
<1> USE DEF IInv
<1>1. CASE Interrupt
  <2> DEFINE C == sigTable \cap Client
             A == sigTable \cap Acceptor
  <2>1. ASSUME NEW c \in C, CrashInClose(c) PROVE TypeOK'
    BY <2>1, CloseFaultType, CrashType DEF CrashInClose
  <2>2. ASSUME NEW failed \in SUBSET {c \in C : FcloseMayFail(c)},
               CloseAll(C \ failed, failed, A),
               timer' = Cancelled(C \ failed),
               running' = FALSE,
               pc' \in IF pc = "select" THEN {"select", "top"} ELSE {pc},
               UNCHANGED <<due, readCurrent, writeCurrent, cur, fault>>
        PROVE  TypeOK'
    <3>1. timer' \in [Client -> {"none", "armed", "cancelled", "freed"}]
      BY <2>2 DEF Cancelled, TypeOK, SelectorTypeOK
    <3>2. C \ failed \in SUBSET Client /\ failed \in SUBSET Client
          /\ A \in SUBSET Acceptor
      OBVIOUS
    <3>3. /\ NetTypeOK' /\ FileTypeOK'
          /\ readMaster' \subseteq Fd /\ writeMaster' \subseteq Fd
          /\ table' \in [Fd -> Client \cup Acceptor \cup {None}]
          /\ sigTable' \subseteq Client \cup Acceptor
          /\ obj' \in [Client -> {"none", "live", "freed"}]
      BY <2>2, <3>2, CloseAllType
    <3>4. pc' \in Control
      BY <2>2 DEF TypeOK, SelectorTypeOK, Control
    <3> QED BY <2>2, <3>1, <3>3, <3>4 DEF TypeOK, SelectorTypeOK
  <2> QED BY <1>1, <2>1, <2>2 DEF Interrupt, HandleSignal
<1>2. ASSUME NEW c \in Client, Upload(c) PROVE TypeOK'
  <2>1. file[c] \in {"none", "open", "failed", "closed"}
    BY DEF TypeOK, FileTypeOK
  <2> QED BY <1>2, <2>1, AnswerType, SigpipeType DEF Upload, HandleUpload
<1>3. ASSUME NEW c \in Client, Timeout(c) PROVE TypeOK'
  BY <1>3 DEF Timeout, Elapse, TypeOK, NetTypeOK, SelectorTypeOK, FileTypeOK,
              netVars, regVars, loopVars
<1>4. ASSUME NEW c \in Client, Peer(c) PROVE TypeOK'
  BY <1>4 DEF Peer, Connect, Send, Hangup, TypeOK, NetTypeOK, SelectorTypeOK,
              FileTypeOK, selectorVars, regVars, timerVars, loopVars
<1> QED BY <1>1, <1>2, <1>3, <1>4

LEMMA NextType ==
  ASSUME IInv, [Next]_vars
  PROVE  TypeOK'
<1>1. CASE ServerStep
  BY <1>1, LoopType, DispatchedType DEF ServerStep, IInv
<1>2. CASE UNCHANGED vars
  BY <1>2 DEF IInv, TypeOK, NetTypeOK, SelectorTypeOK, FileTypeOK, vars,
              handlerVars, selectorVars, netVars, regVars, timerVars, loopVars
<1> QED BY <1>1, <1>2, OutsideType DEF Next

-----------------------------------------------------------------------------
(* Ownership.                                                              *)

LEMMA InitOwnership == Init => Ownership
<1> SUFFICES ASSUME Init PROVE Ownership OBVIOUS
<1> USE DEF Init, NetInit, SelectorInit
<1>1. SocketIsLive /\ FreshHasNothing
  BY DEF SocketIsLive, FreshHasNothing
<1>2. UnderConstruction /\ OnlyFileHandlersWrite
  BY DEF UnderConstruction, OnlyFileHandlersWrite, InHandler
<1>3. InterestIsOwned
  <2>1. ASSUME NEW a \in Acceptor
        PROVE  /\ ListenFd[a] \in Fd
               /\ table[ListenFd[a]] = a
    <3>1. ListenFd[a] \in Listening(Acceptor) BY DEF Listening
    <3>2. (CHOOSE b \in Acceptor : ListenFd[b] = ListenFd[a]) = a OBVIOUS
    <3> QED BY <3>1, <3>2 DEF Fd
  <2>2. AcceptorSignals = Acceptor /\ readMaster \cup writeMaster = Listening(Acceptor)
    BY DEF AcceptorSignals
  <2>3. \A f \in Listening(Acceptor) : \E a \in Acceptor : f = ListenFd[a]
    BY DEF Listening
  <2>4. listening = Acceptor
    OBVIOUS
  <2> HIDE DEF Init, NetInit, SelectorInit
  <2> QED BY <2>1, <2>2, <2>3, <2>4 DEF InterestIsOwned
<1>4. CallbacksReachLive /\ LiveIsRegistered
  BY DEF CallbacksReachLive, LiveIsRegistered, Live, AcceptorSignals
<1> QED BY <1>1, <1>2, <1>3, <1>4 DEF Ownership

(* A step that touches neither handlers nor registrations, and leaves no   *)
(* handler half made, keeps them.                                          *)
LEMMA QuietStep ==
  ASSUME IInv,
         UNCHANGED <<dial, backlog, sock, listening, regVars, obj, timer>>,
         \A c \in Client : peer'[c] = "away" => peer[c] = "away",
         \/ pc' = pc /\ cur' = cur
         \/ pc = "fopen" /\ pc' = "arm" /\ cur' = cur
         \/ /\ pc # "open"
            /\ pc' \notin {"open", "fopen", "arm"}
            /\ pc' \in InHandler => cur' \in Client
  PROVE  Ownership'
<1> USE DEF IInv, Ownership, regVars
<1>1. SocketIsLive' /\ FreshHasNothing'
  BY DEF SocketIsLive, FreshHasNothing, TypeOK, NetTypeOK
<1>2. UnderConstruction' /\ OnlyFileHandlersWrite'
  BY DEF UnderConstruction, OnlyFileHandlersWrite, InHandler, AppOf
<1>3. InterestIsOwned' /\ CallbacksReachLive' /\ LiveIsRegistered'
  BY DEF InterestIsOwned, CallbacksReachLive, LiveIsRegistered, Live
<1> QED BY <1>1, <1>2, <1>3

LEMMA CrashOwnership ==
  ASSUME IInv, NEW f, Crash(f)
  PROVE  Ownership'
  BY QuietStep DEF Crash, netVars, regVars, timerVars, loopVars

(* Closing handlers that are live, and acceptors.                          *)
LEMMA CloseAllOwnership ==
  ASSUME IInv,
         NEW S \in SUBSET Live, NEW F \in SUBSET Client,
         NEW A \in SUBSET Acceptor,
         CloseAll(S, F, A),
         \A c \in S : timer'[c] # "armed",
         \A c \in Client \ S :
           \/ timer'[c] = timer[c]
           \/ timer'[c] = "freed" /\ obj[c] = "live",
         \/ /\ pc' = pc /\ cur' = cur
            /\ pc \in {"open", "fopen", "arm"} => cur \notin S /\ timer'[cur] = timer[cur]
         \/ /\ pc # "open"
            /\ pc' \notin {"open", "fopen", "arm"}
            /\ pc' \in InHandler => cur' \in Client
  PROVE  Ownership'
<1> USE DEF IInv, CloseAll
<1>0. /\ S \subseteq Client
      /\ Live' = Live \ S
      /\ \A c \in Client : obj'[c] = IF c \in S THEN "freed" ELSE obj[c]
      /\ \A c \in Client : sock'[c] = IF c \in S THEN NoFd ELSE sock[c]
      /\ \A c \in S : sock[c] \in Sockets(S)
      /\ Sockets(S) \subseteq ClientFd
      /\ Sockets(S) = {sock[c] : c \in S}
  BY DEF Live, Sockets, TypeOK, NetTypeOK, SelectorTypeOK, Ownership, SocketIsLive
<1>1. SocketIsLive'
  BY <1>0 DEF Ownership, SocketIsLive
<1>2. FreshHasNothing'
  BY <1>0 DEF Ownership, FreshHasNothing, Live, TypeOK, NetTypeOK
<1>3. UnderConstruction'
  BY <1>0 DEF Ownership, UnderConstruction, UnRegisterSignal, InHandler
<1>4. OnlyFileHandlersWrite'
  <2>1. NoFd \notin ClientFd
    BY DEF NoFd
  <2>2. writeMaster' \subseteq writeMaster
    BY DEF UnRegisterIO
  <2> QED BY <1>0, <2>1, <2>2 DEF Ownership, OnlyFileHandlersWrite, AppOf
<1>5. InterestIsOwned'
  <2> SUFFICES ASSUME NEW f \in readMaster' \cup writeMaster'
               PROVE  \/ \E a \in listening' : f = ListenFd[a] /\ table'[f] = a
                      \/ \E c \in Live' : f = sock'[c] /\ table'[f] = c
    BY DEF InterestIsOwned
  <2>1. table' = table /\ f \in readMaster \cup writeMaster
    BY DEF UnRegisterIO
  <2>2. ASSUME NEW a \in listening, f = ListenFd[a], table[f] = a
        PROVE  a \in listening'
    <3>1. a \in Acceptor
      BY DEF TypeOK, NetTypeOK
    <3>2. f \notin ClientFd
      BY <2>2, <3>1
    <3>3. f \in readMaster'
      BY <3>2 DEF Ownership, OnlyFileHandlersWrite, UnRegisterIO
    <3>4. f \notin Listening(A)
      BY <3>3 DEF UnRegisterIO
    <3> QED BY <2>2, <3>4 DEF Listening
  <2>3. ASSUME NEW c \in Live, f = sock[c], table[f] = c
        PROVE  c \notin S
    <3> SUFFICES ASSUME c \in S PROVE FALSE OBVIOUS
    <3>1. f \in Sockets(S)
      BY <1>0, <2>3
    <3>2. f \in writeMaster /\ f \notin WriteInterest(S)
      BY <3>1 DEF UnRegisterIO
    <3>3. AppOf(c) # "log"
      BY <2>3, <3>2 DEF Ownership, OnlyFileHandlersWrite, Live
    <3>4. sock[c] # NoFd
      BY DEF Ownership, SocketIsLive, Live
    <3> QED BY <2>3, <3>2, <3>3, <3>4 DEF WriteInterest, Sockets
  <2>4. \/ \E a \in listening : f = ListenFd[a] /\ table[f] = a
        \/ \E c \in Live : f = sock[c] /\ table[f] = c
    BY <2>1 DEF Ownership, InterestIsOwned
  <2>5. CASE \E c \in Live : f = sock[c] /\ table[f] = c
    <3>1. PICK c \in Live : f = sock[c] /\ table[f] = c
      BY <2>5
    <3>2. c \notin S /\ c \in Client
      BY <2>3, <3>1 DEF Live
    <3>3. c \in Live' /\ f = sock'[c] /\ table'[f] = c
      BY <1>0, <2>1, <3>1, <3>2
    <3> QED BY <3>3
  <2> QED BY <2>1, <2>2, <2>4, <2>5
<1>6. CallbacksReachLive'
  BY <1>0 DEF Ownership, CallbacksReachLive, UnRegisterSignal, Live
<1>7. LiveIsRegistered'
  <2> SUFFICES ASSUME NEW c \in Live', c # cur' \/ pc' # "open"
               PROVE  sock'[c] \in readMaster' /\ c \in sigTable'
    BY DEF LiveIsRegistered
  <2>1. c \in Live /\ c \notin S /\ sock'[c] = sock[c]
    BY <1>0 DEF Live
  <2>2. sock[c] \in readMaster /\ c \in sigTable
    BY <2>1 DEF Ownership, LiveIsRegistered
  <2>3. sock[c] \notin Sockets(S)
    BY <1>0, <2>1 DEF Ownership, SocketIsLive, Live
  <2>4. sock[c] \notin Listening(A)
    <3>1. sock[c] \in ClientFd
      BY <2>1 DEF Ownership, SocketIsLive, Live, TypeOK, NetTypeOK
    <3> QED BY <3>1 DEF Listening
  <2>5. c \notin A
    BY DEF Live
  <2>6. sock[c] \in readMaster'
    BY <2>2, <2>3, <2>4 DEF UnRegisterIO
  <2> QED
    BY <2>1, <2>2, <2>5, <2>6 DEF UnRegisterSignal
<1> QED BY <1>1, <1>2, <1>3, <1>4, <1>5, <1>6, <1>7 DEF Ownership

(* The two ways fclose returns, or does not.                               *)
LEMMA FcloseOwnership ==
  ASSUME IInv, NEW c \in Client, pc \in {"input", "output", "expire"}, cur = c
  PROVE  /\ CrashInFclose(c) => Ownership'
         /\ \A p \in {"close", "closeTimer"} : CloseFile(c, p) => Ownership'
         /\ FcloseFails(c) /\ ReturnToLoop /\ UNCHANGED timerVars => Ownership'
<1>1. CrashInFclose(c) => Ownership'
  BY CrashOwnership DEF CrashInFclose
<1>2. ASSUME NEW p \in {"close", "closeTimer"}, CloseFile(c, p) PROVE Ownership'
  BY <1>2, QuietStep DEF CloseFile, netVars, timerVars
<1>3. ASSUME FcloseFails(c), ReturnToLoop, UNCHANGED timerVars PROVE Ownership'
  BY <1>3, QuietStep DEF FcloseFails, ReturnToLoop, netVars, timerVars, InHandler
<1> QED BY <1>1, <1>2, <1>3

LEMMA HandleCloseOwnership ==
  ASSUME IInv, NEW c \in Live, HandleClose(c), pc \in {"input", "output"},
         cur = c
  PROVE  Ownership'
  BY FcloseOwnership DEF HandleClose, Live

LEMMA FinishCloseOwnership ==
  ASSUME IInv, NEW c \in Client, FinishClose(c)
  PROVE  Ownership'
<1>1. CASE Crash("timer")
  BY <1>1, CrashOwnership
<1>2. CASE /\ CloseAll({c}, {}, {})
           /\ timer' = Cancelled({c})
           /\ ReturnToLoop
  <2>1. /\ \A d \in {c} : timer'[d] # "armed"
        /\ \A d \in Client \ {c} : timer'[d] = timer[d]
    BY <1>2 DEF Cancelled
  <2>2. pc = "close" /\ pc' = "dispatch" /\ pc' \notin InHandler
    BY <1>2 DEF ReturnToLoop, InHandler, FinishClose
  <2>3. {c} \in SUBSET Live /\ {} \in SUBSET Client /\ {} \in SUBSET Acceptor
    BY DEF FinishClose, Live
  <2>4. CloseAll({c}, {}, {})
    BY <1>2
  <2> QED BY <2>1, <2>2, <2>3, <2>4, CloseAllOwnership
<1> QED BY <1>1, <1>2 DEF FinishClose

(* The queue frees a node.                                                 *)
LEMMA NodeFreedOwnership ==
  ASSUME IInv, NEW c \in Client, obj[c] # "none",
         UNCHANGED <<netVars, regVars, obj>>, timer' = NodesFreed({c}),
         pc # "open", pc' = "timers"
  PROVE  Ownership'
<1> USE DEF netVars, regVars
<1>1. \A d \in Client : timer'[d] = IF d = c THEN "freed" ELSE timer[d]
  BY DEF NodesFreed
<1>2. SocketIsLive' /\ OnlyFileHandlersWrite' /\ InterestIsOwned'
  BY DEF IInv, Ownership, SocketIsLive, OnlyFileHandlersWrite, AppOf,
         InterestIsOwned, Live
<1>3. FreshHasNothing' /\ UnderConstruction' /\ CallbacksReachLive'
  BY <1>1 DEF IInv, Ownership, FreshHasNothing, UnderConstruction, InHandler,
              CallbacksReachLive, Live
<1>4. LiveIsRegistered'
  BY DEF IInv, Ownership, LiveIsRegistered, Live
<1> QED BY <1>2, <1>3, <1>4 DEF Ownership

LEMMA AnswerOwnership ==
  ASSUME IInv, NEW c \in Client, NEW n, Answer(c, n), pc # "open"
  PROVE  Ownership'
  BY QuietStep DEF Answer, ReturnToLoop, timerVars, InHandler

(* Registering a live handler's own socket, for reading when it is opened  *)
(* or for writing when it sends a file, takes the table entry from nobody. *)
LEMMA RegisterOwnership ==
  ASSUME IInv, NEW c \in Live,
         table' = [table EXCEPT ![sock[c]] = c],
         readMaster' \subseteq readMaster \cup {sock[c]},
         writeMaster' \subseteq writeMaster \cup {sock[c]},
         UNCHANGED <<sock, obj, listening>>
  PROVE  InterestIsOwned'
<1>1. c \in Client /\ sock[c] \in ClientFd /\ sock[c] \in Fd
  BY DEF IInv, Ownership, SocketIsLive, Live, TypeOK, NetTypeOK, Fd
<1>2. Live' = Live
  BY DEF Live
<1> SUFFICES ASSUME NEW f \in readMaster' \cup writeMaster'
             PROVE  \/ \E a \in listening' : f = ListenFd[a] /\ table'[f] = a
                    \/ \E d \in Live' : f = sock'[d] /\ table'[f] = d
  BY DEF InterestIsOwned
<1>3. CASE f = sock[c]
  <2>1. table'[f] = c
    BY <1>1, <1>3 DEF IInv, TypeOK, SelectorTypeOK
  <2>2. c \in Live' /\ f = sock'[c]
    BY <1>2, <1>3
  <2> QED BY <2>1, <2>2
<1>4. CASE f # sock[c]
  <2>1. table'[f] = table[f]
    BY <1>1, <1>4 DEF IInv, TypeOK, SelectorTypeOK
  <2>2. f \in readMaster \cup writeMaster
    BY <1>4
  <2>3. \/ \E a \in listening : f = ListenFd[a] /\ table[f] = a
        \/ \E d \in Live : f = sock[d] /\ table[f] = d
    BY <2>2 DEF IInv, Ownership, InterestIsOwned
  <2> QED BY <1>2, <2>1, <2>3
<1> QED BY <1>3, <1>4

LEMMA KeepSendingOwnership ==
  ASSUME IInv, NEW c \in Live, NEW n, KeepSending(c, n), pc = "input",
         AppOf(c) # "log"
  PROVE  Ownership'
<1> USE DEF KeepSending, RegisterWrite
<1>0. c \in Client /\ sock[c] \in ClientFd
  BY DEF IInv, Ownership, SocketIsLive, Live, TypeOK, NetTypeOK
<1>1. InterestIsOwned'
  BY RegisterOwnership
<1>2. SocketIsLive' /\ FreshHasNothing'
  BY DEF IInv, Ownership, SocketIsLive, FreshHasNothing, timerVars
<1>3. UnderConstruction'
  BY DEF UnderConstruction, ReturnToLoop, InHandler
<1>4. OnlyFileHandlersWrite'
  <2> SUFFICES ASSUME NEW d \in Client, AppOf(d) = "log"
               PROVE  sock[d] \notin writeMaster'
    BY <1>0 DEF IInv, Ownership, OnlyFileHandlersWrite, AppOf
  <2>1. sock[d] # sock[c]
    BY <1>0 DEF IInv, Ownership, SocketIsLive, Live
  <2> QED BY <2>1 DEF IInv, Ownership, OnlyFileHandlersWrite
<1>5. CallbacksReachLive' /\ LiveIsRegistered'
  BY DEF IInv, Ownership, CallbacksReachLive, LiveIsRegistered, Live, timerVars
<1> QED BY <1>1, <1>2, <1>3, <1>4, <1>5 DEF Ownership

LEMMA EndSendingOwnership ==
  ASSUME IInv, NEW c \in Client, NEW p, EndSending(c, p), pc # "open"
  PROVE  Ownership'
<1> USE DEF EndSending, UnRegisterIO, ReturnToLoop, timerVars
<1>1. readMaster' = readMaster /\ writeMaster' \subseteq writeMaster
  OBVIOUS
<1>2. SocketIsLive' /\ FreshHasNothing' /\ OnlyFileHandlersWrite'
  BY <1>1 DEF IInv, Ownership, SocketIsLive, FreshHasNothing,
              OnlyFileHandlersWrite, AppOf
<1>3. UnderConstruction' /\ CallbacksReachLive' /\ LiveIsRegistered'
  BY <1>1 DEF IInv, Ownership, UnderConstruction, InHandler,
              CallbacksReachLive, LiveIsRegistered, Live
<1>4. InterestIsOwned'
  BY <1>1 DEF IInv, Ownership, InterestIsOwned, Live
<1> QED BY <1>2, <1>3, <1>4 DEF Ownership

LEMMA StartSendingOwnership ==
  ASSUME IInv, NEW c \in Live, NEW b, StartSending(c, b), pc = "input",
         AppOf(c) # "log"
  PROVE  Ownership'
<1>0. c \in Client
  BY DEF Live
<1>1. CASE EndSending(c, "idle") BY <1>0, <1>1, EndSendingOwnership
<1>2. CASE KeepSending(c, "open") BY <1>2, KeepSendingOwnership
<1>3. CASE Sigpipe(c) BY <1>3, CrashOwnership DEF Sigpipe
<1>4. CASE SendAfterClose(c)
  BY <1>4, CrashOwnership, KeepSendingOwnership DEF SendAfterClose
<1> QED BY <1>1, <1>2, <1>3, <1>4 DEF StartSending

LEMMA LoopOwnership ==
  ASSUME IInv, Loop
  PROVE  Ownership'
<1>1. CASE TestRunning \/ CopySets \/ PselectFails \/ PselectReturns
             \/ TimersDispatched \/ EndOfRound
  BY <1>1, QuietStep
     DEF TestRunning, CopySets, PselectFails, PselectReturns, TimersDispatched,
         EndOfRound, netVars, timerVars, InHandler
<1>2. ASSUME NEW c \in Client, DropCancelledTimer(c) PROVE Ownership'
  <2>1. obj[c] # "none" /\ pc = "timers" /\ pc' = pc
        /\ timer' = NodesFreed({c}) /\ UNCHANGED <<netVars, regVars, obj>>
    BY <1>2 DEF DropCancelledTimer, loopVars, IInv, Ownership, FreshHasNothing
  <2> QED BY <2>1, NodeFreedOwnership
<1>3. ASSUME NEW c \in Client, NEW f \in ClientFd,
             CallHandleInput(c, f) \/ CallHandleOutput(c, f)
      PROVE  Ownership'
  <2>1. CASE Crash("freed") BY <2>1, CrashOwnership
  <2>2. CASE /\ pc = "dispatch" /\ pc' \in {"input", "output"} /\ cur' = c
             /\ UNCHANGED <<netVars, regVars, timerVars, obj>>
    BY <2>2, QuietStep DEF netVars, timerVars
  <2> QED BY <1>3, <2>1, <2>2 DEF CallHandleInput, CallHandleOutput
<1> QED BY <1>1, <1>2, <1>3 DEF Loop

LEMMA AcceptOwnership ==
  ASSUME IInv, NEW a \in Acceptor, NEW c \in Client, NEW f \in ClientFd,
         AcceptClient(a, c, f)
  PROVE  Ownership'
<1> USE DEF AcceptClient, SetFd, regVars, timerVars
<1>0. /\ obj[c] = "none" /\ timer[c] = "none" /\ sock[c] = NoFd
      /\ c \notin sigTable
      /\ \A d \in Client : sock[d] # f
      /\ f # NoFd
  BY DEF IInv, Ownership, FreshHasNothing, SocketIsLive, CallbacksReachLive,
         Live, OpenFds, Sockets, NoFd
<1>1. /\ \A d \in Client : sock'[d] = IF d = c THEN f ELSE sock[d]
      /\ \A d \in Client : obj'[d] = IF d = c THEN "live" ELSE obj[d]
      /\ Live' = Live \cup {c}
  BY DEF IInv, TypeOK, NetTypeOK, SelectorTypeOK, Live
<1>2. SocketIsLive'
  BY <1>0, <1>1 DEF IInv, Ownership, SocketIsLive
<1>3. FreshHasNothing'
  <2>1. \A d \in backlog' : d # c /\ d \in Client /\ obj[d] = "none"
    BY DEF IInv, Ownership, FreshHasNothing, TypeOK, NetTypeOK
  <2> QED BY <1>1, <2>1 DEF IInv, Ownership, FreshHasNothing
<1>4. UnderConstruction'
  BY <1>0, <1>1 DEF UnderConstruction
<1>5. f \notin writeMaster /\ f \notin readMaster
  <2>1. \A b \in listening : ListenFd[b] # f
    BY DEF IInv, TypeOK, NetTypeOK
  <2> QED BY <1>0, <2>1 DEF IInv, Ownership, InterestIsOwned, Live
<1>6. OnlyFileHandlersWrite'
  BY <1>1, <1>5 DEF IInv, Ownership, OnlyFileHandlersWrite, AppOf
<1>7. InterestIsOwned'
  <2> SUFFICES ASSUME NEW g \in readMaster \cup writeMaster
               PROVE  \/ \E b \in listening : g = ListenFd[b] /\ table[g] = b
                      \/ \E d \in Live' : g = sock'[d] /\ table[g] = d
    BY DEF InterestIsOwned
  <2>1. ASSUME NEW d \in Live, g = sock[d], table[g] = d
        PROVE  d \in Live' /\ g = sock'[d]
    BY <1>0, <1>1, <2>1 DEF Live
  <2> QED BY <2>1 DEF IInv, Ownership, InterestIsOwned
<1>8. CallbacksReachLive'
  BY <1>1 DEF IInv, Ownership, CallbacksReachLive
<1>9. LiveIsRegistered'
  BY <1>0, <1>1 DEF IInv, Ownership, LiveIsRegistered, Live
<1> QED BY <1>2, <1>3, <1>4, <1>6, <1>7, <1>8, <1>9 DEF Ownership

(* Open, up to its fopen.                                                  *)
LEMMA OpenOwnership ==
  ASSUME IInv, NEW c \in Client, OpenHandler(c)
  PROVE  Ownership'
<1>0. /\ pc = "open" /\ cur = c
      /\ RegisterRead(c, sock[c]) /\ RegisterSignal(c)
      /\ pc' \in {"fopen", "arm"} /\ cur' = c
      /\ UNCHANGED <<netVars, writeMaster, timer, obj>>
  BY DEF OpenHandler, netVars, timerVars
<1>1. c \in Live /\ timer[c] = "none"
  BY <1>0 DEF IInv, Ownership, UnderConstruction, Live
<1>2. InterestIsOwned'
  BY <1>0, <1>1, RegisterOwnership DEF RegisterRead, netVars
<1>3. SocketIsLive' /\ FreshHasNothing' /\ OnlyFileHandlersWrite'
  BY <1>0 DEF IInv, Ownership, SocketIsLive, FreshHasNothing,
              OnlyFileHandlersWrite, AppOf, netVars
<1>4. UnderConstruction'
  BY <1>0, <1>1 DEF UnderConstruction, InHandler, Live
<1>5. CallbacksReachLive'
  BY <1>0, <1>1 DEF IInv, Ownership, CallbacksReachLive, RegisterSignal, Live
<1>6. LiveIsRegistered'
  BY <1>0, <1>1 DEF IInv, Ownership, LiveIsRegistered, RegisterRead,
                    RegisterSignal, Live, netVars
<1> QED BY <1>2, <1>3, <1>4, <1>5, <1>6 DEF Ownership

(* Its fopen, which may fail.                                              *)
LEMMA FopenOwnership ==
  ASSUME IInv, NEW c \in Client, OpenFile(c) \/ OpenFileFails(c)
  PROVE  Ownership'
  BY QuietStep DEF OpenFile, OpenFileFails, ReturnToLoop, netVars, timerVars,
                   InHandler

LEMMA ArmOwnership ==
  ASSUME IInv, NEW c \in Client, ArmTimer(c)
  PROVE  Ownership'
<1> USE DEF ArmTimer, netVars, regVars
<1>1. c \in Live
  BY DEF IInv, Ownership, UnderConstruction, Live
<1>2. /\ \A d \in Client : timer'[d] = IF d = c THEN "armed" ELSE timer[d]
      /\ Live' = Live
  BY DEF SchedualTimer, IInv, TypeOK, SelectorTypeOK, Live
<1>3. SocketIsLive' /\ OnlyFileHandlersWrite' /\ InterestIsOwned'
      /\ LiveIsRegistered'
  BY DEF IInv, Ownership, SocketIsLive, OnlyFileHandlersWrite, AppOf,
         InterestIsOwned, LiveIsRegistered, Live
<1>4. FreshHasNothing' /\ CallbacksReachLive'
  BY <1>1, <1>2 DEF IInv, Ownership, FreshHasNothing, CallbacksReachLive, Live
<1>5. UnderConstruction'
  BY DEF UnderConstruction, ReturnToLoop, InHandler
<1> QED BY <1>3, <1>4, <1>5 DEF Ownership

LEMMA TimerOwnership ==
  ASSUME IInv, NEW c \in Client,
         HandleTimer(c) \/ TimerCloses(c) \/ FinishTimer(c)
  PROVE  Ownership'
<1>1. CASE HandleTimer(c)
  <2>1. CASE Crash("freed")
    BY <2>1, CrashOwnership
  <2>2. CASE /\ pc' = "expire" /\ cur' = c
             /\ UNCHANGED <<netVars, regVars, timerVars, obj>>
    BY <1>1, <2>2, QuietStep DEF HandleTimer, netVars, timerVars
  <2> QED BY <1>1, <2>1, <2>2 DEF HandleTimer
<1>2. CASE TimerCloses(c)
  <2>1. pc = "expire" /\ cur = c /\ obj[c] = "live"
    BY <1>2 DEF TimerCloses
  <2>2. CASE FcloseFails(c) /\ TimerServed(c)
    BY <2>1, <2>2, NodeFreedOwnership DEF FcloseFails, TimerServed
  <2> QED BY <1>2, <2>1, <2>2, FcloseOwnership DEF TimerCloses
<1>3. CASE FinishTimer(c)
  <2>1. /\ {c} \in SUBSET Live /\ {} \in SUBSET Client /\ {} \in SUBSET Acceptor
        /\ CloseAll({c}, {}, {})
        /\ pc = "closeTimer" /\ pc' = "timers" /\ pc' \notin InHandler
    BY <1>3 DEF FinishTimer, TimerServed, Live, InHandler
  <2>2. /\ \A d \in {c} : timer'[d] # "armed"
        /\ \A d \in Client \ {c} : timer'[d] = timer[d]
    BY <1>3 DEF FinishTimer, TimerServed, NodesFreed
  <2> QED BY <2>1, <2>2, CloseAllOwnership
<1> QED BY <1>1, <1>2, <1>3

LEMMA DispatchedOwnership ==
  ASSUME IInv, Dispatched
  PROVE  Ownership'
<1>1. ASSUME NEW a \in Acceptor, AcceptFails(a) PROVE Ownership'
  BY <1>1, QuietStep DEF AcceptFails, netVars, timerVars
<1>2. CASE ResumeFreed
  BY <1>2, CrashOwnership DEF ResumeFreed
<1>3. ASSUME NEW c \in Client, LogHandleInput(c) PROVE Ownership'
  BY <1>3, HandleCloseOwnership, CrashOwnership, AnswerOwnership
     DEF LogHandleInput, InHandleInput, Sigpipe, Live
<1>4. ASSUME NEW c \in Client, RepoHandleInput(c) PROVE Ownership'
  <2>1. c \in Live /\ pc = "input" /\ cur = c /\ AppOf(c) # "log"
    BY <1>4 DEF RepoHandleInput, InHandleInput, Live
  <2> QED
    BY <1>4, <2>1, HandleCloseOwnership, CrashOwnership, AnswerOwnership,
       StartSendingOwnership
       DEF RepoHandleInput, Sigpipe
<1>5. ASSUME NEW c \in Client, ServiceHandleInput(c) PROVE Ownership'
  <2>1. c \in Live /\ pc = "input" /\ cur = c /\ AppOf(c) # "log"
    BY <1>5 DEF ServiceHandleInput, InHandleInput, Live
  <2>2. CASE /\ pc' = "upload"
             /\ UNCHANGED <<dial, peer, backlog, sock, listening, regVars,
                            timerVars, cur, obj>>
    BY <2>1, <2>2, QuietStep DEF timerVars
  <2> QED
    BY <1>5, <2>1, <2>2, HandleCloseOwnership, CrashOwnership,
       AnswerOwnership, StartSendingOwnership
       DEF ServiceHandleInput, Sigpipe
<1>6. ASSUME NEW c \in Client, SendChunk(c) PROVE Ownership'
  BY <1>6, QuietStep
     DEF SendChunk, MoreToSend, InHandleOutput, ReturnToLoop, timerVars,
         InHandler
<1>7. ASSUME NEW c \in Client, SendLastChunk(c) PROVE Ownership'
  BY <1>7, EndSendingOwnership DEF SendLastChunk, MoreToSend, InHandleOutput
<1>8. ASSUME NEW c \in Client, SendFails(c) PROVE Ownership'
  BY <1>8, HandleCloseOwnership DEF SendFails, InHandleOutput, Live
<1>9. ASSUME NEW c \in Client, SendBroken(c) PROVE Ownership'
  BY <1>9, CrashOwnership DEF SendBroken, Sigpipe
<1>10. ASSUME NEW c \in Client, IgnoreOutput(c) PROVE Ownership'
  BY <1>10, QuietStep
     DEF IgnoreOutput, InHandleOutput, ReturnToLoop, netVars, timerVars,
         InHandler
<1> QED
  BY <1>1, <1>2, <1>3, <1>4, <1>5, <1>6, <1>7, <1>8, <1>9, <1>10, AcceptOwnership,
     OpenOwnership, FopenOwnership, ArmOwnership, TimerOwnership,
     FinishCloseOwnership
     DEF Dispatched

LEMMA InterruptOwnership ==
  ASSUME IInv, HandleSignal
  PROVE  Ownership'
<1> DEFINE C == sigTable \cap Client
           A == sigTable \cap Acceptor
<1>1. ASSUME NEW c \in C, CrashInClose(c) PROVE Ownership'
  BY <1>1, CrashOwnership DEF CrashInClose
<1>2. ASSUME NEW failed \in SUBSET {c \in C : FcloseMayFail(c)},
             \A c \in C \ failed : CloseFault(c) = "none",
             CloseAll(C \ failed, failed, A),
             timer' = Cancelled(C \ failed),
             pc' \in IF pc = "select" THEN {"select", "top"} ELSE {pc},
             cur' = cur
      PROVE  Ownership'
  <2>1. \A c \in C \ failed : timer[c] # "none"
    BY <1>2 DEF CloseFault, CancelFault
  <2>2. /\ C \ failed \in SUBSET Live /\ failed \in SUBSET Client
        /\ A \in SUBSET Acceptor
    BY DEF IInv, Ownership, CallbacksReachLive
  <2>3. /\ \A c \in C \ failed : timer'[c] = "cancelled"
        /\ \A c \in Client \ (C \ failed) : timer'[c] = timer[c]
    BY <1>2 DEF Cancelled
  <2>4. CASE pc \in {"open", "fopen", "arm"}
    <3>1. /\ pc' = pc /\ cur' = cur
          /\ cur \in Client /\ cur \notin C \ failed /\ timer'[cur] = timer[cur]
      BY <1>2, <2>1, <2>3, <2>4
         DEF IInv, Ownership, UnderConstruction, InHandler
    <3> QED BY <1>2, <2>2, <2>3, <3>1, CloseAllOwnership
  <2>5. CASE pc \notin {"open", "fopen", "arm"}
    <3>1. \/ pc' = pc /\ cur' = cur
          \/ pc # "open" /\ pc' \notin {"open", "fopen", "arm"} /\ pc' \notin InHandler
      BY <1>2, <2>5 DEF InHandler
    <3> QED BY <1>2, <2>2, <2>3, <2>5, <3>1, CloseAllOwnership
  <2> QED BY <2>4, <2>5
<1> QED BY <1>1, <1>2 DEF HandleSignal

LEMMA PeerOwnership ==
  ASSUME IInv, NEW c \in Client, Peer(c)
  PROVE  Ownership'
<1> USE DEF Peer, selectorVars, loopVars, timerVars
<1>1. CASE Connect(c)
  <2> USE <1>1 DEF Connect, regVars
  <2>1. obj[c] = "none"
    BY DEF IInv, Ownership, FreshHasNothing
  <2>2. FreshHasNothing'
    BY <2>1 DEF IInv, Ownership, FreshHasNothing, TypeOK, NetTypeOK
  <2>3. SocketIsLive' /\ UnderConstruction' /\ OnlyFileHandlersWrite'
    BY DEF IInv, Ownership, SocketIsLive, UnderConstruction, InHandler,
           OnlyFileHandlersWrite, AppOf
  <2>4. InterestIsOwned' /\ CallbacksReachLive' /\ LiveIsRegistered'
    BY DEF IInv, Ownership, InterestIsOwned, CallbacksReachLive,
           LiveIsRegistered, Live
  <2> QED BY <2>2, <2>3, <2>4 DEF Ownership
<1>2. CASE Send(c) \/ Hangup(c)
  BY <1>2, QuietStep DEF Send, Hangup, IInv, TypeOK, NetTypeOK
<1> QED BY <1>1, <1>2 

-----------------------------------------------------------------------------
(* The results.                                                            *)

LEMMA NextOwnership ==
  ASSUME IInv, [Next]_vars
  PROVE  Ownership'
<1>1. CASE ServerStep
  BY <1>1, LoopOwnership, DispatchedOwnership DEF ServerStep
<1>2. CASE Interrupt
  BY <1>2, InterruptOwnership DEF Interrupt
<1>3. ASSUME NEW c \in Client, Upload(c) PROVE Ownership'
  BY <1>3, AnswerOwnership, CrashOwnership DEF Upload, HandleUpload, Sigpipe
<1>4. ASSUME NEW c \in Client, Timeout(c) PROVE Ownership'
  BY <1>4, QuietStep DEF Timeout, Elapse, netVars, loopVars
<1>5. ASSUME NEW c \in Client, Peer(c) PROVE Ownership'
  BY <1>5, PeerOwnership
<1>6. CASE UNCHANGED vars
  BY <1>6, QuietStep DEF vars, handlerVars, selectorVars, netVars, timerVars,
                         loopVars
<1> QED BY <1>1, <1>2, <1>3, <1>4, <1>5, <1>6 DEF Next

(* The invariant holds of every run, whatever goes wrong.                  *)
THEOREM Invariance == Spec => []IInv
<1>1. Init => IInv
  BY InitType, InitOwnership DEF IInv
<1>2. IInv /\ [Next]_vars => IInv'
  BY NextType, NextOwnership DEF IInv
<1> QED BY <1>1, <1>2, PTL DEF Spec

(* Every variable keeps its type.                                          *)
THEOREM TypeCorrect == Spec => []TypeOK
<1>1. IInv => TypeOK
  BY DEF IInv
<1> QED BY <1>1, Invariance, PTL

(* Whatever the Selector watches is open and belongs to the live handler   *)
(* (or acceptor) its table entry points to.                                *)
THEOREM OwnedInterest == Spec => []InterestIsOwned
<1>1. IInv => InterestIsOwned
  BY DEF IInv, Ownership
<1> QED BY <1>1, Invariance, PTL

(* Timer and signal callbacks only ever reach handlers that exist.         *)
THEOREM LiveCallbacks == Spec => []CallbacksReachLive
<1>1. IInv => CallbacksReachLive
  BY DEF IInv, Ownership
<1> QED BY <1>1, Invariance, PTL

(* No handler that exists is ever forgotten by the Selector.               *)
THEOREM NothingForgotten == Spec => []LiveIsRegistered
<1>1. IInv => LiveIsRegistered
  BY DEF IInv, Ownership
<1> QED BY <1>1, Invariance, PTL

-----------------------------------------------------------------------------
(* Responses and write interests.                                        *)

(* Nobody is sent a file before it is accepted or after it is released;    *)
(* only a list may be followed by a request that is already there, and     *)
(* only the service is in the middle of an upload.                         *)
Unserved == \A c \in Client : obj[c] # "live" => phase[c] \in {"idle", "request"}
OnlyListsAgain == \A c \in Client : phase[c] = "again" => AppOf(c) = "repo"
UploadsAreServices == pc = "upload" => AppOf(cur) = "service"

Owed == Unserved /\ OnlyListsAgain /\ UploadsAreServices /\ WriteInterestIsResponse

LEMMA InitOwed == Init => Owed
  BY DEF Init, NetInit, SelectorInit, Owed, Unserved, OnlyListsAgain, UploadsAreServices,
         WriteInterestIsResponse, Live

(* A step that changes neither phases nor write interests.                 *)
LEMMA QuietOwed ==
  ASSUME IInv, Owed, UNCHANGED <<dial, sock, obj, writeMaster, phase>>,
         \/ pc' = pc /\ cur' = cur
         \/ pc # "upload" /\ pc' # "upload"
  PROVE  Owed'
<1>1. Unserved' /\ OnlyListsAgain' /\ UploadsAreServices'
  BY DEF Owed, Unserved, OnlyListsAgain, UploadsAreServices, AppOf
<1>2. WriteInterestIsResponse'
  BY DEF Owed, WriteInterestIsResponse, Live
<1> QED BY <1>1, <1>2 DEF Owed

LEMMA CrashOwed ==
  ASSUME IInv, Owed, NEW f, Crash(f)
  PROVE  Owed'
  BY QuietOwed DEF Crash, netVars, regVars, loopVars

(* A live handler returns to the loop, and owes its own peer more or less. *)
LEMMA OneOwed ==
  ASSUME IInv, Owed, NEW c \in Live,
         UNCHANGED <<dial, sock, obj>>,
         \A d \in Client : d # c => phase'[d] = phase[d],
         \A f \in ClientFd : f # sock[c] => (f \in writeMaster' <=> f \in writeMaster),
         pc' = "dispatch", pc = "upload" => cur = c,
         phase'[c] = "again" => phase[c] = "again",
         sock[c] \in writeMaster' <=> phase'[c] \in {"response", "sent", "again"}
  PROVE  Owed'
<1>1. /\ c \in Client /\ obj[c] = "live"
      /\ \A d \in Live : d \in Client /\ sock[d] \in ClientFd /\ (d # c => sock[d] # sock[c])
  BY DEF IInv, Ownership, SocketIsLive, Live, TypeOK, NetTypeOK
<1>2. Unserved' /\ OnlyListsAgain' /\ UploadsAreServices'
  <2>1. Unserved' /\ UploadsAreServices'
    BY <1>1 DEF Owed, Unserved, UploadsAreServices
  <2>2. OnlyListsAgain'
    BY <1>1 DEF Owed, OnlyListsAgain, AppOf
  <2> QED BY <2>1, <2>2
<1>3. WriteInterestIsResponse'
  <2>1. Live' = Live
    BY DEF Live
  <2>2. ASSUME NEW d \in Live, d # c
        PROVE  /\ sock[d] \in writeMaster' <=> sock[d] \in writeMaster
               /\ phase'[d] = phase[d] /\ ~(pc = "upload" /\ cur = d)
    BY <1>1, <2>2
  <2> QED BY <1>1, <2>1, <2>2 DEF Owed, WriteInterestIsResponse
<1> QED BY <1>2, <1>3 DEF Owed

LEMMA CloseAllOwed ==
  ASSUME IInv, Owed, NEW S \in SUBSET Live, NEW F, NEW A \in SUBSET Acceptor,
         CloseAll(S, F, A),
         \/ pc' = pc /\ cur' = cur
         \/ pc # "upload" /\ pc' # "upload"
  PROVE  Owed'
<1> USE DEF CloseAll
<1>1. /\ S \subseteq Client
      /\ \A c \in Client : /\ obj'[c] = IF c \in S THEN "freed" ELSE obj[c]
                           /\ sock'[c] = IF c \in S THEN NoFd ELSE sock[c]
                           /\ phase'[c] = IF c \in S THEN "idle" ELSE phase[c]
      /\ Live' = Live \ S
  BY DEF Live, IInv, TypeOK, NetTypeOK, SelectorTypeOK
<1>2. Unserved' /\ OnlyListsAgain' /\ UploadsAreServices'
  BY <1>1 DEF Owed, Unserved, OnlyListsAgain, UploadsAreServices, AppOf
<1>3. ASSUME NEW c \in Live, c \notin S
      PROVE  sock[c] \in writeMaster' <=> sock[c] \in writeMaster
  BY <1>1, <1>3 DEF UnRegisterIO, WriteInterest, Sockets, IInv, Ownership, SocketIsLive, Live
<1>4. WriteInterestIsResponse'
  BY <1>1, <1>3 DEF Owed, WriteInterestIsResponse, Live
<1> QED BY <1>2, <1>4 DEF Owed

(* The two ways fclose returns, or does not.                               *)
LEMMA FcloseOwed ==
  ASSUME IInv, Owed, NEW c \in Client, pc \in {"input", "output", "expire"}
  PROVE  /\ CrashInFclose(c) => Owed'
         /\ \A p \in {"close", "closeTimer"} : CloseFile(c, p) => Owed'
         /\ FcloseFails(c) /\ pc' \in {"dispatch", "timers"} => Owed'
<1>1. CrashInFclose(c) => Owed'
  BY CrashOwed DEF CrashInFclose
<1>2. ASSUME NEW p \in {"close", "closeTimer"}, CloseFile(c, p) PROVE Owed'
  BY <1>2, QuietOwed DEF CloseFile, netVars, regVars
<1>3. ASSUME FcloseFails(c), pc' \in {"dispatch", "timers"} PROVE Owed'
  BY <1>3, QuietOwed DEF FcloseFails, netVars, regVars
<1> QED BY <1>1, <1>2, <1>3

LEMMA HandleCloseOwed ==
  ASSUME IInv, Owed, NEW c \in Live, HandleClose(c), pc \in {"input", "output"}
  PROVE  Owed'
  BY FcloseOwed DEF HandleClose, ReturnToLoop, Live

(* The rest of HandleClose, and the timer's.                               *)
LEMMA FinishOwed ==
  ASSUME IInv, Owed, NEW c \in Client, FinishClose(c) \/ FinishTimer(c)
  PROVE  Owed'
<1>1. CASE Crash("timer")
  BY <1>1, CrashOwed
<1>2. CASE CloseAll({c}, {}, {}) /\ pc' \in {"dispatch", "timers"}
  <2>1. {c} \in SUBSET Live /\ {} \in SUBSET Acceptor /\ pc # "upload"
    BY DEF FinishClose, FinishTimer, Live
  <2> QED BY <1>2, <2>1, CloseAllOwed
<1> QED
  BY <1>1, <1>2 DEF FinishClose, FinishTimer, ReturnToLoop, TimerServed

LEMMA AnswerOwed ==
  ASSUME IInv, Owed, NEW c \in Live, NEW n, Answer(c, n), cur = c,
         \/ pc = "input" /\ HasRequest(c)
         \/ pc = "upload"
  PROVE  Owed'
<1>1. c \in Client
  BY DEF Live
<1>2. \A d \in Client : phase'[d] = IF d = c THEN (IF phase[c] = "again" THEN "sent" ELSE "idle")
                                    ELSE phase[d]
  BY DEF Answer, IInv, TypeOK, NetTypeOK
<1>3. writeMaster' = writeMaster /\ UNCHANGED <<dial, sock, obj>> /\ pc' = "dispatch"
  BY DEF Answer, ReturnToLoop, regVars
<1>4. sock[c] \in writeMaster <=> phase[c] = "again"
  <2>1. CASE pc = "input"
    BY <2>1 DEF HasRequest, Owed, WriteInterestIsResponse
  <2>2. CASE pc = "upload"
    BY <1>1, <2>2 DEF Owed, WriteInterestIsResponse, OnlyListsAgain, UploadsAreServices
  <2> QED BY <2>1, <2>2
<1> QED BY <1>1, <1>2, <1>3, <1>4, OneOwed

LEMMA KeepSendingOwed ==
  ASSUME IInv, Owed, NEW c \in Live, NEW n, KeepSending(c, n), pc = "input"
  PROVE  Owed'
<1>1. c \in Client
  BY DEF Live
<1>2. /\ \A d \in Client : d # c => phase'[d] = phase[d]
      /\ phase'[c] \in {"response", "sent"}
  BY <1>1 DEF KeepSending, WholeBuffer, IInv, TypeOK, NetTypeOK
<1>3. writeMaster' = writeMaster \cup {sock[c]} /\ UNCHANGED <<dial, sock, obj>>
      /\ pc' = "dispatch"
  BY DEF KeepSending, RegisterWrite, ReturnToLoop
<1> QED BY <1>1, <1>2, <1>3, OneOwed

LEMMA EndSendingOwed ==
  ASSUME IInv, Owed, NEW c \in Live, NEW p \in {"idle", "request"}, EndSending(c, p),
         pc \in {"input", "output"}
  PROVE  Owed'
<1>1. c \in Client
  BY DEF Live
<1>2. /\ \A d \in Client : d # c => phase'[d] = phase[d]
      /\ phase'[c] = p
  BY <1>1 DEF EndSending, IInv, TypeOK, NetTypeOK
<1>3. writeMaster' = writeMaster \ {sock[c]} /\ UNCHANGED <<dial, sock, obj>>
      /\ pc' = "dispatch"
  BY DEF EndSending, UnRegisterIO, ReturnToLoop
<1> QED BY <1>1, <1>2, <1>3, OneOwed

LEMMA StartSendingOwed ==
  ASSUME IInv, Owed, NEW c \in Live, NEW b, StartSending(c, b), pc = "input"
  PROVE  Owed'
<1>1. CASE EndSending(c, "idle") BY <1>1, EndSendingOwed
<1>2. CASE KeepSending(c, "open") BY <1>2, KeepSendingOwed
<1>3. CASE Sigpipe(c) BY <1>3, CrashOwed DEF Sigpipe
<1>4. CASE SendAfterClose(c) BY <1>4, CrashOwed, KeepSendingOwed DEF SendAfterClose
<1> QED BY <1>1, <1>2, <1>3, <1>4 DEF StartSending

(* HandleUpload begins: the peer is not sent a file, but has sent one.     *)
LEMMA BeginUploadOwed ==
  ASSUME IInv, Owed, NEW c \in Live, HasRequest(c), AppOf(c) = "service",
         pc = "input", cur = c, pc' = "upload", cur' = c,
         phase' = [phase EXCEPT ![c] = "response"],
         UNCHANGED <<dial, sock, obj, writeMaster>>
  PROVE  Owed'
<1>1. c \in Client /\ phase[c] = "request"
  BY DEF Live, HasRequest, Owed, OnlyListsAgain
<1>2. \A d \in Client : phase'[d] = IF d = c THEN "response" ELSE phase[d]
  BY DEF IInv, TypeOK, NetTypeOK
<1>3. Unserved' /\ OnlyListsAgain' /\ UploadsAreServices'
  BY <1>1, <1>2 DEF Owed, Unserved, OnlyListsAgain, UploadsAreServices, AppOf, Live
<1>4. WriteInterestIsResponse'
  BY <1>1, <1>2 DEF Owed, WriteInterestIsResponse, Live
<1> QED BY <1>3, <1>4 DEF Owed

LEMMA AcceptOwed ==
  ASSUME IInv, Owed, NEW a \in Acceptor, NEW c \in Client, NEW f \in ClientFd,
         AcceptClient(a, c, f)
  PROVE  Owed'
<1>1. phase[c] \in {"idle", "request"}
  BY DEF AcceptClient, IInv, Ownership, FreshHasNothing, Owed, Unserved
<1>2. f \notin writeMaster
  <2>1. \A b \in listening : ListenFd[b] # f
    BY ConstantsAssumption DEF IInv, TypeOK, NetTypeOK, ConstantsAssumption
  <2>2. \A d \in Client : sock[d] # f
    BY ConstantsAssumption DEF ConstantsAssumption, AcceptClient, OpenFds, Sockets, NoFd
  <2> QED BY <2>1, <2>2 DEF IInv, Ownership, InterestIsOwned, Live
<1>3. /\ \A d \in Client : /\ sock'[d] = IF d = c THEN f ELSE sock[d]
                           /\ obj'[d] = IF d = c THEN "live" ELSE obj[d]
      /\ UNCHANGED <<dial, phase, writeMaster>> /\ pc = "dispatch" /\ pc' = "open"
  BY DEF AcceptClient, SetFd, regVars, IInv, TypeOK, NetTypeOK, SelectorTypeOK
<1>4. Unserved' /\ OnlyListsAgain' /\ UploadsAreServices'
  BY <1>3 DEF Owed, Unserved, OnlyListsAgain, UploadsAreServices, AppOf
<1>5. WriteInterestIsResponse'
  BY <1>1, <1>2, <1>3 DEF Owed, WriteInterestIsResponse, Live
<1> QED BY <1>4, <1>5 DEF Owed

LEMMA LoopOwed ==
  ASSUME IInv, Owed, Loop
  PROVE  Owed'
<1>1. CASE TestRunning \/ CopySets \/ PselectFails \/ PselectReturns
             \/ TimersDispatched \/ EndOfRound
  BY <1>1, QuietOwed
     DEF TestRunning, CopySets, PselectFails, PselectReturns, TimersDispatched,
         EndOfRound, netVars, regVars
<1>2. ASSUME NEW c \in Client, DropCancelledTimer(c) PROVE Owed'
  BY <1>2, QuietOwed DEF DropCancelledTimer, netVars, regVars, loopVars
<1>3. ASSUME NEW c \in Client, NEW f \in ClientFd,
             CallHandleInput(c, f) \/ CallHandleOutput(c, f)
      PROVE  Owed'
  <2>1. CASE Crash("freed") BY <2>1, CrashOwed
  <2>2. CASE /\ pc = "dispatch" /\ pc' \in {"input", "output"}
             /\ UNCHANGED <<netVars, regVars, obj>>
    BY <2>2, QuietOwed DEF netVars, regVars
  <2> QED BY <1>3, <2>1, <2>2 DEF CallHandleInput, CallHandleOutput
<1> QED BY <1>1, <1>2, <1>3 DEF Loop

LEMMA SendChunkOwed ==
  ASSUME IInv, Owed, NEW c \in Client, SendChunk(c)
  PROVE  Owed'
<1>1. /\ c \in Live /\ pc = "output" /\ pc' = "dispatch"
      /\ UNCHANGED <<dial, sock, obj, writeMaster>>
  BY DEF SendChunk, MoreToSend, InHandleOutput, Live, ReturnToLoop, regVars
<1>2. CASE UNCHANGED phase
  BY <1>1, <1>2, QuietOwed
<1>3. CASE phase[c] = "response" /\ \E p \in WholeBuffer : phase' = [phase EXCEPT ![c] = p]
  <2>1. /\ \A d \in Client : d # c => phase'[d] = phase[d]
        /\ phase'[c] = "sent"
    BY <1>3 DEF WholeBuffer, IInv, TypeOK, NetTypeOK
  <2>2. sock[c] \in writeMaster
    BY <1>1, <1>3 DEF Owed, WriteInterestIsResponse
  <2> QED BY <1>1, <2>1, <2>2, OneOwed
<1> QED BY <1>2, <1>3 DEF SendChunk

LEMMA DispatchedOwed ==
  ASSUME IInv, Owed, Dispatched
  PROVE  Owed'
<1>1. ASSUME NEW a \in Acceptor, AcceptFails(a) PROVE Owed'
  BY <1>1, QuietOwed DEF AcceptFails, netVars, regVars
<1>2. CASE ResumeFreed
  BY <1>2, CrashOwed DEF ResumeFreed
<1>3. ASSUME NEW c \in Client,
             OpenHandler(c) \/ OpenFile(c) \/ OpenFileFails(c) \/ ArmTimer(c)
      PROVE  Owed'
  BY <1>3, QuietOwed DEF OpenHandler, OpenFile, OpenFileFails, ArmTimer, netVars,
                         regVars, ReturnToLoop
<1>4. ASSUME NEW c \in Client, HandleTimer(c) \/ TimerCloses(c) PROVE Owed'
  <2>1. CASE HandleTimer(c)
    <3>1. CASE Crash("freed")
      BY <3>1, CrashOwed
    <3>2. CASE pc' = "expire" /\ UNCHANGED <<netVars, regVars, obj>>
      BY <2>1, <3>2, QuietOwed DEF HandleTimer, netVars, regVars
    <3> QED BY <2>1, <3>1, <3>2 DEF HandleTimer
  <2>2. CASE TimerCloses(c)
    BY <2>2, FcloseOwed DEF TimerCloses, TimerServed
  <2> QED BY <1>4, <2>1, <2>2
<1>5. ASSUME NEW c \in Client, LogHandleInput(c) PROVE Owed'
  BY <1>5, HandleCloseOwed, CrashOwed, AnswerOwed
     DEF LogHandleInput, InHandleInput, Sigpipe, Live
<1>6. ASSUME NEW c \in Client, RepoHandleInput(c) PROVE Owed'
  <2>1. c \in Live /\ pc = "input" /\ cur = c
    BY <1>6 DEF RepoHandleInput, InHandleInput, Live
  <2> QED
    BY <1>6, <2>1, HandleCloseOwed, CrashOwed, AnswerOwed, StartSendingOwed
       DEF RepoHandleInput, Sigpipe
<1>7. ASSUME NEW c \in Client, ServiceHandleInput(c) PROVE Owed'
  <2>1. c \in Live /\ pc = "input" /\ cur = c /\ AppOf(c) = "service"
    BY <1>7 DEF ServiceHandleInput, InHandleInput, Live
  <2>2. CASE /\ HasRequest(c)
             /\ phase' = [phase EXCEPT ![c] = "response"]
             /\ pc' = "upload"
             /\ UNCHANGED <<dial, sock, regVars, cur, obj>>
    BY <2>1, <2>2, BeginUploadOwed DEF regVars
  <2> QED
    BY <1>7, <2>1, <2>2, HandleCloseOwed, CrashOwed, AnswerOwed, StartSendingOwed
       DEF ServiceHandleInput, Sigpipe
<1>8. ASSUME NEW c \in Client, IgnoreOutput(c) PROVE Owed'
  BY <1>8, QuietOwed DEF IgnoreOutput, InHandleOutput, ReturnToLoop, netVars, regVars
<1>9. ASSUME NEW c \in Client, SendLastChunk(c) PROVE Owed'
  BY <1>9, EndSendingOwed DEF SendLastChunk, MoreToSend, InHandleOutput, Live
<1>10. ASSUME NEW c \in Client, SendFails(c) PROVE Owed'
  BY <1>10, HandleCloseOwed DEF SendFails, InHandleOutput, Live
<1>11. ASSUME NEW c \in Client, SendBroken(c) PROVE Owed'
  BY <1>11, CrashOwed DEF SendBroken, Sigpipe
<1> QED
  BY <1>1, <1>2, <1>3, <1>4, <1>5, <1>6, <1>7, <1>8, <1>9, <1>10, <1>11,
     AcceptOwed, SendChunkOwed, FinishOwed
     DEF Dispatched

LEMMA InterruptOwed ==
  ASSUME IInv, Owed, HandleSignal
  PROVE  Owed'
<1> DEFINE C == sigTable \cap Client
           A == sigTable \cap Acceptor
<1>1. ASSUME NEW c \in C, CrashInClose(c) PROVE Owed'
  BY <1>1, CrashOwed DEF CrashInClose
<1>2. ASSUME NEW failed \in SUBSET {c \in C : FcloseMayFail(c)},
             CloseAll(C \ failed, failed, A),
             pc' \in IF pc = "select" THEN {"select", "top"} ELSE {pc},
             cur' = cur
      PROVE  Owed'
  <2>1. C \ failed \in SUBSET Live /\ A \in SUBSET Acceptor
    BY DEF IInv, Ownership, CallbacksReachLive
  <2>2. pc' = pc \/ (pc # "upload" /\ pc' # "upload")
    BY <1>2
  <2> QED BY <1>2, <2>1, <2>2, CloseAllOwed
<1> QED BY <1>1, <1>2 DEF HandleSignal

LEMMA PeerOwed ==
  ASSUME IInv, Owed, NEW c \in Client, Peer(c)
  PROVE  Owed'
<1> USE DEF Peer, selectorVars, regVars, loopVars
<1>1. CASE Connect(c) \/ Hangup(c)
  BY <1>1, QuietOwed DEF Connect, Hangup
<1>2. CASE Send(c)
  <2>1. /\ \A d \in Client : d # c => phase'[d] = phase[d]
        /\ \/ phase[c] = "idle" /\ phase'[c] = "request"
           \/ phase[c] = "sent" /\ phase'[c] = "again" /\ AppOf(c) = "repo"
    BY <1>2 DEF Send, AppOf, IInv, TypeOK, NetTypeOK
  <2>2. UNCHANGED <<dial, sock, obj, writeMaster, pc, cur>>
    BY <1>2 DEF Send
  <2>3. Unserved' /\ OnlyListsAgain' /\ UploadsAreServices'
    BY <2>1, <2>2 DEF Owed, Unserved, OnlyListsAgain, UploadsAreServices, AppOf
  <2>4. WriteInterestIsResponse'
    BY <2>1, <2>2 DEF Owed, WriteInterestIsResponse, Live
  <2> QED BY <2>3, <2>4 DEF Owed
<1> QED BY <1>1, <1>2

LEMMA NextOwed ==
  ASSUME IInv, Owed, [Next]_vars
  PROVE  Owed'
<1>1. CASE ServerStep
  BY <1>1, LoopOwed, DispatchedOwed DEF ServerStep
<1>2. CASE Interrupt
  BY <1>2, InterruptOwed DEF Interrupt
<1>3. ASSUME NEW c \in Client, Upload(c) PROVE Owed'
  BY <1>3, AnswerOwed, CrashOwed DEF Upload, HandleUpload, Sigpipe, Live
<1>4. ASSUME NEW c \in Client, Timeout(c) PROVE Owed'
  BY <1>4, QuietOwed DEF Timeout, Elapse, netVars, regVars, loopVars
<1>5. ASSUME NEW c \in Client, Peer(c) PROVE Owed'
  BY <1>5, PeerOwed
<1>6. CASE UNCHANGED vars
  BY <1>6, QuietOwed DEF vars, handlerVars, selectorVars, netVars, regVars, loopVars
<1> QED BY <1>1, <1>2, <1>3, <1>4, <1>5, <1>6 DEF Next

(* A connection is watched for output exactly while a file is sent on it.  *)
THEOREM InterestFollowsResponse == Spec => []WriteInterestIsResponse
<1>1. Init => Owed
  BY InitOwed
<1>2. IInv /\ Owed /\ [Next]_vars => Owed'
  BY NextOwed
<1>3. Owed => WriteInterestIsResponse
  BY DEF Owed
<1> QED BY <1>1, <1>2, <1>3, Invariance, PTL DEF Spec

-----------------------------------------------------------------------------
(* The server implements the abstract event loop, for any number of        *)
(* connections, acceptors and descriptors, whatever goes wrong around it.  *)

HIDE ConstantsAssumption DEF Phases

(* The refinement mapping of Reactor, connection by connection.            *)
Stage(c) ==
  IF obj[c] = "live" THEN "open"
  ELSE IF obj[c] = "freed" THEN "released"
  ELSE IF c \in backlog THEN "waiting"
  ELSE IF peer[c] = "away" THEN "away" ELSE "released"

Active == IF pc \in InHandler THEN cur ELSE None

Status == IF fault # "none" THEN "crashed" ELSE IF running THEN "up" ELSE "down"

(* What the mapping needs besides IInv: table entries only ever named      *)
(* handlers that were made, and after SIGINT nothing listens, so nobody    *)
(* arrives or is admitted.                                                 *)
TableMade == \A f \in Fd, c \in Client : table[f] = c => obj[c] # "none"

ListenersEnd ==
  /\ listening \subseteq sigTable
  /\ \A c \in backlog : dial[c] \in listening
  /\ ~running => listening = {}

Admission == TableMade /\ ListenersEnd

(* No connection is an acceptor, or nothing.                               *)
LEMMA ClientsApart == \A c \in Client : c \notin Acceptor /\ c # None
  BY ConstantsAssumption

-----------------------------------------------------------------------------
(* The abstract steps, in terms of the mapping.                            *)

(* Nothing the abstract loop can see.                                       *)
LEMMA StutterStep ==
  ASSUME \A d \in Client : Stage(d)' = Stage(d), Active' = Active,
         Status' = Status
  PROVE  UNCHANGED Reactor!loopVars
  BY DEF Stage, Active, Status, Reactor!loopVars

(* A connection arrives while the server is up.                             *)
LEMMA ArriveStep ==
  ASSUME NEW c \in Client, Status = "up", Stage(c) = "away",
         Stage(c)' = "waiting", \A d \in Client \ {c} : Stage(d)' = Stage(d),
         Active' = Active, Status' = Status
  PROVE  Reactor!Next
<1>1. Reactor!Arrive(c)
  BY DEF Stage, Active, Status, Reactor!Arrive
<1> QED BY <1>1 DEF Reactor!Next

(* A waiting connection gets its handler, which is then running.            *)
LEMMA AdmitStep ==
  ASSUME NEW c \in Client, Status = "up", Active = None, Stage(c) = "waiting",
         Stage(c)' = "open", \A d \in Client \ {c} : Stage(d)' = Stage(d),
         Active' = c, Status' = Status
  PROVE  Reactor!Next
<1>1. Reactor!Admit(c)
  BY DEF Stage, Active, Status, Reactor!Admit
<1> QED BY <1>1 DEF Reactor!Next

(* The handler of an open connection is called.                             *)
LEMMA ServeStep ==
  ASSUME NEW c \in Client, Status # "crashed", Active = None,
         Stage(c) = "open", \A d \in Client : Stage(d)' = Stage(d),
         Active' = c, Status' = Status
  PROVE  Reactor!Next
<1>1. Reactor!Serve(c)
  BY DEF Stage, Active, Status, Reactor!Serve
<1> QED BY <1>1 DEF Reactor!Next

(* The running handler returns, and may have released its connection.       *)
LEMMA ReturnStep ==
  ASSUME NEW c \in Client, Status # "crashed", Active = c, Stage(c) = "open",
         Stage(c)' \in {"open", "released"},
         \A d \in Client \ {c} : Stage(d)' = Stage(d),
         Active' = None, Status' = Status
  PROVE  Reactor!Next
<1>1. Reactor!Return(c)
  BY DEF Stage, Active, Status, Reactor!Return
<1> QED BY <1>1 DEF Reactor!Next

(* SIGINT releases open connections and turns away the waiting ones.        *)
LEMMA InterruptStep ==
  ASSUME NEW S \in SUBSET {c \in Client : Stage(c) = "open"},
         Status # "crashed", Status' = "down", Active' = Active,
         \A d \in Client :
           Stage(d)' = IF d \in S \/ Stage(d) = "waiting" THEN "released"
                       ELSE Stage(d)
  PROVE  Reactor!Next
<1>1. Reactor!Interrupt
  BY DEF Stage, Active, Status, Reactor!Interrupt
<1> QED BY <1>1 DEF Reactor!Next

(* A crash changes nothing but the status.                                  *)
LEMMA CrashStep ==
  ASSUME NEW f, Crash(f), f # "none", fault = "none"
  PROVE  Reactor!Next
<1>1. Reactor!Crash
  BY DEF Crash, netVars, regVars, timerVars, loopVars, Reactor!Crash
<1> QED BY <1>1 DEF Reactor!Next

-----------------------------------------------------------------------------
(* Admission is inductive, given IInv.                                     *)

(* At first only the acceptors are in the table, and all listen.            *)
LEMMA InitAdmission == Init => Admission
<1> SUFFICES ASSUME Init PROVE Admission OBVIOUS
<1> USE DEF Init, NetInit, SelectorInit
<1>1. TableMade
  <2>1. \A f \in Listening(Acceptor) :
          (CHOOSE a \in Acceptor : ListenFd[a] = f) \in Acceptor
    BY DEF Listening
  <2>2. \A f \in Fd : table[f] = IF f \in Listening(Acceptor)
                               THEN CHOOSE a \in Acceptor : ListenFd[a] = f
                               ELSE None
    OBVIOUS
  <2> HIDE DEF Init, NetInit, SelectorInit
  <2>3. \A f \in Fd : table[f] \in Acceptor \cup {None}
    BY <2>1, <2>2
  <2> QED BY <2>3, ClientsApart DEF TableMade
<1>2. ListenersEnd
  BY DEF ListenersEnd, AcceptorSignals
<1> QED BY <1>1, <1>2 DEF Admission

(* A step that registers nobody anew, makes nothing unmade and lets nobody *)
(* else listen or arrive.                                                  *)
LEMMA AdmissionStep ==
  ASSUME IInv, Admission,
         UNCHANGED <<dial, listening, running>>,
         \A d \in Client : obj'[d] = "none" => obj[d] = "none",
         \A f \in Fd : \/ table'[f] = table[f]
                       \/ table'[f] \in Client /\ obj'[table'[f]] # "none",
         sigTable \cap Acceptor \subseteq sigTable',
         \A c \in backlog' : c \in backlog \/ dial[c] \in listening
  PROVE  Admission'
<1>1. TableMade'
  BY DEF Admission, TableMade
<1>2. ListenersEnd'
  BY DEF IInv, TypeOK, NetTypeOK, Admission, ListenersEnd
<1> QED BY <1>1, <1>2 DEF Admission

-----------------------------------------------------------------------------
(* Every step of the server is a step of the event loop, or none.          *)

Step == Reactor!Next \/ UNCHANGED Reactor!loopVars

(* A step that leaves connections alone and calls or ends no handler.       *)
LEMMA QuietRefines ==
  ASSUME UNCHANGED <<obj, backlog, peer, fault, running>>,
         \/ pc' = pc /\ cur' = cur
         \/ pc \notin InHandler /\ pc' \notin InHandler
         \/ pc \in InHandler /\ pc' \in InHandler /\ cur' = cur
  PROVE  Step
<1>1. \A d \in Client : Stage(d)' = Stage(d)
  BY DEF Stage
<1>2. Active' = Active /\ Status' = Status
  BY DEF Active, Status
<1> QED BY <1>1, <1>2, StutterStep DEF Step

(* A fault is the abstract crash.                                           *)
LEMMA CrashRefines ==
  ASSUME IInv, Admission, NEW f, Crash(f), f # "none", fault = "none"
  PROVE  Step /\ Admission'
<1>1. Admission'
  BY AdmissionStep DEF Crash, netVars, regVars, loopVars
<1> QED BY <1>1, CrashStep DEF Step

(* A handler returns to the loop, its connection kept.                     *)
LEMMA ReturnRefines ==
  ASSUME IInv, NEW c \in Live, pc \in InHandler, cur = c, fault = "none",
         ReturnToLoop \/ (pc' = "timers" /\ running' = running),
         UNCHANGED <<obj, backlog, peer, fault>>
  PROVE  Step
<1>1. /\ \A d \in Client : Stage(d)' = Stage(d)
      /\ c \in Client /\ Stage(c) = "open"
  BY DEF Stage, Live
<1>2. Active = c /\ Active' = None /\ Status' = Status /\ Status # "crashed"
  BY DEF ReturnToLoop, Active, Status, InHandler
<1> QED BY <1>1, <1>2, ReturnStep DEF Step

(* Closing releases the handlers closed, and the connections that wait for *)
(* an acceptor closed.                                                     *)
LEMMA CloseAllStages ==
  ASSUME IInv, NEW S \in SUBSET Live, NEW F \in SUBSET Client,
         NEW A \in SUBSET Acceptor, CloseAll(S, F, A)
  PROVE  \A d \in Client :
           Stage(d)' = IF d \in S \/ (d \in backlog /\ dial[d] \in A)
                       THEN "released" ELSE Stage(d)
<1>1. \A d \in Client : obj'[d] = IF d \in S THEN "freed" ELSE obj[d]
  BY DEF CloseAll
<1>2. \A d \in backlog : obj[d] = "none" /\ peer[d] # "away"
  BY DEF IInv, Ownership, FreshHasNothing
<1> QED BY <1>1, <1>2 DEF CloseAll, Stage, Live

(* Closing handlers opens no door.                                          *)
LEMMA CloseAllAdmission ==
  ASSUME IInv, Admission, NEW S \in SUBSET Client, NEW F,
         CloseAll(S, F, {}), UNCHANGED running
  PROVE  Admission'
<1>1. \A d \in Client : obj'[d] = "none" => obj[d] = "none"
  BY DEF CloseAll
<1>2. table' = table /\ sigTable \cap Acceptor \subseteq sigTable'
  <2>1. table' = table
    BY DEF CloseAll, UnRegisterIO
  <2>2. sigTable' = sigTable \ (S \cup {})
    BY Zenon DEF CloseAll, UnRegisterSignal
  <2>3. \A a \in Acceptor : a \notin S
    BY ClientsApart
  <2> QED BY <2>1, <2>2, <2>3
<1>3. listening' = listening /\ dial' = dial /\ backlog' \subseteq backlog
  BY DEF CloseAll
<1> QED BY <1>1, <1>2, <1>3, AdmissionStep

(* fclose crashes, or HandleClose goes on, or the handler returns.          *)
LEMMA FcloseRefines ==
  ASSUME IInv, Admission, NEW c \in Client, c \in Live, pc \in InHandler,
         cur = c, fault = "none"
  PROVE  /\ CrashInFclose(c) => Step /\ Admission'
         /\ \A p \in {"close", "closeTimer"} :
              CloseFile(c, p) => Step /\ Admission'
         /\ /\ FcloseFails(c)
            /\ ReturnToLoop \/ TimerServed(c)
            => Step /\ Admission'
<1>1. CrashInFclose(c) => Step /\ Admission'
  BY CrashRefines DEF CrashInFclose
<1>2. ASSUME NEW p \in {"close", "closeTimer"}, CloseFile(c, p)
      PROVE  Step /\ Admission'
  <2>1. Step
    BY <1>2, QuietRefines DEF CloseFile, netVars, InHandler
  <2>2. Admission'
    BY <1>2, AdmissionStep DEF CloseFile, netVars, regVars
  <2> QED BY <2>1, <2>2
<1>3. ASSUME FcloseFails(c), ReturnToLoop \/ TimerServed(c)
      PROVE  Step /\ Admission'
  <2>1. Step
    BY <1>3, ReturnRefines DEF FcloseFails, TimerServed, netVars
  <2>2. Admission'
    BY <1>3, AdmissionStep DEF FcloseFails, ReturnToLoop, TimerServed, netVars,
                               regVars
  <2> QED BY <2>1, <2>2
<1> QED BY <1>1, <1>2, <1>3

LEMMA HandleCloseRefines ==
  ASSUME IInv, Admission, NEW c \in Client, c \in Live, HandleClose(c),
         pc \in InHandler, cur = c, fault = "none"
  PROVE  Step /\ Admission'
  BY FcloseRefines DEF HandleClose

(* The rest of HandleClose releases the connection.                         *)
LEMMA FinishRefines ==
  ASSUME IInv, Admission, NEW c \in Client, fault = "none",
         FinishClose(c) \/ FinishTimer(c)
  PROVE  Step /\ Admission'
<1>1. c \in Live /\ pc \in InHandler /\ cur = c
  BY DEF FinishClose, FinishTimer, Live, InHandler
<1>2. CASE Crash("timer")
  BY <1>2, CrashRefines
<1>3. CASE /\ CloseAll({c}, {}, {})
           /\ pc' \in {"dispatch", "timers"}
           /\ UNCHANGED <<running, fault>>
  <2>1. CloseAll({c}, {}, {}) /\ running' = running
    BY <1>3
  <2>2. \A d \in Client : Stage(d)' = IF d = c THEN "released" ELSE Stage(d)
    <3>1. {c} \in SUBSET Live /\ {} \in SUBSET Client /\ {} \in SUBSET Acceptor
      BY <1>1
    <3>2. \A d \in Client :
            Stage(d)' = IF d \in {c} \/ (d \in backlog /\ dial[d] \in {})
                        THEN "released" ELSE Stage(d)
      BY <2>1, <3>1, CloseAllStages
    <3> QED BY <3>2
  <2>3. Admission'
    BY <2>1, CloseAllAdmission
  <2>4. /\ Stage(c) = "open" /\ Active = c /\ Status # "crashed"
        /\ Active' = None /\ Status' = Status
    BY <1>1, <1>3 DEF Live, Stage, Active, Status, InHandler
  <2> QED BY <2>2, <2>3, <2>4, ReturnStep DEF Step
<1> QED
  BY <1>2, <1>3 DEF FinishClose, FinishTimer, ReturnToLoop, TimerServed

(* A handler that has answered returns.                                     *)
LEMMA AnswerRefines ==
  ASSUME IInv, Admission, NEW c \in Live, NEW n, Answer(c, n),
         pc \in InHandler, cur = c, fault = "none"
  PROVE  Step /\ Admission'
<1>1. Step
  BY ReturnRefines DEF Answer
<1>2. Admission'
  BY AdmissionStep DEF Answer, ReturnToLoop, regVars
<1> QED BY <1>1, <1>2

(* ... and so does one that registers to send the rest of a file,           *)
LEMMA KeepSendingRefines ==
  ASSUME IInv, Admission, NEW c \in Live, NEW n, KeepSending(c, n),
         pc \in InHandler, cur = c, fault = "none"
  PROVE  Step /\ Admission'
<1>1. Step
  BY ReturnRefines DEF KeepSending
<1>2. \A f \in Fd : table'[f] = table[f] \/ table'[f] = c
  BY DEF KeepSending, RegisterWrite, IInv, TypeOK, SelectorTypeOK
<1>3. Admission'
  BY <1>2, AdmissionStep DEF KeepSending, ReturnToLoop, Live
<1> QED BY <1>1, <1>3

(* ... and one that has sent the last of it.                                *)
LEMMA EndSendingRefines ==
  ASSUME IInv, Admission, NEW c \in Live, NEW p, EndSending(c, p),
         pc \in InHandler, cur = c, fault = "none"
  PROVE  Step /\ Admission'
<1>1. Step
  BY ReturnRefines DEF EndSending
<1>2. Admission'
  BY AdmissionStep DEF EndSending, UnRegisterIO, ReturnToLoop
<1> QED BY <1>1, <1>2

(* The first chunk of a file is one of these, or a crash.                   *)
LEMMA StartSendingRefines ==
  ASSUME IInv, Admission, NEW c \in Live, NEW b, StartSending(c, b),
         pc \in InHandler, cur = c, fault = "none"
  PROVE  Step /\ Admission'
<1>1. CASE SendAfterClose(c)
  BY <1>1, CrashRefines, KeepSendingRefines DEF SendAfterClose
<1> QED
  BY <1>1, EndSendingRefines, KeepSendingRefines, CrashRefines
     DEF StartSending, Sigpipe

(* The loop's own steps: all quiet, but for calling a handler.              *)
LEMMA LoopRefines ==
  ASSUME IInv, Admission, Loop, fault = "none"
  PROVE  Step /\ Admission'
<1>1. CASE TestRunning \/ CopySets \/ PselectFails \/ PselectReturns
             \/ TimersDispatched \/ EndOfRound
  <2> USE <1>1 DEF TestRunning, CopySets, PselectFails, PselectReturns,
                   TimersDispatched, EndOfRound, netVars, regVars
  <2>1. Step
    BY QuietRefines DEF InHandler
  <2>2. Admission'
    BY AdmissionStep
  <2> QED BY <2>1, <2>2
<1>2. ASSUME NEW c \in Client, DropCancelledTimer(c) PROVE Step /\ Admission'
  <2> USE <1>2 DEF DropCancelledTimer, netVars, regVars, loopVars
  <2>1. Step
    BY QuietRefines
  <2>2. Admission'
    BY AdmissionStep
  <2> QED BY <2>1, <2>2
<1>3. ASSUME NEW c \in Client, NEW f \in ClientFd,
             CallHandleInput(c, f) \/ CallHandleOutput(c, f)
      PROVE  Step /\ Admission'
  <2>1. CASE Crash("freed") BY <2>1, CrashRefines
  <2>2. CASE /\ obj[c] # "freed"
             /\ pc = "dispatch" /\ pc' \in {"input", "output"} /\ cur' = c
             /\ UNCHANGED <<netVars, regVars, running, obj, fault>>
    <3> USE <2>2 DEF netVars, regVars
    <3>1. obj[c] = "live"
      <4>1. table[f] = c /\ f \in Fd
        BY <1>3 DEF CallHandleInput, CallHandleOutput, Fd
      <4>2. obj[c] # "none"
        BY <4>1 DEF Admission, TableMade
      <4> QED BY <4>2 DEF IInv, TypeOK, SelectorTypeOK
    <3>2. \A d \in Client : Stage(d)' = Stage(d)
      BY DEF Stage
    <3>3. Stage(c) = "open"
      BY <3>1 DEF Stage
    <3>4. Active = None /\ Active' = c /\ Status' = Status /\ Status # "crashed"
      BY DEF Active, Status, InHandler
    <3>5. Step
      BY <3>2, <3>3, <3>4, ServeStep DEF Step
    <3>6. Admission'
      BY AdmissionStep
    <3> QED BY <3>5, <3>6
  <2> QED BY <1>3, <2>1, <2>2 DEF CallHandleInput, CallHandleOutput
<1> QED BY <1>1, <1>2, <1>3 DEF Loop

(* accept admits a connection; the acceptor still listens, so the loop is up.*)
LEMMA AcceptRefines ==
  ASSUME IInv, Admission, NEW a \in Acceptor, NEW c \in Client,
         NEW f \in ClientFd, AcceptClient(a, c, f), fault = "none"
  PROVE  Step /\ Admission'
<1> USE DEF AcceptClient, regVars
<1>1. running /\ obj[c] = "none"
  BY DEF IInv, Ownership, FreshHasNothing, Admission, ListenersEnd
<1>2. \A d \in Client : obj'[d] = IF d = c THEN "live" ELSE obj[d]
  BY DEF IInv, TypeOK, SelectorTypeOK
<1>3. /\ Stage(c) = "waiting" /\ Stage(c)' = "open"
      /\ \A d \in Client \ {c} : Stage(d)' = Stage(d)
  BY <1>1, <1>2 DEF Stage
<1>4. Active = None /\ Active' = c /\ Status = "up" /\ Status' = Status
  BY <1>1 DEF Active, Status, InHandler
<1>5. Step
  BY <1>3, <1>4, AdmitStep DEF Step
<1>6. Admission'
  BY <1>2, AdmissionStep
<1> QED BY <1>5, <1>6

(* Open goes on with the handler just made, or returns.                     *)
LEMMA OpenRefines ==
  ASSUME IInv, Admission, NEW c \in Client, fault = "none",
         OpenHandler(c) \/ OpenFile(c) \/ OpenFileFails(c) \/ ArmTimer(c)
  PROVE  Step /\ Admission'
<1> USE DEF netVars, regVars
<1>1. c \in Live /\ pc \in InHandler /\ cur = c
  BY DEF OpenHandler, OpenFile, OpenFileFails, ArmTimer, IInv, Ownership,
         UnderConstruction, Live, InHandler
<1>2. CASE OpenHandler(c)
  <2>1. Step
    BY <1>1, <1>2, QuietRefines DEF OpenHandler, InHandler
  <2>2. \A f \in Fd : table'[f] = table[f] \/ table'[f] = c
    BY <1>2 DEF OpenHandler, RegisterRead, IInv, TypeOK, SelectorTypeOK
  <2>3. Admission'
    BY <1>1, <1>2, <2>2, AdmissionStep DEF OpenHandler, RegisterSignal, Live
  <2> QED BY <2>1, <2>3
<1>3. CASE OpenFile(c) \/ OpenFileFails(c) \/ ArmTimer(c)
  <2>1. /\ UNCHANGED <<netVars, regVars, running, obj, fault>>
        /\ \/ pc' \in InHandler /\ cur' = cur
           \/ ReturnToLoop
    BY <1>3 DEF OpenFile, OpenFileFails, ArmTimer, ReturnToLoop, InHandler
  <2>2. Step
    BY <1>1, <2>1, QuietRefines, ReturnRefines
  <2>3. Admission'
    BY <2>1, AdmissionStep
  <2> QED BY <2>2, <2>3
<1> QED BY <1>2, <1>3

(* The queue calls a timer's handler, which closes its file first.          *)
LEMMA TimerRefines ==
  ASSUME IInv, Admission, NEW c \in Client, fault = "none",
         HandleTimer(c) \/ TimerCloses(c)
  PROVE  Step /\ Admission'
<1>1. CASE HandleTimer(c)
  <2>1. CASE Crash("freed")
    BY <2>1, CrashRefines
  <2>2. CASE /\ pc' = "expire" /\ cur' = c
             /\ UNCHANGED <<netVars, regVars, running, obj, fault>>
    <3> USE <2>2 DEF netVars, regVars
    <3>1. obj[c] = "live" /\ pc = "timers"
      BY <1>1 DEF HandleTimer, IInv, Ownership, CallbacksReachLive, Live
    <3>2. \A d \in Client : Stage(d)' = Stage(d)
      BY DEF Stage
    <3>3. Stage(c) = "open"
      BY <3>1 DEF Stage
    <3>4. Active = None /\ Active' = c /\ Status' = Status /\ Status # "crashed"
      BY <3>1 DEF Active, Status, InHandler
    <3>5. Step
      BY <3>2, <3>3, <3>4, ServeStep DEF Step
    <3>6. Admission'
      BY AdmissionStep
    <3> QED BY <3>5, <3>6
  <2> QED BY <1>1, <2>1, <2>2 DEF HandleTimer
<1>2. CASE TimerCloses(c)
  <2>1. c \in Live /\ pc \in InHandler /\ cur = c
    BY <1>2 DEF TimerCloses, Live, InHandler
  <2> QED BY <1>2, <2>1, FcloseRefines DEF TimerCloses
<1> QED BY <1>1, <1>2

(* HandleInput, of each class.                                              *)
LEMMA InputRefines ==
  ASSUME IInv, Admission, NEW c \in Client, fault = "none",
         \/ LogHandleInput(c) \/ RepoHandleInput(c) \/ ServiceHandleInput(c)
  PROVE  Step /\ Admission'
<1>1. c \in Live /\ pc = "input" /\ pc \in InHandler /\ cur = c
  BY DEF LogHandleInput, RepoHandleInput, ServiceHandleInput, InHandleInput,
         Live, InHandler
<1>2. CASE LogHandleInput(c)
  BY <1>1, <1>2, HandleCloseRefines, CrashRefines, AnswerRefines
     DEF LogHandleInput, Sigpipe
<1>3. CASE RepoHandleInput(c)
  BY <1>1, <1>3, HandleCloseRefines, CrashRefines, AnswerRefines,
     StartSendingRefines
     DEF RepoHandleInput, Sigpipe
<1>4. CASE ServiceHandleInput(c)
  <2>1. CASE /\ pc' = "upload"
             /\ UNCHANGED <<dial, peer, backlog, listening, regVars, running,
                            cur, obj, fault>>
    <3>1. Step
      BY <1>1, <2>1, QuietRefines DEF InHandler
    <3>2. Admission'
      BY <2>1, AdmissionStep DEF regVars
    <3> QED BY <3>1, <3>2
  <2> QED
    BY <1>1, <1>4, <2>1, HandleCloseRefines, CrashRefines, AnswerRefines,
       StartSendingRefines
       DEF ServiceHandleInput, Sigpipe
<1> QED BY <1>2, <1>3, <1>4

(* HandleOutput, of each class.                                             *)
LEMMA OutputRefines ==
  ASSUME IInv, Admission, NEW c \in Client, fault = "none",
         \/ IgnoreOutput(c) \/ SendChunk(c) \/ SendLastChunk(c)
         \/ SendFails(c) \/ SendBroken(c)
  PROVE  Step /\ Admission'
<1>1. c \in Live /\ pc = "output" /\ pc \in InHandler /\ cur = c
  BY DEF IgnoreOutput, SendChunk, SendLastChunk, SendFails, SendBroken,
         MoreToSend, InHandleOutput, Live, InHandler
<1>2. CASE IgnoreOutput(c) \/ SendChunk(c)
  <2>1. ReturnToLoop /\ UNCHANGED <<dial, peer, backlog, listening, regVars,
                                    obj, fault>>
    BY <1>2 DEF IgnoreOutput, SendChunk, netVars
  <2>2. Step
    BY <1>1, <2>1, ReturnRefines
  <2>3. Admission'
    BY <2>1, AdmissionStep DEF ReturnToLoop, regVars
  <2> QED BY <2>2, <2>3
<1>3. CASE SendLastChunk(c)
  BY <1>1, <1>3, EndSendingRefines DEF SendLastChunk
<1>4. CASE SendFails(c)
  BY <1>1, <1>4, HandleCloseRefines DEF SendFails
<1>5. CASE SendBroken(c)
  BY <1>5, CrashRefines DEF SendBroken, Sigpipe
<1> QED BY <1>2, <1>3, <1>4, <1>5

(* Every step that runs a handler or makes one.                             *)
LEMMA DispatchedRefines ==
  ASSUME IInv, Admission, Dispatched, fault = "none"
  PROVE  Step /\ Admission'
<1>1. ASSUME NEW a \in Acceptor, AcceptFails(a) PROVE Step /\ Admission'
  <2>1. Step
    BY <1>1, QuietRefines DEF AcceptFails, netVars
  <2>2. Admission'
    BY <1>1, AdmissionStep DEF AcceptFails, netVars, regVars
  <2> QED BY <2>1, <2>2
<1>2. CASE ResumeFreed
  BY <1>2, CrashRefines DEF ResumeFreed
<1> QED
  BY <1>1, <1>2, AcceptRefines, OpenRefines, TimerRefines, FinishRefines,
     InputRefines, OutputRefines
     DEF Dispatched

(* SIGINT: nobody listens any more, so nobody is left waiting.              *)
LEMMA InterruptRefines ==
  ASSUME IInv, Admission, Interrupt
  PROVE  Step /\ Admission'
<1> DEFINE C == sigTable \cap Client
           A == sigTable \cap Acceptor
<1>1. ASSUME NEW c \in C, CrashInClose(c), fault = "none"
      PROVE  Step /\ Admission'
  BY <1>1, CrashRefines DEF CrashInClose
<1>2. ASSUME NEW failed \in SUBSET {c \in C : FcloseMayFail(c)},
             CloseAll(C \ failed, failed, A),
             running' = FALSE,
             pc' \in IF pc = "select" THEN {"select", "top"} ELSE {pc},
             cur' = cur, fault = "none", fault' = "none"
      PROVE  Step /\ Admission'
  <2>1. /\ C \ failed \in SUBSET Live /\ C \ failed \in SUBSET Client
        /\ failed \in SUBSET Client /\ A \in SUBSET Acceptor
    BY DEF IInv, Ownership, CallbacksReachLive
  <2>2. listening \subseteq A /\ \A c \in backlog : dial[c] \in A
    BY DEF IInv, TypeOK, NetTypeOK, Admission, ListenersEnd
  <2>3. \A d \in Client :
          Stage(d)' = IF d \in C \ failed \/ Stage(d) = "waiting"
                      THEN "released" ELSE Stage(d)
    <3>1. \A d \in Client :
            Stage(d)' = IF d \in C \ failed \/ (d \in backlog /\ dial[d] \in A)
                        THEN "released" ELSE Stage(d)
      BY <1>2, <2>1, CloseAllStages
    <3>2. \A d \in Client : d \in backlog <=> Stage(d) = "waiting"
      BY DEF IInv, Ownership, FreshHasNothing, Stage
    <3> QED BY <2>2, <3>1, <3>2
  <2>4. Status # "crashed" /\ Status' = "down" /\ Active' = Active
    BY <1>2 DEF Status, Active, InHandler
  <2>5. C \ failed \in SUBSET {c \in Client : Stage(c) = "open"}
    BY <2>1 DEF Stage, Live
  <2>6. Step
    BY <2>3, <2>4, <2>5, InterruptStep DEF Step
  <2>7. listening' = {} /\ backlog' = {}
    BY <1>2, <2>2 DEF CloseAll
  <2>8. TableMade'
    <3>1. \A d \in Client : obj'[d] = "none" => obj[d] = "none"
      BY <1>2 DEF CloseAll
    <3>2. table' = table
      BY <1>2 DEF CloseAll, UnRegisterIO
    <3> QED BY <3>1, <3>2 DEF Admission, TableMade
  <2> QED BY <2>6, <2>7, <2>8 DEF Admission, ListenersEnd
<1> QED BY <1>1, <1>2 DEF Interrupt, HandleSignal

(* What a peer does is an arrival, or invisible.                            *)
LEMMA PeerRefines ==
  ASSUME IInv, Admission, NEW c \in Client, Peer(c)
  PROVE  Step /\ Admission'
<1> USE DEF Peer, selectorVars, loopVars, regVars
<1>1. Admission'
  <2>1. \A d \in backlog' : d \in backlog \/ dial[d] \in listening
    BY DEF Connect, Send, Hangup
  <2>2. UNCHANGED <<dial, listening>>
    BY DEF Connect, Send, Hangup
  <2> QED BY <2>1, <2>2, AdmissionStep
<1>2. CASE Connect(c)
  <2>1. obj[c] = "none" /\ c \notin backlog
    BY <1>2 DEF Connect, IInv, Ownership, FreshHasNothing
  <2>2. \A d \in Client : peer'[d] = IF d = c THEN "here" ELSE peer[d]
    BY <1>2 DEF Connect, IInv, TypeOK, NetTypeOK
  <2>3. /\ Stage(c) = "away" /\ Stage(c)' = "waiting"
        /\ \A d \in Client \ {c} : Stage(d)' = Stage(d)
    BY <1>2, <2>1, <2>2 DEF Connect, Stage
  <2>4. running
    BY <1>2 DEF Connect, Admission, ListenersEnd
  <2>5. Status = "up" /\ Status' = Status /\ Active' = Active
    BY <2>4 DEF Status, Active
  <2> QED BY <1>1, <2>3, <2>5, ArriveStep DEF Step
<1>3. CASE Send(c) \/ Hangup(c)
  <2>1. \A d \in Client : peer'[d] = "away" <=> peer[d] = "away"
    BY <1>3 DEF Send, Hangup, IInv, TypeOK, NetTypeOK
  <2>2. \A d \in Client : Stage(d)' = Stage(d)
    BY <1>3, <2>1 DEF Send, Hangup, Stage
  <2>3. Status' = Status /\ Active' = Active
    BY DEF Status, Active
  <2> QED BY <1>1, <2>2, <2>3, StutterStep DEF Step
<1> QED BY <1>2, <1>3

(* Every step.                                                              *)
LEMMA NextRefines ==
  ASSUME IInv, Admission, [Next]_vars
  PROVE  Step /\ Admission'
<1>1. CASE ServerStep
  BY <1>1, LoopRefines, DispatchedRefines DEF ServerStep
<1>2. CASE Interrupt
  BY <1>2, InterruptRefines
<1>3. ASSUME NEW c \in Client, Upload(c) PROVE Step /\ Admission'
  <2>1. c \in Live /\ pc \in InHandler /\ cur = c /\ fault = "none"
    BY <1>3 DEF Upload, HandleUpload, Live, InHandler
  <2> QED
    BY <1>3, <2>1, AnswerRefines, CrashRefines DEF Upload, HandleUpload, Sigpipe
<1>4. ASSUME NEW c \in Client, Timeout(c) PROVE Step /\ Admission'
  <2> USE <1>4 DEF Timeout, Elapse, netVars, regVars, loopVars
  <2>1. Step
    BY QuietRefines
  <2>2. Admission'
    BY AdmissionStep
  <2> QED BY <2>1, <2>2
<1>5. ASSUME NEW c \in Client, Peer(c) PROVE Step /\ Admission'
  BY <1>5, PeerRefines
<1>6. CASE UNCHANGED vars
  <2> USE <1>6 DEF vars, handlerVars, selectorVars, netVars, regVars, loopVars
  <2>1. Step
    BY QuietRefines
  <2>2. Admission'
    BY AdmissionStep
  <2> QED BY <2>1, <2>2
<1> QED BY <1>1, <1>2, <1>3, <1>4, <1>5, <1>6 DEF Next

(* The initial states map to the abstract one.                              *)
LEMMA InitRefines == Init => Reactor!Init
<1> SUFFICES ASSUME Init PROVE Reactor!Init OBVIOUS
<1> QED BY DEF Init, NetInit, SelectorInit, Reactor!Init, InHandler

(* The server is an event loop: handlers run one at a time, connections    *)
(* are admitted, served and expired between them, and a connection that    *)
(* was released is never served again, short of a crash.                   *)
THEOREM ServerImplementsReactor == Spec => Refinement
<1>1. Init => Admission /\ Reactor!Init
  BY InitAdmission, InitRefines
<1>2. IInv /\ Admission /\ [Next]_vars => Admission'
  BY NextRefines
<1>3. IInv /\ Admission /\ [Next]_vars => [Reactor!Next]_Reactor!loopVars
  BY NextRefines DEF Step
<1> QED
  BY <1>1, <1>2, <1>3, Invariance, PTL DEF Spec, Refinement, Reactor!Spec

=============================================================================
