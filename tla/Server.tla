------------------------------- MODULE Server -------------------------------
(***************************************************************************)
(* The server of src/src/server.cpp: the Selector, its acceptors, their    *)
(* handlers and the peers, composed.                                       *)
(***************************************************************************)
EXTENDS Acceptors

vars == handlerVars

Init == NetInit /\ SelectorInit /\ file = [c \in Client |-> "none"]

(* One step of the server's only thread.                                   *)
Loop ==
  \/ TestRunning \/ CopySets \/ PselectFails \/ PselectReturns
  \/ TimersDispatched \/ EndOfRound
  \/ \E c \in Client : DropCancelledTimer(c)
  \/ \E c \in Client, f \in ClientFd :
       CallHandleInput(c, f) \/ CallHandleOutput(c, f)

Dispatched ==
  \/ \E a \in Acceptor : AcceptFails(a)
  \/ \E a \in Acceptor, c \in Client, f \in ClientFd : AcceptClient(a, c, f)
  \/ ResumeFreed
  \/ \E c \in Client :
       \/ OpenHandler(c) \/ OpenFile(c) \/ OpenFileFails(c) \/ ArmTimer(c)
       \/ HandleTimer(c) \/ TimerCloses(c) \/ FinishTimer(c) \/ FinishClose(c)
       \/ LogHandleInput(c) \/ RepoHandleInput(c) \/ ServiceHandleInput(c)
       \/ IgnoreOutput(c) \/ SendChunk(c) \/ SendLastChunk(c)
       \/ SendFails(c) \/ SendBroken(c)

(* The server's own progress, but for the body of an upload: its bytes     *)
(* come when the peer sends them.                                          *)
ServerStep == fault = "none" /\ ((Loop /\ UNCHANGED file) \/ Dispatched)

Upload(c) == fault = "none" /\ HandleUpload(c)

Interrupt == fault = "none" /\ HandleSignal

Timeout(c) == fault = "none" /\ Elapse(c) /\ UNCHANGED file

(* What the peers do.                                                      *)
Peer(c) ==
  /\ fault = "none"
  /\ pc # "returned"
  /\ Connect(c) \/ Send(c) \/ Hangup(c)
  /\ UNCHANGED <<selectorVars, file>>

Next ==
  \/ ServerStep
  \/ Interrupt
  \/ \E c \in Client : Upload(c) \/ Timeout(c) \/ Peer(c)

Spec == Init /\ [][Next]_vars

-----------------------------------------------------------------------------
(* Fairness.                                                               *)

(* The server is inside a read or a write on cur's socket and has to wait  *)
(* for its peer: for the input that its bit promised and that is not       *)
(* there, for the body of an upload, or for room to write, since only      *)
(* listening sockets are set non-blocking (acceptor.h).                    *)
PeerHolds ==
  /\ pc \in {"input", "upload", "output"}
  /\ obj[cur] = "live"
  /\ peer[cur] = "here"

(* What the code gives by itself: the server's loop never stops taking     *)
(* steps it can take unless a peer holds it, and time passes, so every     *)
(* node in the queue elapses.                                              *)
LoopFairness ==
  /\ WF_vars(~PeerHolds /\ (ServerStep \/ \E c \in Client : Upload(c)))
  /\ \A c \in Client : WF_vars(Timeout(c))

LoopSpec == Spec /\ LoopFairness

(* Peers that keep their side of the protocol read what they are sent, so  *)
(* that a write returns, a socket is found writable again and again, and   *)
(* sending chunks of a file (files are finite) reaches the last one; and   *)
(* the body of an announced upload arrives, or its connection breaks.      *)
ReportWritable(c) ==
  /\ fault = "none"
  /\ PselectReturns
  /\ sock[c] \in writeCurrent'
  /\ UNCHANGED file

PeerFairness ==
  /\ WF_vars(ServerStep)
  /\ \A c \in Client :
       /\ WF_vars(Upload(c))
       /\ SF_vars(ReportWritable(c))
       /\ SF_vars(fault = "none" /\ SendLastChunk(c))

FairSpec == LoopSpec /\ PeerFairness

-----------------------------------------------------------------------------
(* Every variable has its type.                                            *)
TypeOK == NetTypeOK /\ SelectorTypeOK /\ FileTypeOK

Live == {c \in Client : obj[c] = "live"}

(* A descriptor the Selector watches is open and belongs to exactly the    *)
(* object its table entry points to, which has not been destroyed: pselect *)
(* never runs on a closed descriptor, and a bit it sets leads to its       *)
(* owner, although UnRegisterIO erases no entry and descriptors are reused *)
(* (RegisterIO, UnRegisterIO, the three HandleClose and the acceptor's).   *)
InterestIsOwned ==
  \A f \in readMaster \cup writeMaster :
    \/ \E a \in listening : f = ListenFd[a] /\ table[f] = a
    \/ \E c \in Live : f = sock[c] /\ table[f] = c

(* A node of the timer queue that will call HandleTimer, and an entry of   *)
(* the signal table that will be called on SIGINT, belong to a handler     *)
(* that still exists: HandleClose cancels and unregisters before Destroy.  *)
CallbacksReachLive ==
  /\ \A c \in Client : timer[c] = "armed" => c \in Live
  /\ sigTable \cap Client \subseteq Live

(* No connection is forgotten: a handler that exists, other than the one   *)
(* being opened, is watched for input (its peer's close will be seen) and  *)
(* will be told of SIGINT, whatever failed in Open or HandleClose.         *)
LiveIsRegistered ==
  \A c \in Live :
    c # cur \/ pc # "open" => sock[c] \in readMaster /\ c \in sigTable

(* A connection is watched for output exactly while a file is being sent   *)
(* on it: no busy loop on a writable socket, and no response that nobody   *)
(* will continue.                                                          *)
WriteInterestIsResponse ==
  \A c \in Live :
    sock[c] \in writeMaster
      <=> /\ phase[c] \in {"response", "sent", "again"}
          /\ ~(pc = "upload" /\ cur = c)

(* As long as nothing goes wrong around it (peers leave between            *)
(* conversations, no timeout, no signal, no failing call, files that do    *)
(* not end on a buffer boundary), the server never reaches a fault: no     *)
(* freed handler is called, no NULL or closed FILE* or timer is used.      *)
NoFault == fault = "none"

(* A connection escapes CLIENT_TIMEOUT only in three ways: it is still     *)
(* being opened; its fopen failed, and Acceptor::HandleInput returned      *)
(* before SchedualTimer; or its time did elapse, and HandleClose returned  *)
(* early because its fclose failed, which the logger's does not look at.   *)
(* Every other handler has its node in the queue.                          *)
LiveHasTimer ==
  \A c \in Live :
    \/ timer[c] = "armed"
    \/ c = cur /\ pc \in {"open", "fopen", "arm"}
    \/ timer[c] = "none" /\ file[c] = "failed"
    \/ timer[c] = "freed" /\ AppOf(c) # "log"

(* When HandleEvents returns, every connection has been released and every *)
(* listening socket closed, but for the one connection that was being      *)
(* accepted when SIGINT came (between accept and RegisterSignal).          *)
ShutdownReleases ==
  pc = "returned" =>
    /\ listening = {}
    /\ \A c, d \in Live : c = d

(* After SIGINT ("SERVER CLOSED !", selector.cpp:88) the loop does not     *)
(* enter pselect again: while(m_isRunning) is tested first.                *)
NoWaitAfterShutdown == [][~running => ~(pc = "copy" /\ pc' = "select")]_vars

(* A released connection's handler is never called: "Safe" iteration       *)
(* (selector.cpp:271) goes on after the current handler is destroyed.      *)
NoFreedHandlerCalled == fault # "freed"

(* Every request is answered, and every file that is being sent is sent.   *)
RequestsAnswered ==
  \A c \in Client :
    (phase[c] # "idle" /\ Connected(c)) ~> (phase[c] = "idle" \/ fault # "none")

(* Where no call of the C library fails, every connection is released in   *)
(* the end, by its peer, its timer or SIGINT, unless a fault ends the      *)
(* process, or one peer holds the server's only thread for ever, timers    *)
(* included: by not sending the body it announced, by not reading what it  *)
(* is sent, or, unknowingly, where a read waits for input that was never   *)
(* there (a descriptor closed by a timer and taken over by accept between  *)
(* pselect and the dispatch of its bit).                                   *)
ConnectionsEnd ==
  \A c \in Client :
    [](c \in Live =>
         \/ <>(c \notin Live \/ fault # "none" \/ pc = "returned")
         \/ <>[]PeerHolds)

(* What it takes to bring the server down.  A freed handler is called (its *)
(* bits in the current sets outlive UnRegisterIO, selector.cpp:150) only   *)
(* where connections may end at any moment; SIGPIPE comes only of a peer   *)
(* that leaves while it is answered, or of a timeout; a TimerId is used    *)
(* while it is -1 (event_handler.h:42) or after its node is gone only      *)
(* where Open fails, SIGINT finds a connection being opened, or a timed    *)
(* out handler stays; a FILE* that is not open is used only where one      *)
(* could not be opened or closed, time ran out, or SIGINT found a handler  *)
(* before its fopen (log_handler.cpp:48) or after its fclose               *)
(* (log_handler.cpp:140, repo_handler.cpp:366, service_handler.cpp:286).   *)
FaultHasCause ==
  /\ fault = "freed" =>
       Disturbance \cap {"timeout", "sigint", "hangup", "wholeBuffers"} # {}
  /\ fault = "sigpipe" =>
       Disturbance \cap {"timeout", "hangup", "wholeBuffers"} # {}
  /\ fault = "timer" =>
       \/ Disturbance \cap {"openfail", "sigint"} # {}
       \/ {"timeout", "fcloseFail"} \subseteq Disturbance
  /\ fault = "file" =>
       Disturbance \cap {"timeout", "sigint", "openfail", "fcloseFail"} # {}

-----------------------------------------------------------------------------
(* The server implements the abstract event loop.                          *)
Reactor == INSTANCE EventLoop WITH
  conn <- [c \in Client |->
            IF obj[c] = "live" THEN "open"
            ELSE IF obj[c] = "freed" THEN "released"
            ELSE IF c \in backlog THEN "waiting"
            ELSE IF peer[c] = "away" THEN "away" ELSE "released"],
  active <- IF pc \in InHandler THEN cur ELSE None,
  status <- IF fault # "none" THEN "crashed"
            ELSE IF running THEN "up" ELSE "down"

(* One handler at a time, admitted, served and expired between handlers,   *)
(* never after its release.                                                *)
Refinement == Reactor!Spec

=============================================================================
