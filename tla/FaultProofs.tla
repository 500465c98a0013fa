----------------------------- MODULE FaultProofs -----------------------------
(***************************************************************************)
(* What can bring the server down, what its timers and its shutdown miss,  *)
(* and what it takes: for any number of connections and descriptors, and   *)
(* any set of misfortunes.                                                 *)
(***************************************************************************)
EXTENDS ServerProofs

USE ConstantsAssumption DEF Phases

-----------------------------------------------------------------------------
(* What a handler does, once it has been called.                           *)

Runs(c) ==
  \/ LogHandleInput(c) \/ RepoHandleInput(c) \/ ServiceHandleInput(c)
  \/ HandleUpload(c)
  \/ IgnoreOutput(c) \/ SendChunk(c) \/ SendLastChunk(c)
  \/ SendFails(c) \/ SendBroken(c) \/ FinishClose(c)

Running(c) == c \in Live /\ cur = c /\ pc \in {"input", "upload", "output", "close"}

(* The handler finds that the conversation is over, and closes its file    *)
(* and then the rest, unless its fclose fails, ...                         *)
Over(c) ==
  \/ pc = "input" /\ peer[c] = "gone"
  \/ pc = "output" /\ AppOf(c) # "log" /\ (peer[c] = "gone" \/ phase[c] \in {"sent", "again"})

StartsClosing(c) == Over(c) /\ CloseFile(c, "close")

Closes(c) ==
  \/ /\ pc = "close"
     /\ obj'[c] = "freed" /\ sock'[c] = NoFd
     /\ phase'[c] = "idle" /\ file'[c] = "none"
  \/ /\ Over(c)
     /\ "fcloseFail" \in Disturbance /\ file[c] = "open"
     /\ obj'[c] = "live" /\ sock'[c] = sock[c]
     /\ phase'[c] = phase[c] /\ file'[c] = "closed"

(* ... or answers the request, or the upload, ...                          *)
Answers(c) ==
  /\ (pc = "input" /\ HasRequest(c)) \/ pc = "upload"
  /\ phase'[c] = IF phase[c] = "again" THEN "sent" ELSE "idle"
  /\ \/ file'[c] = file[c]
     \/ AppOf(c) = "service" /\ pc = "input" /\ file'[c] = "none"

(* ... or begins to send a file and perhaps ends, ...                      *)
Begins(c) ==
  /\ pc = "input" /\ HasRequest(c) /\ AppOf(c) # "log"
  /\ AppOf(c) = "repo" => file[c] = "open"
  /\ \/ phase'[c] = "idle" /\ file'[c] = "open"
     \/ /\ phase'[c] \in {"response"} \cup WholeBuffer
        /\ file'[c] = "open" \/ ("fcloseFail" \in Disturbance /\ file'[c] = "closed")

(* ... or goes on with one, and perhaps ends.                              *)
GoesOn(c) ==
  /\ pc = "output" /\ file'[c] = file[c]
  /\ \/ phase'[c] = phase[c]
     \/ phase[c] = "response" /\ phase'[c] \in WholeBuffer
     \/ file[c] = "open" /\ phase'[c] = IF HasRequest(c) THEN "request" ELSE "idle"

Returns(c) ==
  /\ pc' = "dispatch"
  /\ UNCHANGED <<dial, peer, listening, readCurrent, writeCurrent, running,
                 table, due, fault>>
  /\ sigTable \cap Acceptor \subseteq sigTable'
  /\ \A d \in Client : d # c =>
       /\ phase'[d] = phase[d] /\ file'[d] = file[d]
       /\ sock'[d] = sock[d] /\ obj'[d] = obj[d]
  /\ \A d \in Client : obj'[d] = "live" => timer'[d] = timer[d]
  /\ \/ Closes(c)
     \/ /\ obj'[c] = "live" /\ sock'[c] = sock[c]
        /\ Answers(c) \/ Begins(c) \/ GoesOn(c)

(* The body of an upload is read within HandleInput.                       *)
StartsUpload(c) ==
  /\ pc = "input" /\ HasRequest(c) /\ AppOf(c) = "service"
  /\ pc' = "upload"
  /\ phase' = [phase EXCEPT ![c] = "response"]
  /\ UNCHANGED <<dial, peer, backlog, sock, listening, regVars, timerVars,
                 running, readCurrent, writeCurrent, cur, obj, fault, file>>

(* Where a handler breaks.                                                 *)
Breaks(c) ==
  /\ UNCHANGED file
  /\ \/ /\ Crash("timer")
        /\ pc \in {"input", "output", "close"} /\ CancelFault(c) = "timer"
     \/ /\ Crash("file")
        /\ pc \in {"input", "output"}
        /\ \/ "sigint" \in Disturbance
           \/ AppOf(c) = "log" /\ pc = "input" /\ file[c] # "open"
           \/ AppOf(c) = "repo" /\ file[c] # "open"
           \/ file[c] = "closed"
           \/ AppOf(c) = "service" /\ pc = "output" /\ file[c] # "open"
     \/ /\ Crash("sigpipe")
        /\ peer[c] = "gone" /\ pc # "close"
        /\ pc = "input" => HasRequest(c)
        /\ pc = "output" => AppOf(c) # "log"
     \/ /\ Crash("freed")
        /\ pc = "input" /\ HasRequest(c)
        /\ \/ peer[c] = "gone" \/ phase[c] = "again"
           \/ "wholeBuffers" \in Disturbance

LEMMA HandleCloseDoes ==
  ASSUME IInv, NEW c \in Client, Running(c), Over(c), HandleClose(c)
  PROVE  Returns(c) \/ StartsClosing(c) \/ Breaks(c)
<1>0. c \in Live /\ obj[c] = "live" /\ pc \in {"input", "output"}
  BY DEF Running, Over, Live
<1>1. CASE CrashInFclose(c)
  <2>1. FileFault(c) => file[c] = "closed" \/ (AppOf(c) = "log" /\ file[c] # "open")
    BY DEF FileFault
  <2> QED BY <1>0, <1>1, <2>1 DEF CrashInFclose, Over, Breaks
<1>2. CASE CloseFile(c, "close")
  BY <1>2 DEF StartsClosing
<1>3. CASE FcloseFails(c) /\ ReturnToLoop /\ UNCHANGED timerVars
  <2>1. Closes(c)
    BY <1>0, <1>3 DEF FcloseFails, netVars, Closes, FcloseMayFail, IInv, TypeOK, FileTypeOK
  <2>2. \A d \in Client : d # c => file'[d] = file[d]
    BY <1>3 DEF FcloseFails, IInv, TypeOK, FileTypeOK
  <2> QED BY <1>0, <1>3, <2>1, <2>2
          DEF FcloseFails, ReturnToLoop, Returns, netVars, regVars, timerVars
<1> QED BY <1>1, <1>2, <1>3 DEF HandleClose

LEMMA FinishCloseDoes ==
  ASSUME IInv, NEW c \in Client, FinishClose(c)
  PROVE  Returns(c) \/ Breaks(c)
<1>1. CASE CancelFault(c) # "none" /\ Crash("timer") /\ UNCHANGED file
  BY <1>1 DEF FinishClose, Breaks, CancelFault
<1>2. CASE /\ CloseAll({c}, {}, {}) /\ timer' = Cancelled({c}) /\ ReturnToLoop
           /\ UNCHANGED <<due, fault>>
  <2>1. sigTable' = sigTable \ {c} /\ c \notin Acceptor
    BY <1>2 DEF CloseAll, UnRegisterSignal
  <2>2. pc = "close" /\ obj[c] = "live" /\ Closes(c)
    BY <1>2 DEF FinishClose, CloseAll, Closes
  <2> QED BY <1>2, <2>1, <2>2
          DEF CloseAll, UnRegisterIO, ReturnToLoop, Returns, Cancelled
<1> QED BY <1>1, <1>2 DEF FinishClose

LEMMA AnswerDoes ==
  ASSUME IInv, NEW c \in Client, Running(c), NEW n, Answer(c, n),
         (pc = "input" /\ HasRequest(c)) \/ pc = "upload",
         n = file[c] \/ (AppOf(c) = "service" /\ pc = "input" /\ n = "none")
  PROVE  Returns(c)
<1>1. Answers(c)
  BY DEF Answer, Answers, IInv, TypeOK, NetTypeOK, FileTypeOK
<1>2. \A d \in Client : d # c => phase'[d] = phase[d] /\ file'[d] = file[d]
  BY DEF Answer, IInv, TypeOK, NetTypeOK, FileTypeOK
<1> QED BY <1>1, <1>2 DEF Answer, ReturnToLoop, Returns, regVars, timerVars, Running, Live

(* The interest of a handler that is watched takes no entry of the table.  *)
LEMMA RegisterWriteKeeps ==
  ASSUME IInv, NEW c \in Live, pc # "open", RegisterWrite(c, sock[c])
  PROVE  table' = table
<1>1. table[sock[c]] = c
  <2>1. /\ sock[c] \in readMaster /\ sock[c] \in ClientFd /\ c \in Client
        /\ \A d \in Live : d \in Client /\ (sock[d] = sock[c] => d = c)
    BY DEF IInv, Ownership, LiveIsRegistered, SocketIsLive, Live, TypeOK, NetTypeOK
  <2>2. \A a \in listening : ListenFd[a] # sock[c]
    BY <2>1 DEF IInv, TypeOK, NetTypeOK
  <2> QED BY <2>1, <2>2 DEF IInv, Ownership, InterestIsOwned
<1> QED BY <1>1 DEF RegisterWrite, IInv, TypeOK, SelectorTypeOK

LEMMA SendingDoes ==
  ASSUME IInv, NEW c \in Client, Running(c), NEW b, StartSending(c, b),
         b => "wholeBuffers" \in Disturbance,
         pc = "input", HasRequest(c), AppOf(c) # "log",
         AppOf(c) = "repo" => file[c] = "open"
  PROVE  Returns(c) \/ Breaks(c)
<1>0. c \in Live /\ obj[c] = "live"
  BY DEF Running, Live
<1>1. CASE EndSending(c, "idle")
  <2>1. Begins(c) /\ \A d \in Client : d # c => phase'[d] = phase[d] /\ file'[d] = file[d]
    BY <1>1 DEF EndSending, Begins, IInv, TypeOK, NetTypeOK, FileTypeOK
  <2> QED BY <1>0, <1>1, <2>1 DEF EndSending, UnRegisterIO, ReturnToLoop, Returns, timerVars
<1>2. ASSUME NEW n, KeepSending(c, n),
             n = "open" \/ (n = "closed" /\ "fcloseFail" \in Disturbance)
      PROVE  Returns(c)
  <2>1. Begins(c) /\ \A d \in Client : d # c => phase'[d] = phase[d] /\ file'[d] = file[d]
    BY <1>2 DEF KeepSending, Begins, IInv, TypeOK, NetTypeOK, FileTypeOK
  <2>2. table' = table
    BY <1>0, <1>2, RegisterWriteKeeps DEF KeepSending
  <2> QED BY <1>0, <1>2, <2>1, <2>2 DEF KeepSending, ReturnToLoop, Returns, timerVars
<1>3. CASE /\ peer[c] = "gone" \/ b \/ phase[c] = "again"
           /\ SendAfterClose(c)
  BY <1>2, <1>3 DEF SendAfterClose, Breaks, CancelFault
<1>4. CASE Sigpipe(c)
  BY <1>4 DEF Sigpipe, Breaks
<1> QED BY <1>1, <1>2, <1>3, <1>4 DEF StartSending

(* A step of a handler is one of these.                                    *)
LEMMA HandlerDoes ==
  ASSUME IInv, NEW c \in Client, Runs(c)
  PROVE  /\ Running(c)
         /\ Returns(c) \/ StartsUpload(c) \/ StartsClosing(c) \/ Breaks(c)
<1>0. Running(c)
  BY DEF Runs, LogHandleInput, RepoHandleInput, ServiceHandleInput, HandleUpload,
         IgnoreOutput, SendChunk, SendLastChunk, SendFails, SendBroken, MoreToSend,
         InHandleInput, InHandleOutput, FinishClose, Running, Live
<1> SUFFICES Returns(c) \/ StartsUpload(c) \/ StartsClosing(c) \/ Breaks(c)
  BY <1>0
<1>1. CASE LogHandleInput(c)
  <2>1. pc = "input" /\ AppOf(c) = "log"
    BY <1>1 DEF LogHandleInput, InHandleInput
  <2>2. CASE EndOfStream(c) /\ CancelFault(c) # "none" /\ Crash("timer") /\ UNCHANGED file
    BY <2>1, <2>2 DEF Breaks, CancelFault
  <2>3. CASE EndOfStream(c) /\ HandleClose(c)
    BY <1>0, <2>1, <2>3, HandleCloseDoes DEF Over, EndOfStream
  <2>4. CASE HasRequest(c) /\ file[c] # "open" /\ Crash("file") /\ UNCHANGED file
    BY <2>1, <2>4 DEF Breaks
  <2>5. CASE HasRequest(c) /\ file[c] = "open" /\ Answer(c, "open")
    BY <1>0, <2>1, <2>5, AnswerDoes
  <2>6. CASE HasRequest(c) /\ Sigpipe(c)
    BY <2>1, <2>6 DEF Sigpipe, Breaks
  <2> QED BY <1>0, <1>1, <2>2, <2>3, <2>4, <2>5, <2>6 DEF LogHandleInput
<1>2. CASE RepoHandleInput(c)
  <2>1. pc = "input" /\ AppOf(c) = "repo"
    BY <1>2 DEF RepoHandleInput, InHandleInput
  <2>2. CASE EndOfStream(c) /\ HandleClose(c)
    BY <1>0, <2>1, <2>2, HandleCloseDoes DEF Over, EndOfStream
  <2>3. CASE HasRequest(c) /\ Answer(c, file[c])
    BY <1>0, <2>1, <2>3, AnswerDoes
  <2>4. CASE HasRequest(c) /\ Sigpipe(c)
    BY <2>1, <2>4 DEF Sigpipe, Breaks
  <2>5. CASE HasRequest(c) /\ file[c] # "open" /\ Crash("file") /\ UNCHANGED file
    BY <2>1, <2>5 DEF Breaks
  <2>6. CASE HasRequest(c) /\ file[c] = "open" /\ StartSending(c, FALSE)
    BY <1>0, <2>1, <2>6, SendingDoes
  <2> QED BY <1>0, <1>2, <2>2, <2>3, <2>4, <2>5, <2>6 DEF RepoHandleInput
<1>3. CASE ServiceHandleInput(c)
  <2>1. pc = "input" /\ AppOf(c) = "service"
    BY <1>3 DEF ServiceHandleInput, InHandleInput
  <2>2. CASE EndOfStream(c) /\ HandleClose(c)
    BY <1>0, <2>1, <2>2, HandleCloseDoes DEF Over, EndOfStream
  <2>3. CASE HasRequest(c) /\ Answer(c, "none")
    BY <1>0, <2>1, <2>3, AnswerDoes
  <2>4. CASE HasRequest(c) /\ Sigpipe(c)
    BY <2>1, <2>4 DEF Sigpipe, Breaks
  <2>5. CASE HasRequest(c) /\ StartSending(c, "wholeBuffers" \in Disturbance)
    <3>1. AppOf(c) # "log" /\ AppOf(c) # "repo"
      BY <2>1
    <3> QED BY <1>0, <2>1, <2>5, <3>1, SendingDoes, Zenon
  <2>6. CASE StartsUpload(c)
    BY <1>0, <2>6
  <2> QED BY <1>0, <1>3, <2>1, <2>2, <2>3, <2>4, <2>5, <2>6
          DEF ServiceHandleInput, StartsUpload
<1>4. CASE HandleUpload(c)
  <2>1. pc = "upload"
    BY <1>4 DEF HandleUpload
  <2>2. CASE Answer(c, file[c])
    BY <1>0, <2>1, <2>2, AnswerDoes
  <2>3. CASE Sigpipe(c)
    BY <2>1, <2>3 DEF Sigpipe, Breaks
  <2> QED BY <1>0, <1>4, <2>2, <2>3 DEF HandleUpload
<1>5. CASE IgnoreOutput(c) \/ SendChunk(c)
  <2>1. /\ UNCHANGED <<dial, peer, listening, sock, regVars, timerVars, obj, fault, file>>
        /\ ReturnToLoop /\ pc = "output"
        /\ \/ UNCHANGED phase
           \/ phase[c] = "response" /\ \E p \in WholeBuffer : phase' = [phase EXCEPT ![c] = p]
    BY <1>5 DEF IgnoreOutput, SendChunk, MoreToSend, InHandleOutput, netVars
  <2>2. GoesOn(c) /\ \A d \in Client : d # c => phase'[d] = phase[d]
    BY <2>1 DEF GoesOn, IInv, TypeOK, NetTypeOK
  <2> QED BY <1>0, <2>1, <2>2
          DEF Returns, ReturnToLoop, regVars, timerVars, Running, Live
<1>6. CASE SendLastChunk(c)
  <2>1. /\ EndSending(c, IF HasRequest(c) THEN "request" ELSE "idle")
        /\ pc = "output" /\ file[c] = "open"
    BY <1>6 DEF SendLastChunk, MoreToSend, InHandleOutput
  <2>2. GoesOn(c) /\ \A d \in Client : d # c => phase'[d] = phase[d] /\ file'[d] = file[d]
    BY <2>1 DEF EndSending, GoesOn, IInv, TypeOK, NetTypeOK, FileTypeOK
  <2> QED BY <1>0, <2>1, <2>2
          DEF EndSending, UnRegisterIO, Returns, ReturnToLoop, timerVars, Running, Live
<1>7. CASE SendFails(c)
  <2>1. Over(c) /\ HandleClose(c)
    BY <1>7 DEF SendFails, InHandleOutput, Over
  <2> QED BY <1>0, <2>1, HandleCloseDoes
<1>8. CASE SendBroken(c)
  <2>1. pc = "output" /\ AppOf(c) \in {"repo", "service"}
    BY <1>8 DEF SendBroken, InHandleOutput, AppOf, Apps, IInv, TypeOK, NetTypeOK
  <2> QED BY <1>0, <1>8, <2>1 DEF SendBroken, Sigpipe, Breaks
<1>9. CASE FinishClose(c)
  BY <1>9, FinishCloseDoes
<1> QED BY <1>1, <1>2, <1>3, <1>4, <1>5, <1>6, <1>7, <1>8, <1>9 DEF Runs

-----------------------------------------------------------------------------
(* Who speaks.                                                             *)

(* A file that fills no buffer is seen to end when it is sent; a peer that *)
(* never hangs up leaves between conversations; and one whose upload is    *)
(* read is in the middle of it.                                            *)
Conversations ==
  /\ "wholeBuffers" \notin Disturbance =>
       \A c \in Client : phase[c] \in {"idle", "request", "response"}
  /\ Disturbance \cap {"hangup", "wholeBuffers"} = {} =>
       \A c \in Client : peer[c] = "gone" => phase[c] = "idle"
  /\ pc = "upload" /\ obj[cur] = "live" => phase[cur] = "response"

LEMMA InitConversations == Init => Conversations
  BY DEF Init, NetInit, SelectorInit, Conversations

(* A step that changes no phase, or ends some conversations.               *)
LEMMA QuietConversations ==
  ASSUME Conversations, UNCHANGED peer,
         \A c \in Client : \/ phase'[c] = phase[c] /\ (obj'[c] = "live" => obj[c] = "live")
                           \/ phase'[c] = "idle" /\ obj'[c] # "live",
         \/ pc' = pc /\ cur' = cur /\ (pc = "upload" => cur \in Client)
         \/ pc' # "upload"
  PROVE  Conversations'
  BY DEF Conversations

LEMMA CloseAllPhases ==
  ASSUME NEW S, NEW F, NEW A, CloseAll(S, F, A)
  PROVE  /\ UNCHANGED peer
         /\ \A c \in Client : \/ phase'[c] = phase[c] /\ (obj'[c] = "live" => obj[c] = "live")
                              \/ phase'[c] = "idle" /\ obj'[c] # "live"
  BY DEF CloseAll

LEMMA HandlerConversations ==
  ASSUME IInv, Conversations, NEW c \in Client, Runs(c)
  PROVE  Conversations'
<1>1. Running(c) /\ (Returns(c) \/ StartsUpload(c) \/ StartsClosing(c) \/ Breaks(c))
  BY HandlerDoes
<1>2. CASE Returns(c)
  <2>1. \A d \in Client : d # c => phase'[d] = phase[d]
    BY <1>2 DEF Returns
  <2>2. /\ "wholeBuffers" \notin Disturbance => phase'[c] \in {"idle", "request", "response"}
        /\ Disturbance \cap {"hangup", "wholeBuffers"} = {} /\ peer[c] = "gone" => phase'[c] = "idle"
    BY <1>1, <1>2
       DEF Returns, Closes, Answers, Begins, GoesOn, WholeBuffer, HasRequest, Conversations
  <2> QED BY <1>2, <2>1, <2>2 DEF Returns, Conversations
<1>3. CASE StartsUpload(c)
  <2>1. \A d \in Client : phase'[d] = IF d = c THEN "response" ELSE phase[d]
    BY <1>3 DEF StartsUpload, IInv, TypeOK, NetTypeOK
  <2> QED BY <1>1, <1>3, <2>1 DEF StartsUpload, Running, HasRequest, Conversations
<1>4. CASE Breaks(c)
  BY <1>1, <1>4, QuietConversations DEF Breaks, Crash, Running, netVars, loopVars
<1>5. CASE StartsClosing(c)
  BY <1>5, QuietConversations DEF StartsClosing, CloseFile, netVars
<1> QED BY <1>1, <1>2, <1>3, <1>4, <1>5

(* The steps of Open and SetTimer, and those of a timer's handler.         *)
Opens(c) == OpenHandler(c) \/ OpenFile(c) \/ OpenFileFails(c) \/ ArmTimer(c)

Expires(c) == HandleTimer(c) \/ TimerCloses(c) \/ FinishTimer(c)

(* The steps between handlers, and those on top of one.                    *)
LEMMA OtherConversations ==
  ASSUME IInv, Conversations,
         \/ Loop
         \/ ResumeFreed
         \/ \E a \in Acceptor : AcceptFails(a)
         \/ \E a \in Acceptor, c \in Client, f \in ClientFd : AcceptClient(a, c, f)
         \/ \E c \in Client : Opens(c) \/ Expires(c) \/ Timeout(c)
         \/ Interrupt
         \/ UNCHANGED vars
  PROVE  Conversations'
<1>0. pc = "upload" => cur \in Client
  BY DEF IInv, Ownership, UnderConstruction, InHandler
<1>1. ASSUME NEW f, Crash(f) PROVE Conversations'
  BY <1>0, <1>1, QuietConversations DEF Crash, netVars, loopVars
<1>2. CASE Loop
  <2>1. ASSUME NEW c \in Client, NEW f \in ClientFd,
               CallHandleInput(c, f) \/ CallHandleOutput(c, f)
        PROVE  Conversations'
    BY <1>1, <2>1, QuietConversations DEF CallHandleInput, CallHandleOutput, netVars
  <2>2. ASSUME NEW c \in Client, DropCancelledTimer(c)
        PROVE  Conversations'
    BY <1>0, <2>2, QuietConversations DEF DropCancelledTimer, netVars, loopVars
  <2> QED
    BY <1>2, <2>1, <2>2, QuietConversations
       DEF Loop, TestRunning, CopySets, PselectFails, PselectReturns,
           TimersDispatched, EndOfRound, netVars
<1>3. CASE ResumeFreed \/ UNCHANGED vars
  BY <1>0, <1>1, <1>3, QuietConversations
     DEF ResumeFreed, vars, handlerVars, selectorVars, netVars, loopVars
<1>4. CASE \E a \in Acceptor : AcceptFails(a)
  BY <1>0, <1>4, QuietConversations DEF AcceptFails, netVars
<1>5. ASSUME NEW a \in Acceptor, NEW c \in Client, NEW f \in ClientFd,
             AcceptClient(a, c, f)
      PROVE  Conversations'
  BY <1>5 DEF AcceptClient, Conversations
<1>6. ASSUME NEW c \in Client, Opens(c) PROVE Conversations'
  BY <1>6, QuietConversations
     DEF Opens, OpenHandler, OpenFile, OpenFileFails, ArmTimer, ReturnToLoop, netVars
<1>7. ASSUME NEW c \in Client, Expires(c) PROVE Conversations'
  <2>1. CASE HandleTimer(c)
    BY <1>1, <2>1, QuietConversations DEF HandleTimer, netVars
  <2>2. CASE TimerCloses(c)
    BY <1>1, <2>2, QuietConversations
       DEF TimerCloses, CrashInFclose, CloseFile, FcloseFails, TimerServed, netVars
  <2>3. CASE FinishTimer(c)
    <3>1. CloseAll({c}, {}, {}) /\ pc' # "upload"
      BY <2>3 DEF FinishTimer, TimerServed
    <3> QED BY <3>1, CloseAllPhases, QuietConversations
  <2> QED BY <1>7, <2>1, <2>2, <2>3 DEF Expires
<1>8. ASSUME NEW c \in Client, Timeout(c) PROVE Conversations'
  BY <1>0, <1>8, QuietConversations DEF Timeout, Elapse, netVars, loopVars
<1>9. CASE Interrupt
  <2>1. CASE \E c \in Client : CrashInClose(c)
    BY <1>1, <2>1 DEF CrashInClose
  <2>2. ASSUME NEW S, NEW F, NEW A, CloseAll(S, F, A),
               pc' \in IF pc = "select" THEN {"select", "top"} ELSE {pc}, cur' = cur
        PROVE  Conversations'
    BY <1>0, <2>2, CloseAllPhases, QuietConversations
  <2> QED BY <1>9, <2>1, <2>2 DEF Interrupt, HandleSignal
<1> QED BY <1>2, <1>3, <1>4, <1>5, <1>6, <1>7, <1>8, <1>9

LEMMA PeerConversations ==
  ASSUME IInv, Conversations, NEW c \in Client, Peer(c)
  PROVE  Conversations'
<1>1. UNCHANGED <<pc, cur, obj>>
  BY DEF Peer, selectorVars, loopVars
<1>2. /\ \A d \in Client : d # c => phase'[d] = phase[d] /\ peer'[d] = peer[d]
      /\ \/ peer[c] = "away" /\ peer'[c] = "here" /\ phase'[c] = phase[c]
         \/ /\ peer[c] = "here" /\ peer'[c] = "here"
            /\ \/ phase[c] = "idle" /\ phase'[c] = "request"
               \/ phase[c] = "sent" /\ phase'[c] = "again"
         \/ /\ peer'[c] = "gone" /\ phase'[c] = phase[c]
            /\ phase[c] \in {"idle", "sent"} \/ "hangup" \in Disturbance
  BY DEF Peer, Connect, Send, Hangup, IInv, TypeOK, NetTypeOK
<1>3. pc = "upload" => cur \in Client
  BY DEF IInv, Ownership, UnderConstruction, InHandler
<1> QED BY <1>1, <1>2, <1>3 DEF Conversations

(* Every step of the server is one of these.                               *)
LEMMA NextIs ==
  ASSUME [Next]_vars
  PROVE  \/ fault = "none" /\ \E c \in Client : Runs(c)
         \/ fault = "none" /\ Loop /\ UNCHANGED file
         \/ fault = "none" /\ ResumeFreed
         \/ fault = "none" /\ \E a \in Acceptor : AcceptFails(a)
         \/ fault = "none" /\ \E a \in Acceptor, c \in Client, f \in ClientFd : AcceptClient(a, c, f)
         \/ fault = "none" /\ \E c \in Client : Opens(c) \/ Expires(c)
         \/ \E c \in Client : Timeout(c)
         \/ Interrupt
         \/ \E c \in Client : Peer(c)
         \/ UNCHANGED vars
  BY DEF Next, ServerStep, Dispatched, Upload, Runs, Opens, Expires

LEMMA NextConversations ==
  ASSUME IInv, Conversations, [Next]_vars
  PROVE  Conversations'
  BY NextIs, HandlerConversations, OtherConversations, PeerConversations

-----------------------------------------------------------------------------
(* Output bits, where no client is timed out.                              *)

(* A round of the loop, from the copy of the interest sets on.             *)
Underway == {"select", "timers", "dispatch"} \cup InHandler

Sending(c) ==
  phase[c] \in {"response", "sent", "again"} /\ ~(pc = "upload" /\ cur = c)

(* Only the repository ends a file on an input bit: when it fills a buffer *)
(* and the next request is already there.                                  *)
SendsOn(c) ==
  AppOf(c) = "service" \/ "wholeBuffers" \notin Disturbance => Sending(c)

(* A bit that is still to be served belongs to the handler it was set for, *)
(* which is sending a file on it and has not been called for it, or has    *)
(* been released.                                                          *)
MayWrite(c, f) ==
  obj[c] = "live" => /\ sock[c] = f
                     /\ ~(c = cur /\ pc \in {"open", "fopen", "arm", "upload", "output"})
                     /\ SendsOn(c)

WriteBits ==
  pc \in Underway =>
    \A f \in writeCurrent : \E c \in Client :
      table[f] = c /\ obj[c] # "none" /\ MayWrite(c, f)

(* Connections are accepted before any handler is called, while all those  *)
(* with a bit are alive, so that none takes over the descriptor of a bit.  *)
AcceptsFirst ==
  /\ pc \in {"input", "upload", "output", "close"} =>
       \A a \in Acceptor : ListenFd[a] \notin readCurrent
  /\ pc \in Underway /\ (\E a \in listening : ListenFd[a] \in readCurrent) =>
       \A f \in writeCurrent : table[f] \in Live
  /\ pc = "open" => sock[cur] \notin writeCurrent

CalledToSend == pc = "output" /\ obj[cur] = "live" => SendsOn(cur)

(* With what the steps need: nothing elapses, and SIGINT reaches every     *)
(* acceptor that listens.                                                  *)
Round ==
  /\ due = {} /\ pc \notin {"expire", "closeTimer"}
  /\ listening \subseteq sigTable
  /\ WriteBits
  /\ AcceptsFirst
  /\ CalledToSend

LEMMA InitRound == Init => Round
  BY DEF Init, NetInit, SelectorInit, AcceptorSignals, Round, WriteBits,
         AcceptsFirst, CalledToSend, Underway, InHandler

(* A handler asked to read while its output bit waits is the repository's, *)
(* at the end of a buffer, or finds its peer gone.                         *)
LEMMA NoRequestWhileSending ==
  ASSUME Owed, Conversations, NEW c \in Client, SendsOn(c), HasRequest(c)
  PROVE  AppOf(c) # "service" /\ "wholeBuffers" \in Disturbance
  BY DEF Owed, OnlyListsAgain, Conversations, SendsOn, Sending, HasRequest

(* A step that gives no handler anything else to do.                       *)
LEMMA QuietRound ==
  ASSUME Round, UNCHANGED <<dial, sock, listening, table, sigTable, obj, due>>,
         \A c \in Client : SendsOn(c) => SendsOn(c)',
         \/ /\ pc' = pc /\ cur' = cur
            /\ readCurrent' \subseteq readCurrent /\ writeCurrent' = writeCurrent
         \/ /\ pc \in {"select", "timers", "fopen", "arm"} /\ pc' \in {"timers", "dispatch"}
            /\ readCurrent' \subseteq readCurrent /\ writeCurrent' \subseteq writeCurrent
         \/ /\ pc = "fopen" /\ pc' = "arm" /\ cur' = cur
            /\ readCurrent' \subseteq readCurrent /\ writeCurrent' = writeCurrent
         \/ pc' \notin Underway,
         pc = "output" => cur \in Client
  PROVE  Round'
<1>1. Live' = Live
  BY DEF Live
<1>2. WriteBits'
  BY DEF Round, WriteBits, MayWrite, Underway, InHandler
<1>3. AcceptsFirst'
  BY <1>1 DEF Round, AcceptsFirst, Underway, InHandler
<1>4. CalledToSend'
  BY DEF Round, CalledToSend, Underway, InHandler
<1>5. pc' \notin {"expire", "closeTimer"}
  BY DEF Round, Underway, InHandler
<1> QED BY <1>2, <1>3, <1>4, <1>5 DEF Round

LEMMA CrashRound ==
  ASSUME IInv, Round, NEW f, Crash(f)
  PROVE  Round'
<1>1. pc = "output" => cur \in Client
  BY DEF IInv, Ownership, UnderConstruction, InHandler
<1> QED BY <1>1, QuietRound
        DEF Crash, netVars, regVars, timerVars, loopVars, SendsOn, Sending, AppOf

(* A handler returns, or goes on to read an upload.                        *)
LEMMA HandlerRound ==
  ASSUME IInv, Owed, Conversations, Round, NEW c \in Client, Runs(c)
  PROVE  Round'
<1>1. Running(c) /\ (Returns(c) \/ StartsUpload(c) \/ StartsClosing(c) \/ Breaks(c))
  BY HandlerDoes
<1>2. CASE Breaks(c)
  BY <1>2, CrashRound DEF Breaks
<1>3. ASSUME Returns(c) \/ StartsUpload(c) \/ StartsClosing(c)
      PROVE  Round'
  <2>1. /\ pc \in {"input", "upload", "output", "close"}
        /\ pc' \in {"dispatch", "upload", "close"}
        /\ pc' = "upload" => pc = "input" /\ cur' = c
        /\ pc' = "close" => cur' = c /\ phase' = phase /\ obj'[c] = "live" /\ pc # "upload"
        /\ cur = c /\ obj[c] = "live"
        /\ UNCHANGED <<dial, listening, readCurrent, writeCurrent, table, due>>
        /\ \A d \in Client : d # c => phase'[d] = phase[d] /\ sock'[d] = sock[d] /\ obj'[d] = obj[d]
        /\ obj'[c] = "freed" \/ (obj'[c] = "live" /\ sock'[c] = sock[c])
        /\ sigTable \cap Acceptor \subseteq sigTable'
    <3>1. Running(c) /\ obj[c] = "live"
      BY <1>1 DEF Running, Live
    <3>2. CASE Returns(c)
      BY <3>1, <3>2 DEF Returns, Closes, Running
    <3>3. CASE StartsUpload(c)
      BY <3>1, <3>3 DEF StartsUpload, Running, regVars, timerVars, IInv, TypeOK, NetTypeOK
    <3>4. CASE StartsClosing(c)
      BY <3>1, <3>4 DEF StartsClosing, Over, CloseFile, Running, netVars, regVars, timerVars
    <3> QED BY <1>3, <3>2, <3>3, <3>4
  <2>2. \A a \in Acceptor : ListenFd[a] \notin readCurrent
    BY <2>1 DEF Round, AcceptsFirst
  <2>3. ASSUME NEW d \in Client, d # c, SendsOn(d) PROVE SendsOn(d)'
    BY <2>1, <2>3 DEF SendsOn, Sending, AppOf
  <2>4. ASSUME obj'[c] = "live", pc \in {"input", "close"}, SendsOn(c)
        PROVE  SendsOn(c)' /\ pc' \in {"dispatch", "close"}
    <3>0. CASE pc' = "close"
      BY <2>1, <2>4, <3>0 DEF SendsOn, Sending, AppOf
    <3>1. CASE HasRequest(c) /\ pc' # "close"
      <4>1. AppOf(c) # "service" /\ "wholeBuffers" \in Disturbance
        BY <2>4, <3>1, NoRequestWhileSending
      <4> QED BY <1>3, <2>1, <3>1, <4>1
              DEF SendsOn, AppOf, Returns, StartsUpload, StartsClosing, CloseFile
    <3>2. CASE ~HasRequest(c) /\ pc' # "close"
      <4>1. Returns(c) /\ phase'[c] = phase[c]
        BY <1>3, <2>4, <3>2 DEF Returns, Closes, Answers, Begins, GoesOn, StartsUpload,
                                StartsClosing, CloseFile
      <4> QED BY <2>1, <2>4, <4>1 DEF SendsOn, Sending, AppOf, Returns
    <3> QED BY <3>0, <3>1, <3>2
  <2>5. WriteBits'
    <3> SUFFICES ASSUME NEW f \in writeCurrent
                 PROVE  \E d \in Client : table'[f] = d /\ obj'[d] # "none" /\ MayWrite(d, f)'
      BY <2>1 DEF WriteBits
    <3>1. PICK d \in Client : table[f] = d /\ obj[d] # "none" /\ MayWrite(d, f)
      BY <2>1 DEF Round, WriteBits, Underway, InHandler
    <3>2. CASE d = c
      BY <2>1, <2>4, <3>1, <3>2 DEF MayWrite
    <3>3. CASE d # c
      BY <2>1, <2>3, <3>1, <3>3 DEF MayWrite
    <3> QED BY <3>2, <3>3
  <2>6. AcceptsFirst'
    BY <2>1, <2>2 DEF AcceptsFirst, IInv, TypeOK, NetTypeOK
  <2>7. /\ CalledToSend' /\ due' = {} /\ listening' \subseteq sigTable'
        /\ pc' \notin {"expire", "closeTimer"}
    BY <2>1 DEF CalledToSend, Round, IInv, TypeOK, NetTypeOK
  <2> QED BY <2>5, <2>6, <2>7 DEF Round
<1> QED BY <1>1, <1>2, <1>3

(* The loop.                                                               *)
LEMMA CopySetsRound ==
  ASSUME IInv, Owed, Round, CopySets
  PROVE  Round'
<1>1. /\ pc = "copy" /\ pc' = "select" /\ writeCurrent' = writeMaster
      /\ UNCHANGED <<dial, phase, sock, listening, table, sigTable, obj, due, cur>>
  BY DEF CopySets, netVars, regVars, timerVars
<1>2. ASSUME NEW f \in writeMaster
      PROVE  \E c \in Live : f = sock[c] /\ table[f] = c /\ Sending(c)
  <2>1. f \in ClientFd
    BY DEF IInv, Ownership, OnlyFileHandlersWrite
  <2>2. \A a \in listening : f # ListenFd[a]
    BY <2>1 DEF IInv, TypeOK, NetTypeOK
  <2>3. PICK c \in Live : f = sock[c] /\ table[f] = c
    BY <2>2 DEF IInv, Ownership, InterestIsOwned
  <2> QED BY <2>3 DEF Owed, WriteInterestIsResponse, Sending
<1>3. \A c \in Client : Sending(c) => Sending(c)'
  BY <1>1 DEF Sending
<1>4. WriteBits' /\ AcceptsFirst'
  BY <1>1, <1>2, <1>3 DEF WriteBits, AcceptsFirst, MayWrite, SendsOn, Live
<1> QED BY <1>1, <1>4 DEF Round, CalledToSend

LEMMA CallRound ==
  ASSUME IInv, Round, NEW c \in Client, NEW f \in ClientFd,
         CallHandleInput(c, f) \/ CallHandleOutput(c, f)
  PROVE  Round'
<1>1. CASE Crash("freed")
  BY <1>1, CrashRound
<1>2. ASSUME pc' \in {"input", "output"}, obj[c] # "freed"
      PROVE  Round'
  <2>1. /\ pc = "dispatch" /\ IsNext(f) /\ table[f] = c /\ cur' = c
        /\ UNCHANGED <<netVars, regVars, timerVars, obj>>
        /\ readCurrent' \subseteq readCurrent /\ writeCurrent' \subseteq writeCurrent
        /\ pc' = "output" => f \in writeCurrent /\ f \notin writeCurrent'
    BY <1>2 DEF CallHandleInput, CallHandleOutput, IsNext, Crash, loopVars
  <2>2. \A d \in Client : SendsOn(d) => SendsOn(d)'
    BY <1>2, <2>1 DEF SendsOn, Sending, AppOf, netVars
  <2>3. \A a \in Acceptor : ListenFd[a] \notin readCurrent
    <3>1. \A a \in Acceptor : ListenFd[a] < f /\ ListenFd[a] \in Nat /\ f \in Nat
      OBVIOUS
    <3> QED BY <2>1, <3>1 DEF IsNext
  <2>4. WriteBits'
    <3> SUFFICES ASSUME NEW g \in writeCurrent'
                 PROVE  \E d \in Client : table'[g] = d /\ obj'[d] # "none" /\ MayWrite(d, g)'
      BY DEF WriteBits
    <3>1. PICK d \in Client : table[g] = d /\ obj[d] # "none" /\ MayWrite(d, g)
      BY <2>1 DEF Round, WriteBits, Underway
    <3>2. pc' = "output" /\ obj[d] = "live" => d # c
      BY <2>1, <3>1 DEF Round, WriteBits, MayWrite, Underway
    <3> QED BY <1>2, <2>1, <2>2, <3>1, <3>2 DEF MayWrite, netVars, regVars
  <2>5. AcceptsFirst'
    BY <1>2, <2>1, <2>3 DEF AcceptsFirst, IInv, TypeOK, NetTypeOK, netVars
  <2>6. CalledToSend'
    BY <1>2, <2>1, <2>2 DEF CalledToSend, Round, WriteBits, MayWrite, Underway
  <2> QED BY <1>2, <2>1, <2>4, <2>5, <2>6 DEF Round, netVars, regVars, timerVars
<1> QED BY <1>1, <1>2 DEF CallHandleInput, CallHandleOutput

LEMMA LoopRound ==
  ASSUME IInv, Owed, Round, Loop
  PROVE  Round'
<1>1. CASE TestRunning \/ PselectFails \/ EndOfRound \/ TimersDispatched
  BY <1>1, QuietRound
     DEF TestRunning, PselectFails, EndOfRound, TimersDispatched, netVars, regVars,
         timerVars, SendsOn, Sending, AppOf, Underway, InHandler
<1>2. CASE PselectReturns
  <2>1. readCurrent' \subseteq readCurrent
    BY <1>2 DEF PselectReturns, Readable
  <2> QED BY <1>2, <2>1, QuietRound
          DEF PselectReturns, netVars, regVars, timerVars, SendsOn, Sending, AppOf
<1>3. ASSUME NEW c \in Client, DropCancelledTimer(c) PROVE FALSE
  BY <1>3 DEF DropCancelledTimer, Round
<1> QED BY <1>1, <1>2, <1>3, CopySetsRound, CallRound DEF Loop

LEMMA AcceptRound ==
  ASSUME IInv, Round, NEW a \in Acceptor, NEW c \in Client, NEW f \in ClientFd,
         AcceptClient(a, c, f)
  PROVE  Round'
<1>1. /\ pc = "dispatch" /\ pc' = "open" /\ cur' = c /\ obj[c] = "none"
      /\ UNCHANGED <<dial, phase, listening, table, sigTable, due, writeCurrent>>
      /\ readCurrent' \subseteq readCurrent
      /\ a \in listening /\ ListenFd[a] \in readCurrent /\ f \notin OpenFds
  BY DEF AcceptClient, regVars, timerVars, IInv, Ownership, FreshHasNothing
<1>2. /\ \A d \in Client : d # c => sock'[d] = sock[d] /\ obj'[d] = obj[d]
      /\ sock'[c] = f /\ obj'[c] = "live"
      /\ Live' = Live \cup {c}
  BY DEF AcceptClient, SetFd, Live, IInv, TypeOK, NetTypeOK, SelectorTypeOK
<1>3. ASSUME NEW g \in writeCurrent
      PROVE  \E d \in Client : d # c /\ table[g] = d /\ obj[d] = "live" /\ MayWrite(d, g)
  BY <1>1 DEF Round, WriteBits, AcceptsFirst, Underway, Live
<1>4. WriteBits'
  <2>1. \A d \in Client : SendsOn(d) => SendsOn(d)'
    BY <1>1 DEF SendsOn, Sending, AppOf
  <2> QED BY <1>1, <1>2, <1>3, <2>1 DEF WriteBits, MayWrite
<1>5. f \notin writeCurrent
  <2> SUFFICES ASSUME f \in writeCurrent PROVE FALSE
    OBVIOUS
  <2>1. PICK d \in Client : obj[d] = "live" /\ MayWrite(d, f)
    BY <1>3
  <2>2. sock[d] = f /\ f # NoFd
    BY <2>1 DEF MayWrite, NoFd
  <2> QED BY <1>1, <2>2 DEF OpenFds, Sockets
<1>6. AcceptsFirst'
  BY <1>1, <1>2, <1>5 DEF Round, AcceptsFirst, Underway
<1> QED BY <1>1, <1>4, <1>6 DEF Round, CalledToSend

LEMMA OpenRound ==
  ASSUME IInv, Round, NEW c \in Client, OpenHandler(c)
  PROVE  Round'
<1>1. /\ pc = "open" /\ cur = c /\ pc' \in {"fopen", "arm"} /\ c \in Live
      /\ cur' = cur
      /\ UNCHANGED <<netVars, due, readCurrent, writeCurrent, obj>>
      /\ sigTable \subseteq sigTable'
      /\ table' = [table EXCEPT ![sock[c]] = c]
  BY DEF OpenHandler, RegisterRead, RegisterSignal,
         timerVars, IInv, Ownership, UnderConstruction, Live
<1>2. sock[c] \notin writeCurrent
  BY <1>1 DEF Round, AcceptsFirst
<1>3. \A g \in writeCurrent : table'[g] = table[g]
  BY <1>1, <1>2 DEF IInv, TypeOK, SelectorTypeOK
<1>4. Live' = Live /\ \A d \in Client : SendsOn(d) => SendsOn(d)'
  BY <1>1 DEF Live, SendsOn, Sending, AppOf, netVars
<1>5. WriteBits'
  <2> SUFFICES ASSUME NEW g \in writeCurrent
               PROVE  \E d \in Client : table'[g] = d /\ obj'[d] # "none" /\ MayWrite(d, g)'
    BY <1>1 DEF WriteBits
  <2>1. PICK d \in Client : table[g] = d /\ obj[d] # "none" /\ MayWrite(d, g)
    BY <1>1 DEF Round, WriteBits, Underway, InHandler
  <2>2. d # c
    BY <1>1, <2>1 DEF MayWrite, Live
  <2> QED BY <1>1, <1>3, <1>4, <2>1, <2>2 DEF MayWrite, netVars
<1>6. AcceptsFirst'
  BY <1>1, <1>3, <1>4 DEF Round, AcceptsFirst, Underway, InHandler, netVars
<1> QED BY <1>1, <1>5, <1>6 DEF Round, CalledToSend, netVars

(* SIGINT closes the acceptors, and whom it closes has no bit to lose.     *)
LEMMA SignalRound ==
  ASSUME IInv, Round, Interrupt
  PROVE  Round'
<1>1. CASE \E c \in Client : CrashInClose(c)
  BY <1>1, CrashRound DEF CrashInClose
<1>2. ASSUME NEW S \in SUBSET (sigTable \cap Client), NEW F,
             CloseAll(S, F, sigTable \cap Acceptor), cur' = cur,
             pc' \in IF pc = "select" THEN {"select", "top"} ELSE {pc},
             UNCHANGED <<due, readCurrent, writeCurrent>>
      PROVE  Round'
  <2>1. /\ listening' = {}
        /\ UNCHANGED <<dial, table>>
        /\ \A d \in Client : obj'[d] = IF d \in S THEN "freed" ELSE obj[d]
        /\ \A d \in Client \ S : sock'[d] = sock[d] /\ phase'[d] = phase[d]
    BY <1>2 DEF CloseAll, UnRegisterIO, Round, IInv, TypeOK, NetTypeOK
  <2>2. ASSUME NEW d \in Client, d \notin S, SendsOn(d) PROVE SendsOn(d)'
    BY <1>2, <2>1, <2>2 DEF SendsOn, Sending, AppOf
  <2>3. WriteBits'
    <3> SUFFICES ASSUME NEW g \in writeCurrent, pc' \in Underway
                 PROVE  \E d \in Client : table'[g] = d /\ obj'[d] # "none" /\ MayWrite(d, g)'
      BY <1>2 DEF WriteBits
    <3>1. PICK d \in Client : table[g] = d /\ obj[d] # "none" /\ MayWrite(d, g)
      BY <1>2 DEF Round, WriteBits, Underway, InHandler
    <3> QED BY <1>2, <2>1, <2>2, <3>1 DEF MayWrite
  <2>4. AcceptsFirst'
    <3>1. pc' = "open" => pc = "open" /\ cur \in Client /\ cur \notin S
      BY <1>2 DEF IInv, Ownership, UnderConstruction, InHandler
    <3> QED BY <1>2, <2>1, <3>1 DEF Round, AcceptsFirst
  <2>5. CalledToSend'
    <3>1. pc' = "output" => pc = "output" /\ cur \in Client
      BY <1>2 DEF IInv, Ownership, UnderConstruction, InHandler
    <3> QED BY <1>2, <2>1, <2>2, <3>1 DEF Round, CalledToSend
  <2> QED BY <1>2, <2>1, <2>3, <2>4, <2>5 DEF Round
<1> QED BY <1>1, <1>2 DEF Interrupt, HandleSignal

LEMMA PeerRound ==
  ASSUME IInv, Round, NEW c \in Client, Peer(c)
  PROVE  Round'
<1>1. UNCHANGED <<dial, sock, listening, table, sigTable, obj, due, pc, cur, readCurrent, writeCurrent>>
  BY DEF Peer, Connect, Send, Hangup, selectorVars, regVars, timerVars, loopVars
<1>2. \A d \in Client : Sending(d) => Sending(d)'
  BY <1>1 DEF Peer, Connect, Send, Hangup, Sending, IInv, TypeOK, NetTypeOK
<1>3. pc = "output" => cur \in Client
  BY DEF IInv, Ownership, UnderConstruction, InHandler
<1> QED BY <1>1, <1>2, <1>3, QuietRound DEF SendsOn, AppOf

LEMMA NextRound ==
  ASSUME IInv, Owed, Conversations, Round, "timeout" \notin Disturbance, [Next]_vars
  PROVE  Round'
<1>0. pc = "output" => cur \in Client
  BY DEF IInv, Ownership, UnderConstruction, InHandler
<1>1. CASE ResumeFreed
  BY <1>1, CrashRound DEF ResumeFreed
<1>2. ASSUME NEW a \in Acceptor, AcceptFails(a) PROVE Round'
  BY <1>0, <1>2, QuietRound
     DEF AcceptFails, netVars, regVars, timerVars, SendsOn, Sending, AppOf
<1>3. ASSUME NEW c \in Client, OpenFile(c) \/ OpenFileFails(c) \/ ArmTimer(c)
      PROVE  Round'
  BY <1>3, QuietRound
     DEF OpenFile, OpenFileFails, ArmTimer, ReturnToLoop, netVars, regVars, timerVars,
         SendsOn, Sending, AppOf
<1>4. ASSUME NEW c \in Client, Expires(c) \/ Timeout(c) PROVE FALSE
  BY <1>4 DEF Expires, HandleTimer, TimerCloses, FinishTimer, Timeout, Elapse, Round
<1>5. CASE UNCHANGED vars
  BY <1>0, <1>5, QuietRound
     DEF vars, handlerVars, selectorVars, netVars, regVars, timerVars, loopVars,
         SendsOn, Sending, AppOf
<1> QED BY <1>1, <1>2, <1>3, <1>4, <1>5, NextIs, HandlerRound, LoopRound,
           AcceptRound, OpenRound, SignalRound, PeerRound DEF Opens

-----------------------------------------------------------------------------
(* Timers.                                                                 *)

(* A handler without an armed node is still being opened, or its fopen     *)
(* failed, or its time elapsed and its fclose failed.                      *)
TimersHeld ==
  \A c \in Live :
    \/ timer[c] = "armed"
    \/ c = cur /\ pc \in {"open", "fopen", "arm"}
    \/ "openfail" \in Disturbance /\ timer[c] = "none" /\ file[c] = "failed"
    \/ /\ {"timeout", "fcloseFail"} \subseteq Disturbance
       /\ timer[c] = "freed" /\ AppOf(c) # "log"

(* Only Open's fopen may fail, and the service has none in its Open.       *)
FailedFopens ==
  /\ \A c \in Client : obj[c] = "none" => file[c] = "none"
  /\ \A c \in Live : file[c] = "failed" => AppOf(c) # "service"
  /\ pc = "fopen" => AppOf(cur) # "service"

(* Without timeouts nothing elapses.                                       *)
NoneDue == "timeout" \notin Disturbance => due = {} /\ pc \notin {"expire", "closeTimer"}

Timers == TimersHeld /\ FailedFopens /\ NoneDue

LEMMA InitTimers == Init => Timers
  BY DEF Init, NetInit, SelectorInit, Timers, TimersHeld, FailedFopens, NoneDue, Live

(* A step that keeps the nodes and the failed files of those that live.    *)
LEMMA QuietTimers ==
  ASSUME IInv, Timers, UNCHANGED dial,
         \A c \in Client : obj'[c] = "none" => obj[c] = "none" /\ file'[c] = file[c],
         \A c \in Client : obj'[c] = "live" =>
           /\ obj[c] = "live" /\ timer'[c] = timer[c]
           /\ \/ file'[c] = file[c]
              \/ file'[c] # "failed" /\ (file[c] = "failed" => AppOf(c) = "service"),
         \/ pc' = pc /\ cur' = cur
         \/ pc \notin {"open", "fopen", "arm"} /\ pc' # "fopen",
         due' \subseteq due \/ "timeout" \in Disturbance,
         pc' \in {"expire", "closeTimer"} =>
           pc \in {"expire", "closeTimer"} \/ "timeout" \in Disturbance
  PROVE  Timers'
<1>1. \A c \in Client : AppOf(c)' = AppOf(c)
  BY DEF AppOf
<1>2. TimersHeld'
  BY <1>1 DEF Timers, TimersHeld, FailedFopens, Live
<1>3. FailedFopens'
  <2>1. pc' = "fopen" => pc = "fopen" /\ cur' = cur /\ AppOf(cur)' = AppOf(cur)
    BY DEF AppOf
  <2> QED BY <1>1, <2>1 DEF Timers, FailedFopens, Live
<1>4. NoneDue'
  BY DEF Timers, NoneDue
<1> QED BY <1>2, <1>3, <1>4 DEF Timers

LEMMA CrashTimers ==
  ASSUME IInv, Timers, NEW f, Crash(f), UNCHANGED file
  PROVE  Timers'
  BY QuietTimers DEF Crash, netVars, timerVars, loopVars

(* A handler leaves its node alone, and a file that failed.                *)
LEMMA HandlerTimers ==
  ASSUME IInv, Timers, NEW c \in Client, Runs(c)
  PROVE  Timers'
<1>1. Running(c) /\ (Returns(c) \/ StartsUpload(c) \/ StartsClosing(c) \/ Breaks(c))
  BY HandlerDoes
<1>2. c \in Live /\ obj[c] = "live" /\ pc \in {"input", "upload", "output", "close"}
  BY <1>1 DEF Running, Live
<1>3. CASE Returns(c)
  <2>1. /\ \A d \in Client : d # c => obj'[d] = obj[d] /\ file'[d] = file[d]
        /\ \A d \in Client : obj'[d] = "live" => timer'[d] = timer[d]
        /\ pc' = "dispatch" /\ UNCHANGED <<dial, due>>
    BY <1>3 DEF Returns
  <2>2. obj'[c] # "none"
    BY <1>3 DEF Returns, Closes
  <2>3. obj'[c] = "live" =>
          \/ file'[c] = file[c]
          \/ file'[c] # "failed" /\ (file[c] = "failed" => AppOf(c) = "service")
    <3>1. AppOf(c) \in Apps
      BY DEF AppOf, IInv, TypeOK, NetTypeOK
    <3> QED BY <1>3, <3>1 DEF Returns, Closes, Answers, Begins, GoesOn, Apps
  <2> QED BY <1>2, <2>1, <2>2, <2>3, QuietTimers
<1>4. CASE StartsUpload(c)
  BY <1>2, <1>4, QuietTimers DEF StartsUpload, timerVars
<1>5. CASE StartsClosing(c)
  <2>1. \A d \in Client : \/ file'[d] = file[d]
                          \/ file[d] = "open" /\ file'[d] = "closed"
    BY <1>5 DEF StartsClosing, CloseFile, IInv, TypeOK, FileTypeOK
  <2>2. UNCHANGED <<dial, obj, timer, due>> /\ pc' = "close"
    BY <1>5 DEF StartsClosing, CloseFile, netVars, timerVars
  <2> QED BY <1>2, <2>1, <2>2, QuietTimers DEF Timers, FailedFopens
<1>6. CASE Breaks(c)
  BY <1>6, CrashTimers DEF Breaks
<1> QED BY <1>1, <1>3, <1>4, <1>5, <1>6

(* Open gives the handler its node unless its fopen fails.                 *)
LEMMA OpenTimers ==
  ASSUME IInv, Timers, NEW c \in Client, Opens(c)
  PROVE  Timers'
<1>1. /\ pc \in {"open", "fopen", "arm"} /\ cur = c
      /\ UNCHANGED <<dial, obj, due>>
      /\ \A d \in Client : d # c => timer'[d] = timer[d] /\ file'[d] = file[d]
      /\ pc' \in {"fopen", "arm", "dispatch"}
  BY DEF Opens, OpenHandler, OpenFile, OpenFileFails, ArmTimer, SchedualTimer, ReturnToLoop,
         netVars, timerVars, IInv, TypeOK, SelectorTypeOK, FileTypeOK
<1>2. obj[c] = "live" /\ timer[c] = "none"
  BY <1>1 DEF IInv, Ownership, UnderConstruction
<1>3. \/ pc' \in {"fopen", "arm"} /\ cur' = c /\ timer'[c] = "none"
         /\ file'[c] \in {file[c], "open"}
         /\ (pc' = "fopen" => AppOf(c) # "service")
      \/ pc' = "dispatch" /\ timer'[c] = "none" /\ file'[c] = "failed"
         /\ "openfail" \in Disturbance /\ pc = "fopen"
      \/ pc' = "dispatch" /\ timer'[c] = "armed" /\ file'[c] = file[c]
  BY <1>1, <1>2
     DEF Opens, OpenHandler, OpenFile, OpenFileFails, ArmTimer, SchedualTimer, ReturnToLoop,
         timerVars, IInv, TypeOK, SelectorTypeOK, FileTypeOK
<1>4. Live' = Live /\ \A d \in Client : AppOf(d)' = AppOf(d)
  BY <1>1 DEF Live, AppOf
<1>5. TimersHeld'
  BY <1>1, <1>3, <1>4 DEF Timers, TimersHeld, Live
<1>6. FailedFopens'
  <2>1. pc' = "fopen" => AppOf(cur)' # "service"
    BY <1>1, <1>3, <1>4
  <2>2. file'[c] = "failed" => AppOf(c) # "service"
    BY <1>1, <1>2, <1>3 DEF Timers, FailedFopens, Live
  <2> QED BY <1>1, <1>2, <1>4, <2>1, <2>2 DEF Timers, FailedFopens, Live
<1>7. NoneDue'
  BY <1>1, <1>3 DEF Timers, NoneDue
<1> QED BY <1>5, <1>6, <1>7 DEF Timers

(* A node is freed with its handler, or after its fclose failed.           *)
LEMMA ExpireTimers ==
  ASSUME IInv, Timers, NEW c \in Client, Expires(c)
  PROVE  Timers'
<1>1. CASE HandleTimer(c)
  <2>1. CASE Crash("freed") /\ UNCHANGED file
    BY <2>1, CrashTimers
  <2>2. CASE /\ pc' = "expire" /\ cur' = c
             /\ UNCHANGED <<netVars, timerVars, obj, file>>
    <3>1. pc = "timers" /\ "timeout" \in Disturbance
      BY <1>1 DEF HandleTimer, Timers, NoneDue
    <3> QED BY <2>2, <3>1, QuietTimers DEF netVars, timerVars
  <2> QED BY <1>1, <2>1, <2>2 DEF HandleTimer
<1>2. ASSUME pc \in {"expire", "closeTimer"} PROVE "timeout" \in Disturbance
  BY <1>2 DEF Timers, NoneDue
<1>3. CASE TimerCloses(c)
  <2>1. pc = "expire" /\ obj[c] = "live" /\ "timeout" \in Disturbance
    BY <1>2, <1>3 DEF TimerCloses
  <2>2. CASE CrashInFclose(c)
    BY <2>2, CrashTimers DEF CrashInFclose
  <2>3. CASE CloseFile(c, "closeTimer")
    <3>1. \A d \in Client : \/ file'[d] = file[d]
                            \/ file[d] = "open" /\ file'[d] = "closed"
      BY <2>3 DEF CloseFile, IInv, TypeOK, FileTypeOK
    <3>2. UNCHANGED <<dial, obj, timer, due>> /\ pc' = "closeTimer"
      BY <2>3 DEF CloseFile, netVars, timerVars
    <3> QED BY <2>1, <3>1, <3>2, QuietTimers DEF Timers, FailedFopens
  <2>4. CASE FcloseFails(c) /\ TimerServed(c)
    <3>1. /\ UNCHANGED <<dial, obj>> /\ pc' = "timers"
          /\ "fcloseFail" \in Disturbance /\ AppOf(c) # "log"
          /\ \A d \in Client : timer'[d] = IF d = c THEN "freed" ELSE timer[d]
          /\ \A d \in Client : file'[d] = IF d = c THEN "closed" ELSE file[d]
      BY <2>4 DEF FcloseFails, FcloseMayFail, TimerServed, NodesFreed, netVars, IInv, TypeOK,
                  FileTypeOK
    <3>2. \A d \in Client : AppOf(d)' = AppOf(d)
      BY <3>1 DEF AppOf
    <3>3. TimersHeld'
      BY <2>1, <3>1, <3>2 DEF Timers, TimersHeld, Live
    <3>4. FailedFopens'
      BY <2>1, <3>1, <3>2 DEF Timers, FailedFopens, Live
    <3> QED BY <2>1, <3>3, <3>4 DEF Timers, NoneDue
  <2> QED BY <1>3, <2>2, <2>3, <2>4 DEF TimerCloses
<1>4. CASE FinishTimer(c)
  <2>1. /\ pc = "closeTimer" /\ pc' = "timers" /\ "timeout" \in Disturbance
        /\ dial' = dial
        /\ \A d \in Client : d # c => /\ timer'[d] = timer[d] /\ obj'[d] = obj[d]
                                      /\ file'[d] = file[d]
        /\ obj'[c] = "freed"
    BY <1>2, <1>4 DEF FinishTimer, TimerServed, NodesFreed, CloseAll
  <2> QED BY <2>1, QuietTimers
<1> QED BY <1>1, <1>3, <1>4 DEF Expires

LEMMA NextTimers ==
  ASSUME IInv, Timers, [Next]_vars
  PROVE  Timers'
<1>1. CASE Loop /\ UNCHANGED file
  <2>1. ASSUME NEW c \in Client, DropCancelledTimer(c) PROVE Timers'
    <3>1. /\ UNCHANGED <<netVars, loopVars, obj, file>> /\ timer[c] = "cancelled"
          /\ due' \subseteq due /\ pc = "timers"
          /\ \A d \in Client : d # c => timer'[d] = timer[d]
      BY <1>1, <2>1 DEF DropCancelledTimer, NodesFreed
    <3>2. obj[c] # "live"
      BY <3>1 DEF Timers, TimersHeld, Live
    <3> QED BY <3>1, <3>2, QuietTimers DEF netVars, loopVars
  <2>2. ASSUME NEW c \in Client, NEW f \in ClientFd,
               CallHandleInput(c, f) \/ CallHandleOutput(c, f)
        PROVE  Timers'
    BY <1>1, <2>2, CrashTimers, QuietTimers
       DEF CallHandleInput, CallHandleOutput, netVars, timerVars
  <2>3. CASE \/ TestRunning \/ CopySets \/ PselectFails \/ PselectReturns
             \/ TimersDispatched \/ EndOfRound
    BY <1>1, <2>3, QuietTimers
       DEF TestRunning, CopySets, PselectFails, PselectReturns, TimersDispatched,
           EndOfRound, netVars, timerVars
  <2> QED BY <1>1, <2>1, <2>2, <2>3 DEF Loop
<1>2. CASE ResumeFreed
  BY <1>2, CrashTimers DEF ResumeFreed
<1>3. ASSUME NEW a \in Acceptor, AcceptFails(a) PROVE Timers'
  BY <1>3, QuietTimers DEF AcceptFails, netVars, timerVars
<1>4. ASSUME NEW a \in Acceptor, NEW c \in Client, NEW f \in ClientFd, AcceptClient(a, c, f)
      PROVE  Timers'
  <2>1. /\ Live' \subseteq Live \cup {c}
        /\ \A d \in Client : obj'[d] = "none" => obj[d] = "none"
    BY <1>4 DEF AcceptClient, Live, IInv, TypeOK, SelectorTypeOK
  <2>2. file[c] = "none"
    BY <1>4 DEF AcceptClient, IInv, Ownership, FreshHasNothing, Timers, FailedFopens
  <2>3. \A d \in Client : AppOf(d)' = AppOf(d)
    BY <1>4 DEF AcceptClient, AppOf
  <2>4. /\ pc = "dispatch" /\ pc' = "open" /\ cur' = c /\ UNCHANGED <<timer, due, file>>
    BY <1>4 DEF AcceptClient, timerVars
  <2> QED BY <2>1, <2>2, <2>3, <2>4 DEF Timers, TimersHeld, FailedFopens, NoneDue, Live
<1>5. CASE Interrupt
  <2>1. ASSUME NEW S \in SUBSET (sigTable \cap Client), NEW A,
               NEW F \in SUBSET {d \in sigTable \cap Client : FcloseMayFail(d)},
               CloseAll(S, F, A), timer' = Cancelled(S), cur' = cur, due' = due,
               pc' = pc \/ (pc = "select" /\ pc' = "top")
        PROVE  Timers'
    <3>1. \A d \in Client : /\ obj'[d] = IF d \in S THEN "freed" ELSE obj[d]
                            /\ d \notin S => timer'[d] = timer[d]
                            /\ d \notin S => \/ file'[d] = file[d]
                                             \/ file[d] = "open" /\ file'[d] = "closed"
      BY <2>1 DEF CloseAll, Cancelled, FcloseMayFail
    <3>2. \A d \in Client : obj[d] = "none" => file'[d] = file[d] \/ d \in S
      BY <2>1, <3>1 DEF Timers, FailedFopens
    <3>3. dial' = dial
      BY <2>1 DEF CloseAll
    <3> QED BY <2>1, <3>1, <3>2, <3>3, QuietTimers
  <2> QED BY <1>5, <2>1, CrashTimers DEF Interrupt, HandleSignal, CrashInClose
<1>6. ASSUME NEW c \in Client, Timeout(c) PROVE Timers'
  BY <1>6, QuietTimers DEF Timeout, Elapse, netVars, loopVars
<1>7. ASSUME NEW c \in Client, Peer(c) PROVE Timers'
  <2>1. UNCHANGED <<obj, timer, due, pc, cur, file>>
    BY <1>7 DEF Peer, selectorVars, timerVars, loopVars
  <2>2. CASE dial' = dial
    BY <2>1, <2>2, QuietTimers
  <2>3. CASE Connect(c)
    <3>1. obj[c] = "none" /\ \A d \in Client : d # c => AppOf(d)' = AppOf(d)
      BY <2>3 DEF Connect, AppOf, IInv, Ownership, FreshHasNothing, TypeOK, NetTypeOK
    <3>2. pc = "fopen" => cur # c /\ cur \in Client
      BY <3>1 DEF IInv, Ownership, UnderConstruction, InHandler
    <3>3. TimersHeld' /\ NoneDue'
      BY <2>1, <3>1 DEF Timers, TimersHeld, NoneDue, Live
    <3>4. FailedFopens'
      BY <2>1, <3>1, <3>2 DEF Timers, FailedFopens, Live
    <3> QED BY <3>3, <3>4 DEF Timers
  <2> QED BY <1>7, <2>2, <2>3 DEF Peer, Send, Hangup
<1>8. CASE UNCHANGED vars
  BY <1>8, QuietTimers DEF vars, handlerVars, selectorVars, netVars, timerVars, loopVars
<1> QED BY <1>1, <1>2, <1>3, <1>4, <1>5, <1>6, <1>7, <1>8, NextIs, HandlerTimers,
           OpenTimers, ExpireTimers

LEMMA TimersInvariant == Spec => []Timers
<1>1. IInv /\ Timers /\ [Next]_vars => Timers'
  BY NextTimers
<1> QED BY <1>1, InitTimers, Invariance, PTL DEF Spec

(* Whatever goes wrong, a connection escapes its timeout only in Open,     *)
(* after a failed fopen, or after a failed fclose when its time was up.    *)
THEOREM TimersGuardConnections == Spec => []LiveHasTimer
<1>1. Timers => LiveHasTimer
  BY DEF Timers, TimersHeld, LiveHasTimer
<1> QED BY <1>1, TimersInvariant, PTL

-----------------------------------------------------------------------------
(* Shutdown, where no fclose fails.                                        *)

(* SIGINT reaches every acceptor that listens, and leaves at most the      *)
(* connection it found in Open.                                            *)
Shutdown ==
  /\ listening \subseteq sigTable
  /\ pc = "returned" => ~running
  /\ ~running => listening = {} /\ \A c, d \in Live : c = d

LEMMA QuietShutdown ==
  ASSUME IInv, Shutdown, UNCHANGED <<listening, running>>,
         sigTable \cap Acceptor \subseteq sigTable',
         \A d \in Client : obj'[d] = "live" => obj[d] = "live",
         pc' = "returned" => pc = "returned" \/ ~running
  PROVE  Shutdown'
<1>1. Live' \subseteq Live /\ listening \subseteq Acceptor
  BY DEF Live, IInv, TypeOK, NetTypeOK
<1> QED BY <1>1 DEF Shutdown

(* SIGINT: of the handlers, only one that has not registered is left.      *)
LEMMA SignalLeaves ==
  ASSUME IInv, CloseAll(sigTable \cap Client, {}, sigTable \cap Acceptor)
  PROVE  /\ \A c \in Live' : c \in Live /\ pc = "open" /\ c = cur
         /\ listening' = listening \ sigTable
<1>1. Live' = Live \ sigTable
  BY DEF CloseAll, Live, IInv, TypeOK, NetTypeOK, SelectorTypeOK
<1>2. listening' = listening \ sigTable
  BY DEF CloseAll, UnRegisterSignal, IInv, TypeOK, NetTypeOK, SelectorTypeOK
<1> QED BY <1>1, <1>2 DEF IInv, Ownership, LiveIsRegistered

LEMMA NextShutdown ==
  ASSUME IInv, "fcloseFail" \notin Disturbance, Shutdown, [Next]_vars
  PROVE  Shutdown'
<1>1. ASSUME NEW f, Crash(f) PROVE Shutdown'
  BY <1>1, QuietShutdown DEF Crash, netVars, regVars, loopVars
<1>2. ASSUME NEW c \in Client, Runs(c) PROVE Shutdown'
  <2>1. Running(c) /\ (Returns(c) \/ StartsUpload(c) \/ StartsClosing(c) \/ Breaks(c))
    BY <1>2, HandlerDoes
  <2>2. CASE Returns(c)
    <3>1. \A d \in Client : obj'[d] = "live" => obj[d] = "live"
      BY <2>1, <2>2 DEF Returns, Running, Live
    <3> QED BY <2>2, <3>1, QuietShutdown DEF Returns
  <2>3. CASE StartsUpload(c)
    BY <2>3, QuietShutdown DEF StartsUpload, regVars
  <2>4. CASE StartsClosing(c)
    BY <2>4, QuietShutdown DEF StartsClosing, CloseFile, netVars, regVars
  <2> QED BY <1>1, <2>1, <2>2, <2>3, <2>4 DEF Breaks
<1>3. CASE Loop
  <2>1. CASE TestRunning
    BY <2>1, QuietShutdown DEF TestRunning, netVars, regVars
  <2>2. CASE PselectFails \/ TimersDispatched \/ EndOfRound
    BY <2>2, QuietShutdown
       DEF PselectFails, TimersDispatched, EndOfRound, netVars, regVars
  <2>3. CASE CopySets \/ PselectReturns
    BY <2>3, QuietShutdown DEF CopySets, PselectReturns, netVars, regVars
  <2>4. ASSUME NEW c \in Client, DropCancelledTimer(c) PROVE Shutdown'
    BY <2>4, QuietShutdown DEF DropCancelledTimer, netVars, regVars, loopVars
  <2>5. ASSUME NEW c \in Client, NEW f \in ClientFd,
               CallHandleInput(c, f) \/ CallHandleOutput(c, f)
        PROVE  Shutdown'
    BY <1>1, <2>5, QuietShutdown DEF CallHandleInput, CallHandleOutput, netVars, regVars
  <2> QED BY <1>3, <2>1, <2>2, <2>3, <2>4, <2>5 DEF Loop
<1>4. CASE ResumeFreed \/ UNCHANGED vars \/ \E a \in Acceptor : AcceptFails(a)
  <2>1. CASE \E a \in Acceptor : AcceptFails(a)
    BY <2>1, QuietShutdown DEF AcceptFails, netVars, regVars
  <2>2. CASE UNCHANGED vars
    BY <2>2, QuietShutdown
       DEF vars, handlerVars, selectorVars, netVars, regVars, loopVars
  <2> QED BY <1>1, <1>4, <2>1, <2>2 DEF ResumeFreed
<1>5. ASSUME NEW a \in Acceptor, NEW c \in Client, NEW f \in ClientFd, AcceptClient(a, c, f)
      PROVE  Shutdown'
  BY <1>5 DEF AcceptClient, Shutdown, regVars
<1>6. ASSUME NEW c \in Client, Opens(c) PROVE Shutdown'
  BY <1>6, QuietShutdown
     DEF Opens, OpenHandler, OpenFile, OpenFileFails, ArmTimer, RegisterSignal, ReturnToLoop,
         netVars, regVars
<1>7. ASSUME NEW c \in Client, Expires(c) PROVE Shutdown'
  <2>1. CASE HandleTimer(c)
    BY <1>1, <2>1, QuietShutdown DEF HandleTimer, netVars, regVars
  <2>2. CASE TimerCloses(c)
    BY <1>1, <2>2, QuietShutdown
       DEF TimerCloses, CrashInFclose, CloseFile, FcloseFails, TimerServed, netVars, regVars
  <2>3. CASE FinishTimer(c)
    <3>1. sigTable' = sigTable \ {c} /\ listening' = listening /\ c \notin Acceptor
      BY <2>3 DEF FinishTimer, CloseAll, UnRegisterSignal
    <3> QED BY <2>3, <3>1, QuietShutdown DEF FinishTimer, TimerServed, CloseAll
  <2> QED BY <1>7, <2>1, <2>2, <2>3 DEF Expires
<1>8. CASE Interrupt
  <2>1. CASE /\ CloseAll(sigTable \cap Client, {}, sigTable \cap Acceptor)
             /\ running' = FALSE
    BY <2>1, SignalLeaves DEF Shutdown
  <2>2. \A c : ~FcloseMayFail(c)
    BY DEF FcloseMayFail
  <2> QED BY <1>1, <1>8, <2>1, <2>2 DEF Interrupt, HandleSignal, CrashInClose
<1>9. ASSUME NEW c \in Client, Timeout(c) \/ Peer(c) PROVE Shutdown'
  <2>1. CASE Timeout(c)
    BY <2>1, QuietShutdown DEF Timeout, Elapse, netVars, regVars, loopVars
  <2>2. CASE Peer(c)
    BY <2>2, QuietShutdown DEF Peer, Connect, Send, Hangup, selectorVars, regVars, loopVars
  <2> QED BY <1>9, <2>1, <2>2
<1> QED BY <1>2, <1>3, <1>4, <1>5, <1>6, <1>7, <1>8, <1>9, NextIs

(* When HandleEvents returns, where no fclose fails, all listening sockets *)
(* are closed and at most the connection SIGINT found in Open is left.     *)
THEOREM ShutdownIsComplete ==
  "fcloseFail" \notin Disturbance /\ Spec => []ShutdownReleases
<1> SUFFICES ASSUME "fcloseFail" \notin Disturbance
             PROVE  Spec => []ShutdownReleases
  OBVIOUS
<1>1. Init => Shutdown
  BY DEF Init, NetInit, SelectorInit, AcceptorSignals, Shutdown
<1>2. IInv /\ Shutdown /\ [Next]_vars => Shutdown'
  BY NextShutdown
<1>3. Shutdown => ShutdownReleases
  BY DEF Shutdown, ShutdownReleases
<1> QED BY <1>1, <1>2, <1>3, Invariance, PTL DEF Spec

-----------------------------------------------------------------------------
(* Where faults come from.                                                 *)

LEMMA FaultComes ==
  ASSUME IInv, [Next]_vars, fault' # fault
  PROVE  \/ \E c \in Client : Running(c) /\ Breaks(c)
         \/ /\ fault' = "freed" /\ pc = "dispatch"
            /\ \E c \in Client, f \in readCurrent \cup writeCurrent :
                 table[f] = c /\ obj[c] = "freed"
         \/ /\ fault' = "freed" /\ obj[cur] = "freed"
            /\ pc \in {"input", "upload", "output", "close", "expire", "closeTimer"}
         \/ fault' = "file" /\ pc = "expire"
         \/ /\ "sigint" \in Disturbance
            /\ \E c \in Live \cap sigTable : fault' = CloseFault(c)
<1>1. ASSUME NEW c \in Client, Runs(c)
      PROVE  Running(c) /\ Breaks(c)
  BY <1>1, HandlerDoes DEF Returns, StartsUpload, StartsClosing, CloseFile
<1>2. CASE Loop
  <2>1. ASSUME NEW c \in Client, NEW f \in ClientFd,
               CallHandleInput(c, f) \/ CallHandleOutput(c, f)
        PROVE  /\ fault' = "freed" /\ pc = "dispatch"
               /\ f \in readCurrent \cup writeCurrent /\ table[f] = c /\ obj[c] = "freed"
    BY <2>1 DEF CallHandleInput, CallHandleOutput, IsNext, Crash
  <2>2. \E c \in Client, f \in ClientFd : CallHandleInput(c, f) \/ CallHandleOutput(c, f)
    BY <1>2 DEF Loop, TestRunning, CopySets, PselectFails, PselectReturns,
                TimersDispatched, EndOfRound, DropCancelledTimer
  <2> QED BY <2>1, <2>2
<1>3. CASE ResumeFreed
  BY <1>3 DEF ResumeFreed, Crash
<1>4. ASSUME NEW c \in Client, Expires(c)
      PROVE  fault' = "file" /\ pc = "expire"
  <2>1. HandleTimer(c) => obj[c] = "live"
    BY DEF HandleTimer, IInv, Ownership, CallbacksReachLive, Live
  <2> QED BY <1>4, <2>1 DEF Expires, HandleTimer, TimerCloses, CrashInFclose, CloseFile,
                            FcloseFails, FinishTimer, Crash
<1>5. CASE Interrupt
  <2>1. PICK c \in sigTable \cap Client : CrashInClose(c) /\ "sigint" \in Disturbance
    BY <1>5 DEF Interrupt, HandleSignal
  <2>2. c \in Live /\ fault' = CloseFault(c)
    BY <2>1 DEF CrashInClose, Crash, IInv, Ownership, CallbacksReachLive
  <2> QED BY <2>1, <2>2
<1>6. /\ \A a \in Acceptor : ~AcceptFails(a)
      /\ \A a \in Acceptor, c \in Client, f \in ClientFd : ~AcceptClient(a, c, f)
      /\ \A c \in Client : ~Opens(c) /\ ~Timeout(c) /\ ~Peer(c)
      /\ ~UNCHANGED vars
  BY DEF AcceptFails, AcceptClient, Opens, OpenHandler, OpenFile, OpenFileFails, ArmTimer,
         Timeout, Elapse, Peer, vars, handlerVars, selectorVars
<1> QED BY <1>1, <1>2, <1>3, <1>4, <1>5, <1>6, NextIs

(* HandleClose ends in the fault of a FILE* or of a TimerId.               *)
LEMMA CloseFaultIs ==
  ASSUME NEW c \in Client
  PROVE  CloseFault(c) \in {"none", "file", "timer"}
  BY DEF CloseFault, CancelFault

(* A TimerId is good.                                                      *)
LEMMA NextTimerFault ==
  ASSUME IInv, Timers, Disturbance \cap {"openfail", "sigint"} = {},
         ~({"timeout", "fcloseFail"} \subseteq Disturbance), fault # "timer", [Next]_vars
  PROVE  fault' # "timer"
<1> SUFFICES ASSUME fault' = "timer" PROVE FALSE
  OBVIOUS
<1>1. ASSUME NEW c \in Client, Running(c), Breaks(c) PROVE FALSE
  <2>1. timer[c] = "armed"
    BY <1>1 DEF Running, Timers, TimersHeld
  <2> QED BY <1>1, <2>1 DEF Breaks, Crash, CancelFault
<1> QED BY <1>1, FaultComes

(* Every handler has the file it works on.                                 *)
OpenFiles ==
  /\ \A c \in Client : file[c] \in {"none", "open"} \/ (c = cur /\ pc = "close")
  /\ \A c \in Live :
       /\ AppOf(c) # "service" /\ ~(c = cur /\ pc \in {"open", "fopen", "close"})
            => file[c] = "open"
       /\ Sending(c) /\ ~(c = cur /\ pc = "close") => file[c] = "open"
  /\ pc \in {"open", "fopen", "arm"} => ~Sending(cur)

LEMMA InitOpenFiles == Init => OpenFiles
  BY DEF Init, NetInit, SelectorInit, OpenFiles, Live

(* A step that opens and closes nothing, and sends nothing more.           *)
LEMMA QuietFiles ==
  ASSUME OpenFiles, UNCHANGED <<dial, obj, file>>,
         \A c \in Client : Sending(c)' => Sending(c),
         \/ pc' = pc /\ cur' = cur /\ (pc \in {"open", "fopen", "arm"} => cur \in Client)
         \/ pc \notin {"open", "fopen", "close"} /\ pc' \notin {"open", "fopen", "arm"}
  PROVE  OpenFiles'
  BY DEF OpenFiles, AppOf, Live

LEMMA CrashFiles ==
  ASSUME IInv, OpenFiles, NEW f, Crash(f), UNCHANGED file
  PROVE  OpenFiles'
<1>1. pc \in {"open", "fopen", "arm"} => cur \in Client
  BY DEF IInv, Ownership, UnderConstruction, InHandler
<1> QED BY <1>1, QuietFiles DEF Crash, netVars, loopVars, Sending

LEMMA HandlerFiles ==
  ASSUME IInv, Owed, OpenFiles, "fcloseFail" \notin Disturbance, NEW c \in Client, Runs(c)
  PROVE  OpenFiles'
<1>1. Running(c) /\ (Returns(c) \/ StartsUpload(c) \/ StartsClosing(c) \/ Breaks(c))
  BY HandlerDoes
<1>2. c \in Live /\ obj[c] = "live" /\ cur = c
      /\ pc \in {"input", "upload", "output", "close"}
  BY <1>1 DEF Running, Live
<1>3. CASE Breaks(c)
  BY <1>3, CrashFiles DEF Breaks
<1>4. CASE Returns(c)
  <2>1. /\ pc' = "dispatch" /\ UNCHANGED dial
        /\ \A d \in Client : d # c => phase'[d] = phase[d] /\ obj'[d] = obj[d] /\ file'[d] = file[d]
    BY <1>4 DEF Returns
  <2>2. pc # "close" =>
          file[c] \in {"none", "open"} /\ (AppOf(c) # "service" => file[c] = "open")
    BY <1>2 DEF OpenFiles
  <2>3. /\ file'[c] \in {"none", "open"}
        /\ obj'[c] = "live" /\ AppOf(c) # "service" => file'[c] = "open"
    BY <1>2, <1>4, <2>2 DEF Returns, Closes, Answers, Begins, GoesOn
  <2>4. obj'[c] = "live" /\ phase'[c] \in {"response", "sent", "again"} => file'[c] = "open"
    <3>1. CASE Answers(c)
      <4>1. phase'[c] \in {"response", "sent", "again"} => AppOf(c) # "service"
        BY <3>1 DEF Answers, Owed, OnlyListsAgain
      <4> QED BY <2>3, <4>1
    <3>2. CASE GoesOn(c)
      BY <1>2, <3>2 DEF GoesOn, OpenFiles, Sending
    <3> QED BY <1>2, <1>4, <3>1, <3>2 DEF Returns, Closes, Begins
  <2>5. \A d \in Client : d # c => (Sending(d)' => Sending(d))
    BY <1>2, <2>1 DEF Sending
  <2>6. Sending(c)' => phase'[c] \in {"response", "sent", "again"}
    BY DEF Sending
  <2> QED BY <1>2, <2>1, <2>3, <2>4, <2>5, <2>6 DEF OpenFiles, Live, AppOf
<1>5. CASE StartsUpload(c)
  <2>1. \A d \in Client : d # c => phase'[d] = phase[d]
    BY <1>5 DEF StartsUpload
  <2>2. \A d \in Client : Sending(d)' => Sending(d)
    BY <1>2, <1>5, <2>1 DEF StartsUpload, Sending
  <2>3. pc = "input" /\ pc' = "upload" /\ UNCHANGED <<dial, obj, file>>
    BY <1>5 DEF StartsUpload
  <2> QED BY <2>2, <2>3, QuietFiles
<1>6. CASE StartsClosing(c)
  <2>1. /\ pc \in {"input", "output"} /\ pc' = "close" /\ cur' = c
        /\ UNCHANGED <<dial, phase, obj>>
        /\ \A d \in Client : d # c => file'[d] = file[d]
    BY <1>2, <1>6 DEF StartsClosing, Over, CloseFile, netVars, IInv, TypeOK, FileTypeOK
  <2>2. \A d \in Client : Sending(d)' => Sending(d)
    BY <2>1 DEF Sending
  <2> QED BY <1>2, <2>1, <2>2 DEF OpenFiles, AppOf, Live
<1> QED BY <1>1, <1>3, <1>4, <1>5, <1>6

LEMMA NextOpenFiles ==
  ASSUME IInv, Owed, Round, OpenFiles,
         Disturbance \cap {"timeout", "sigint", "openfail", "fcloseFail"} = {}, [Next]_vars
  PROVE  OpenFiles'
<1>0. pc \in {"open", "fopen", "arm"} => cur \in Client
  BY DEF IInv, Ownership, UnderConstruction, InHandler
<1>1. CASE Loop /\ UNCHANGED file
  BY <1>0, <1>1, QuietFiles, CrashFiles
     DEF Loop, TestRunning, CopySets, PselectFails, PselectReturns, TimersDispatched,
         EndOfRound, CallHandleInput, CallHandleOutput, DropCancelledTimer, Sending,
         netVars, loopVars
<1>2. CASE ResumeFreed \/ UNCHANGED vars \/ \E a \in Acceptor : AcceptFails(a)
  BY <1>0, <1>2, QuietFiles, CrashFiles
     DEF ResumeFreed, AcceptFails, Sending, vars, handlerVars, selectorVars, netVars, loopVars
<1>3. ASSUME NEW a \in Acceptor, NEW c \in Client, NEW f \in ClientFd, AcceptClient(a, c, f)
      PROVE  OpenFiles'
  <2>1. /\ obj[c] = "none" /\ phase[c] \in {"idle", "request"}
        /\ pc = "dispatch" /\ pc' = "open" /\ cur' = c
        /\ UNCHANGED <<dial, phase, file>>
    BY <1>3 DEF AcceptClient, IInv, Ownership, FreshHasNothing, Owed, Unserved
  <2>2. Live' \subseteq Live \cup {c}
    BY <1>3 DEF AcceptClient, Live, IInv, TypeOK, SelectorTypeOK
  <2>3. ~Sending(c)' /\ \A d \in Client : Sending(d)' => Sending(d)
    BY <2>1 DEF Sending
  <2> QED BY <2>1, <2>2, <2>3 DEF OpenFiles, AppOf, Live
<1>4. ASSUME NEW c \in Client, Opens(c) PROVE OpenFiles'
  <2>1. /\ pc \in {"open", "fopen", "arm"} /\ cur = c /\ UNCHANGED <<dial, phase, obj>>
        /\ \A d \in Client : d # c => file'[d] = file[d]
        /\ pc' \in {"fopen", "arm"} => cur' = c
        /\ \/ pc = "open" /\ file'[c] = file[c] /\ pc' = "fopen"
           \/ pc = "open" /\ file'[c] = file[c] /\ pc' = "arm" /\ AppOf(c) = "service"
           \/ file'[c] = "open" /\ pc' = "arm"
           \/ pc = "arm" /\ file'[c] = file[c] /\ pc' = "dispatch"
    BY <1>4 DEF Opens, OpenHandler, OpenFile, OpenFileFails, ArmTimer, ReturnToLoop, netVars,
                IInv, TypeOK, FileTypeOK
  <2>2. ~Sending(c)' /\ \A d \in Client : Sending(d)' => Sending(d)
    BY <2>1 DEF OpenFiles, Sending
  <2>3. \A d \in Client : AppOf(d)' = AppOf(d)
    BY <2>1 DEF AppOf
  <2>4. Live' = Live
    BY <2>1 DEF Live
  <2> QED BY <2>1, <2>2, <2>3, <2>4 DEF OpenFiles, Live
<1>5. ~Interrupt /\ \A c \in Client : ~Timeout(c) /\ ~Expires(c)
  BY DEF Interrupt, HandleSignal, Timeout, Elapse, Expires, HandleTimer, TimerCloses,
         FinishTimer, Round
<1>10. ASSUME NEW c \in Client, Peer(c) PROVE OpenFiles'
  <2>1. UNCHANGED <<dial, pc, cur, obj, file>>
    BY <1>10 DEF Peer, Connect, Send, Hangup, selectorVars, loopVars
  <2>2. \A d \in Client : Sending(d)' => Sending(d)
    BY <1>10, <2>1 DEF Peer, Connect, Send, Hangup, Sending, IInv, TypeOK, NetTypeOK
  <2> QED BY <1>0, <2>1, <2>2, QuietFiles
<1> QED BY <1>1, <1>2, <1>3, <1>4, <1>5, <1>10, NextIs, HandlerFiles

(* A FILE* is open when it is used.                                        *)
LEMMA NextFileFault ==
  ASSUME IInv, Round, OpenFiles, "sigint" \notin Disturbance, fault # "file", [Next]_vars
  PROVE  fault' # "file"
<1> SUFFICES ASSUME fault' = "file" PROVE FALSE
  OBVIOUS
<1>1. \A c \in Live : c \in Client
  BY DEF Live
<1>2. ASSUME NEW c \in Client, Running(c), Breaks(c) PROVE FALSE
  <2>1. c \in Live /\ cur = c /\ pc \in {"input", "output"} /\ obj[c] = "live"
    BY <1>2 DEF Running, Live, Breaks, Crash
  <2>2. AppOf(c) # "service" => file[c] = "open"
    BY <2>1 DEF OpenFiles
  <2>3. file[c] # "closed"
    BY <1>2, <2>1 DEF OpenFiles
  <2>4. AppOf(c) = "service" /\ pc = "output" => file[c] = "open"
    BY <2>1 DEF Round, CalledToSend, SendsOn, OpenFiles
  <2> QED BY <1>2, <2>1, <2>2, <2>3, <2>4 DEF Breaks, Crash
<1>3. pc # "expire"
  BY DEF Round
<1> QED BY <1>1, <1>2, <1>3, FaultComes

(* Nothing is written to a peer that has left.                             *)
LEMMA NextPipeFault ==
  ASSUME IInv, Round, Conversations, Disturbance \cap {"hangup", "wholeBuffers"} = {},
         fault # "sigpipe", [Next]_vars
  PROVE  fault' # "sigpipe"
<1> SUFFICES ASSUME fault' = "sigpipe" PROVE FALSE
  OBVIOUS
<1>1. \A c \in Live : c \in Client
  BY DEF Live
<1>2. ASSUME NEW c \in Client, Running(c), Breaks(c) PROVE FALSE
  <2>1. /\ cur = c /\ obj[c] = "live" /\ pc \in {"input", "upload", "output"}
        /\ peer[c] = "gone" /\ (pc = "input" => HasRequest(c))
    BY <1>2 DEF Running, Live, Breaks, Crash
  <2>2. phase[c] = "idle"
    BY <2>1 DEF Conversations
  <2>3. pc = "output" => phase[c] \in {"response", "sent", "again"}
    BY <2>1 DEF Round, CalledToSend, SendsOn, Sending
  <2> QED BY <2>1, <2>2, <2>3 DEF Conversations, HasRequest
<1> QED BY <1>1, <1>2, FaultComes, CloseFaultIs

-----------------------------------------------------------------------------
(* Freed handlers.                                                         *)

(* Where no connection ends but at a read that finds it ended, every bit   *)
(* of a round is served for the connection it was set for: its handler is  *)
(* alive, is not the one running, and has what the bit says.               *)
Waits(c, f) ==
  c \in Live /\ sock[c] = f /\ table[f] = c /\ ~(c = cur /\ pc \in InHandler)

ServesInput(f) ==
  \/ \E a \in listening : f = ListenFd[a] /\ table[f] = a
  \/ \E c \in Client : Waits(c, f) /\ HasInput(c)

ServesOutput(f) == \E c \in Client : Waits(c, f)

CopiedBits == pc = "select" => readCurrent \subseteq readMaster

FreshReads == pc \in Underway \ {"select"} => \A f \in readCurrent : ServesInput(f)

FreshWrites == pc \in Underway => \A f \in writeCurrent : ServesOutput(f)

FreshBits == CopiedBits /\ FreshReads /\ FreshWrites

CalledIsLive == pc \in {"input", "upload", "output", "close"} => cur \in Live

Calm == FreshBits /\ CalledIsLive

LEMMA InitCalm == Init => Calm
  BY DEF Init, NetInit, SelectorInit, Calm, FreshBits, CopiedBits, FreshReads, FreshWrites,
         CalledIsLive, InHandler, Underway

(* A step within a round keeps them so if it sets no bit and leaves those  *)
(* that wait in peace.                                                     *)
LEMMA KeptBits ==
  ASSUME FreshBits, pc \in Underway, pc' # "select", pc = "select" => readCurrent' = {},
         readCurrent' \subseteq readCurrent, writeCurrent' \subseteq writeCurrent,
         \A f \in readCurrent' : \A a \in listening :
           f = ListenFd[a] /\ table[f] = a => a \in listening' /\ table'[f] = a,
         \A c \in Client : \A f \in readCurrent' \cup writeCurrent' :
           Waits(c, f) => Waits(c, f)' /\ (HasInput(c) => HasInput(c)')
  PROVE  FreshBits'
<1>1. CopiedBits'
  BY DEF CopiedBits
<1>2. ASSUME NEW f \in readCurrent', pc' \in Underway PROVE ServesInput(f)'
  <2>1. ServesInput(f)
    BY <1>2 DEF FreshBits, FreshReads
  <2> QED BY <1>2, <2>1 DEF ServesInput
<1>3. ASSUME NEW f \in writeCurrent' PROVE ServesOutput(f)'
  <2>1. ServesOutput(f)
    BY <1>3 DEF FreshBits, FreshWrites
  <2> QED BY <1>3, <2>1 DEF ServesOutput
<1> QED BY <1>1, <1>2, <1>3 DEF FreshBits, FreshReads, FreshWrites

(* A step that leaves the handlers and their descriptors alone.            *)
LEMMA QuietCalm ==
  ASSUME Calm, UNCHANGED <<listening, table, obj, sock>>,
         \A c \in Client : HasInput(c) => HasInput(c)',
         \/ /\ UNCHANGED <<pc, cur, readMaster, writeCurrent>>
            /\ readCurrent' \subseteq readCurrent
         \/ /\ pc \in {"timers", "fopen", "arm"} /\ pc' = "dispatch"
            /\ UNCHANGED <<readCurrent, writeCurrent>>
         \/ /\ pc = "fopen" /\ pc' = "arm" /\ cur' = cur
            /\ UNCHANGED <<readCurrent, writeCurrent>>
         \/ pc' \notin Underway
  PROVE  Calm'
<1>1. Live' = Live
  BY DEF Live
<1>2. CalledIsLive'
  BY <1>1 DEF Calm, CalledIsLive, Underway, InHandler
<1>3. CASE pc' \notin Underway
  BY <1>2, <1>3 DEF Calm, FreshBits, CopiedBits, FreshReads, FreshWrites, Underway
<1>4. CASE pc' \in Underway /\ pc # "select"
  <2>1. pc \in Underway /\ pc' # "select"
    BY <1>4 DEF Underway, InHandler
  <2>2. \A c \in Client : \A f : Waits(c, f) => Waits(c, f)'
    BY <1>1, <1>4 DEF Waits, InHandler
  <2> QED BY <1>2, <1>4, <2>1, <2>2, KeptBits DEF Calm
<1>5. CASE pc' \in Underway /\ pc = "select"
  <2>1. /\ UNCHANGED <<pc, cur, readMaster, writeCurrent>>
        /\ readCurrent' \subseteq readCurrent
    BY <1>5
  <2>2. CopiedBits' /\ FreshReads'
    BY <1>5, <2>1 DEF Calm, FreshBits, CopiedBits, FreshReads
  <2>3. ASSUME NEW f \in writeCurrent' PROVE ServesOutput(f)'
    <3>1. ServesOutput(f)
      BY <1>5, <2>1, <2>3 DEF Calm, FreshBits, FreshWrites, Underway
    <3>2. \A c \in Client : Waits(c, f) => Waits(c, f)'
      BY <1>1, <2>1 DEF Waits
    <3> QED BY <3>1, <3>2 DEF ServesOutput
  <2> QED BY <1>2, <2>2, <2>3 DEF Calm, FreshBits, FreshWrites
<1> QED BY <1>3, <1>4, <1>5

LEMMA CrashCalm ==
  ASSUME Calm, NEW f, Crash(f)
  PROVE  Calm'
  BY QuietCalm DEF Crash, netVars, regVars, loopVars, HasInput, HasRequest

LEMMA HandlerCalm ==
  ASSUME IInv, Calm, NEW c \in Client, Runs(c)
  PROVE  Calm'
<1>1. Running(c) /\ (Returns(c) \/ StartsUpload(c) \/ StartsClosing(c) \/ Breaks(c))
  BY HandlerDoes
<1>2. CASE Breaks(c)
  BY <1>2, CrashCalm DEF Breaks
<1>3. CASE Returns(c) \/ StartsUpload(c) \/ StartsClosing(c)
  <2>1. /\ pc \in {"input", "upload", "output", "close"} /\ cur = c /\ obj[c] = "live"
        /\ UNCHANGED <<peer, listening, readCurrent, writeCurrent, table>>
        /\ \A d \in Client : d # c => phase'[d] = phase[d] /\ sock'[d] = sock[d] /\ obj'[d] = obj[d]
        /\ pc' = "dispatch" \/ (pc' \in {"upload", "close"} /\ cur' = c /\ obj' = obj)
    <3>1. CASE Returns(c)
      BY <1>1, <3>1 DEF Returns, Running, Live
    <3>2. CASE StartsUpload(c)
      <4>1. \A d \in Client : d # c => phase'[d] = phase[d]
        BY <3>2 DEF StartsUpload, IInv, TypeOK, NetTypeOK
      <4> QED BY <1>1, <3>2, <4>1 DEF StartsUpload, Running, Live, regVars
    <3>3. CASE StartsClosing(c)
      BY <1>1, <3>3 DEF StartsClosing, CloseFile, Running, Live, netVars, regVars
    <3> QED BY <1>3, <3>1, <3>2, <3>3
  <2>2. ASSUME NEW d \in Client, NEW f, Waits(d, f)
        PROVE  Waits(d, f)' /\ (HasInput(d) => HasInput(d)')
    BY <2>1, <2>2 DEF Waits, Live, InHandler, HasInput, HasRequest
  <2>3. FreshBits'
    BY <2>1, <2>2, KeptBits DEF Calm, Underway, InHandler
  <2>4. CalledIsLive'
    BY <2>1 DEF CalledIsLive, Live
  <2> QED BY <2>3, <2>4 DEF Calm
<1> QED BY <1>1, <1>2, <1>3

(* The copies of the interest sets lead to their owners.                   *)
LEMMA SelectCalm ==
  ASSUME IInv, Calm, CopySets \/ PselectReturns
  PROVE  Calm'
<1>1. \A c \in Live : c \in Client /\ sock[c] \in ClientFd
  BY DEF Live, IInv, Ownership, SocketIsLive, TypeOK, NetTypeOK
<1>2. \A c \in Live, a \in listening : ListenFd[a] # sock[c]
  BY <1>1 DEF IInv, TypeOK, NetTypeOK
<1>3. CASE CopySets
  <2>1. /\ pc' = "select" /\ readCurrent' = readMaster /\ writeCurrent' = writeMaster
        /\ UNCHANGED <<table, sock, obj>>
    BY <1>3 DEF CopySets, netVars, regVars
  <2>2. ASSUME NEW f \in writeMaster PROVE ServesOutput(f)'
    <3>1. f \in ClientFd
      BY DEF IInv, Ownership, OnlyFileHandlersWrite
    <3>2. \A a \in listening : f # ListenFd[a]
      BY <3>1 DEF IInv, TypeOK, NetTypeOK
    <3>3. PICK c \in Live : f = sock[c] /\ table[f] = c
      BY <3>2 DEF IInv, Ownership, InterestIsOwned
    <3>4. Waits(c, f)'
      BY <2>1, <3>3 DEF Waits, Live, InHandler
    <3> QED BY <1>1, <3>4 DEF ServesOutput
  <2>3. CopiedBits' /\ FreshReads'
    BY <1>3, <2>1 DEF CopySets, regVars, CopiedBits, FreshReads
  <2> QED BY <2>1, <2>2, <2>3 DEF Calm, FreshBits, FreshWrites, CalledIsLive
<1>4. CASE PselectReturns
  <2>1. /\ pc = "select" /\ pc' = "timers"
        /\ readCurrent' = Readable(readCurrent) /\ writeCurrent' \subseteq writeCurrent
        /\ UNCHANGED <<netVars, table, obj>>
    BY <1>4 DEF PselectReturns, regVars
  <2>2. \A c \in Client : \A f : Waits(c, f) => Waits(c, f)'
    BY <2>1 DEF Waits, Live, InHandler, netVars
  <2>3. ASSUME NEW f \in readCurrent' PROVE ServesInput(f)'
    <3>1. f \in readMaster
      BY <2>1, <2>3 DEF Calm, FreshBits, CopiedBits, Readable
    <3>2. \/ \E a \in listening : f = ListenFd[a]
          \/ \E c \in Client : f = sock[c] /\ HasInput(c)
      BY <2>1, <2>3 DEF Readable
    <3>3. CASE \E a \in listening : f = ListenFd[a] /\ table[f] = a
      BY <2>1, <3>3 DEF ServesInput, netVars
    <3>4. ASSUME NEW c \in Live, f = sock[c], table[f] = c PROVE ServesInput(f)'
      <4>1. HasInput(c)
        BY <1>1, <1>2, <3>2, <3>4 DEF IInv, Ownership, SocketIsLive, Live
      <4>2. Waits(c, f)' /\ HasInput(c)'
        BY <2>1, <3>4, <4>1 DEF Waits, Live, InHandler, netVars, HasInput, HasRequest
      <4> QED BY <1>1, <3>4, <4>2 DEF ServesInput
    <3> QED BY <3>1, <3>3, <3>4 DEF IInv, Ownership, InterestIsOwned
  <2>4. ASSUME NEW f \in writeCurrent' PROVE ServesOutput(f)'
    <3>1. ServesOutput(f)
      BY <2>1, <2>4 DEF Calm, FreshBits, FreshWrites, Underway
    <3> QED BY <2>2, <3>1 DEF ServesOutput
  <2>5. CopiedBits'
    BY <2>1 DEF CopiedBits
  <2> QED BY <2>1, <2>3, <2>4, <2>5 DEF Calm, FreshBits, FreshReads, FreshWrites, CalledIsLive
<1> QED BY <1>3, <1>4

(* A bit is taken out and its handler called, for which there is not a bit *)
(* of the other kind: nobody speaks while he is sent a file.               *)
LEMMA CallCalm ==
  ASSUME IInv, Conversations, Round, Calm, Disturbance \cap {"hangup", "wholeBuffers"} = {},
         NEW c \in Client, NEW f \in ClientFd,
         CallHandleInput(c, f) \/ CallHandleOutput(c, f)
  PROVE  Calm' /\ obj[c] # "freed"
<1>1. /\ pc = "dispatch" /\ pc \in Underway \ {"select"} /\ pc \notin InHandler
      /\ table[f] = c /\ f \in readCurrent \cup writeCurrent
  BY DEF CallHandleInput, CallHandleOutput, IsNext, Underway, InHandler
<1>2. c \notin Acceptor
  OBVIOUS
<1>3. /\ f \in readCurrent => Waits(c, f) /\ HasInput(c)
      /\ f \in writeCurrent => Waits(c, f)
  <2>1. f \in readCurrent => Waits(c, f) /\ HasInput(c)
    BY <1>1, <1>2 DEF Calm, FreshBits, FreshReads, ServesInput, Waits, IInv, TypeOK, NetTypeOK
  <2>2. f \in writeCurrent => Waits(c, f)
    <3>1. pc \in Underway
      BY <1>1
    <3>2. f \in writeCurrent => ServesOutput(f)
      BY <3>1 DEF Calm, FreshBits, FreshWrites
    <3> QED BY <1>1, <3>2 DEF ServesOutput, Waits
  <2> QED BY <2>1, <2>2
<1>4. ~(f \in readCurrent /\ f \in writeCurrent)
  <2> SUFFICES ASSUME f \in readCurrent, f \in writeCurrent PROVE FALSE
    OBVIOUS
  <2>1. obj[c] = "live" /\ HasInput(c)
    BY <1>3 DEF Waits, Live
  <2>2. MayWrite(c, f)
    BY <1>1 DEF Round, WriteBits
  <2>3. phase[c] \in {"response", "sent", "again"}
    BY <2>1, <2>2 DEF MayWrite, SendsOn, Sending
  <2> QED BY <2>1, <2>3 DEF Conversations, HasInput, HasRequest
<1>5. c \in Live /\ sock[c] = f
  BY <1>1, <1>3 DEF Waits
<1>6. /\ readCurrent' \cup writeCurrent' \subseteq (readCurrent \cup writeCurrent) \ {f}
      /\ readCurrent' \subseteq readCurrent /\ writeCurrent' \subseteq writeCurrent
      /\ pc' \in {"input", "output"} /\ cur' = c /\ UNCHANGED <<netVars, table, obj>>
  BY <1>1, <1>4, <1>5 DEF CallHandleInput, CallHandleOutput, Live, regVars
<1>7. ASSUME NEW d \in Client, NEW g \in readCurrent' \cup writeCurrent', Waits(d, g)
      PROVE  Waits(d, g)'
  BY <1>5, <1>6, <1>7 DEF Waits, Live, netVars
<1>8. FreshBits'
  BY <1>1, <1>6, <1>7, KeptBits DEF Calm, HasInput, HasRequest, netVars
<1>9. CalledIsLive'
  BY <1>5, <1>6 DEF CalledIsLive, Live
<1> QED BY <1>5, <1>8, <1>9 DEF Calm, Live

LEMMA LoopCalm ==
  ASSUME IInv, Conversations, Round, Calm, Disturbance \cap {"hangup", "wholeBuffers"} = {}, Loop
  PROVE  Calm'
<1>1. CASE TestRunning \/ PselectFails \/ EndOfRound \/ TimersDispatched
  BY <1>1, QuietCalm
     DEF TestRunning, PselectFails, EndOfRound, TimersDispatched, netVars, regVars,
         HasInput, HasRequest, Underway, InHandler
<1>2. \A c \in Client : ~DropCancelledTimer(c)
  BY DEF DropCancelledTimer, Round
<1> QED BY <1>1, <1>2, SelectCalm, CallCalm DEF Loop

LEMMA AcceptCalm ==
  ASSUME IInv, Calm, NEW a \in Acceptor, NEW c \in Client, NEW f \in ClientFd,
         AcceptClient(a, c, f)
  PROVE  Calm'
<1>1. /\ obj[c] = "none" /\ pc = "dispatch" /\ pc' = "open" /\ cur' = c
      /\ UNCHANGED <<peer, phase, listening, table, writeCurrent>>
      /\ readCurrent' \subseteq readCurrent
  BY DEF AcceptClient, regVars, IInv, Ownership, FreshHasNothing
<1>2. \A d \in Client : d # c => sock'[d] = sock[d] /\ obj'[d] = obj[d]
  BY DEF AcceptClient, SetFd, IInv, TypeOK, NetTypeOK, SelectorTypeOK
<1>3. ASSUME NEW d \in Client, NEW g, Waits(d, g) PROVE Waits(d, g)'
  BY <1>1, <1>2, <1>3 DEF Waits, Live
<1>4. FreshBits'
  BY <1>1, <1>3, KeptBits DEF Calm, Underway, InHandler, HasInput, HasRequest
<1> QED BY <1>1, <1>4 DEF Calm, CalledIsLive

LEMMA OpenCalm ==
  ASSUME IInv, Calm, NEW c \in Client, OpenHandler(c)
  PROVE  Calm'
<1>1. /\ pc = "open" /\ cur = c /\ c \in Live
      /\ pc' \in {"fopen", "arm"} /\ cur' = c
      /\ UNCHANGED <<netVars, readCurrent, writeCurrent, obj>>
      /\ table' = [table EXCEPT ![sock[c]] = c]
  BY DEF OpenHandler, RegisterRead, IInv, Ownership, UnderConstruction, Live
<1>2. \A d \in Live : /\ d \in Client /\ sock[d] \in ClientFd
                      /\ (d # c => sock[d] # sock[c])
  BY <1>1 DEF IInv, Ownership, SocketIsLive, Live, TypeOK, NetTypeOK
<1>3. \A a \in listening : ListenFd[a] # sock[c] /\ ListenFd[a] \in Fd
  BY <1>1, <1>2 DEF IInv, TypeOK, NetTypeOK, Fd, Listening
<1>4. \A g \in Fd : g # sock[c] => table'[g] = table[g]
  BY <1>1 DEF IInv, TypeOK, SelectorTypeOK
<1>5. ASSUME NEW d \in Client, NEW g, Waits(d, g) PROVE Waits(d, g)'
  <2>1. d # c /\ sock[d] # sock[c] /\ g \in Fd /\ g # sock[c]
    BY <1>1, <1>2, <1>5 DEF Waits, InHandler, Fd
  <2> QED BY <1>1, <1>4, <1>5, <2>1 DEF Waits, Live, InHandler, netVars
<1>6. FreshBits'
  BY <1>1, <1>3, <1>4, <1>5, KeptBits
     DEF Calm, Underway, InHandler, HasInput, HasRequest, netVars
<1> QED BY <1>1, <1>6 DEF Calm, CalledIsLive

LEMMA NextCalm ==
  ASSUME IInv, Conversations, Round, Calm,
         Disturbance \cap {"timeout", "sigint", "hangup", "wholeBuffers"} = {}, [Next]_vars
  PROVE  Calm'
<1>1. CASE ResumeFreed
  BY <1>1, CrashCalm DEF ResumeFreed
<1>2. ASSUME NEW a \in Acceptor, AcceptFails(a) PROVE Calm'
  BY <1>2, QuietCalm DEF AcceptFails, netVars, regVars, HasInput, HasRequest
<1>3. ASSUME NEW c \in Client, OpenFile(c) \/ OpenFileFails(c) \/ ArmTimer(c)
      PROVE  Calm'
  BY <1>3, QuietCalm
     DEF OpenFile, OpenFileFails, ArmTimer, ReturnToLoop, netVars, regVars, HasInput, HasRequest
<1>6. CASE UNCHANGED vars
  BY <1>6, QuietCalm DEF vars, handlerVars, selectorVars, loopVars, netVars, regVars,
                         HasInput, HasRequest
<1>7. \A c \in Client : ~Expires(c) /\ ~Timeout(c)
  BY DEF Expires, HandleTimer, TimerCloses, FinishTimer, Timeout, Elapse, Round
<1>4. ~Interrupt
  BY DEF Interrupt, HandleSignal
<1>5. ASSUME NEW c \in Client, Peer(c) PROVE Calm'
  <2>1. UNCHANGED <<listening, table, obj, sock, pc, cur, readMaster, readCurrent,
                    writeCurrent>>
    BY <1>5 DEF Peer, Connect, Send, Hangup, selectorVars, regVars, loopVars
  <2>2. \A d \in Client : HasInput(d) => HasInput(d)'
    BY <1>5 DEF Peer, Connect, Send, Hangup, HasInput, HasRequest, IInv, TypeOK, NetTypeOK
  <2> QED BY <2>1, <2>2, QuietCalm
<1> QED BY <1>1, <1>2, <1>3, <1>4, <1>5, <1>6, <1>7, NextIs, HandlerCalm, LoopCalm,
           AcceptCalm, OpenCalm DEF Opens

(* No handler is called, or goes on, after its release.                    *)
LEMMA NextFreedFault ==
  ASSUME IInv, Conversations, Round, Calm,
         Disturbance \cap {"timeout", "sigint", "hangup", "wholeBuffers"} = {},
         fault # "freed", [Next]_vars
  PROVE  fault' # "freed"
<1> SUFFICES ASSUME fault' = "freed" PROVE FALSE
  OBVIOUS
<1>1. \A c \in Live : c \in Client
  BY DEF Live
<1>2. ASSUME NEW c \in Client, Running(c), Breaks(c) PROVE FALSE
  BY <1>2 DEF Breaks, Crash, HasRequest, Conversations
<1>3. ASSUME NEW c \in Client, NEW f \in readCurrent \cup writeCurrent,
             pc = "dispatch", table[f] = c, obj[c] = "freed"
      PROVE  FALSE
  <2>1. pc \in Underway \ {"select"}
    BY <1>3 DEF Underway
  <2> QED BY <1>3, <2>1 DEF Calm, FreshBits, FreshReads, FreshWrites, ServesInput, ServesOutput,
                            Waits, Live, IInv, TypeOK, NetTypeOK
<1>4. ~(/\ pc \in {"input", "upload", "output", "close", "expire", "closeTimer"}
        /\ obj[cur] = "freed")
  BY DEF Calm, CalledIsLive, Live, Round
<1>5. due = {}
  BY DEF Round
<1> QED BY <1>1, <1>2, <1>3, <1>4, <1>5, FaultComes

-----------------------------------------------------------------------------
(* The results.                                                            *)

(* Whatever goes wrong, a request is answered to whoever made it ...       *)
LEMMA WhoSpeaks == Spec => [](Owed /\ Conversations)
<1>1. Init => Owed /\ Conversations
  BY InitOwed, InitConversations
<1>2. IInv /\ Owed /\ Conversations /\ [Next]_vars => Owed' /\ Conversations'
  BY NextOwed, NextConversations
<1> QED BY <1>1, <1>2, Invariance, PTL DEF Spec

LEMMA Rounds ==
  ASSUME "timeout" \notin Disturbance
  PROVE  Spec => []Round
<1>1. IInv /\ Owed /\ Conversations /\ Round /\ [Next]_vars => Round'
  BY NextRound
<1> QED BY <1>1, InitRound, WhoSpeaks, Invariance, PTL DEF Spec

FreedHasCause ==
  fault = "freed" =>
    Disturbance \cap {"timeout", "sigint", "hangup", "wholeBuffers"} # {}

SigpipeHasCause ==
  fault = "sigpipe" => Disturbance \cap {"timeout", "hangup", "wholeBuffers"} # {}

TimerHasCause ==
  fault = "timer" =>
    \/ Disturbance \cap {"openfail", "sigint"} # {}
    \/ {"timeout", "fcloseFail"} \subseteq Disturbance

FileHasCause ==
  fault = "file" => Disturbance \cap {"timeout", "sigint", "openfail", "fcloseFail"} # {}

LEMMA FreedCaused == Spec => []FreedHasCause
<1>1. CASE Disturbance \cap {"timeout", "sigint", "hangup", "wholeBuffers"} = {}
  <2>1. Init => Calm /\ FreedHasCause
    BY InitCalm DEF Init, SelectorInit, FreedHasCause
  <2>2. IInv /\ Conversations /\ Round /\ Calm /\ FreedHasCause /\ [Next]_vars
          => Calm' /\ FreedHasCause'
    BY <1>1, NextCalm, NextFreedFault DEF FreedHasCause
  <2>3. Spec => []Round
    BY <1>1, Rounds
  <2> QED BY <2>1, <2>2, <2>3, WhoSpeaks, Invariance, PTL DEF Spec
<1>2. CASE Disturbance \cap {"timeout", "sigint", "hangup", "wholeBuffers"} # {}
  <2>1. FreedHasCause
    BY <1>2 DEF FreedHasCause
  <2> QED BY <2>1, PTL
<1> QED BY <1>1, <1>2

LEMMA SigpipeCaused == Spec => []SigpipeHasCause
<1>1. CASE Disturbance \cap {"timeout", "hangup", "wholeBuffers"} = {}
  <2>1. Init => SigpipeHasCause
    BY DEF Init, SelectorInit, SigpipeHasCause
  <2>2. IInv /\ Conversations /\ Round /\ SigpipeHasCause /\ [Next]_vars => SigpipeHasCause'
    BY <1>1, NextPipeFault DEF SigpipeHasCause
  <2>3. Spec => []Round
    BY <1>1, Rounds
  <2> QED BY <2>1, <2>2, <2>3, WhoSpeaks, Invariance, PTL DEF Spec
<1>2. CASE Disturbance \cap {"timeout", "hangup", "wholeBuffers"} # {}
  <2>1. SigpipeHasCause
    BY <1>2 DEF SigpipeHasCause
  <2> QED BY <2>1, PTL
<1> QED BY <1>1, <1>2

LEMMA TimerCaused == Spec => []TimerHasCause
<1>1. CASE /\ Disturbance \cap {"openfail", "sigint"} = {}
           /\ ~({"timeout", "fcloseFail"} \subseteq Disturbance)
  <2>1. Init => TimerHasCause
    BY DEF Init, SelectorInit, TimerHasCause
  <2>2. IInv /\ Timers /\ TimerHasCause /\ [Next]_vars => TimerHasCause'
    BY <1>1, NextTimerFault DEF TimerHasCause
  <2> QED BY <2>1, <2>2, TimersInvariant, Invariance, PTL DEF Spec
<1>2. CASE \/ Disturbance \cap {"openfail", "sigint"} # {}
           \/ {"timeout", "fcloseFail"} \subseteq Disturbance
  <2>1. TimerHasCause
    BY <1>2 DEF TimerHasCause
  <2> QED BY <2>1, PTL
<1> QED BY <1>1, <1>2

LEMMA FileCaused == Spec => []FileHasCause
<1>1. CASE Disturbance \cap {"timeout", "sigint", "openfail", "fcloseFail"} = {}
  <2>1. Init => OpenFiles /\ FileHasCause
    BY InitOpenFiles DEF Init, SelectorInit, FileHasCause
  <2>2. IInv /\ Owed /\ Round /\ OpenFiles /\ FileHasCause /\ [Next]_vars
          => OpenFiles' /\ FileHasCause'
    BY <1>1, NextOpenFiles, NextFileFault DEF FileHasCause
  <2>3. Spec => []Round
    BY <1>1, Rounds
  <2> QED BY <2>1, <2>2, <2>3, WhoSpeaks, Invariance, PTL DEF Spec
<1>2. CASE Disturbance \cap {"timeout", "sigint", "openfail", "fcloseFail"} # {}
  <2>1. FileHasCause
    BY <1>2 DEF FileHasCause
  <2> QED BY <2>1, PTL
<1> QED BY <1>1, <1>2

(* Each fault the server can end in takes one of the misfortunes that lead *)
(* to it: none of them comes from the server's own orderly work, whatever  *)
(* the number of connections and the order of events.                      *)
THEOREM FaultsHaveCauses == Spec => []FaultHasCause
<1>1. FreedHasCause /\ SigpipeHasCause /\ TimerHasCause /\ FileHasCause => FaultHasCause
  BY DEF FreedHasCause, SigpipeHasCause, TimerHasCause, FileHasCause, FaultHasCause
<1> QED BY <1>1, FreedCaused, SigpipeCaused, TimerCaused, FileCaused, PTL

(* With no timeout, no signal, no failing call, and peers that leave       *)
(* between conversations, the server reaches no fault at all.              *)
THEOREM UndisturbedIsSafe == Disturbance = {} /\ Spec => []NoFault
<1> SUFFICES ASSUME Disturbance = {} PROVE Spec => []NoFault
  OBVIOUS
<1>1. IInv /\ FaultHasCause => NoFault
  BY DEF IInv, TypeOK, SelectorTypeOK, Faults, FaultHasCause, NoFault
<1> QED BY <1>1, Invariance, FaultsHaveCauses, PTL

=============================================================================
