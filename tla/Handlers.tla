------------------------------ MODULE Handlers ------------------------------
(***************************************************************************)
(* The three handler classes the acceptors instantiate: LogHandler,        *)
(* FsRepoHandler and FsServiceHandler.  One handler object per connection; *)
(* its state is its registration with the Selector, its timer, and the     *)
(* FILE* it works on.  A transfer's bytes are those of module FileStream;  *)
(* here a chunk is either not the last one, the last one, or a failed one. *)
(***************************************************************************)
EXTENDS Selector

VARIABLE
  file   \* m_logFile / m_filesList / m_currFile of c's handler: "none"
         \* (NULL, fine), "open", "failed" (NULL after fopen), "closed"

handlerVars == <<selectorVars, netVars, file>>

FileTypeOK == file \in [Client -> {"none", "open", "failed", "closed"}]

AppOf(c) == App[dial[c]]

InHandleInput(c) == pc = "input" /\ cur = c /\ obj[c] = "live"
InHandleOutput(c) == pc = "output" /\ cur = c /\ obj[c] = "live"

(* The handler returns to SelectFunc, its peer's request answered or not.  *)
ReturnToLoop ==
  /\ pc' = "dispatch"
  /\ cur' = None
  /\ UNCHANGED <<running, readCurrent, writeCurrent>>

-----------------------------------------------------------------------------
(* HandleClose.                                                            *)

(* Where HandleClose of c would end undefined: fclose(NULL) in the logger, *)
(* a second fclose in the two others (which do test for NULL), or          *)
(* CancelAllTimers through a TimerId that names no node.                   *)
FileFault(c) ==
  IF AppOf(c) = "log" THEN file[c] # "open" ELSE file[c] = "closed"

CloseFault(c) == IF FileFault(c) THEN "file" ELSE CancelFault(c)

(* The logger ignores fclose's result; the others return early on it.      *)
FcloseMayFail(c) ==
  /\ "fcloseFail" \in Disturbance
  /\ AppOf(c) \in {"repo", "service"}
  /\ file[c] = "open"

(* Only the file handlers clear the write interest.                        *)
WriteInterest(S) == Sockets({c \in S : AppOf(c) # "log"})

(* The handlers in S close and are destroyed, those in F return early when *)
(* their fclose fails, the acceptors in A close.  A closed listening       *)
(* socket resets the connections still in its backlog.                     *)
CloseAll(S, F, A) ==
  /\ file' = [c \in Client |-> IF c \in S THEN "none"
                               ELSE IF c \in F THEN "closed" ELSE file[c]]
  /\ UnRegisterSignal(S \cup A)
  /\ UnRegisterIO(Sockets(S) \cup Listening(A), WriteInterest(S))
  /\ sock' = [c \in Client |-> IF c \in S THEN NoFd ELSE sock[c]]
  /\ obj' = [c \in Client |-> IF c \in S THEN "freed" ELSE obj[c]]
  /\ phase' = [c \in Client |-> IF c \in S THEN "idle" ELSE phase[c]]
  /\ listening' = listening \ A
  /\ backlog' = {c \in backlog : dial[c] \notin A}
  /\ UNCHANGED <<dial, peer>>

CrashInClose(c) ==
  /\ CloseFault(c) # "none"
  /\ Crash(CloseFault(c))
  /\ UNCHANGED file

(* HandleClose of c alone takes two steps, because SIGINT may find it with *)
(* its file closed and itself still registered.  From UnRegisterSignal on  *)
(* SIGINT no longer reaches c.                                             *)
CloseFile(c, next) ==
  /\ ~FileFault(c)
  /\ file' = [file EXCEPT ![c] = IF @ = "open" THEN "closed" ELSE @]
  /\ pc' = next
  /\ UNCHANGED <<netVars, regVars, timerVars, running, readCurrent,
                 writeCurrent, cur, obj, fault>>

CrashInFclose(c) == FileFault(c) /\ Crash("file") /\ UNCHANGED file

FcloseFails(c) ==
  /\ FcloseMayFail(c)
  /\ file' = [file EXCEPT ![c] = "closed"]
  /\ UNCHANGED <<netVars, regVars, obj, fault>>

(* HandleClose called from c's own HandleInput or HandleOutput.            *)
HandleClose(c) ==
  \/ CrashInFclose(c)
  \/ CloseFile(c, "close")
  \/ FcloseFails(c) /\ ReturnToLoop /\ UNCHANGED timerVars

FinishClose(c) ==
  /\ pc = "close"
  /\ cur = c
  /\ obj[c] = "live"
  /\ \/ CancelFault(c) # "none" /\ Crash("timer") /\ UNCHANGED file
     \/ /\ CancelFault(c) = "none"
        /\ CloseAll({c}, {}, {})
        /\ timer' = Cancelled({c})
        /\ ReturnToLoop
        /\ UNCHANGED <<due, fault>>

(* The queue pops c's node and calls HandleTimer ...                       *)
HandleTimer(c) ==
  /\ pc = "timers"
  /\ c \in due
  /\ timer[c] = "armed"
  /\ \/ obj[c] = "freed" /\ Crash("freed") /\ UNCHANGED file
     \/ /\ obj[c] # "freed"
        /\ pc' = "expire"
        /\ cur' = c
        /\ UNCHANGED <<netVars, regVars, timerVars, running, readCurrent,
                       writeCurrent, obj, fault, file>>

(* ... and frees the node once HandleTimer has returned.                   *)
TimerServed(c) ==
  /\ timer' = NodesFreed({c})
  /\ due' = due \ {c}
  /\ pc' = "timers"
  /\ cur' = None
  /\ UNCHANGED <<running, readCurrent, writeCurrent>>

TimerCloses(c) ==
  /\ pc = "expire"
  /\ cur = c
  /\ obj[c] = "live"
  /\ \/ CrashInFclose(c)
     \/ CloseFile(c, "closeTimer")
     \/ FcloseFails(c) /\ TimerServed(c)

(* The node that is being served can always be cancelled.                  *)
FinishTimer(c) ==
  /\ pc = "closeTimer"
  /\ cur = c
  /\ obj[c] = "live"
  /\ CloseAll({c}, {}, {})
  /\ TimerServed(c)
  /\ UNCHANGED fault

(* A member function goes on in a handler that has been destroyed.         *)
ResumeFreed ==
  /\ pc \in {"input", "upload", "output", "close", "expire", "closeTimer"}
  /\ obj[cur] = "freed"
  /\ Crash("freed")
  /\ UNCHANGED file

-----------------------------------------------------------------------------
(* What the handlers have in common.                                       *)

(* The request is answered, or given up; the peer may go on.  A file that  *)
(* was being sent when the request came still is.                          *)
Answer(c, newFile) ==
  /\ file' = [file EXCEPT ![c] = newFile]
  /\ phase' = [phase EXCEPT ![c] = IF @ = "again" THEN "sent" ELSE "idle"]
  /\ ReturnToLoop
  /\ UNCHANGED <<dial, peer, backlog, sock, listening, regVars, timerVars,
                 obj, fault>>

(* write(2) to a peer that has closed raises SIGPIPE, which nobody ignores *)
Sigpipe(c) ==
  /\ peer[c] = "gone"
  /\ Crash("sigpipe")
  /\ UNCHANGED file

WholeBuffer == IF "wholeBuffers" \in Disturbance THEN {"sent"} ELSE {}

(* HandleOutput, called by HandleDiscovery or HandleDownload, leaves the   *)
(* file unfinished: the rest is sent when the socket is writable.  A file  *)
(* that fills the buffer to its last byte looks unfinished.                *)
KeepSending(c, newFile) ==
  /\ RegisterWrite(c, sock[c])
  /\ file' = [file EXCEPT ![c] = newFile]
  /\ \E p \in {"response"} \cup WholeBuffer : phase' = [phase EXCEPT ![c] = p]
  /\ ReturnToLoop
  /\ UNCHANGED <<dial, peer, backlog, sock, listening, readMaster, sigTable,
                 timerVars, obj, fault>>

(* HandleOutput closed the handler, and RegisterIO(this, WRITE) follows    *)
(* all the same, because the status returned is OK and not EOF_STATUS; if  *)
(* HandleClose stopped at fclose, the handler is still there to register.  *)
(* SIGINT after that HandleClose's fclose closes the file again.           *)
SendAfterClose(c) ==
  \/ /\ "sigint" \in Disturbance
     /\ Crash("file")
     /\ UNCHANGED file
  \/ /\ CancelFault(c) # "none"
     /\ Crash("timer")
     /\ UNCHANGED file
  \/ /\ CancelFault(c) = "none"
     /\ Crash("freed")
     /\ UNCHANGED file
  \/ /\ "fcloseFail" \in Disturbance
     /\ KeepSending(c, "closed")

(* HandleOutput has written the file's last byte (EOF_STATUS).             *)
EndSending(c, newPhase) ==
  /\ UnRegisterIO({}, {sock[c]})
  /\ file' = [file EXCEPT ![c] = "open"]
  /\ phase' = [phase EXCEPT ![c] = newPhase]
  /\ ReturnToLoop
  /\ UNCHANGED <<dial, peer, backlog, sock, listening, sigTable, timerVars,
                 obj, fault>>

(* The first chunk of a file, sent from within HandleInput.  When the last *)
(* file is not known to be sent, m_fileOffset is still at its end, and     *)
(* there is nothing to send unless the files list has grown.               *)
StartSending(c, mayBeEmpty) ==
  \/ EndSending(c, "idle")
  \/ KeepSending(c, "open")
  \/ /\ peer[c] = "gone" \/ mayBeEmpty \/ phase[c] = "again"
     /\ SendAfterClose(c)
  \/ Sigpipe(c)

-----------------------------------------------------------------------------
(* HandleInput.  Its read(2) blocks until there is input: only listening   *)
(* sockets are set non-blocking.                                           *)

EndOfStream(c) == peer[c] = "gone"

(* LogHandler::HandleInput.  End of stream cancels the timer, and          *)
(* HandleClose then does so again.                                         *)
LogHandleInput(c) ==
  /\ InHandleInput(c)
  /\ AppOf(c) = "log"
  /\ \/ /\ EndOfStream(c)
        /\ \/ CancelFault(c) # "none" /\ Crash("timer") /\ UNCHANGED file
           \/ CancelFault(c) = "none" /\ HandleClose(c)
     \/ HasRequest(c) /\ file[c] # "open" /\ Crash("file") /\ UNCHANGED file
     \/ HasRequest(c) /\ file[c] = "open" /\ (Answer(c, "open") \/ Sigpipe(c))

(* FsRepoHandler::HandleInput: DISCOVERY and UPDATE_FILES_LIST work on the *)
(* files list, the two other requests are answered from memory.            *)
RepoHandleInput(c) ==
  /\ InHandleInput(c)
  /\ AppOf(c) = "repo"
  /\ \/ EndOfStream(c) /\ HandleClose(c)
     \/ HasRequest(c) /\ (Answer(c, file[c]) \/ Sigpipe(c))
     \/ HasRequest(c) /\ file[c] # "open" /\ Crash("file") /\ UNCHANGED file
     \/ HasRequest(c) /\ file[c] = "open" /\ StartSending(c, FALSE)

(* FsServiceHandler::HandleInput: DOWNLOAD of a file that is missing or    *)
(* found, or UPLOAD, which reads the body before it returns.               *)
ServiceHandleInput(c) ==
  /\ InHandleInput(c)
  /\ AppOf(c) = "service"
  /\ \/ EndOfStream(c) /\ HandleClose(c)
     \/ HasRequest(c) /\ (Answer(c, "none") \/ Sigpipe(c))
     \/ HasRequest(c) /\ StartSending(c, "wholeBuffers" \in Disturbance)
     \/ /\ HasRequest(c)
        /\ phase' = [phase EXCEPT ![c] = "response"]
        /\ pc' = "upload"
        /\ UNCHANGED <<dial, peer, backlog, sock, listening, regVars,
                       timerVars, running, readCurrent, writeCurrent, cur,
                       obj, fault, file>>

(* WriteSocketToFile has all the bytes the peer announced, or sees its end *)
(* of stream; HandleUpload answers with a header or gives up.              *)
HandleUpload(c) ==
  /\ pc = "upload"
  /\ cur = c
  /\ obj[c] = "live"
  /\ Answer(c, file[c]) \/ Sigpipe(c)

-----------------------------------------------------------------------------
(* HandleOutput, of the repository and of the service: one more chunk.  It *)
(* may have been called for the bit of a connection that is gone, whose    *)
(* descriptor c's connection took over in the same round: the logger       *)
(* ignores it, the others send the file they have, from its start and      *)
(* unasked, or fail for want of one.                                       *)

(* EventHandler::HandleOutput, which the logger inherits.                  *)
IgnoreOutput(c) ==
  /\ InHandleOutput(c)
  /\ AppOf(c) = "log"
  /\ ReturnToLoop
  /\ UNCHANGED <<netVars, regVars, timerVars, obj, fault, file>>

(* There is more to send: the file is unfinished, or not being sent, or it *)
(* is the files list and has grown since it was sent.                      *)
MoreToSend(c) ==
  /\ InHandleOutput(c)
  /\ file[c] = "open"
  /\ AppOf(c) = "repo" \/ (AppOf(c) = "service" /\ phase[c] # "sent")

SendChunk(c) ==
  /\ MoreToSend(c)
  /\ \/ UNCHANGED phase
     \/ /\ phase[c] = "response"
        /\ \E p \in WholeBuffer : phase' = [phase EXCEPT ![c] = p]
  /\ ReturnToLoop
  /\ UNCHANGED <<dial, peer, backlog, sock, listening, regVars, timerVars, obj,
                 fault, file>>

SendLastChunk(c) ==
  /\ MoreToSend(c)
  /\ EndSending(c, IF HasRequest(c) THEN "request" ELSE "idle")

(* The write returns an error, or 0 because nothing was left to send.      *)
SendFails(c) ==
  /\ InHandleOutput(c)
  /\ AppOf(c) # "log"
  /\ file[c] = "open"
  /\ peer[c] = "gone" \/ phase[c] \in {"sent", "again"}
  /\ HandleClose(c)

(* SIGPIPE, or a FILE* that is NULL or closed.                             *)
SendBroken(c) ==
  /\ InHandleOutput(c)
  /\ AppOf(c) # "log"
  /\ \/ file[c] = "open" /\ Sigpipe(c)
     \/ file[c] # "open" /\ Crash("file") /\ UNCHANGED file

=============================================================================
