----------------------------- MODULE FileStream -----------------------------
(***************************************************************************)
(* One file sent by a FsServiceHandler (DOWNLOAD) or a FsRepoHandler       *)
(* (DISCOVERY, the files list) to one client, counted in bytes: the        *)
(* handler's WriteFileToSocket, called once from HandleInput and then on   *)
(* every HandleOutput, and the client's WriteSocketToFile.  The bytes      *)
(* themselves do not matter, only how many are where.                      *)
(***************************************************************************)
EXTENDS Integers

CONSTANTS
  BUFFER_SIZE,   \* of m_sendBuffer, and of the client's buffer
  Sizes,         \* lengths the file may have
  FileChange     \* what other connections may do to the file during a transfer

(* append:  another repository handler's UPDATE_FILES_LIST reaches the disk *)
(* rewrite: another service handler's UPLOAD of the same name               *)
ASSUME StreamAssumption ==
  /\ BUFFER_SIZE \in Nat \ {0}
  /\ Sizes \subseteq Nat
  /\ FileChange \subseteq {"append", "rewrite"}

VARIABLES
  fileSize,          \* length of the file on disk
  fileOffset,        \* m_fileOffset: bytes read from the file
  sendBufferOffset,  \* m_sendBufferOffset: bytes of the buffer written
  currReadSize,      \* m_currReadSize: bytes in the buffer
  isEof,             \* m_isEof
  server,            \* "idle"; "sending" (WRITE registered); "closed";
                     \* "crashed" (RegisterIO after Destroy)
  announced,         \* m_size of the header sent
  wire,              \* bytes written by the server, not yet read
  received,          \* totBytesWritten in the client
  client             \* "idle", "asking", "receiving", "complete", "failed"

memberVars == <<fileOffset, sendBufferOffset, currReadSize, isEof>>
clientVars == <<received, client>>
vars == <<fileSize, memberVars, server, announced, wire, clientVars>>

TypeOK ==
  /\ fileSize \in Nat
  /\ fileOffset \in Nat /\ sendBufferOffset \in Nat /\ currReadSize \in Nat
  /\ isEof \in BOOLEAN
  /\ server \in {"idle", "sending", "closed", "crashed"}
  /\ announced \in Nat /\ wire \in Nat /\ received \in Nat
  /\ client \in {"idle", "asking", "receiving", "complete", "failed"}

Init ==
  /\ fileSize \in Sizes
  /\ fileOffset = 0 /\ sendBufferOffset = 0 /\ currReadSize = 0
  /\ isEof = FALSE
  /\ server = "idle"
  /\ announced = 0 /\ wire = 0 /\ received = 0
  /\ client = "idle"

Smaller(m, n) == IF m < n THEN m ELSE n

(* fread at m_fileOffset, when the whole buffer has been written.          *)
Left == IF fileOffset < fileSize THEN fileSize - fileOffset ELSE 0
BytesRead == Smaller(BUFFER_SIZE, Left)

RefillAlways == TRUE
Refill == sendBufferOffset = 0
SizeNow == IF Refill THEN BytesRead ELSE currReadSize
OffsetByBuffer == IF Refill THEN fileOffset + BUFFER_SIZE ELSE fileOffset
OffsetNow == IF Refill THEN fileOffset + BytesRead ELSE fileOffset
EofNow == isEof \/ (Refill /\ BytesRead # BUFFER_SIZE)
Pending == SizeNow - sendBufferOffset

(* WriteFileToSocket has nothing to write: write(2) of 0 bytes returns 0,  *)
(* which is taken for a closed connection.                                 *)
WriteNothing ==
  /\ Pending = 0
  /\ currReadSize' = SizeNow
  /\ fileOffset' = OffsetNow
  /\ isEof' = EofNow
  /\ UNCHANGED <<sendBufferOffset, wire>>

(* (the result of a write that would block, -1, is added to the offset)    *)
AddsErrorResult(n) ==
  /\ n \in 1 .. Pending
  /\ currReadSize' = SizeNow
  /\ fileOffset' = OffsetNow
  /\ isEof' = EofNow
  /\ sendBufferOffset' = sendBufferOffset - 1
  /\ UNCHANGED wire

(* write(2) takes n of the pending bytes, and there is more to send ...    *)
WritePart(n) ==
  /\ n \in 1 .. Pending
  /\ n < Pending \/ ~EofNow
  /\ currReadSize' = SizeNow
  /\ fileOffset' = OffsetNow
  /\ isEof' = EofNow
  /\ sendBufferOffset' = IF n = Pending THEN 0 ELSE sendBufferOffset + n
  /\ wire' = wire + n

(* (m_fileOffset and m_isEof are not reset)                                *)
NoReset ==
  /\ Pending > 0
  /\ EofNow
  /\ currReadSize' = SizeNow
  /\ fileOffset' = OffsetNow
  /\ isEof' = EofNow
  /\ sendBufferOffset' = 0
  /\ wire' = wire + Pending

(* ... or takes the last ones (EOF_STATUS): the handler is reset.          *)
WriteLast ==
  /\ Pending > 0
  /\ EofNow
  /\ currReadSize' = SizeNow
  /\ fileOffset' = 0
  /\ isEof' = FALSE
  /\ sendBufferOffset' = 0
  /\ wire' = wire + Pending

-----------------------------------------------------------------------------
(* The client sends DOWNLOAD or DISCOVERY, again and again on the same     *)
(* connection (the interactive client keeps its repository connection),    *)
(* when it has read everything sent to it.                                 *)
Ask ==
  /\ client \in {"idle", "complete"}
  /\ wire = 0
  /\ client' = "asking"
  /\ received' = 0
  /\ UNCHANGED <<fileSize, memberVars, server, announced, wire>>

(* HandleDownload, HandleDiscovery: the header with the file's size, and   *)
(* HandleOutput at once; then RegisterIO(WRITE), unless the status is EOF, *)
(* even when HandleOutput has closed and destroyed the handler.  The       *)
(* previous file may still be "sending" when its last byte has left.       *)
Start ==
  /\ client = "asking"
  /\ server \in {"idle", "sending"}
  /\ announced' = fileSize
  /\ client' = "receiving"
  /\ \/ WriteLast /\ server' = "idle"
     \/ \E n \in 1 .. BUFFER_SIZE : WritePart(n) /\ server' = "sending"
     \/ WriteNothing /\ server' = "crashed"
  /\ UNCHANGED <<fileSize, received>>

(* HandleOutput: EOF_STATUS unregisters WRITE, CONN_CLOSED_STATUS closes.  *)
HandleOutput ==
  /\ server = "sending"
  /\ \/ WriteLast /\ server' = "idle"
     \/ \E n \in 1 .. BUFFER_SIZE : WritePart(n) /\ UNCHANGED server
     \/ WriteNothing /\ server' = "closed"
  /\ UNCHANGED <<fileSize, announced, clientVars>>

(* (the total is compared before the bytes are added)                      *)
ComparesTooEarly(n) ==
  /\ client = "receiving"
  /\ n \in 1 .. Smaller(BUFFER_SIZE, wire)
  /\ wire' = wire - n
  /\ received' = received + n
  /\ client' = IF received = announced THEN "complete" ELSE client
  /\ UNCHANGED <<fileSize, memberVars, server, announced>>

(* WriteSocketToFile in the client reads what has arrived, at most its     *)
(* buffer, and stops when the total equals the announced size.             *)
ReadChunk(n) ==
  /\ client = "receiving"
  /\ n \in 1 .. Smaller(BUFFER_SIZE, wire)
  /\ wire' = wire - n
  /\ received' = received + n
  /\ client' = IF received + n = announced THEN "complete" ELSE client
  /\ UNCHANGED <<fileSize, memberVars, server, announced>>

(* ... or fails when the connection is closed before that.                 *)
ReadEnd ==
  /\ client \in {"asking", "receiving"}
  /\ wire = 0
  /\ server \in {"closed", "crashed"}
  /\ client' = "failed"
  /\ UNCHANGED <<fileSize, memberVars, server, announced, wire, received>>

(* The server's timer for this connection elapses: HandleTimer closes it.  *)
HandleTimer ==
  /\ server \in {"idle", "sending"}
  /\ server' = "closed"
  /\ UNCHANGED <<fileSize, memberVars, announced, wire, clientVars>>

(* Other connections' writes to the same file, between two handler calls:  *)
(* at any time between two transfers, as FileChange says during one.       *)
MayBecome(size) ==
  \/ server = "idle" /\ client \in {"idle", "complete"}
  \/ "rewrite" \in FileChange
  \/ "append" \in FileChange /\ size > fileSize

ChangeFile ==
  /\ \E size \in Sizes : MayBecome(size) /\ fileSize' = size
  /\ UNCHANGED <<memberVars, server, announced, wire, clientVars>>

Next ==
  \/ Ask \/ Start \/ HandleOutput
  \/ \E n \in 1 .. BUFFER_SIZE : ReadChunk(n)
  \/ ReadEnd \/ HandleTimer \/ ChangeFile

Spec == Init /\ [][Next]_vars

(* The server's loop keeps calling a handler whose socket is writable, and *)
(* the client keeps reading.  Nothing makes the timer elapse.              *)
FairSpec ==
  /\ Spec
  /\ WF_vars(Start) /\ WF_vars(HandleOutput) /\ WF_vars(ReadEnd)
  /\ WF_vars(\E n \in 1 .. BUFFER_SIZE : ReadChunk(n))

-----------------------------------------------------------------------------
Unsent == IF sendBufferOffset = 0 THEN 0 ELSE currReadSize - sendBufferOffset

(* No byte is lost or sent twice: what the handler has read from the file  *)
(* is what is left in its buffer, what is on the way and what the client   *)
(* has (m_fileOffset, m_sendBufferOffset, m_currReadSize agree).           *)
Conservation ==
  server = "sending" /\ client = "receiving"
    => fileOffset = received + wire + Unsent

(* When a transfer is over the members are as the constructor left them,   *)
(* so the next DOWNLOAD of the same handler starts at the file's start.    *)
CleanBetweenTransfers ==
  server = "idle" => fileOffset = 0 /\ sendBufferOffset = 0 /\ ~isEof

(* If nobody else touches the file, the client never gets more bytes than  *)
(* the header announced, is complete exactly when it has them all, and the *)
(* server says "file send complete" only when it has written them all.     *)
ExactDelivery ==
  client \in {"receiving", "complete"} =>
    /\ received + wire <= announced
    /\ client = "complete" <=> received = announced /\ announced > 0
    /\ server = "idle" => received + wire = announced

(* "Breaks when fileSent or on read error" (fileserver_protocolos.cpp:238):*)
(* a client that has received the announced bytes stops reading.           *)
BreaksWhenFileSent ==
  client = "receiving" => received < announced

(* A transfer ends: complete, or failed because the server closed.         *)
TransferEnds == client = "asking" ~> client \in {"complete", "failed"}

=============================================================================
