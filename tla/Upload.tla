------------------------------- MODULE Upload -------------------------------
(***************************************************************************)
(* One UPLOAD on one connection, counted in bytes: the client's Upload and *)
(* WriteFileToSocket, the server's HandleInput, HandleUpload and           *)
(* WriteSocketToFile.  Request, header and body follow each other in one   *)
(* stream without boundaries: what a byte means depends on where it is.    *)
(***************************************************************************)
EXTENDS Integers

CONSTANTS
  REQUEST,       \* sizeof(FSServiceMsg)
  HEADER,        \* sizeof(FileServerHeader)
  BUFFER_SIZE,   \* of both sides' buffers
  Sizes,         \* lengths the client's file may have
  Troubles,      \* what may go wrong
  None           \* no confirmation yet

(* cut:   the network delivers the header in pieces                         *)
(* sum:   the checksum sent is not the one of the bytes sent                *)
(* open:  the server cannot open the file                                   *)
(* full:  the server's disk takes fewer bytes than it is given              *)
(* leave: the client ends in the middle                                     *)
ASSUME UploadAssumption ==
  /\ REQUEST \in Nat \ {0} /\ HEADER \in Nat \ {0} /\ BUFFER_SIZE \in Nat \ {0}
  /\ Sizes \subseteq Nat
  /\ Troubles \subseteq {"cut", "sum", "open", "full", "leave"}
  /\ None \notin Nat

VARIABLES
  fileSize,   \* length of the client's file
  client,     \* what the client does next, or what Upload has returned
  put,        \* bytes the client has written to the socket
  server,     \* the read the handler is in; "idle": in the loop
  taken,      \* bytes the server has read from the socket
  announced,  \* m_size of the header as the server has it
  file,       \* under the hashed name: the "old" file or the "new" one
  stored,     \* totBytesWritten in the server: length of the new file
  reply,      \* m_size of the confirmation
  strays,     \* bytes that belong to no request have been read as one
  trouble     \* what has gone wrong so far

clientVars == <<fileSize, client, put>>
serverVars == <<server, taken, announced, file, stored, reply, strays>>
vars == <<clientVars, serverVars, trouble>>

TypeOK ==
  /\ fileSize \in Sizes
  /\ client \in {"request", "header", "body", "confirmation", "true", "false"}
  /\ put \in Nat /\ taken \in Nat /\ announced \in Nat /\ stored \in Nat
  /\ server \in {"idle", "header", "body", "closed"}
  /\ file \in {"old", "new"}
  /\ reply \in Nat \union {None}
  /\ strays \in BOOLEAN
  /\ trouble \in SUBSET Troubles

Init ==
  /\ fileSize \in Sizes
  /\ client = "request" /\ put = 0
  /\ server = "idle" /\ taken = 0 /\ announced = 0
  /\ file = "old" /\ stored = 0
  /\ reply = None
  /\ strays = FALSE
  /\ trouble = {}

Smaller(m, n) == IF m < n THEN m ELSE n
OnTheWay == put - taken
Gone == client \in {"true", "false"}     \* the destructor has closed the socket
BodyStart == REQUEST + HEADER

-----------------------------------------------------------------------------
(* The client.                                                             *)

SendRequest ==
  /\ client = "request" /\ server # "closed"
  /\ client' = "header"
  /\ put' = REQUEST
  /\ UNCHANGED <<fileSize, serverVars, trouble>>

(* SendHeader: size and checksum.                                          *)
SendHeader ==
  /\ client = "header" /\ server # "closed"
  /\ client' = "body"
  /\ put' = put + HEADER
  /\ \/ UNCHANGED trouble
     \/ "sum" \in Troubles /\ trouble' = trouble \union {"sum"}
  /\ UNCHANGED <<fileSize, serverVars>>

(* The rest of the loop of WriteFileToSocket reads and writes one buffer.  *)
Chunk == Smaller(BUFFER_SIZE, BodyStart + fileSize - put)

SendChunk ==
  /\ client = "body" /\ server # "closed"
  /\ Chunk > 0
  /\ put' = put + Chunk
  /\ client' = IF put' = BodyStart + fileSize THEN "confirmation" ELSE "body"
  /\ UNCHANGED <<fileSize, serverVars, trouble>>

(* write of 0 bytes, from an empty file, is taken for a closed connection. *)
SendNothing ==
  /\ client = "body"
  /\ Chunk = 0
  /\ client' = "false"
  /\ UNCHANGED <<fileSize, put, serverVars, trouble>>

(* The write of a request, a header or a chunk fails.                      *)
SendFails ==
  /\ client \in {"request", "header", "body"} /\ server = "closed"
  /\ client' = "false"
  /\ UNCHANGED <<fileSize, put, serverVars, trouble>>

(* The confirmation must have the size of the file; m_recvHeader is still  *)
(* zero when the server has closed without sending one.                    *)
ReadConfirmation ==
  /\ client = "confirmation"
  /\ reply # None \/ server = "closed"
  /\ client' = IF fileSize = (IF reply = None THEN 0 ELSE reply) THEN "true" ELSE "false"
  /\ UNCHANGED <<fileSize, put, serverVars, trouble>>

Leave ==
  /\ "leave" \in Troubles
  /\ client \in {"header", "body", "confirmation"}
  /\ client' = "false"
  /\ trouble' = trouble \union {"leave"}
  /\ UNCHANGED <<fileSize, put, serverVars>>

-----------------------------------------------------------------------------
(* The server.  Only in the loop ("idle") can its timer close it: the reads*)
(* of HandleUpload block.                                                  *)

(* HandleInput reads the request (small, and first: it arrives whole).     *)
HandleInput ==
  /\ server = "idle" /\ taken = 0 /\ put > 0
  /\ taken' = REQUEST
  /\ server' = "header"
  /\ UNCHANGED <<clientVars, announced, file, stored, reply, strays, trouble>>

(* The read of the header takes what has come of it.  A cut header keeps   *)
(* the low bytes of the size, and loses its checksum.                      *)
TakeHeader(n) ==
  /\ server = "header"
  /\ n \in 1 .. Smaller(HEADER, OnTheWay)
  /\ n = HEADER \/ "cut" \in Troubles
  /\ taken' = taken + n
  /\ IF n = HEADER THEN announced' = fileSize ELSE announced' \in 0 .. fileSize

CutIf(n) == IF n = HEADER THEN {} ELSE {"cut"}

(* WriteSocketToFile opens the file, and thereby empties it ...            *)
OpenFile(n) ==
  /\ TakeHeader(n)
  /\ server' = "body"
  /\ file' = "new" /\ stored' = 0
  /\ trouble' = trouble \union CutIf(n)
  /\ UNCHANGED <<clientVars, reply, strays>>

(* ... or cannot, and returns `false', which HandleUpload confirms as the  *)
(* size 0: the body stays in the socket.                                   *)
OpenFails(n) ==
  /\ "open" \in Troubles
  /\ TakeHeader(n)
  /\ server' = "idle"
  /\ reply' = 0
  /\ trouble' = trouble \union CutIf(n) \union {"open"}
  /\ UNCHANGED <<clientVars, file, stored, strays>>

(* End of stream instead of a header is not an error to HandleUpload: the  *)
(* file is emptied, for a header of zeros.                                 *)
NoHeader ==
  /\ server = "header" /\ OnTheWay = 0 /\ Gone
  /\ server' = "idle"
  /\ announced' = 0
  /\ file' = "new" /\ stored' = 0
  /\ UNCHANGED <<clientVars, taken, reply, strays, trouble>>

(* (the checksum is not compared)                                          *)
NoComparison(length) == TRUE

(* The bytes in the file are the client's, all of them, and the checksum   *)
(* is theirs.                                                              *)
SumMatches(length) ==
  /\ trouble \intersect {"cut", "sum", "full"} = {}
  /\ length = fileSize

(* A read of the body, and the fwrite of what it brought.                  *)
TakeBody(n) ==
  /\ server = "body"
  /\ n \in 1 .. Smaller(BUFFER_SIZE, OnTheWay)
  /\ taken' = taken + n

(* (the announced size is compared before the bytes are added)             *)
ComparesTooEarly(n) ==
  /\ TakeBody(n)
  /\ stored # announced
  /\ stored' = stored + n
  /\ UNCHANGED <<clientVars, server, announced, file, reply, strays, trouble>>

(* (the loop ends with the announced size or more)                         *)
StopsAtAnyTotal(n) ==
  /\ TakeBody(n)
  /\ stored' = stored + n
  /\ server' = "idle"
  /\ UNCHANGED <<clientVars, announced, file, reply, strays, trouble>>

ReadBody(n) ==
  /\ TakeBody(n)
  /\ stored + n # announced
  /\ stored' = stored + n
  /\ UNCHANGED <<clientVars, server, announced, file, reply, strays, trouble>>

(* The total is the announced one: FileSize, fclose, the checksum, and the *)
(* confirmation.                                                           *)
Confirm(n) ==
  /\ TakeBody(n)
  /\ stored + n = announced
  /\ stored' = stored + n
  /\ server' = "idle"
  /\ reply' = IF SumMatches(stored + n) THEN stored + n ELSE None
  /\ UNCHANGED <<clientVars, announced, file, strays, trouble>>

(* (the result of a failed fwrite, -1, is added to the total)              *)
AddsErrorResult(n, written) ==
  /\ TakeBody(n)
  /\ stored' = stored - 1
  /\ trouble' = trouble \union {"full"}
  /\ UNCHANGED <<clientVars, server, announced, file, reply, strays>>

(* fwrite writes less than it is given.  Nothing at all is an error; else  *)
(* the loop goes on, for bytes that do not come again.                     *)
DiskFull(n, written) ==
  /\ "full" \in Troubles
  /\ TakeBody(n)
  /\ written \in 0 .. n - 1
  /\ stored' = stored + written
  /\ trouble' = trouble \union {"full"}
  /\ server' = IF written = 0 \/ stored' = announced THEN "idle" ELSE "body"
  /\ UNCHANGED <<clientVars, announced, file, reply, strays>>

(* The last bytes are only refused when the file is flushed and closed.    *)
CloseFails(n) ==
  /\ "full" \in Troubles
  /\ TakeBody(n)
  /\ stored + n = announced
  /\ stored' = stored + n
  /\ trouble' = trouble \union {"full"}
  /\ server' = "idle"
  /\ UNCHANGED <<clientVars, announced, file, reply, strays>>

(* End of stream in the body: SYS_ERR, and the FILE stays open for ever.   *)
BodyEnds ==
  /\ server = "body" /\ OnTheWay = 0 /\ Gone
  /\ server' = "idle"
  /\ UNCHANGED <<clientVars, taken, announced, file, stored, reply, strays, trouble>>

(* HandleInput after a failed upload: the rest of the stream is read as    *)
(* requests.  (Of no known type: what else they might say is not followed.)*)
UnknownMessage ==
  /\ server = "idle" /\ taken > 0 /\ OnTheWay > 0
  /\ taken' = taken + Smaller(REQUEST, OnTheWay)
  /\ strays' = TRUE
  /\ UNCHANGED <<clientVars, server, announced, file, stored, reply, trouble>>

(* HandleClose, on the client's end of stream ...                          *)
PeerClosed ==
  /\ server = "idle" /\ OnTheWay = 0 /\ Gone
  /\ server' = "closed"
  /\ UNCHANGED <<clientVars, taken, announced, file, stored, reply, strays, trouble>>

(* (the timer is cancelled with the first request)                         *)
TimerCancelled ==
  /\ server = "idle" /\ taken = 0
  /\ server' = "closed"
  /\ UNCHANGED <<clientVars, taken, announced, file, stored, reply, strays, trouble>>

(* (the timer also ends an upload)                                         *)
ExpiresAnywhere ==
  /\ server # "closed"
  /\ server' = "closed"
  /\ UNCHANGED <<clientVars, taken, announced, file, stored, reply, strays, trouble>>

(* ... and when the timer elapses.                                         *)
HandleTimer ==
  /\ server = "idle"
  /\ server' = "closed"
  /\ UNCHANGED <<clientVars, taken, announced, file, stored, reply, strays, trouble>>

-----------------------------------------------------------------------------
ClientStep ==
  \/ SendRequest \/ SendHeader \/ SendChunk \/ SendNothing \/ SendFails
  \/ ReadConfirmation

ServerStep ==
  \/ HandleInput \/ NoHeader \/ BodyEnds \/ UnknownMessage \/ PeerClosed
  \/ \E n \in 1 .. HEADER : OpenFile(n) \/ OpenFails(n)
  \/ \E n \in 1 .. BUFFER_SIZE :
       \/ ReadBody(n) \/ Confirm(n) \/ CloseFails(n)
       \/ \E written \in 0 .. n - 1 : DiskFull(n, written)

Next == ClientStep \/ ServerStep \/ Leave \/ HandleTimer

Spec == Init /\ [][Next]_vars

(* Both sides keep running, and 240 s pass.  Nothing makes the client      *)
(* leave.                                                                  *)
FairSpec == Spec /\ WF_vars(ClientStep) /\ WF_vars(ServerStep) /\ WF_vars(HandleTimer)

-----------------------------------------------------------------------------
(* Upload returns true only if the server has stored the whole file, and   *)
(* has read exactly the request, the header and the body, although the     *)
(* client compares nothing but the sizes.                                  *)
ConfirmedIsStored ==
  client = "true" => /\ file = "new" /\ stored = fileSize /\ fileSize > 0
                     /\ taken = BodyStart + fileSize
                     /\ trouble \intersect {"cut", "full"} = {}

(* Bytes of a header or a body are read as a request only after a header   *)
(* in pieces, a file that could not be opened, or a full disk: the total   *)
(* equals the announced size exactly at the end of the body.               *)
NoStrays == strays => trouble \intersect {"cut", "open", "full"} # {}

(* Between two handler calls the service has the old file or the whole new *)
(* one, unless something has gone wrong.  (After a wrong checksum, too.)   *)
NeverHalf ==
  server \in {"idle", "closed"} /\ file = "new" /\ trouble \subseteq {"sum"}
    => stored = fileSize

(* Client and server do not wait for each other: the one for the confirma- *)
(* tion, the other, and every connection of the server with it, for bytes  *)
(* of the body.  Pieces of a header and a full disk make them.             *)
Stranded == client = "confirmation" /\ server = "body" /\ OnTheWay = 0
StrandedOnlyByLoss == Stranded => trouble \intersect {"cut", "full"} # {}

(* Upload returns.  A server that gives up in silence is only noticed when *)
(* its timer closes the connection.                                        *)
UploadReturns == client = "header" ~> Gone \/ Stranded

(* To everyone else the upload is one step: between two handler calls the  *)
(* service has the old file, the whole new one, or, if something has gone  *)
(* wrong, a beginning of it; only a header in pieces makes it longer.  The *)
(* file is replaced once, and Upload returns true only afterwards.         *)
Replaced == file = "new" /\ server \in {"idle", "closed"}

Atomic == INSTANCE AtomicUpload WITH
  size <- fileSize,
  answer <- IF Gone THEN client ELSE "none",
  replaced <- Replaced,
  kept <- IF Replaced THEN stored ELSE 0,
  harm <- IF "cut" \in trouble THEN "garbled"
          ELSE IF trouble \subseteq {"sum"} THEN "none" ELSE "short"

UploadIsAtomic == Atomic!Spec

=============================================================================
