---------------------------- MODULE UploadProofs ----------------------------
(***************************************************************************)
(* What an upload promises, for any sizes of request, header, buffer and   *)
(* file, and any troubles.                                                 *)
(***************************************************************************)
EXTENDS Upload, TLAPS

Lossless == "cut" \notin trouble /\ "full" \notin trouble

(* Where the client is in the stream.                                      *)
ClientAt ==
  /\ put <= BodyStart + fileSize
  /\ put = 0 \/ put >= REQUEST
  /\ client = "request" => put = 0
  /\ client = "header" => put = REQUEST
  /\ client = "body" => put >= BodyStart /\ (put < BodyStart + fileSize \/ fileSize = 0)
  /\ client = "confirmation" => put = BodyStart + fileSize /\ fileSize > 0
  /\ Gone /\ server # "closed" /\ "leave" \notin trouble => put = BodyStart + fileSize

(* Where the server is in the stream, and what it has done by then.        *)
ServerAt ==
  /\ taken <= put
  /\ taken = 0 \/ taken >= REQUEST
  /\ taken = 0 => server \in {"idle", "closed"} /\ file = "old" /\ reply = None /\ ~strays
  /\ server = "header" => taken = REQUEST /\ file = "old" /\ reply = None /\ ~strays
  /\ server = "body" => file = "new" /\ reply = None /\ ~strays
  /\ server = "body" /\ Lossless =>
       announced = fileSize /\ taken = BodyStart + stored /\ (stored < fileSize \/ fileSize = 0)

(* A handler back in the loop has read the stream to its end, and has the  *)
(* whole file, unless something went wrong.                                *)
Over == server \in {"idle", "closed"} /\ taken > 0
AtTheEnd ==
  /\ Over /\ Lossless /\ "open" \notin trouble
       => taken = put /\ (Gone \/ put = BodyStart + fileSize)
  /\ Over /\ Lossless /\ "open" \notin trouble /\ "leave" \notin trouble => stored = fileSize
  /\ strays => ~Lossless \/ "open" \in trouble

(* A confirmation of more than 0 bytes is of the whole file.               *)
Complete == file = "new" /\ stored = fileSize /\ taken = BodyStart + fileSize /\ Lossless
Confirmed ==
  /\ reply \notin {None, 0} => Over /\ reply = fileSize /\ Complete
  /\ client = "true" => Over /\ fileSize > 0 /\ Complete

IInv == TypeOK /\ ClientAt /\ ServerAt /\ AtTheEnd /\ Confirmed

-----------------------------------------------------------------------------
(* The invariant survives every step of the client ...                     *)
LEMMA ClientKeeps == IInv /\ (ClientStep \/ Leave) => IInv'
<1> SUFFICES ASSUME IInv, ClientStep \/ Leave PROVE IInv'
  OBVIOUS
<1> USE UploadAssumption
    DEF IInv, TypeOK, ClientAt, ServerAt, AtTheEnd, Confirmed, Complete, Over, Lossless, Gone,
        BodyStart, serverVars, Smaller
<1>1. CASE SendRequest
  BY <1>1 DEF SendRequest
<1>2. CASE SendHeader
  <2>1. client = "header" /\ server # "closed" /\ client' = "body" /\ put' = put + HEADER
        /\ UNCHANGED <<fileSize, serverVars>>
    BY <1>2 DEF SendHeader
  <2>2. trouble' \in SUBSET Troubles /\ (trouble' = trouble \/ trouble' = trouble \union {"sum"})
    BY <1>2 DEF SendHeader
  <2>3. Lossless' = Lossless /\ ("open" \in trouble' <=> "open" \in trouble)
        /\ ("leave" \in trouble' <=> "leave" \in trouble)
    BY <2>2
  <2>4. TypeOK'
    BY <2>1, <2>2
  <2>5. ClientAt'
    BY <2>1
  <2>6. ServerAt' /\ AtTheEnd' /\ Confirmed'
    BY <2>1, <2>3
  <2> QED BY <2>4, <2>5, <2>6
<1>3. CASE SendChunk
  BY <1>3 DEF SendChunk, Chunk
<1>4. CASE SendNothing
  BY <1>4 DEF SendNothing, Chunk
<1>5. CASE SendFails
  BY <1>5 DEF SendFails
<1>6. CASE ReadConfirmation
  BY <1>6 DEF ReadConfirmation
<1>7. CASE Leave
  BY <1>7 DEF Leave
<1>8. QED
  BY <1>1, <1>2, <1>3, <1>4, <1>5, <1>6, <1>7 DEF ClientStep

(* ... and every step of the server.                                       *)
LEMMA ServerKeeps == IInv /\ (ServerStep \/ HandleTimer) => IInv'
<1> SUFFICES ASSUME IInv, ServerStep \/ HandleTimer PROVE IInv'
  OBVIOUS
<1> USE UploadAssumption
    DEF IInv, TypeOK, ClientAt, ServerAt, AtTheEnd, Confirmed, Complete, Over, Lossless, Gone,
        BodyStart, clientVars, Smaller, OnTheWay
<1>1. CASE HandleInput
  <2>1. server = "idle" /\ taken = 0 /\ put > 0 /\ taken' = REQUEST /\ server' = "header"
        /\ UNCHANGED <<clientVars, announced, file, stored, reply, strays, trouble>>
    BY <1>1 DEF HandleInput
  <2>2. put >= REQUEST
    BY <2>1
  <2>3. TypeOK' /\ ClientAt'
    BY <2>1
  <2>4. ServerAt'
    BY <2>1, <2>2
  <2>5. AtTheEnd' /\ Confirmed'
    BY <2>1
  <2> QED BY <2>3, <2>4, <2>5
<1>2. CASE NoHeader
  BY <1>2 DEF NoHeader
<1>3. CASE BodyEnds
  BY <1>3 DEF BodyEnds
<1>4. CASE UnknownMessage
  BY <1>4 DEF UnknownMessage
<1>5. CASE PeerClosed
  BY <1>5 DEF PeerClosed
<1>6. CASE HandleTimer
  BY <1>6 DEF HandleTimer
<1>7. ASSUME NEW n \in 1 .. HEADER, OpenFile(n) PROVE IInv'
  <2>1. server = "header" /\ server' = "body" /\ file' = "new" /\ stored' = 0
        /\ n <= OnTheWay /\ taken' = taken + n /\ trouble' = trouble \union CutIf(n)
        /\ UNCHANGED <<clientVars, reply, strays>>
    BY <1>7 DEF OpenFile, TakeHeader
  <2>2. IF n = HEADER THEN announced' = fileSize ELSE announced' \in 0 .. fileSize
    BY <1>7 DEF OpenFile, TakeHeader
  <2>3. TypeOK'
    <3>1. trouble' \in SUBSET Troubles
      BY <1>7, <2>1 DEF OpenFile, TakeHeader, CutIf
    <3> QED BY <2>1, <2>2, <3>1
  <2>4. ClientAt'
    BY <2>1
  <2>5. Lossless' => n = HEADER
    BY <2>1 DEF CutIf
  <2>6. ServerAt'
    BY <2>1, <2>2, <2>5
  <2>7. AtTheEnd' /\ Confirmed'
    BY <2>1
  <2> QED BY <2>3, <2>4, <2>6, <2>7
<1>8. ASSUME NEW n \in 1 .. HEADER, OpenFails(n) PROVE IInv'
  BY <1>8 DEF OpenFails, TakeHeader, CutIf
<1>9. ASSUME NEW n \in 1 .. BUFFER_SIZE, ReadBody(n) PROVE IInv'
  BY <1>9 DEF ReadBody, TakeBody
<1>10. ASSUME NEW n \in 1 .. BUFFER_SIZE, Confirm(n) PROVE IInv'
  BY <1>10 DEF Confirm, TakeBody, SumMatches
<1>11. ASSUME NEW n \in 1 .. BUFFER_SIZE, CloseFails(n) PROVE IInv'
  BY <1>11 DEF CloseFails, TakeBody
<1>12. ASSUME NEW n \in 1 .. BUFFER_SIZE, NEW written \in 0 .. n - 1, DiskFull(n, written)
       PROVE IInv'
  BY <1>12 DEF DiskFull, TakeBody
<1>13. QED
  BY <1>1, <1>2, <1>3, <1>4, <1>5, <1>6, <1>7, <1>8, <1>9, <1>10, <1>11, <1>12 DEF ServerStep

-----------------------------------------------------------------------------
(* The inductive invariant of an upload holds.                             *)
THEOREM Invariance == Spec => []IInv
<1>1. Init => IInv
  <2> SUFFICES ASSUME Init PROVE IInv
    OBVIOUS
  <2> USE UploadAssumption DEF Init, Over, Lossless, Gone, BodyStart
  <2>1. TypeOK
    BY DEF TypeOK
  <2>2. fileSize \in Nat
    OBVIOUS
  <2>3. ClientAt
    BY <2>2 DEF ClientAt
  <2>4. ServerAt /\ AtTheEnd /\ Confirmed
    BY DEF ServerAt, AtTheEnd, Confirmed
  <2>5. QED
    BY <2>1, <2>3, <2>4 DEF IInv
<1>2. IInv /\ [Next]_vars => IInv'
  <2>1. IInv /\ UNCHANGED vars => IInv'
    BY DEF vars, clientVars, serverVars, IInv, TypeOK, ClientAt, ServerAt, AtTheEnd, Confirmed,
           Complete, Over, Lossless, Gone
  <2>2. QED
    BY <2>1, ClientKeeps, ServerKeeps DEF Next
<1>3. QED
  BY <1>1, <1>2, PTL DEF Spec

(* The variables of an upload have their types.                            *)
THEOREM TypeCorrect == Spec => []TypeOK
<1>1. IInv => TypeOK
  BY DEF IInv
<1>2. QED
  BY <1>1, Invariance, PTL

(* An upload the client takes for successful is stored, whole.             *)
THEOREM TrueMeansStored == Spec => []ConfirmedIsStored
<1>1. IInv => ConfirmedIsStored
  BY DEF IInv, Confirmed, Complete, Lossless, ConfirmedIsStored
<1>2. QED
  BY <1>1, Invariance, PTL

(* Without loss the server is never out of step with the stream.           *)
THEOREM InStep == Spec => []NoStrays
<1>1. IInv => NoStrays
  BY DEF IInv, AtTheEnd, Lossless, NoStrays
<1>2. QED
  BY <1>1, Invariance, PTL

(* Without trouble a file is replaced as a whole.                          *)
THEOREM ReplacedWhole == Spec => []NeverHalf
<1>1. ASSUME IInv, server \in {"idle", "closed"}, file = "new", trouble \subseteq {"sum"}
      PROVE  stored = fileSize
  <2>1. taken # 0
    BY <1>1 DEF IInv, ServerAt
  <2>2. Over
    BY <1>1, <2>1 DEF IInv, TypeOK, Over
  <2>3. Lossless /\ "open" \notin trouble /\ "leave" \notin trouble
    BY <1>1 DEF Lossless
  <2>4. QED
    BY <1>1, <2>2, <2>3 DEF IInv, AtTheEnd
<1>2. IInv => NeverHalf
  BY <1>1 DEF NeverHalf
<1>3. QED
  BY <1>2, Invariance, PTL

(* Without loss client and server never wait for each other.               *)
THEOREM NoMutualWait == Spec => []StrandedOnlyByLoss
<1>1. ASSUME IInv, Stranded, Lossless PROVE FALSE
  <2>1. put = BodyStart + fileSize /\ fileSize > 0
    BY <1>1 DEF IInv, ClientAt, Stranded
  <2>2. taken = BodyStart + stored /\ (stored < fileSize \/ fileSize = 0)
    BY <1>1 DEF IInv, ServerAt, Stranded
  <2>3. fileSize \in Nat /\ stored \in Nat /\ put = taken
    BY <1>1, UploadAssumption DEF IInv, TypeOK, Stranded, OnTheWay
  <2>4. QED
    BY <2>1, <2>2, <2>3, UploadAssumption DEF BodyStart
<1>2. IInv => StrandedOnlyByLoss
  BY <1>1 DEF StrandedOnlyByLoss, Lossless
<1>3. QED
  BY <1>2, Invariance, PTL

-----------------------------------------------------------------------------
(* The upload as one step.                                                 *)

(* Without a header in pieces nothing but the file is written to the file. *)
NoLonger ==
  "cut" \notin trouble /\ file = "new" =>
    /\ stored <= fileSize
    /\ server = "body" => BodyStart + stored <= taken

LEMMA BodyNoLonger ==
  ASSUME IInv, NoLonger, TypeOK', NEW n \in 1 .. BUFFER_SIZE,
         \/ ReadBody(n) \/ Confirm(n) \/ CloseFails(n)
         \/ \E written \in 0 .. n - 1 : DiskFull(n, written)
  PROVE  NoLonger'
<1>1. /\ server = "body" /\ n <= OnTheWay /\ taken' = taken + n
      /\ UNCHANGED <<fileSize, put>> /\ trouble \subseteq trouble'
  <2>1. TakeBody(n) /\ UNCHANGED clientVars /\ trouble \subseteq trouble'
    BY DEF ReadBody, Confirm, CloseFails, DiskFull
  <2>2. OnTheWay \in Int /\ BUFFER_SIZE \in Nat
    BY UploadAssumption DEF IInv, TypeOK, OnTheWay
  <2>3. n <= OnTheWay
    BY <2>1, <2>2 DEF TakeBody, Smaller
  <2> QED BY <2>1, <2>3 DEF TakeBody, clientVars
<1>2. stored \in Nat /\ stored' \in Nat /\ fileSize \in Nat /\ taken \in Nat /\ put \in Nat /\ n \in Nat
  BY UploadAssumption DEF IInv, TypeOK
<1>3. stored' <= stored + n
  BY <1>2 DEF ReadBody, Confirm, CloseFails, DiskFull
<1>4. file = "new" /\ put <= REQUEST + HEADER + fileSize
  BY <1>1 DEF IInv, ServerAt, ClientAt, BodyStart
<1>5. "cut" \notin trouble => REQUEST + HEADER + stored <= taken
  BY <1>1, <1>4 DEF NoLonger, BodyStart
<1>6. REQUEST \in Nat /\ HEADER \in Nat
  BY UploadAssumption
<1>7. ASSUME "cut" \notin trouble
      PROVE  stored' <= fileSize /\ REQUEST + HEADER + stored' <= taken + n
  <2>1. REQUEST + HEADER + stored <= taken /\ n <= put - taken
    BY <1>1, <1>5, <1>7 DEF OnTheWay
  <2>2. taken + n <= put
    BY <1>2, <2>1
  <2>3. PICK length \in Nat : length = stored'
    BY <1>2
  <2>4. REQUEST + HEADER + length <= taken + n
    <3>1. length <= stored + n
      BY <1>3, <2>3
    <3> QED BY <1>2, <1>6, <2>1, <3>1
  <2>5. length <= fileSize
    BY <1>2, <1>4, <1>6, <2>2, <2>4
  <2> QED BY <2>3, <2>4, <2>5
<1> QED BY <1>1, <1>7 DEF NoLonger, BodyStart

LEMMA NoLongerStays ==
  ASSUME IInv, IInv', NoLonger, [Next]_vars
  PROVE  NoLonger'
<1> USE UploadAssumption DEF IInv, TypeOK, NoLonger
<1>1. CASE ClientStep \/ Leave
  <2>1. UNCHANGED <<fileSize, server, taken, file, stored>> /\ trouble \subseteq trouble'
    BY <1>1 DEF ClientStep, SendRequest, SendHeader, SendChunk, SendNothing, SendFails,
                ReadConfirmation, Leave, serverVars, clientVars
  <2> QED BY <2>1 DEF BodyStart
<1>2. ASSUME NEW n \in 1 .. HEADER, OpenFile(n) \/ OpenFails(n) PROVE NoLonger'
  <2>1. /\ server = "header" /\ taken = REQUEST /\ file = "old" /\ taken' = taken + n
        /\ UNCHANGED fileSize /\ CutIf(n) \subseteq trouble'
        /\ file' = "old" \/ stored' = 0
    BY <1>2 DEF OpenFile, OpenFails, TakeHeader, ServerAt, clientVars
  <2>2. "cut" \notin trouble' => n = HEADER
    BY <2>1 DEF CutIf
  <2> QED BY <2>1, <2>2 DEF BodyStart
<1>3. ASSUME NEW n \in 1 .. BUFFER_SIZE,
             \/ ReadBody(n) \/ Confirm(n) \/ CloseFails(n)
             \/ \E written \in 0 .. n - 1 : DiskFull(n, written)
      PROVE NoLonger'
  BY <1>3, BodyNoLonger
<1>4. CASE HandleInput \/ BodyEnds \/ UnknownMessage \/ PeerClosed \/ HandleTimer \/ UNCHANGED vars
  <2>1. /\ UNCHANGED <<fileSize, file, stored, trouble>>
        /\ server' # "body" \/ (UNCHANGED <<server, taken>>)
    BY <1>4 DEF HandleInput, BodyEnds, UnknownMessage, PeerClosed, HandleTimer, vars, clientVars,
                serverVars
  <2> QED BY <2>1 DEF BodyStart
<1>5. CASE NoHeader
  BY <1>5 DEF NoHeader, clientVars
<1> QED BY <1>1, <1>2, <1>3, <1>4, <1>5 DEF Next, ServerStep

LEMMA NeverLonger == Spec => []NoLonger
<1>1. Init => NoLonger
  BY DEF Init, NoLonger
<1>2. IInv /\ IInv' /\ NoLonger /\ [Next]_vars => NoLonger'
  BY NoLongerStays
<1> QED BY <1>1, <1>2, Invariance, PTL DEF Spec

(* What the client does is to return ...                                   *)
LEMMA ClientReturns ==
  ASSUME IInv, IInv', ClientStep \/ Leave
  PROVE  [Atomic!Next]_(Atomic!vars)
<1>1. UNCHANGED <<fileSize, server, file, stored>>
  BY DEF ClientStep, SendRequest, SendHeader, SendChunk, SendNothing, SendFails, ReadConfirmation,
         Leave, clientVars, serverVars
<1>2. Replaced' = Replaced
  BY <1>1 DEF Replaced
<1>3. ~Gone
  BY DEF ClientStep, SendRequest, SendHeader, SendChunk, SendNothing, SendFails, ReadConfirmation,
         Leave, Gone
<1>4. trouble' = trouble \/ trouble' = trouble \union {"sum"} \/ trouble' = trouble \union {"leave"}
  BY DEF ClientStep, SendRequest, SendHeader, SendChunk, SendNothing, SendFails, ReadConfirmation,
         Leave, serverVars
<1>5. Atomic!Worse
  BY <1>4 DEF Atomic!Worse
<1>6. CASE ~Gone'
  BY <1>1, <1>2, <1>3, <1>5, <1>6 DEF Atomic!Next, Atomic!Harm
<1>7. CASE client' = "false"
  BY <1>1, <1>2, <1>3, <1>5, <1>7 DEF Atomic!Next, Atomic!Fail, Gone
<1>8. CASE client' = "true"
  <2>1. ReadConfirmation /\ UNCHANGED trouble
    BY <1>8 DEF ClientStep, SendRequest, SendHeader, SendChunk, SendNothing, SendFails,
                ReadConfirmation, Leave
  <2>2. Replaced /\ stored = fileSize
    BY <1>1, <1>8 DEF IInv, Confirmed, Complete, Over, Replaced
  <2> QED BY <1>1, <1>2, <1>3, <1>8, <2>1, <2>2 DEF Atomic!Next, Atomic!Succeed, Gone
<1> QED BY <1>6, <1>7, <1>8 DEF Gone

(* ... and what the server does is to replace the file.                    *)
LEMMA ServerReplaces ==
  ASSUME IInv, IInv', NoLonger', ServerStep \/ HandleTimer
  PROVE  [Atomic!Next]_(Atomic!vars)
<1>1. UNCHANGED clientVars
  BY DEF ServerStep, HandleInput, NoHeader, BodyEnds, UnknownMessage, PeerClosed, HandleTimer,
         OpenFile, OpenFails, ReadBody, Confirm, CloseFails, DiskFull
<1>2. Gone' = Gone /\ fileSize' = fileSize /\ client' = client
  BY <1>1 DEF Gone, clientVars
<1>3. PICK t : trouble' = trouble \union t /\ (t = {} \/ t \intersect {"cut", "open", "full"} # {})
  <2>1. CASE HandleInput \/ NoHeader \/ BodyEnds \/ UnknownMessage \/ PeerClosed \/ HandleTimer
    BY <2>1 DEF HandleInput, NoHeader, BodyEnds, UnknownMessage, PeerClosed, HandleTimer
  <2>2. ASSUME NEW n \in 1 .. HEADER, OpenFile(n) \/ OpenFails(n)
        PROVE  \E t : trouble' = trouble \union t /\ (t = {} \/ t \intersect {"cut", "open", "full"} # {})
    <3>1. trouble' = trouble \union CutIf(n) \/ trouble' = trouble \union (CutIf(n) \union {"open"})
      BY <2>2 DEF OpenFile, OpenFails
    <3> QED BY <3>1 DEF CutIf
  <2>3. ASSUME NEW n \in 1 .. BUFFER_SIZE,
               \/ ReadBody(n) \/ Confirm(n) \/ CloseFails(n)
               \/ \E written \in 0 .. n - 1 : DiskFull(n, written)
        PROVE  \E t : trouble' = trouble \union t /\ (t = {} \/ t \intersect {"cut", "open", "full"} # {})
    <3>1. trouble' = trouble \union {} \/ trouble' = trouble \union {"full"}
      BY <2>3 DEF ReadBody, Confirm, CloseFails, DiskFull
    <3> QED BY <3>1
  <2> QED BY <2>1, <2>2, <2>3 DEF ServerStep
<1>4. Atomic!Worse
  BY <1>3 DEF Atomic!Worse
<1>5. CASE Replaced
  <2>1. file = "new" /\ (HandleInput \/ UnknownMessage \/ PeerClosed \/ HandleTimer)
    BY <1>5 DEF Replaced, ServerStep, NoHeader, BodyEnds, OpenFile, OpenFails, TakeHeader,
                ReadBody, Confirm, CloseFails, DiskFull, TakeBody
  <2>2. ~HandleInput
    BY <2>1 DEF HandleInput, IInv, ServerAt
  <2>3. Replaced' /\ stored' = stored
    BY <1>5, <2>1, <2>2 DEF UnknownMessage, PeerClosed, HandleTimer, Replaced
  <2> QED BY <1>2, <1>4, <1>5, <2>3 DEF Atomic!Next, Atomic!Harm
<1>6. CASE ~Replaced /\ ~Replaced'
  <2>1. Replaced' = Replaced
    BY <1>6 DEF Replaced
  <2> QED BY <1>2, <1>4, <1>6, <2>1 DEF Atomic!Next, Atomic!Harm
<1>7. CASE ~Replaced /\ Replaced'
  <2>1. file' = "new" /\ server' \in {"idle", "closed"} /\ stored' \in Nat
    BY <1>7 DEF Replaced, IInv, TypeOK
  <2>2. taken' > 0
    BY <2>1, UploadAssumption DEF IInv, TypeOK, ServerAt
  <2>3. trouble' \subseteq {"sum"} => stored' = fileSize
    BY <1>2, <2>1, <2>2 DEF IInv, AtTheEnd, Over, Lossless
  <2>4. "cut" \notin trouble' => stored' <= fileSize
    BY <1>2, <2>1 DEF NoLonger
  <2> QED BY <1>2, <1>4, <1>7, <2>1, <2>3, <2>4 DEF Atomic!Next, Atomic!Replace
<1> QED BY <1>5, <1>6, <1>7

(* The detailed upload implements the one in a step.                       *)
THEOREM ImplementsAtomicUpload == Spec => UploadIsAtomic
<1>1. Init => Atomic!Init
  BY DEF Init, Atomic!Init, Gone, Replaced
<1>2. IInv /\ IInv' /\ NoLonger' /\ [Next]_vars => [Atomic!Next]_(Atomic!vars)
  <2>1. UNCHANGED vars => UNCHANGED Atomic!vars
    BY DEF vars, clientVars, serverVars, Atomic!vars, Gone, Replaced
  <2> QED BY <2>1, ClientReturns, ServerReplaces DEF Next
<1> QED BY <1>1, <1>2, Invariance, NeverLonger, PTL DEF Spec, Atomic!Spec, UploadIsAtomic

-----------------------------------------------------------------------------
(* Why Upload returns: what is left to do.                                 *)

ClientSteps ==
  CASE client = "request" -> 5
    [] client = "header" -> 4
    [] client = "body" -> 3
    [] client = "confirmation" -> 2
    [] OTHER -> 0

ServerSteps ==
  CASE server = "header" -> 3
    [] server = "body" -> 2
    [] server = "idle" -> 1
    [] OTHER -> 0

Unwritten == BodyStart + fileSize - put
Unread == BodyStart + fileSize - taken
Remaining == Unwritten + 3 * Unread + ClientSteps + ServerSteps

Lower == Remaining \in Nat /\ Remaining' \in Nat /\ Remaining' < Remaining

(* A client that waits will be answered: the timer of a handler in the     *)
(* loop, the header or some of the body for one that reads.                *)
AnswerIsComing ==
  client = "confirmation" /\ reply = None /\ ~Stranded =>
    \/ server \in {"idle", "closed"}
    \/ server = "header" /\ OnTheWay >= HEADER
    \/ server = "body" /\ OnTheWay > 0

Counts ==
  Unwritten \in Nat /\ Unread \in Nat /\ ClientSteps \in 0 .. 5 /\ ServerSteps \in 0 .. 3

LEMMA Counted ==
  ASSUME IInv, IInv'
  PROVE  Counts /\ Counts'
<1>1. /\ ClientSteps \in 0 .. 5 /\ ClientSteps' \in 0 .. 5
      /\ ServerSteps \in 0 .. 3 /\ ServerSteps' \in 0 .. 3
  BY DEF ClientSteps, ServerSteps
<1>2. /\ fileSize \in Nat /\ put \in Nat /\ taken \in Nat
      /\ put <= BodyStart + fileSize /\ taken <= put
  BY UploadAssumption DEF IInv, TypeOK, ClientAt, ServerAt
<1>3. /\ fileSize' \in Nat /\ put' \in Nat /\ taken' \in Nat
      /\ put' <= BodyStart + fileSize' /\ taken' <= put'
  BY UploadAssumption DEF IInv, TypeOK, ClientAt, ServerAt, BodyStart
<1>4. Unwritten \in Nat /\ Unread \in Nat
  BY <1>2, UploadAssumption DEF BodyStart, Unwritten, Unread
<1>5. Unwritten' \in Nat /\ Unread' \in Nat
  <2>1. PICK f \in Nat, p \in Nat, t \in Nat : f = fileSize' /\ p = put' /\ t = taken'
    BY <1>3
  <2>2. p <= BodyStart + f /\ t <= p
    BY <1>3, <2>1
  <2>3. BodyStart + f - p \in Nat /\ BodyStart + f - t \in Nat
    BY <2>2, UploadAssumption DEF BodyStart
  <2> QED BY <2>1, <2>3 DEF Unwritten, Unread, BodyStart
<1> QED BY <1>1, <1>4, <1>5 DEF Counts

LEMMA ClientLowers ==
  ASSUME IInv, IInv', ClientStep \/ Leave
  PROVE  Lower
<1>1. UNCHANGED <<fileSize, server, taken>> /\ put \in Nat /\ put' \in Nat
  BY DEF ClientStep, SendRequest, SendHeader, SendChunk, SendNothing, SendFails, ReadConfirmation,
         Leave, clientVars, serverVars, IInv, TypeOK
<1>2. Unread' = Unread /\ ServerSteps' = ServerSteps
  BY <1>1 DEF Unread, ServerSteps, BodyStart
<1>3. CASE SendChunk
  <2>1. put' > put /\ client = "body" /\ client' \in {"body", "confirmation"}
    BY <1>1, <1>3, UploadAssumption DEF SendChunk, Chunk, Smaller, BodyStart, IInv, TypeOK
  <2>2. ClientSteps' <= ClientSteps
    BY <2>1 DEF ClientSteps
  <2>3. Unwritten' < Unwritten
    <3>0. BodyStart \in Nat /\ fileSize \in Nat /\ put \in Nat /\ put' \in Nat
      BY UploadAssumption DEF BodyStart, IInv, TypeOK
    <3>1. PICK total \in Nat, p \in Nat : total = BodyStart + fileSize /\ p = put'
      BY <3>0
    <3>2. Unwritten = total - put /\ Unwritten' = total - p
      <4>1. BodyStart' = BodyStart /\ fileSize' = fileSize
        BY <1>1 DEF BodyStart, clientVars
      <4> QED BY <3>0, <3>1, <4>1 DEF Unwritten
    <3>3. put < p
      BY <2>1, <3>1
    <3>4. total - p < total - put
      BY <3>0, <3>3
    <3> QED BY <3>2, <3>4, Zenon
  <2> QED BY <1>2, <2>2, <2>3, Counted DEF Counts, Lower, Remaining
<1>4. CASE ~SendChunk
  <2>1. /\ put' >= put
        /\ client # client' /\ client \notin {"true", "false"}
        /\ \/ client = "request" /\ client' = "header"
           \/ client = "header" /\ client' = "body"
           \/ client' \in {"true", "false"}
    BY <1>1, <1>4, UploadAssumption
    DEF ClientStep, SendRequest, SendHeader, SendNothing, SendFails, ReadConfirmation, Leave,
        IInv, ClientAt, TypeOK
  <2>2. ClientSteps' < ClientSteps
    BY <2>1 DEF ClientSteps, IInv, TypeOK
  <2>3. Unwritten' <= Unwritten
    <3>0. BodyStart \in Nat /\ fileSize \in Nat /\ put \in Nat /\ put' \in Nat
      BY UploadAssumption DEF BodyStart, IInv, TypeOK
    <3>1. PICK total \in Nat, p \in Nat : total = BodyStart + fileSize /\ p = put'
      BY <3>0
    <3>2. Unwritten = total - put /\ Unwritten' = total - p
      <4>1. BodyStart' = BodyStart /\ fileSize' = fileSize
        BY <1>1 DEF BodyStart, clientVars
      <4> QED BY <3>0, <3>1, <4>1 DEF Unwritten
    <3>3. put <= p
      BY <2>1, <3>1
    <3>4. total - p <= total - put
      BY <3>0, <3>3
    <3> QED BY <3>2, <3>4, Zenon
  <2> QED BY <1>2, <2>2, <2>3, Counted DEF Counts, Lower, Remaining
<1> QED BY <1>3, <1>4

LEMMA ServerLowers ==
  ASSUME IInv, IInv', ServerStep \/ HandleTimer
  PROVE  Lower
<1>1. UNCHANGED clientVars
  BY DEF ServerStep, HandleInput, NoHeader, BodyEnds, UnknownMessage, PeerClosed, HandleTimer,
         OpenFile, OpenFails, ReadBody, Confirm, CloseFails, DiskFull
<1>2. Unwritten' = Unwritten /\ ClientSteps' = ClientSteps
  BY <1>1 DEF Unwritten, ClientSteps, BodyStart, clientVars
<1>3. CASE NoHeader \/ BodyEnds \/ PeerClosed \/ HandleTimer
  <2>1. taken' = taken
        /\ \/ server \in {"header", "body"} /\ server' = "idle"
           \/ server = "idle" /\ server' = "closed"
    BY <1>3 DEF NoHeader, BodyEnds, PeerClosed, HandleTimer
  <2>2. ServerSteps' < ServerSteps
    BY <2>1 DEF ServerSteps
  <2>3. Unread' = Unread
    BY <1>1, <2>1 DEF Unread, BodyStart, clientVars
  <2> QED BY <1>2, <2>2, <2>3, Counted DEF Counts, Lower, Remaining
<1>4. ASSUME /\ taken' > taken
             /\ server' = server \/ server' = "idle" \/ (server = "header" /\ server' = "body")
                \/ (server = "idle" /\ server' = "header")
      PROVE  Lower
  <2>1. ServerSteps' <= ServerSteps + 2
    BY <1>4, Counted DEF Counts, ServerSteps
  <2>2. Unread' < Unread
    <3>0. BodyStart \in Nat /\ fileSize \in Nat /\ taken \in Nat /\ taken' \in Nat
      BY UploadAssumption DEF BodyStart, IInv, TypeOK
    <3>1. PICK total \in Nat, t \in Nat : total = BodyStart + fileSize /\ t = taken'
      BY <3>0
    <3>2. Unread = total - taken /\ Unread' = total - t
      <4>1. BodyStart' = BodyStart /\ fileSize' = fileSize
        BY <1>1 DEF BodyStart, clientVars
      <4> QED BY <3>0, <3>1, <4>1 DEF Unread
    <3>3. taken < t
      BY <1>4, <3>1
    <3>4. total - t < total - taken
      BY <3>0, <3>3
    <3> QED BY <3>2, <3>4, Zenon
  <2> QED BY <1>2, <2>1, <2>2, Counted DEF Counts, Lower, Remaining
<1>5. CASE HandleInput
  BY <1>4, <1>5, UploadAssumption DEF HandleInput
<1>6. CASE UnknownMessage
  BY <1>4, <1>6, UploadAssumption DEF UnknownMessage, Smaller, OnTheWay, IInv, TypeOK
<1>7. ASSUME NEW n \in 1 .. HEADER, OpenFile(n) \/ OpenFails(n) PROVE Lower
  BY <1>4, <1>7, UploadAssumption DEF OpenFile, OpenFails, TakeHeader, IInv, TypeOK
<1>8. ASSUME NEW n \in 1 .. BUFFER_SIZE,
             \/ ReadBody(n) \/ Confirm(n) \/ CloseFails(n)
             \/ \E written \in 0 .. n - 1 : DiskFull(n, written)
      PROVE  Lower
  <2>1. server = "body" /\ server' \in {"body", "idle"} /\ taken' = taken + n
    BY <1>8 DEF ReadBody, Confirm, CloseFails, DiskFull, TakeBody
  <2> QED BY <1>4, <2>1, UploadAssumption DEF IInv, TypeOK
<1> QED BY <1>3, <1>5, <1>6, <1>7, <1>8 DEF ServerStep

(* Nothing goes on for ever: every step of the client, the server, its     *)
(* timer or a misfortune leaves less to do, whatever the sizes.            *)
THEOREM EveryStepCounts == Spec => [][Lower]_vars
<1>1. IInv /\ IInv' /\ [Next]_vars => [Lower]_vars
  BY ClientLowers, ServerLowers DEF Next
<1> QED BY <1>1, Invariance, PTL DEF Spec

(* And until Upload has returned something is left that can be done: a     *)
(* client in a write can write or fail, one that waits is answered or is   *)
(* stranded.                                                               *)
THEOREM WaitingIsAnswered == Spec => []AnswerIsComing
<1>1. IInv => AnswerIsComing
  <2> SUFFICES ASSUME IInv, client = "confirmation", ~Stranded, server \notin {"idle", "closed"}
               PROVE  \/ server = "header" /\ OnTheWay >= HEADER
                      \/ server = "body" /\ OnTheWay > 0
    BY DEF AnswerIsComing
  <2>1. fileSize \in Nat /\ put \in Nat /\ taken \in Nat /\ taken <= put
    BY UploadAssumption DEF IInv, TypeOK, ServerAt
  <2>2. CASE server = "header"
    BY <2>1, <2>2, UploadAssumption DEF IInv, ClientAt, ServerAt, OnTheWay, BodyStart
  <2>3. CASE server = "body"
    BY <2>1, <2>3 DEF Stranded, OnTheWay
  <2> QED BY <2>2, <2>3 DEF IInv, TypeOK
<1> QED BY <1>1, Invariance, PTL

=============================================================================
