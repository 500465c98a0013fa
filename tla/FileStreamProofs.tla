-------------------------- MODULE FileStreamProofs --------------------------
(***************************************************************************)
(* Proofs about FileStream, for every buffer and every length of file.     *)
(* Buffered holds whatever others do to the file; Transfer needs a file    *)
(* that nobody changes during a transfer, as the run of Stream.cfg does.   *)
(***************************************************************************)
EXTENDS FileStream, TLAPS

USE StreamAssumption

(* What is left of a refill is not empty (else the offset is reset), and a *)
(* handler that is not sending is as its constructor left it.              *)
Buffered ==
  /\ TypeOK
  /\ sendBufferOffset = 0 \/ sendBufferOffset < currReadSize
  /\ CleanBetweenTransfers

(* Where the bytes of the announced file are while the handler is sending. *)
Transfer ==
  /\ server = "sending" =>
       /\ client \in {"asking", "receiving", "complete"}
       /\ fileOffset <= fileSize
       /\ isEof => sendBufferOffset > 0 /\ fileOffset = fileSize
       /\ client = "asking" => fileOffset = fileSize /\ sendBufferOffset = 0
       /\ client # "asking" =>
            announced = fileSize /\ fileOffset = received + wire + Unsent
  /\ client = "asking" => received = 0 /\ wire = 0
  /\ ExactDelivery

DeliveryInv == Buffered /\ Transfer

-----------------------------------------------------------------------------
(* A refill reads a part of what is left of the file.                      *)
LEMMA RefillBounds ==
  ASSUME TypeOK, sendBufferOffset = 0 \/ sendBufferOffset < currReadSize
  PROVE  /\ BytesRead \in 0 .. BUFFER_SIZE
         /\ fileOffset <= fileSize => fileOffset + BytesRead <= fileSize
         /\ BytesRead # BUFFER_SIZE /\ fileOffset <= fileSize
              => fileOffset + BytesRead = fileSize
         /\ SizeNow \in Nat /\ OffsetNow \in Nat /\ EofNow \in BOOLEAN
         /\ Pending \in Nat
  BY DEF TypeOK, BytesRead, Left, Smaller, SizeNow, OffsetNow, EofNow, Refill,
         Pending

(* WriteNothing, WritePart and WriteLast keep the members' types and leave *)
(* something in the buffer or reset it.                                    *)
LEMMA WritesBuffered ==
  ASSUME Buffered,
         \/ WriteNothing
         \/ \E n \in 1 .. BUFFER_SIZE : WritePart(n)
         \/ WriteLast
  PROVE  /\ fileOffset' \in Nat /\ sendBufferOffset' \in Nat
         /\ currReadSize' \in Nat /\ isEof' \in BOOLEAN /\ wire' \in Nat
         /\ sendBufferOffset' = 0 \/ sendBufferOffset' < currReadSize'
  <1>1. /\ SizeNow \in Nat /\ OffsetNow \in Nat /\ EofNow \in BOOLEAN
        /\ Pending \in Nat
    BY RefillBounds DEF Buffered
  <1>2. CASE WriteNothing
    <2>1. sendBufferOffset = 0 \/ SizeNow = currReadSize
      BY DEF SizeNow, Refill
    <2> QED  BY <1>1, <1>2, <2>1 DEF WriteNothing, Buffered, TypeOK
  <1>3. CASE \E n \in 1 .. BUFFER_SIZE : WritePart(n)
    BY <1>1, <1>3 DEF WritePart, Buffered, TypeOK, Pending
  <1>4. CASE WriteLast
    <2>1. isEof' \in BOOLEAN
      BY <1>4, Zenon DEF WriteLast
    <2> QED  BY <1>1, <1>4, <2>1 DEF WriteLast, Buffered, TypeOK
  <1> QED  BY <1>2, <1>3, <1>4

(* Every step keeps the types, the non-empty rest and the clean start.     *)
LEMMA BufferedStep == Buffered /\ [Next]_vars => Buffered'
  <1> SUFFICES ASSUME Buffered, [Next]_vars PROVE Buffered'
    OBVIOUS
  <1>1. CASE Ask
    BY <1>1 DEF Ask, Buffered, TypeOK, CleanBetweenTransfers, memberVars
  <1>2. CASE Start
    <2>1. /\ fileOffset' \in Nat /\ sendBufferOffset' \in Nat
          /\ currReadSize' \in Nat /\ isEof' \in BOOLEAN /\ wire' \in Nat
          /\ sendBufferOffset' = 0 \/ sendBufferOffset' < currReadSize'
      BY <1>2, WritesBuffered DEF Start
    <2>2. server' = "idle" =>
            fileOffset' = 0 /\ sendBufferOffset' = 0 /\ isEof' = FALSE
      BY <1>2 DEF Start, WriteLast
    <2> QED
      BY <1>2, <2>1, <2>2 DEF Start, Buffered, TypeOK, CleanBetweenTransfers
  <1>3. CASE HandleOutput
    <2>1. /\ fileOffset' \in Nat /\ sendBufferOffset' \in Nat
          /\ currReadSize' \in Nat /\ isEof' \in BOOLEAN /\ wire' \in Nat
          /\ sendBufferOffset' = 0 \/ sendBufferOffset' < currReadSize'
      BY <1>3, WritesBuffered DEF HandleOutput
    <2>2. server' = "idle" =>
            fileOffset' = 0 /\ sendBufferOffset' = 0 /\ isEof' = FALSE
      BY <1>3 DEF HandleOutput, WriteLast
    <2> QED
      BY <1>3, <2>1, <2>2
      DEF HandleOutput, Buffered, TypeOK, CleanBetweenTransfers, clientVars
  <1>4. ASSUME NEW n \in 1 .. BUFFER_SIZE, ReadChunk(n) PROVE Buffered'
    BY <1>4
    DEF ReadChunk, Smaller, Buffered, TypeOK, CleanBetweenTransfers, memberVars
  <1>5. CASE ReadEnd
    BY <1>5 DEF ReadEnd, Buffered, TypeOK, CleanBetweenTransfers, memberVars
  <1>6. CASE HandleTimer
    BY <1>6
    DEF HandleTimer, Buffered, TypeOK, CleanBetweenTransfers, memberVars,
        clientVars
  <1>7. CASE ChangeFile
    BY <1>7
    DEF ChangeFile, Buffered, TypeOK, CleanBetweenTransfers, memberVars,
        clientVars
  <1>8. CASE UNCHANGED vars
    BY <1>8
    DEF vars, memberVars, clientVars, Buffered, TypeOK, CleanBetweenTransfers
  <1> QED  BY <1>1, <1>2, <1>3, <1>4, <1>5, <1>6, <1>7, <1>8 DEF Next

(* So they hold always, whatever other connections do to the file.         *)
LEMMA BufferedInvariance == Spec => []Buffered
  <1>1. Init => Buffered
    <2> SUFFICES ASSUME Init PROVE Buffered
      OBVIOUS
    <2>1. isEof \in BOOLEAN /\ ~isEof
      BY Zenon DEF Init
    <2> QED  BY <2>1 DEF Init, Buffered, TypeOK, CleanBetweenTransfers
  <1> QED  BY <1>1, BufferedStep, PTL DEF Spec

(* Every variable of a transfer has its type, whatever is done to the file.*)
THEOREM TypeCorrect == Spec => []TypeOK
  BY BufferedInvariance, PTL DEF Buffered

(* A handler that has finished a file starts the next one at its start.    *)
THEOREM CleanStart == Spec => []CleanBetweenTransfers
  BY BufferedInvariance, PTL DEF Buffered

-----------------------------------------------------------------------------
(* A refill moves bytes from the file to the buffer and loses none; it     *)
(* marks the end exactly when it reaches it.                               *)
LEMMA RefillConserves ==
  ASSUME Buffered, fileOffset <= fileSize,
         isEof => sendBufferOffset > 0 /\ fileOffset = fileSize
  PROVE  /\ OffsetNow <= fileSize
         /\ EofNow => OffsetNow = fileSize
         /\ OffsetNow - fileOffset = Pending - Unsent
  <1>1. /\ BytesRead \in 0 .. BUFFER_SIZE
        /\ fileOffset + BytesRead <= fileSize
        /\ BytesRead # BUFFER_SIZE => fileOffset + BytesRead = fileSize
        /\ SizeNow \in Nat /\ OffsetNow \in Nat /\ EofNow \in BOOLEAN
        /\ Pending \in Nat
    BY RefillBounds DEF Buffered
  <1> QED
    BY <1>1
    DEF Buffered, TypeOK, OffsetNow, SizeNow, EofNow, Refill, Pending, Unsent

(* A partial write leaves the rest of the buffer, which is not empty when  *)
(* the file's end has been read.                                           *)
LEMMA PartConserves ==
  ASSUME Buffered, NEW n \in 1 .. BUFFER_SIZE, WritePart(n)
  PROVE  /\ Unsent' = Pending - n
         /\ EofNow => sendBufferOffset' > 0
  <1>1. Pending \in Nat /\ SizeNow \in Nat
    BY RefillBounds DEF Buffered
  <1>2. Unsent' = Pending - n
    BY <1>1 DEF WritePart, Unsent, Pending, Buffered, TypeOK
  <1>3. EofNow => sendBufferOffset' > 0
    BY <1>1 DEF WritePart, Pending, Buffered, TypeOK
  <1> QED  BY <1>2, <1>3

(* Every step keeps the account of a transfer whose file is left alone.    *)
LEMMA TransferStep ==
  FileChange = {} /\ DeliveryInv /\ [Next]_vars => Transfer'
  <1> SUFFICES ASSUME FileChange = {}, DeliveryInv, [Next]_vars
               PROVE Transfer'
    OBVIOUS
  <1> USE DEF DeliveryInv
  <1>0. TypeOK /\ Buffered /\ Transfer /\ Unsent \in Int
    BY DEF Buffered, TypeOK, Unsent
  <1>1. CASE Ask
    BY <1>0, <1>1
    DEF Ask, Transfer, ExactDelivery, Unsent, Buffered, TypeOK, memberVars
  <1>2. CASE Start
    <2>1. /\ fileOffset <= fileSize
          /\ isEof => sendBufferOffset > 0 /\ fileOffset = fileSize
      BY <1>0, <1>2
      DEF Start, Transfer, Buffered, TypeOK, CleanBetweenTransfers
    <2>2. received = 0 /\ wire = 0 /\ client = "asking"
      BY <1>2 DEF Start, Transfer
    <2>3. (fileOffset = 0 /\ Unsent = 0) \/ Pending = 0
      <3>1. CASE server = "idle"
        BY <3>1 DEF Buffered, CleanBetweenTransfers, Unsent
      <3>2. CASE server = "sending"
        BY <1>0, <2>2, <3>2, RefillBounds
        DEF Transfer, Buffered, TypeOK, Pending, SizeNow, Refill, BytesRead,
            Left, Smaller
      <3> QED  BY <1>2, <3>1, <3>2 DEF Start
    <2>4. CASE WriteLast /\ server' = "idle"
      <3>1. fileOffset = 0 /\ Unsent = 0
        BY <1>0, <2>3, <2>4 DEF WriteLast
      <3>2. wire' = fileSize /\ fileSize > 0
        <4>1. OffsetNow = fileSize /\ OffsetNow - fileOffset = Pending - Unsent
          BY <2>1, <2>4, RefillConserves DEF WriteLast
        <4>2. wire' = wire + Pending /\ Pending > 0
          BY <2>4 DEF WriteLast
        <4>3. Pending \in Nat /\ fileSize \in Nat
          BY <1>0, RefillBounds DEF Buffered, TypeOK
        <4> QED  BY <2>2, <3>1, <4>1, <4>2, <4>3
      <3> QED
        BY <1>0, <1>2, <2>2, <2>4, <3>2
        DEF Start, Transfer, ExactDelivery, TypeOK
    <2>5. ASSUME NEW n \in 1 .. BUFFER_SIZE, WritePart(n), server' = "sending"
          PROVE  Transfer'
      <3>1. fileOffset = 0 /\ Unsent = 0
        BY <1>0, <2>3, <2>5, RefillBounds DEF WritePart, Buffered
      <3>2. /\ OffsetNow <= fileSize
            /\ EofNow => OffsetNow = fileSize
            /\ OffsetNow - fileOffset = Pending - Unsent
        BY <2>1, RefillConserves
      <3>3. Pending \in Nat /\ OffsetNow \in Nat /\ fileSize \in Nat
        BY <1>0, RefillBounds DEF Buffered, TypeOK
      <3>4. /\ fileOffset' = OffsetNow /\ wire' = n /\ n <= Pending
            /\ isEof' = EofNow
        BY <2>2, <2>5, <3>3 DEF WritePart
      <3>5. Unsent' = Pending - n /\ (EofNow => sendBufferOffset' > 0)
        BY <2>5, PartConserves
      <3>6. /\ client' = "receiving" /\ received' = 0
            /\ announced' = fileSize /\ fileSize' = fileSize
        BY <1>2, <2>2 DEF Start
      <3>7. OffsetNow = n + (Pending - n) /\ n <= OffsetNow
        BY <3>1, <3>2, <3>3, <3>4
      <3> QED
        BY <2>5, <3>2, <3>3, <3>4, <3>5, <3>6, <3>7 DEF Transfer, ExactDelivery
    <2>6. CASE WriteNothing /\ server' = "crashed"
      <3>1. wire' = 0
        BY <2>2, <2>6 DEF WriteNothing
      <3> QED
        BY <1>0, <1>2, <2>2, <2>6, <3>1
        DEF Start, Transfer, ExactDelivery, TypeOK
    <2> QED  BY <1>2, <2>4, <2>5, <2>6 DEF Start
  <1>3. CASE HandleOutput
    <2>1. /\ fileOffset <= fileSize
          /\ isEof => sendBufferOffset > 0 /\ fileOffset = fileSize
          /\ client \in {"asking", "receiving", "complete"}
      BY <1>3 DEF HandleOutput, Transfer
    <2>2. client # "receiving" => Pending = 0
      <3>1. CASE client = "asking"
        BY <1>0, <1>3, <3>1
        DEF HandleOutput, Transfer, TypeOK, Pending, SizeNow, Refill,
            BytesRead, Left, Smaller
      <3>2. CASE client = "complete"
        <4>1. Unsent = 0 /\ fileOffset = fileSize /\ sendBufferOffset = 0
          BY <1>0, <1>3, <3>2
          DEF HandleOutput, Transfer, ExactDelivery, Buffered, TypeOK, Unsent
        <4> QED
          BY <1>0, <4>1
          DEF TypeOK, Pending, SizeNow, Refill, BytesRead, Left, Smaller
      <3> QED  BY <2>1, <3>1, <3>2
    <2>3. CASE WriteLast /\ server' = "idle"
      <3>1. client = "receiving"
        BY <1>0, <2>1, <2>2, <2>3 DEF WriteLast
      <3>2. announced = fileSize /\ fileOffset = received + wire + Unsent
        BY <1>0, <1>3, <3>1 DEF HandleOutput, Transfer
      <3>3. received + wire' = announced
        <4>1. OffsetNow = fileSize /\ OffsetNow - fileOffset = Pending - Unsent
          BY <2>1, <2>3, RefillConserves DEF WriteLast
        <4>2. wire' = wire + Pending
          BY <2>3 DEF WriteLast
        <4>3. Pending \in Nat
          BY <1>0, RefillBounds DEF Buffered
        <4> QED  BY <1>0, <3>2, <4>1, <4>2, <4>3 DEF TypeOK
      <3> QED
        BY <1>0, <1>3, <2>3, <3>1, <3>3
        DEF HandleOutput, Transfer, ExactDelivery, TypeOK, clientVars
    <2>4. ASSUME NEW n \in 1 .. BUFFER_SIZE, WritePart(n), server' = server
          PROVE  Transfer'
      <3>1. client = "receiving"
        BY <1>0, <2>1, <2>2, <2>4, RefillBounds DEF WritePart, Buffered
      <3>2. /\ OffsetNow <= fileSize
            /\ EofNow => OffsetNow = fileSize
            /\ OffsetNow - fileOffset = Pending - Unsent
        BY <2>1, RefillConserves
      <3>3. Pending \in Nat /\ OffsetNow \in Nat
        BY <1>0, RefillBounds DEF Buffered
      <3>4. /\ fileOffset' = OffsetNow /\ wire' = wire + n /\ n <= Pending
            /\ isEof' = EofNow
        BY <2>4, <3>3 DEF WritePart
      <3>5. Unsent' = Pending - n /\ (EofNow => sendBufferOffset' > 0)
        BY <2>4, PartConserves
      <3>6. announced = fileSize /\ fileOffset = received + wire + Unsent
        BY <1>0, <1>3, <3>1 DEF HandleOutput, Transfer
      <3>7. /\ OffsetNow = received + (wire + n) + (Pending - n)
            /\ received + (wire + n) <= announced
        BY <1>0, <3>2, <3>3, <3>4, <3>6 DEF TypeOK
      <3>8. /\ client' = "receiving" /\ received' = received
            /\ announced' = announced /\ fileSize' = fileSize
        BY <1>3, <3>1 DEF HandleOutput, clientVars
      <3>9. received = announced => announced = 0
        BY <1>0, <3>1 DEF Transfer, ExactDelivery, TypeOK
      <3> QED
        BY <1>3, <2>4, <3>2, <3>4, <3>5, <3>6, <3>7, <3>8, <3>9
        DEF HandleOutput, Transfer, ExactDelivery
    <2>5. CASE WriteNothing /\ server' = "closed"
      BY <1>0, <1>3, <2>5
      DEF HandleOutput, WriteNothing, Transfer, ExactDelivery, clientVars
    <2> QED  BY <1>3, <2>3, <2>4, <2>5 DEF HandleOutput
  <1>4. ASSUME NEW n \in 1 .. BUFFER_SIZE, ReadChunk(n) PROVE Transfer'
    BY <1>0, <1>4
    DEF ReadChunk, Smaller, Transfer, ExactDelivery, Unsent, Buffered, TypeOK,
        memberVars
  <1>5. CASE ReadEnd
    BY <1>0, <1>5 DEF ReadEnd, Transfer, ExactDelivery
  <1>6. CASE HandleTimer
    BY <1>0, <1>6 DEF HandleTimer, Transfer, ExactDelivery, clientVars
  <1>7. CASE ChangeFile
    BY <1>0, <1>7
    DEF ChangeFile, MayBecome, Transfer, ExactDelivery, clientVars
  <1>8. CASE UNCHANGED vars
    BY <1>0, <1>8
    DEF vars, memberVars, clientVars, Transfer, ExactDelivery, Unsent
  <1> QED  BY <1>1, <1>2, <1>3, <1>4, <1>5, <1>6, <1>7, <1>8 DEF Next

(* So both parts are an invariant when nobody changes the file meanwhile.  *)
LEMMA DeliveryInvariance == FileChange = {} /\ Spec => []DeliveryInv
  <1> SUFFICES ASSUME FileChange = {} PROVE Spec => []DeliveryInv
    OBVIOUS
  <1>1. Init => DeliveryInv
    <2> SUFFICES ASSUME Init PROVE DeliveryInv
      OBVIOUS
    <2>1. isEof \in BOOLEAN /\ ~isEof
      BY Zenon DEF Init
    <2> QED
      BY <2>1
      DEF Init, DeliveryInv, Buffered, TypeOK, CleanBetweenTransfers, Transfer,
          ExactDelivery
  <1>2. DeliveryInv /\ [Next]_vars => DeliveryInv'
    BY BufferedStep, TransferStep DEF DeliveryInv
  <1> QED  BY <1>1, <1>2, PTL DEF Spec

(* The three offsets of the handler, the wire and the client agree on      *)
(* every byte of a file that nobody changes meanwhile.                     *)
THEOREM NoByteLost == FileChange = {} /\ Spec => []Conservation
  <1>1. DeliveryInv => Conservation
    BY DEF DeliveryInv, Transfer, Conservation
  <1> QED  BY <1>1, DeliveryInvariance, PTL

(* The client of such a file gets exactly the announced bytes.             *)
THEOREM Delivered == FileChange = {} /\ Spec => []ExactDelivery
  <1>1. DeliveryInv => ExactDelivery
    BY DEF DeliveryInv, Transfer
  <1> QED  BY <1>1, DeliveryInvariance, PTL

-----------------------------------------------------------------------------
(* Why a transfer ends: what is left to do, until the client asks again.   *)

ClientSteps ==
  CASE client = "asking" -> 2
    [] client = "receiving" -> 1
    [] OTHER -> 0

ServerSteps ==
  CASE server = "sending" -> 2
    [] server = "idle" -> 1
    [] OTHER -> 0

Unwritten ==
  CASE client = "asking" -> fileSize
    [] client \in {"receiving", "complete"} -> announced - (received + wire)
    [] OTHER -> 0

Remaining == 2 * Unwritten + wire + ClientSteps + ServerSteps

Lower == Remaining \in Nat /\ Remaining' \in Nat /\ Remaining' < Remaining

Counts ==
  Unwritten \in Nat /\ wire \in Nat /\ ClientSteps \in 0 .. 2 /\ ServerSteps \in 0 .. 2

LEMMA Counted ==
  ASSUME DeliveryInv, DeliveryInv'
  PROVE  Counts /\ Counts'
<1>1. /\ ClientSteps \in 0 .. 2 /\ ClientSteps' \in 0 .. 2
      /\ ServerSteps \in 0 .. 2 /\ ServerSteps' \in 0 .. 2
  BY DEF ClientSteps, ServerSteps
<1>2. Unwritten \in Nat /\ wire \in Nat
  BY DEF DeliveryInv, Buffered, TypeOK, Transfer, ExactDelivery, Unwritten
<1>3. Unwritten' \in Nat /\ wire' \in Nat
  BY DEF DeliveryInv, Buffered, TypeOK, Transfer, ExactDelivery, Unwritten
<1> QED BY <1>1, <1>2, <1>3 DEF Counts

(* The first chunk, which also answers the request ...                     *)
LEMMA StartLowers ==
  ASSUME DeliveryInv, DeliveryInv', Start
  PROVE  Lower
<1>1. /\ client = "asking" /\ client' = "receiving" /\ received' = 0 /\ wire = 0
      /\ announced' = fileSize /\ server \in {"idle", "sending"}
      /\ fileSize \in Nat /\ wire' \in Nat
  BY DEF Start, DeliveryInv, Transfer, Buffered, TypeOK
<1>2. PICK w \in Nat, t \in 0 .. 2 : w = wire' /\ t = ServerSteps'
  BY Counted DEF Counts
<1>3. Unwritten = fileSize /\ Unwritten' = fileSize - w
  BY <1>1, <1>2 DEF Unwritten
<1>4. ClientSteps = 2 /\ ClientSteps' = 1 /\ ServerSteps \in {1, 2}
  BY <1>1 DEF ClientSteps, ServerSteps
<1>5. t <= w + 1
  <2>1. CASE server' # "sending"
    BY <1>2, <2>1 DEF ServerSteps
  <2>2. CASE server' = "sending"
    <3>1. PICK n \in 1 .. BUFFER_SIZE : WritePart(n)
      BY <2>2 DEF Start
    <3>2. w >= 1
      BY <1>1, <1>2, <3>1 DEF WritePart
    <3> QED BY <3>2
  <2> QED BY <2>1, <2>2
<1>6. Remaining = 2 * fileSize + 2 + ServerSteps /\ Remaining' = 2 * (fileSize - w) + w + 1 + t
  BY <1>1, <1>2, <1>3, <1>4 DEF Remaining
<1>7. fileSize - w \in Nat
  BY <1>3, Counted DEF Counts
<1>8. 2 * (fileSize - w) + w + 1 + t < 2 * fileSize + 2 + ServerSteps
  BY <1>1, <1>4, <1>5, <1>7
<1>9. Remaining \in Nat /\ Remaining' \in Nat
  BY <1>1, <1>4, <1>6, <1>7
<1> QED BY <1>6, <1>8, <1>9 DEF Lower

(* ... and the others.                                                     *)
LEMMA OutputLowers ==
  ASSUME DeliveryInv, DeliveryInv', HandleOutput
  PROVE  Lower
<1>1. UNCHANGED <<announced, received, client, fileSize>> /\ server = "sending"
  BY DEF HandleOutput, clientVars
<1>2. ClientSteps' = ClientSteps
  BY <1>1 DEF ClientSteps
<1>3. CASE WriteNothing /\ server' = "closed"
  <2>1. wire' = wire /\ Unwritten' = Unwritten
    BY <1>1, <1>3 DEF WriteNothing, Unwritten
  <2>2. ServerSteps' < ServerSteps
    BY <1>1, <1>3 DEF ServerSteps
  <2> QED BY <1>2, <2>1, <2>2, Counted DEF Counts, Lower, Remaining
<1>4. ASSUME NEW k \in Nat \ {0}, wire' = wire + k, server' \in {"idle", "sending"}
      PROVE  Lower
  <2>1. client \in {"receiving", "complete"}
    BY <1>1, <1>4 DEF DeliveryInv, Buffered, TypeOK, Transfer
  <2>2. Unwritten' = Unwritten - k
    BY <1>1, <1>4, <2>1 DEF Unwritten, DeliveryInv, Buffered, TypeOK
  <2>3. ServerSteps' <= ServerSteps
    BY <1>1, <1>4 DEF ServerSteps
  <2> QED BY <1>2, <1>4, <2>2, <2>3, Counted DEF Counts, Lower, Remaining
<1>5. CASE WriteLast /\ server' = "idle"
  <2>1. Pending \in Nat \ {0} /\ wire' = wire + Pending
    BY <1>5, RefillBounds DEF WriteLast, DeliveryInv, Buffered
  <2> QED BY <1>4, <1>5, <2>1
<1>6. ASSUME NEW n \in 1 .. BUFFER_SIZE, WritePart(n), server' = server
      PROVE  Lower
  BY <1>1, <1>4, <1>6 DEF WritePart
<1> QED BY <1>3, <1>5, <1>6 DEF HandleOutput

LEMMA ReadLowers ==
  ASSUME DeliveryInv, DeliveryInv', NEW n \in 1 .. BUFFER_SIZE, ReadChunk(n)
  PROVE  Lower
<1>1. /\ client = "receiving" /\ client' \in {"receiving", "complete"}
      /\ wire' = wire - n /\ received' = received + n
      /\ UNCHANGED <<announced, server>>
  BY DEF ReadChunk
<1>2. Unwritten' = Unwritten
  BY <1>1 DEF Unwritten, DeliveryInv, Buffered, TypeOK
<1>3. ClientSteps' <= ClientSteps /\ ServerSteps' = ServerSteps
  BY <1>1 DEF ClientSteps, ServerSteps
<1> QED BY <1>1, <1>2, <1>3, Counted DEF Counts, Lower, Remaining

LEMMA EndLowers ==
  ASSUME DeliveryInv, DeliveryInv', ReadEnd \/ HandleTimer
  PROVE  Lower
<1>1. CASE ReadEnd
  <2>1. /\ client \in {"asking", "receiving"} /\ client' = "failed" /\ wire' = wire /\ server' = server
    BY <1>1 DEF ReadEnd
  <2>2. Unwritten' = 0 /\ ClientSteps' < ClientSteps /\ ServerSteps' = ServerSteps
    BY <2>1 DEF Unwritten, ClientSteps, ServerSteps
  <2> QED BY <2>1, <2>2, Counted DEF Counts, Lower, Remaining
<1>2. CASE HandleTimer
  <2>1. UNCHANGED <<fileSize, announced, wire, clientVars>> /\ server' = "closed"
        /\ server \in {"idle", "sending"}
    BY <1>2 DEF HandleTimer
  <2>2. Unwritten' = Unwritten /\ ClientSteps' = ClientSteps /\ ServerSteps' < ServerSteps
    BY <2>1 DEF Unwritten, ClientSteps, ServerSteps, clientVars
  <2> QED BY <2>1, <2>2, Counted DEF Counts, Lower, Remaining
<1> QED BY <1>1, <1>2

(* A transfer cannot go on for ever: every step of it leaves less to do.   *)
(* (Asking again, and a change of the file while nobody asks, are not.)    *)
THEOREM TransferCounts ==
  FileChange = {} /\ Spec => [][Ask \/ ChangeFile \/ Lower]_vars
<1>1. DeliveryInv /\ DeliveryInv' /\ [Next]_vars => [Ask \/ ChangeFile \/ Lower]_vars
  BY StartLowers, OutputLowers, ReadLowers, EndLowers DEF Next
<1> QED BY <1>1, DeliveryInvariance, PTL DEF Spec

WaitsForSomething ==
  client = "receiving" => wire > 0 \/ server \in {"sending", "closed", "crashed"}

(* (An empty file is never finished: it closes the connection.)            *)
NotEmpty == client = "receiving" /\ server \in {"idle", "sending"} => announced > 0

LEMMA NotEmptyStep ==
  ASSUME DeliveryInv, DeliveryInv', NotEmpty, [Next]_vars
  PROVE  NotEmpty'
<1>1. CASE Start /\ server' \in {"idle", "sending"}
  <2>1. wire' > 0
    BY <1>1, RefillBounds
    DEF Start, WriteLast, WritePart, DeliveryInv, Transfer, Buffered, TypeOK
  <2>2. announced' \in Nat /\ received' \in Nat /\ wire' \in Nat /\ received' + wire' <= announced'
    BY <1>1 DEF Start, DeliveryInv, Transfer, ExactDelivery, Buffered, TypeOK
  <2>3. PICK a \in Nat, r \in Nat, w \in Nat : a = announced' /\ r = received' /\ w = wire'
    BY <2>2
  <2>4. r + w <= a /\ w > 0
    BY <2>1, <2>2, <2>3
  <2>5. a > 0
    BY <2>4
  <2> QED BY <2>3, <2>5 DEF NotEmpty
<1>2. CASE HandleOutput \/ \E n \in 1 .. BUFFER_SIZE : ReadChunk(n)
  BY <1>2 DEF HandleOutput, ReadChunk, clientVars, NotEmpty
<1>3. CASE Ask \/ ReadEnd \/ HandleTimer \/ (Start /\ server' = "crashed")
  BY <1>3 DEF Ask, ReadEnd, HandleTimer, Start, NotEmpty
<1>4. CASE ChangeFile \/ UNCHANGED vars
  BY <1>4 DEF ChangeFile, vars, clientVars, NotEmpty
<1> QED BY <1>1, <1>2, <1>3, <1>4 DEF Next, Start

(* And while the client waits something of it is left that can be done: a  *)
(* server that has finished has written what the client has not read.      *)
THEOREM FinishedMeansWritten == FileChange = {} /\ Spec => []WaitsForSomething
<1>1. Init => NotEmpty
  BY DEF Init, NotEmpty
<1>2. DeliveryInv /\ DeliveryInv' /\ NotEmpty /\ [Next]_vars => NotEmpty'
  BY NotEmptyStep
<1>3. DeliveryInv /\ NotEmpty => WaitsForSomething
  <2> SUFFICES ASSUME DeliveryInv, NotEmpty, client = "receiving", server = "idle" PROVE wire > 0
    BY DEF WaitsForSomething, DeliveryInv, Buffered, TypeOK
  <2>1. announced > 0 /\ received + wire = announced /\ received # announced
    BY DEF DeliveryInv, Transfer, ExactDelivery, NotEmpty
  <2>2. announced \in Nat /\ received \in Nat /\ wire \in Nat
    BY DEF DeliveryInv, Buffered, TypeOK
  <2> QED BY <2>1, <2>2
<1> QED BY <1>1, <1>2, <1>3, DeliveryInvariance, PTL DEF Spec
=============================================================================
