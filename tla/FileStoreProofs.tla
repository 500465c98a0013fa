-------------------------- MODULE FileStoreProofs --------------------------
(***************************************************************************)
(* What the clients of the file store may rely on, for any number of       *)
(* clients, names and files of any length.                                 *)
(***************************************************************************)
EXTENDS FileStore, FilePairProofs, FiniteSetTheorems

-----------------------------------------------------------------------------
(* The repository by itself: what it keeps, for any number of connections, *)
(* names and updates, and any hash.                                        *)

ClosedHoldNothing == \A h \in Handlers : buffer[h] # None => isOpen[h]
DownHasNoHandlers == process = "down" => \A h \in Handlers : ~isOpen[h]
NoListNoHeader == ~isExists => filesList[Header] = 0 /\ Holding(Header) = {}

IInv ==
  /\ TypeOK
  /\ ClosedHoldNothing /\ DownHasNoHandlers /\ NoListNoHeader
  /\ EveryUpdateKept /\ OneHeader /\ FoundIsListed

-----------------------------------------------------------------------------
LEMMA HoldingFinite ==
  ASSUME NEW l
  PROVE  IsFiniteSet(Holding(l)) /\ Cardinality(Holding(l)) \in Nat
<1>1. Holding(l) \in SUBSET Handlers
  BY DEF Holding
<1>2. IsFiniteSet(Holding(l))
  BY <1>1, RepositoryAssumption, FS_Subset
<1> QED
  BY <1>2, FS_CardinalityType

(* A handler's buffer is exchanged: one line less, one line more.          *)
LEMMA Exchanged ==
  ASSUME TypeOK, NEW h \in Handlers, NEW v, NEW l \in Lines,
         buffer' = [buffer EXCEPT ![h] = v]
  PROVE  /\ Cardinality(Holding(l)') \in Nat
         /\ Cardinality(Holding(l)') = Cardinality(Holding(l))
                                       - (IF buffer[h] = l THEN 1 ELSE 0)
                                       + (IF v = l THEN 1 ELSE 0)
<1> DEFINE H == Holding(l)
<1>1. IsFiniteSet(H) /\ Cardinality(H) \in Nat
  BY HoldingFinite
<1>2. h \in H <=> buffer[h] = l
  BY DEF Holding
<1>3. CASE v = l
  <2>1. H' = H \union {h}
    BY <1>3 DEF Holding, TypeOK
  <2>2. /\ IsFiniteSet(H \union {h})
        /\ Cardinality(H \union {h}) = IF h \in H THEN Cardinality(H) ELSE Cardinality(H) + 1
    BY <1>1, FS_AddElement, Zenon
  <2>3. Cardinality(H \union {h}) \in Nat
    BY <2>2, FS_CardinalityType, Zenon
  <2> HIDE DEF H
  <2>4. Cardinality(H') \in Nat
        /\ Cardinality(H') = Cardinality(H) - (IF h \in H THEN 1 ELSE 0) + 1
    BY <1>1, <2>1, <2>2, <2>3
  <2>5. Cardinality(H') = Cardinality(H) - (IF buffer[h] = l THEN 1 ELSE 0) + 1
    BY <1>2, <2>4, Zenon
  <2> QED
    BY <1>3, <2>4, <2>5 DEF H
<1>4. CASE v # l
  <2>1. H' = H \ {h}
    BY <1>4 DEF Holding, TypeOK
  <2>2. /\ IsFiniteSet(H \ {h})
        /\ Cardinality(H \ {h}) = IF h \in H THEN Cardinality(H) - 1 ELSE Cardinality(H)
    BY <1>1, FS_RemoveElement, Zenon
  <2>3. Cardinality(H \ {h}) \in Nat
    BY <2>2, FS_CardinalityType, Zenon
  <2> HIDE DEF H
  <2>4. Cardinality(H') \in Nat
        /\ Cardinality(H') = Cardinality(H) - (IF h \in H THEN 1 ELSE 0) + 0
    BY <1>1, <2>1, <2>2, <2>3
  <2>5. Cardinality(H') = Cardinality(H) - (IF buffer[h] = l THEN 1 ELSE 0) + 0
    BY <1>2, <2>4, Zenon
  <2> QED
    BY <1>4, <2>4, <2>5 DEF H
<1> QED
  BY <1>3, <1>4

(* ... and the line it held is in the file: the account of a line is as it *)
(* was, but for the new line.                                              *)
LEMMA Flushed ==
  ASSUME TypeOK, NEW h \in Handlers, NEW v, NEW l \in Lines,
         Flush(h), buffer' = [buffer EXCEPT ![h] = v]
  PROVE  filesList'[l] + Cardinality(Holding(l)')
           = filesList[l] + Cardinality(Holding(l)) + (IF v = l THEN 1 ELSE 0)
<1>1. Cardinality(Holding(l)) \in Nat
  BY HoldingFinite
<1>2. filesList[l] \in Nat
  BY DEF TypeOK
<1>3. filesList'[l] = IF buffer[h] = l THEN filesList[l] + 1 ELSE filesList[l]
  BY DEF Flush
<1>4. Cardinality(Holding(l)') = Cardinality(Holding(l))
                                 - (IF buffer[h] = l THEN 1 ELSE 0)
                                 + (IF v = l THEN 1 ELSE 0)
  BY Exchanged
<1> QED
  BY <1>1, <1>2, <1>3, <1>4

(* All buffers are empty.                                                  *)
LEMMA Emptied ==
  ASSUME NEW l \in Lines, buffer' = [h \in Handlers |-> None]
  PROVE  Holding(l)' = {} /\ Cardinality(Holding(l)') = 0
<1>1. l # None
  BY RepositoryAssumption DEF Lines
<1>2. Holding(l)' = {}
  BY <1>1 DEF Holding
<1> QED
  BY <1>2, FS_EmptySet

LEMMA NamesAreLines == Names \subseteq Lines /\ Header \in Lines /\ Header # None
  BY RepositoryAssumption DEF Lines

-----------------------------------------------------------------------------
LEMMA TypeStep == TypeOK /\ [Next]_repositoryVars => TypeOK'
<1> SUFFICES ASSUME TypeOK, [Next]_repositoryVars PROVE TypeOK'
  OBVIOUS
<1> USE RepositoryAssumption
<1>1. ASSUME NEW h \in Handlers, Open(h) PROVE TypeOK'
  BY <1>1 DEF Open, TypeOK, Lines, historyVars
<1>2. ASSUME NEW h \in Handlers, Flush(h) PROVE filesList' \in [Lines -> Nat]
  BY <1>2 DEF Flush, TypeOK
<1>3. ASSUME NEW h \in Handlers, HandleDiscovery(h) PROVE TypeOK'
  BY <1>2, <1>3 DEF HandleDiscovery, TypeOK, historyVars
<1>4. ASSUME NEW h \in Handlers, HandleClose(h) PROVE TypeOK'
  BY <1>2, <1>4 DEF HandleClose, TypeOK, historyVars
<1>5. ASSUME NEW h \in Handlers, NEW n \in Names, NEW pair \in Pairs,
             HandleUpdateFilesList(h, n, pair)
      PROVE  TypeOK'
  <2>1. filesList' \in [Lines -> Nat]
    BY <1>2, <1>5 DEF HandleUpdateFilesList
  <2>2. downloadServers' \in [Keys -> Pairs \union {None}]
    BY <1>5 DEF HandleUpdateFilesList, Insert, TypeOK
  <2>3. buffer' \in [Handlers -> Lines \union {None}]
    BY <1>5, NamesAreLines DEF HandleUpdateFilesList, TypeOK
  <2>4. updates' \in [Names -> Nat] /\ fresh' \in SUBSET Names
    BY <1>5 DEF HandleUpdateFilesList, TypeOK
  <2> QED
    BY <1>5, <2>1, <2>2, <2>3, <2>4 DEF HandleUpdateFilesList, TypeOK
<1>6. CASE SignalHandler
  <2>1. \A l \in Lines : filesList[l] + Cardinality(Holding(l)) \in Nat
    BY HoldingFinite DEF TypeOK
  <2> QED
    BY <1>6, <2>1 DEF SignalHandler, TypeOK, historyVars
<1>7. CASE Kill
  <2>1. \A n \in Names : lost[n] + Cardinality(Holding(n)) \in Nat
    BY HoldingFinite DEF TypeOK
  <2> QED
    BY <1>7, <2>1 DEF Kill, TypeOK, diskVars
<1>8. CASE Restart
  BY <1>8 DEF Restart, TypeOK, diskVars, handlerVars
<1>9. CASE UNCHANGED repositoryVars
  BY <1>9 DEF repositoryVars, diskVars, handlerVars, historyVars, TypeOK
<1> QED
  BY <1>1, <1>3, <1>4, <1>5, <1>6, <1>7, <1>8, <1>9 DEF Next

-----------------------------------------------------------------------------
(* A handler that flushes: what HandleUpdateFilesList, HandleDiscovery and *)
(* HandleClose have in common.                                             *)
LEMMA FlushKeeps ==
  ASSUME IInv, TypeOK', NEW h \in Handlers, NEW v \in Names \union {None}, Serves(h), Flush(h),
         buffer' = [buffer EXCEPT ![h] = v], UNCHANGED <<isExists, lost>>,
         updates' = IF v = None THEN updates ELSE [updates EXCEPT ![v] = @ + 1]
  PROVE  EveryUpdateKept' /\ OneHeader' /\ NoListNoHeader'
<1> USE RepositoryAssumption, NamesAreLines
<1>1. EveryUpdateKept'
  <2> SUFFICES ASSUME NEW n \in Names
               PROVE  updates'[n] = filesList'[n] + Cardinality(Holding(n)') + lost'[n]
    BY DEF EveryUpdateKept
  <2>1. n \in Lines /\ n # None
    OBVIOUS
  <2>2. filesList'[n] + Cardinality(Holding(n)')
          = filesList[n] + Cardinality(Holding(n)) + (IF v = n THEN 1 ELSE 0)
    BY <2>1, Flushed DEF IInv
  <2>3. updates[n] = filesList[n] + Cardinality(Holding(n)) + lost[n]
    BY DEF IInv, EveryUpdateKept
  <2>4. updates'[n] = updates[n] + (IF v = n THEN 1 ELSE 0)
    BY <2>1 DEF IInv, TypeOK
  <2>5. /\ filesList[n] \in Nat /\ Cardinality(Holding(n)) \in Nat /\ lost[n] \in Nat
        /\ updates[n] \in Nat /\ lost'[n] = lost[n]
    BY <2>1, HoldingFinite DEF IInv, TypeOK
  <2>6. filesList'[n] \in Nat /\ Cardinality(Holding(n)') \in Nat
    <3>1. filesList'[n] \in Nat
      BY <2>1 DEF TypeOK
    <3>2. Cardinality(Holding(n)') \in Nat
      BY <2>1, Exchanged DEF IInv
    <3> QED
      BY <3>1, <3>2
  <2> QED
    BY <2>2, <2>3, <2>4, <2>5, <2>6
<1>2. filesList'[Header] + Cardinality(Holding(Header)')
        = filesList[Header] + Cardinality(Holding(Header))
  <2>1. v # Header
    OBVIOUS
  <2>2. filesList[Header] \in Nat /\ Cardinality(Holding(Header)) \in Nat
    BY HoldingFinite DEF IInv, TypeOK
  <2>3. filesList'[Header] + Cardinality(Holding(Header)')
          = filesList[Header] + Cardinality(Holding(Header)) + (IF v = Header THEN 1 ELSE 0)
    BY Flushed DEF IInv
  <2> QED
    BY <2>1, <2>2, <2>3
<1>3. OneHeader'
  BY <1>2 DEF IInv, OneHeader
<1>4. NoListNoHeader'
  <2> SUFFICES ASSUME ~isExists' PROVE filesList'[Header] = 0 /\ Holding(Header)' = {}
    BY DEF NoListNoHeader
  <2>1. filesList[Header] = 0 /\ Holding(Header) = {}
    BY DEF IInv, NoListNoHeader
  <2>2. buffer[h] # Header
    BY <2>1 DEF Holding
  <2>3. filesList'[Header] = 0
    BY <2>1, <2>2 DEF Flush
  <2>4. Holding(Header)' = {}
    BY <2>1 DEF Holding, IInv, TypeOK
  <2> QED
    BY <2>3, <2>4
<1> QED
  BY <1>1, <1>3, <1>4

(* The list after the buffers are gone, with or without having been        *)
(* written: SIGINT and the kill.                                           *)
LEMMA EndKeeps ==
  ASSUME IInv, TypeOK', buffer' = [h \in Handlers |-> None], UNCHANGED isExists,
         \/ /\ filesList' = [l \in Lines |-> filesList[l] + Cardinality(Holding(l))]
            /\ UNCHANGED <<updates, lost>>
         \/ /\ lost' = [n \in Names |-> lost[n] + Cardinality(Holding(n))]
            /\ UNCHANGED <<filesList, updates>>
  PROVE  EveryUpdateKept' /\ OneHeader' /\ NoListNoHeader'
<1> USE RepositoryAssumption, NamesAreLines
<1>1. \A l \in Lines : Holding(l)' = {} /\ Cardinality(Holding(l)') = 0
  BY Emptied
<1>2. \A l \in Lines : filesList[l] \in Nat /\ Cardinality(Holding(l)) \in Nat
  BY HoldingFinite DEF IInv, TypeOK
<1>3. EveryUpdateKept'
  <2> SUFFICES ASSUME NEW n \in Names
               PROVE  updates'[n] = filesList'[n] + Cardinality(Holding(n)') + lost'[n]
    BY DEF EveryUpdateKept
  <2>1. updates[n] = filesList[n] + Cardinality(Holding(n)) + lost[n]
    BY DEF IInv, EveryUpdateKept
  <2>2. lost[n] \in Nat /\ updates[n] \in Nat
    BY DEF IInv, TypeOK
  <2>3. /\ filesList[n] \in Nat /\ Cardinality(Holding(n)) \in Nat
        /\ Cardinality(Holding(n)') = 0
    BY <1>1, <1>2
  <2>4. updates'[n] = updates[n]
    OBVIOUS
  <2>5. filesList'[n] + lost'[n] = filesList[n] + Cardinality(Holding(n)) + lost[n]
    BY <2>2, <2>3
  <2>6. filesList'[n] \in Nat /\ lost'[n] \in Nat
    BY DEF TypeOK
  <2> QED
    BY <2>1, <2>2, <2>3, <2>4, <2>5, <2>6
<1>4. filesList'[Header] <= filesList[Header] + Cardinality(Holding(Header))
  BY <1>2
<1>5. OneHeader'
  <2>1. filesList'[Header] \in Nat
    BY DEF TypeOK
  <2>2. Cardinality(Holding(Header)') = 0
    BY <1>1
  <2>3. filesList[Header] + Cardinality(Holding(Header)) <= 1
    BY DEF IInv, OneHeader
  <2> QED
    BY <1>2, <1>4, <2>1, <2>2, <2>3 DEF OneHeader
<1>6. NoListNoHeader'
  <2> SUFFICES ASSUME ~isExists' PROVE filesList'[Header] = 0 /\ Holding(Header)' = {}
    BY DEF NoListNoHeader
  <2>1. filesList[Header] = 0 /\ Holding(Header) = {}
    BY DEF IInv, NoListNoHeader
  <2>2. Cardinality(Holding(Header)) = 0
    BY <2>1, FS_EmptySet
  <2>3. filesList'[Header] \in Nat
    BY DEF TypeOK
  <2>4. filesList'[Header] = 0
    BY <1>2, <1>4, <2>1, <2>2, <2>3
  <2> QED
    BY <1>1, <2>4
<1> QED
  BY <1>3, <1>5, <1>6

(* The header goes to the buffer of the first handler that finds no list.  *)
LEMMA OpenKeeps ==
  ASSUME IInv, NEW h \in Handlers, Open(h)
  PROVE  EveryUpdateKept' /\ OneHeader' /\ NoListNoHeader'
<1> USE RepositoryAssumption, NamesAreLines
<1>1. PICK v : v = IF isExists THEN None ELSE Header
  OBVIOUS
<1>2. buffer' = [buffer EXCEPT ![h] = v] /\ buffer[h] = None
  BY <1>1 DEF Open, IInv, TypeOK, ClosedHoldNothing
<1>3. \A l \in Lines : l # None
  BY DEF Lines
<1>4. ASSUME NEW l \in Lines
      PROVE  Cardinality(Holding(l)') = Cardinality(Holding(l)) + (IF v = l THEN 1 ELSE 0)
  <2>1. buffer[h] # l
    BY <1>2, <1>3
  <2>2. Cardinality(Holding(l)') = Cardinality(Holding(l))
                                   - (IF buffer[h] = l THEN 1 ELSE 0)
                                   + (IF v = l THEN 1 ELSE 0)
    BY <1>2, Exchanged DEF IInv
  <2>3. Cardinality(Holding(l)) \in Nat
    BY HoldingFinite
  <2> QED
    BY <2>1, <2>2, <2>3
<1>5. EveryUpdateKept'
  <2> SUFFICES ASSUME NEW n \in Names
               PROVE  updates'[n] = filesList'[n] + Cardinality(Holding(n)') + lost'[n]
    BY DEF EveryUpdateKept
  <2>1. v # n
    BY <1>1
  <2>2. Cardinality(Holding(n)) \in Nat
    BY HoldingFinite
  <2>3. Cardinality(Holding(n)') = Cardinality(Holding(n))
    BY <1>4, <2>1, <2>2
  <2>4. updates[n] = filesList[n] + Cardinality(Holding(n)) + lost[n]
    BY DEF IInv, EveryUpdateKept
  <2> QED
    BY <2>3, <2>4 DEF Open, historyVars
<1>6. OneHeader'
  <2>1. filesList[Header] \in Nat /\ Cardinality(Holding(Header)) \in Nat
    BY HoldingFinite DEF IInv, TypeOK
  <2>2. Cardinality(Holding(Header)') = Cardinality(Holding(Header)) + (IF v = Header THEN 1 ELSE 0)
    BY <1>4
  <2>3. filesList' = filesList
    BY DEF Open
  <2>4. filesList[Header] + Cardinality(Holding(Header)) <= 1
    BY DEF IInv, OneHeader
  <2>5. ~isExists => filesList[Header] = 0 /\ Cardinality(Holding(Header)) = 0
    BY FS_EmptySet DEF IInv, NoListNoHeader
  <2>6. isExists => v # Header
    BY <1>1
  <2> QED
    BY <2>1, <2>2, <2>3, <2>4, <2>5, <2>6 DEF OneHeader
<1>7. NoListNoHeader'
  BY DEF Open, NoListNoHeader
<1> QED
  BY <1>5, <1>6, <1>7

(* The accounts of the list survive every step.                            *)
LEMMA AccountsStep ==
  ASSUME IInv, TypeOK', [Next]_repositoryVars
  PROVE  EveryUpdateKept' /\ OneHeader' /\ NoListNoHeader'
<1> USE RepositoryAssumption
<1>1. ASSUME NEW h \in Handlers, Open(h) PROVE EveryUpdateKept' /\ OneHeader' /\ NoListNoHeader'
  BY <1>1, OpenKeeps
<1>2. ASSUME NEW h \in Handlers, HandleDiscovery(h) \/ HandleClose(h)
      PROVE  EveryUpdateKept' /\ OneHeader' /\ NoListNoHeader'
  <2>1. /\ Serves(h) /\ Flush(h) /\ buffer' = [buffer EXCEPT ![h] = None]
        /\ UNCHANGED <<isExists, lost>> /\ updates' = updates
    BY <1>2 DEF HandleDiscovery, HandleClose, historyVars
  <2> QED
    BY <2>1, FlushKeeps
<1>3. ASSUME NEW h \in Handlers, NEW n \in Names, NEW pair \in Pairs,
             HandleUpdateFilesList(h, n, pair)
      PROVE  EveryUpdateKept' /\ OneHeader' /\ NoListNoHeader'
  <2>1. /\ Serves(h) /\ Flush(h) /\ buffer' = [buffer EXCEPT ![h] = n]
        /\ UNCHANGED <<isExists, lost>> /\ updates' = [updates EXCEPT ![n] = @ + 1]
    BY <1>3 DEF HandleUpdateFilesList
  <2>2. n # None
    OBVIOUS
  <2> QED
    BY <2>1, <2>2, FlushKeeps
<1>4. CASE SignalHandler \/ Kill
  <2>1. buffer' = [h \in Handlers |-> None] /\ UNCHANGED isExists
    BY <1>4 DEF SignalHandler, Kill, diskVars
  <2>2. \/ /\ filesList' = [l \in Lines |-> filesList[l] + Cardinality(Holding(l))]
           /\ UNCHANGED <<updates, lost>>
        \/ /\ lost' = [n \in Names |-> lost[n] + Cardinality(Holding(n))]
           /\ UNCHANGED <<filesList, updates>>
    BY <1>4 DEF SignalHandler, Kill, diskVars, historyVars
  <2> QED
    BY <2>1, <2>2, EndKeeps
<1>5. CASE Restart \/ UNCHANGED repositoryVars
  <2>1. UNCHANGED <<isExists, filesList, buffer, updates, lost>>
    BY <1>5 DEF Restart, repositoryVars, diskVars, handlerVars, historyVars
  <2> QED
    BY <2>1 DEF IInv, EveryUpdateKept, OneHeader, NoListNoHeader, Holding
<1> QED
  BY <1>1, <1>2, <1>3, <1>4, <1>5 DEF Next

LEMMA HandlersStep ==
  ASSUME IInv, [Next]_repositoryVars
  PROVE  ClosedHoldNothing' /\ DownHasNoHandlers'
<1> USE RepositoryAssumption DEF IInv, TypeOK, ClosedHoldNothing, DownHasNoHandlers
<1>1. ASSUME NEW h \in Handlers, Open(h) PROVE ClosedHoldNothing' /\ DownHasNoHandlers'
  BY <1>1 DEF Open
<1>2. ASSUME NEW h \in Handlers, HandleDiscovery(h) \/ HandleClose(h)
      PROVE  ClosedHoldNothing' /\ DownHasNoHandlers'
  BY <1>2 DEF HandleDiscovery, HandleClose, Serves
<1>3. ASSUME NEW h \in Handlers, NEW n \in Names, NEW pair \in Pairs,
             HandleUpdateFilesList(h, n, pair)
      PROVE  ClosedHoldNothing' /\ DownHasNoHandlers'
  BY <1>3 DEF HandleUpdateFilesList, Serves
<1>4. CASE SignalHandler \/ Kill
  BY <1>4 DEF SignalHandler, Kill
<1>5. CASE Restart \/ UNCHANGED repositoryVars
  BY <1>5 DEF Restart, repositoryVars, diskVars, handlerVars
<1> QED
  BY <1>1, <1>2, <1>3, <1>4, <1>5 DEF Next

-----------------------------------------------------------------------------
Listed(m) == filesList[m] > 0 \/ \E h \in Holding(m) : isOpen[h]

LEMMA FoundListed ==
  FoundIsListed <=>
    /\ \A n \in fresh : DownloadServers(n) # None
    /\ process = "running" => \A n \in Names : DownloadServers(n) # None =>
         \E m \in fresh : Hash[m] = Hash[n] /\ Listed(m)
  BY DEF FoundIsListed, Listed

(* A line that is listed stays so when a handler flushes.                  *)
LEMMA ListedStays ==
  ASSUME TypeOK, NEW h \in Handlers, NEW v, NEW m \in Names, Listed(m),
         Flush(h), buffer' = [buffer EXCEPT ![h] = v],
         \A g \in Handlers \ {h} : isOpen'[g] = isOpen[g]
  PROVE  Listed(m)'
<1>1. m \in Lines /\ filesList[m] \in Nat
  BY NamesAreLines DEF TypeOK
<1>2. filesList'[m] = IF buffer[h] = m THEN filesList[m] + 1 ELSE filesList[m]
  BY <1>1 DEF Flush
<1>3. CASE filesList[m] > 0 \/ buffer[h] = m
  BY <1>1, <1>2, <1>3 DEF Listed
<1>4. CASE ~(filesList[m] > 0 \/ buffer[h] = m)
  <2>1. PICK g \in Holding(m) : isOpen[g]
    BY <1>4 DEF Listed
  <2>2. g \in Handlers \ {h} /\ buffer[g] = m
    BY <1>4, <2>1 DEF Holding
  <2>3. g \in Holding(m)' /\ isOpen'[g]
    BY <2>1, <2>2 DEF Holding, TypeOK
  <2> QED
    BY <2>3 DEF Listed
<1> QED
  BY <1>3, <1>4

(* What is found is listed, after every step.                              *)
LEMMA FoundStep ==
  ASSUME IInv, TypeOK', [Next]_repositoryVars
  PROVE  FoundIsListed'
<1> USE RepositoryAssumption
<1> DEFINE P == /\ \A n \in fresh : DownloadServers(n) # None
                /\ process = "running" => \A n \in Names : DownloadServers(n) # None =>
                     \E m \in fresh : Hash[m] = Hash[n] /\ Listed(m)
<1>1. P
  BY FoundListed DEF IInv
<1>2. SUFFICES P'
  BY FoundListed DEF FoundIsListed, Listed
<1>3. fresh \subseteq Names /\ TypeOK
  BY DEF IInv, TypeOK
<1>4. ASSUME NEW h \in Handlers, Open(h) PROVE P'
  <2>1. /\ UNCHANGED <<process, filesList, downloadServers, fresh>>
        /\ isOpen' = [isOpen EXCEPT ![h] = TRUE]
        /\ buffer' = [buffer EXCEPT ![h] = IF isExists THEN None ELSE Header]
    BY <1>4 DEF Open, historyVars
  <2>2. buffer[h] = None
    BY <1>4 DEF Open, IInv, ClosedHoldNothing
  <2>3. ASSUME NEW m \in Names, Listed(m) PROVE Listed(m)'
    <3>1. m # None
      OBVIOUS
    <3>2. CASE filesList[m] > 0
      BY <2>1, <3>2 DEF Listed
    <3>3. ASSUME NEW g \in Holding(m), isOpen[g] PROVE Listed(m)'
      <4>1. g \in Handlers /\ g # h /\ buffer[g] = m
        BY <2>2, <3>1 DEF Holding
      <4>2. buffer'[g] = m /\ isOpen'[g]
        BY <1>3, <2>1, <3>3, <4>1 DEF TypeOK
      <4> QED
        BY <4>1, <4>2 DEF Listed, Holding
    <3> QED
      BY <2>3, <3>2, <3>3 DEF Listed
  <2> QED
    BY <1>1, <1>3, <2>1, <2>3 DEF DownloadServers
<1>5. ASSUME NEW h \in Handlers, HandleDiscovery(h) \/ HandleClose(h) PROVE P'
  <2>1. /\ UNCHANGED <<process, downloadServers, fresh>>
        /\ Flush(h) /\ buffer' = [buffer EXCEPT ![h] = None]
        /\ \A g \in Handlers \ {h} : isOpen'[g] = isOpen[g]
    BY <1>3, <1>5 DEF HandleDiscovery, HandleClose, Serves, historyVars, TypeOK
  <2>2. \A m \in Names : Listed(m) => Listed(m)'
    BY <1>3, <2>1, ListedStays
  <2> QED
    BY <1>1, <1>3, <2>1, <2>2 DEF DownloadServers
<1>6. ASSUME NEW h \in Handlers, NEW n \in Names, NEW pair \in Pairs,
             HandleUpdateFilesList(h, n, pair)
      PROVE  P'
  <2>1. /\ process' = process /\ fresh' = fresh \union {n} /\ Insert(n, pair)
        /\ Flush(h) /\ buffer' = [buffer EXCEPT ![h] = n]
        /\ \A g \in Handlers \ {h} : isOpen'[g] = isOpen[g]
        /\ process = "running" /\ isOpen[h] /\ isOpen' = isOpen
    BY <1>6 DEF HandleUpdateFilesList, Serves
  <2>2. \A m \in Names : Listed(m) => Listed(m)'
    BY <1>3, <2>1, ListedStays
  <2>3. Listed(n)'
    <3>1. h \in Holding(n)'
      BY <1>3, <2>1 DEF Holding, TypeOK
    <3> QED
      BY <2>1, <3>1 DEF Listed
  <2>4. pair # None
    OBVIOUS
  <2>5. /\ downloadServers \in [Keys -> Pairs \union {None}]
        /\ downloadServers' = [downloadServers EXCEPT ![Hash[n]] = IF @ = None THEN pair ELSE @]
    BY <1>3, <2>1 DEF Insert, TypeOK
  <2>6. ASSUME NEW o \in Names
        PROVE  DownloadServers(o)' = IF Hash[o] = Hash[n] /\ DownloadServers(n) = None
                                     THEN pair ELSE DownloadServers(o)
    <3>1. Hash[o] \in Keys /\ Hash[n] \in Keys
      OBVIOUS
    <3> QED
      BY <2>5, <3>1 DEF DownloadServers
  <2>7. \A o \in fresh' : DownloadServers(o)' # None
    <3> SUFFICES ASSUME NEW o \in fresh \union {n} PROVE DownloadServers(o)' # None
      BY <2>1
    <3>1. CASE o \in fresh
      BY <1>1, <1>3, <2>4, <2>6, <3>1
    <3>2. CASE o = n
      BY <2>4, <2>6, <3>2
    <3> QED
      BY <3>1, <3>2
  <2>8. ASSUME NEW o \in Names, DownloadServers(o)' # None
        PROVE  \E m \in fresh' : Hash[m] = Hash[o] /\ Listed(m)'
    <3>1. CASE Hash[o] = Hash[n]
      BY <2>1, <2>3, <3>1
    <3>2. CASE Hash[o] # Hash[n]
      <4>1. DownloadServers(o) # None
        BY <2>6, <2>8, <3>2
      <4>2. PICK m \in fresh : Hash[m] = Hash[o] /\ Listed(m)
        BY <1>1, <2>1, <4>1
      <4> QED
        BY <1>3, <2>1, <2>2, <4>2
    <3> QED
      BY <3>1, <3>2
  <2> QED
    BY <2>7, <2>8
<1>7. CASE SignalHandler \/ Kill
  BY <1>1, <1>7 DEF SignalHandler, Kill, historyVars, diskVars, DownloadServers
<1>8. CASE Restart
  BY <1>8 DEF Restart, DownloadServers
<1>9. CASE UNCHANGED repositoryVars
  BY <1>1, <1>9 DEF repositoryVars, diskVars, handlerVars, historyVars, DownloadServers, Listed,
                    Holding
<1> QED
  BY <1>4, <1>5, <1>6, <1>7, <1>8, <1>9 DEF Next

-----------------------------------------------------------------------------
LEMMA InitHolds == Init => IInv
<1> SUFFICES ASSUME Init PROVE IInv
  OBVIOUS
<1> USE RepositoryAssumption, NamesAreLines
<1>1. TypeOK
  BY DEF Init, TypeOK
<1>2. \A l \in Lines : Holding(l) = {} /\ Cardinality(Holding(l)) = 0
  BY FS_EmptySet DEF Init, Holding, Lines
<1>3. EveryUpdateKept
  BY <1>2 DEF EveryUpdateKept, Init
<1>4. OneHeader /\ NoListNoHeader
  BY <1>2 DEF OneHeader, NoListNoHeader, Init
<1>5. ClosedHoldNothing /\ DownHasNoHandlers
  BY DEF ClosedHoldNothing, DownHasNoHandlers, Init
<1>6. FoundIsListed
  BY DEF FoundIsListed, DownloadServers, Init
<1> QED
  BY <1>1, <1>3, <1>4, <1>5, <1>6 DEF IInv

(* The invariant, for any number of connections and names.                 *)
THEOREM Invariance == Spec => []IInv
<1>1. IInv /\ [Next]_repositoryVars => IInv'
  <2> SUFFICES ASSUME IInv, [Next]_repositoryVars PROVE IInv'
    OBVIOUS
  <2>1. TypeOK'
    BY TypeStep DEF IInv
  <2>2. EveryUpdateKept' /\ OneHeader' /\ NoListNoHeader'
    BY <2>1, AccountsStep
  <2>3. ClosedHoldNothing' /\ DownHasNoHandlers'
    BY HandlersStep
  <2>4. FoundIsListed'
    BY <2>1, FoundStep
  <2> QED
    BY <2>1, <2>2, <2>3, <2>4 DEF IInv
<1> QED
  BY InitHolds, <1>1, PTL DEF Spec

(* The members and the file have their types.                              *)
THEOREM TypeCorrect == Spec => []TypeOK
<1>1. IInv => TypeOK
  BY DEF IInv
<1> QED
  BY Invariance, <1>1, PTL

(* Every UPDATE_FILES_LIST is in the file, in one buffer, or was lost with *)
(* the process.                                                            *)
THEOREM NoUpdateForgotten == Spec => []EveryUpdateKept
<1>1. IInv => EveryUpdateKept
  BY DEF IInv
<1> QED
  BY Invariance, <1>1, PTL

(* The list never has two headers, however many handlers create it.        *)
THEOREM HeaderOnce == Spec => []OneHeader
<1>1. IInv => OneHeader
  BY DEF IInv
<1> QED
  BY Invariance, <1>1, PTL

(* GET_SERV_DOWNLOAD finds what this process was told, and nothing that is *)
(* not listed, but for names with the same hash.                           *)
THEOREM FoundWasListed == Spec => []FoundIsListed
<1>1. IInv => FoundIsListed
  BY DEF IInv
<1> QED
  BY Invariance, <1>1, PTL

(* No step of a living process changes an answer of GET_SERV_DOWNLOAD      *)
(* once there is one.                                                      *)
THEOREM AnswersStay == Spec => AnswersAgree
<1>1. TypeOK /\ [Next]_repositoryVars =>
        [process = "running" =>
           \A n \in Names : DownloadServers(n) # None
                              => DownloadServers(n)' = DownloadServers(n)]_repositoryVars
  <2> SUFFICES ASSUME TypeOK, Next, process = "running", NEW o \in Names, DownloadServers(o) # None
               PROVE  DownloadServers(o)' = DownloadServers(o)
    OBVIOUS
  <2>1. ASSUME NEW h \in Handlers, NEW n \in Names, NEW pair \in Pairs,
               HandleUpdateFilesList(h, n, pair)
        PROVE  DownloadServers(o)' = DownloadServers(o)
    BY <2>1 DEF HandleUpdateFilesList, Insert, DownloadServers, TypeOK
  <2>2. CASE \E h \in Handlers : Open(h) \/ HandleDiscovery(h) \/ HandleClose(h)
    BY <2>2 DEF Open, HandleDiscovery, HandleClose, DownloadServers
  <2>3. CASE SignalHandler \/ Kill
    BY <2>3 DEF SignalHandler, Kill, DownloadServers
  <2>4. CASE Restart
    BY <2>4 DEF Restart
  <2> QED
    BY <2>1, <2>2, <2>3, <2>4 DEF Next
<1> QED
  BY TypeCorrect, <1>1, PTL DEF Spec, AnswersAgree

(* No step takes a line from the files list.                               *)
THEOREM ListGrows == Spec => ListOnlyGrows
<1>1. TypeOK /\ [Next]_repositoryVars =>
        [\A l \in Lines : filesList'[l] >= filesList[l]]_repositoryVars
  <2> SUFFICES ASSUME TypeOK, Next, NEW l \in Lines PROVE filesList'[l] >= filesList[l]
    OBVIOUS
  <2>1. filesList[l] \in Nat /\ Cardinality(Holding(l)) \in Nat
    BY HoldingFinite DEF TypeOK
  <2>2. ASSUME NEW h \in Handlers, Flush(h) PROVE filesList'[l] >= filesList[l]
    BY <2>1, <2>2 DEF Flush
  <2>3. CASE SignalHandler
    BY <2>1, <2>3 DEF SignalHandler
  <2>4. CASE Kill \/ Restart \/ \E h \in Handlers : Open(h)
    BY <2>1, <2>4 DEF Kill, Restart, Open, diskVars
  <2> QED
    BY <2>2, <2>3, <2>4 DEF Next, HandleDiscovery, HandleClose, HandleUpdateFilesList
<1> QED
  BY TypeCorrect, <1>1, PTL DEF Spec, ListOnlyGrows

-----------------------------------------------------------------------------
(* The clients' system.                                                    *)

(* The types of what the clients and services keep ...                     *)
PartsTyped == stored \in [Keys -> [Parts -> Seq(Text) \union {None}]]
LeaksTyped ==
  /\ leaked \subseteq [key : Keys, part : Parts, offset : Nat, lines : Seq(Text)]
  /\ \A leak \in leaked : stored[leak.key][leak.part] # None
PlacesTyped ==
  at \in [Handlers -> {"out", "menu", "uploadEven", "uploadOdd", "update",
                       "downloadEven", "downloadOdd"}]
LocalsTyped ==
  /\ name \in [Handlers -> Names \union {None}]
  /\ origin \in [Handlers -> Files \union {None}]
  /\ announced \in [Handlers -> Seq(Text) \union {None}]
  /\ received \in [Handlers -> Seq(Text)]
  /\ sending \in [Handlers -> BOOLEAN]
  /\ evenPart \in [Handlers -> Seq(Text)]
ResultsTyped ==
  /\ output \in [Handlers -> Contents \union {None}]
  /\ expected \in [Handlers -> Files \union {None}]
  /\ sameProcess \in [Handlers -> BOOLEAN]
  /\ denied \in [Handlers -> SUBSET Names]
ConnectionsTyped ==
  /\ inbox \in [Handlers -> Names \union {None}]
  /\ promised \in [Handlers -> SUBSET Names]
HistoryTyped ==
  /\ writer \in [Keys -> Handlers \union {None}]
  /\ settled \in [Keys -> Files \union {None}]
  /\ overlaid \in [Keys -> SUBSET Parts]

Downloading(c) == at[c] \in {"downloadEven", "downloadOdd"}

(* ... and where the local variables of OptionSwitch have a value.         *)
Scope ==
  \A c \in Handlers :
    /\ at[c] \notin {"out", "menu"} => name[c] \in Names
    /\ at[c] \in {"uploadEven", "uploadOdd"} => origin[c] \in Files
    /\ ~Downloading(c) => announced[c] = None

ClientType ==
  /\ PartsTyped /\ LeaksTyped /\ PlacesTyped /\ LocalsTyped /\ ResultsTyped
  /\ ConnectionsTyped /\ HistoryTyped /\ Scope

-----------------------------------------------------------------------------
LEMMA DividedTyped ==
  ASSUME NEW f \in Files, NEW part \in Parts
  PROVE  DivideFile(f)[part].lines \in Seq(Text)
<1>1. f \in Contents
  BY StoreAssumption
<1>2. EvenLines(f.lines) \in Seq(Text) /\ OddLines(f.lines) \in Seq(Text)
  BY <1>1, PartLengths
<1> QED
  BY <1>2 DEF DivideFile, Written, Parts

LEMMA CombinedTyped ==
  ASSUME NEW even \in Seq(Text), NEW odd \in Seq(Text)
  PROVE  CombineFile(Written(even), Written(odd)) \in Contents
<1>1. PICK n : n = CombinedLength(Written(even), Written(odd))
  OBVIOUS
<1>2. n = IF Len(even) <= Len(odd) THEN 2 * Len(even) ELSE 2 * Len(odd) + 1
  BY <1>1 DEF CombinedLength, Written
<1>3. PICK l, m : l = Len(even) /\ m = Len(odd)
  OBVIOUS
<1>4. l \in Nat /\ m \in Nat /\ n \in Nat /\ n = IF l <= m THEN 2 * l ELSE 2 * m + 1
  BY <1>2, <1>3
<1>5. ASSUME NEW i \in 1 .. n
      PROVE  (IF i % 2 = 1 THEN even[(i + 1) \div 2] ELSE odd[i \div 2]) \in Text
  <2>1. i % 2 = 1 => (i + 1) \div 2 \in 1 .. l
    BY <1>4
  <2>2. i % 2 # 1 => i \div 2 \in 1 .. m
    BY <1>4
  <2>3. even \in [1 .. l -> Text] /\ odd \in [1 .. m -> Text]
    BY <1>3
  <2>4. ASSUME NEW j \in 1 .. l PROVE even[j] \in Text
    BY <2>3
  <2>5. ASSUME NEW j \in 1 .. m PROVE odd[j] \in Text
    BY <2>3
  <2> QED
    BY <2>1, <2>2, <2>4, <2>5, Zenon
<1> DEFINE lines == [i \in 1 .. n |-> IF i % 2 = 1 THEN even[(i + 1) \div 2] ELSE odd[i \div 2]]
<1>6. lines \in [1 .. n -> Text]
  BY <1>5, Zenon
<1>7. lines \in Seq(Text)
  <2> HIDE DEF lines
  <2> QED
    BY <1>4, <1>6
<1>8. CombineFile(Written(even), Written(odd)) = Written(lines)
  BY <1>1, Zenon DEF CombineFile, Written
<1>9. Written(lines) \in Contents
  <2> HIDE DEF lines
  <2> QED
    BY <1>7 DEF Written, Contents
<1> QED
  BY <1>8, <1>9, Zenon

(* A buffer's lines among those that are there give lines.                 *)
LEMMA OverwrittenTyped ==
  ASSUME NEW lines \in Seq(Text), NEW offset \in Nat, NEW new \in Seq(Text)
  PROVE  Overwritten(lines, offset, new) \in Seq(Text)
<1>1. PICK l, m : l = Len(lines) /\ m = Len(new)
  OBVIOUS
<1>2. PICK end, n : end = offset + m /\ n = IF l < end THEN end ELSE l
  OBVIOUS
<1>3. l \in Nat /\ m \in Nat /\ end \in Nat /\ n \in Nat
  BY <1>1, <1>2
<1> DEFINE V(i) == IF offset < i /\ i <= end THEN new[i - offset]
                   ELSE IF i <= l THEN lines[i] ELSE Zeros
<1>4. ASSUME NEW i \in 1 .. n PROVE V(i) \in Text
  <2>1. CASE offset < i /\ i <= end
    <3>1. i - offset \in 1 .. m
      BY <1>2, <1>3, <2>1
    <3>2. new[i - offset] \in Text
      BY <1>1, <3>1
    <3> QED
      BY <2>1, <3>2
  <2>2. CASE ~(offset < i /\ i <= end) /\ i <= l
    <3>1. lines[i] \in Text
      BY <1>1, <1>3, <2>2
    <3> QED
      BY <2>2, <3>1, Zenon
  <2>3. CASE ~(offset < i /\ i <= end) /\ ~(i <= l)
    BY <2>3, StoreAssumption, Zenon
  <2> QED
    BY <2>1, <2>2, <2>3
<1>5. [i \in 1 .. n |-> V(i)] \in [1 .. n -> Text]
  BY <1>4, Zenon
<1>6. [i \in 1 .. n |-> V(i)] \in Seq(Text)
  <2> HIDE DEF V
  <2> QED
    BY <1>3, <1>5
<1>7. Overwritten(lines, offset, new) = [i \in 1 .. n |-> V(i)]
  BY <1>1, <1>2, Zenon DEF Overwritten
<1> QED
  BY <1>6, <1>7, Zenon

(* A client goes back to the menu, or elsewhere.                           *)
LEMMA BackTyped ==
  ASSUME ClientType, NEW c \in Handlers, BackToMenu(c)
  PROVE  PlacesTyped' /\ LocalsTyped'
BY DEF ClientType, BackToMenu, NoTransfer, Goes, PlacesTyped, LocalsTyped

LEMMA BackScope ==
  ASSUME ClientType, NEW c \in Handlers, BackToMenu(c)
  PROVE  Scope'
BY DEF ClientType, BackToMenu, NoTransfer, Goes, PlacesTyped, LocalsTyped, Scope, Downloading

(* A part of lines is stored.                                              *)
LEMMA StoreTyped ==
  ASSUME ClientType, NEW c \in Handlers, at[c] \in {"uploadEven", "uploadOdd"},
         NEW lines \in Seq(Text), Store(c, lines)
  PROVE  /\ PartsTyped' /\ ResultsTyped'
         /\ overlaid' \in [Keys -> SUBSET Parts]
         /\ stored'[Key(c)][PartOf(c)] = lines /\ lines # None
         /\ \A k \in Keys : \A part \in Parts :
              stored'[k][part] = stored[k][part] \/ stored'[k][part] = lines
<1>1. name[c] \in Names
  BY DEF ClientType, Scope
<1>2. Key(c) \in Keys /\ PartOf(c) \in Parts
  BY <1>1, RepositoryAssumption DEF Key, PartOf, Parts
<1>3. stored' = [stored EXCEPT ![Key(c)][PartOf(c)] = lines]
  BY DEF Store
<1>4. PartsTyped' /\ stored'[Key(c)][PartOf(c)] = lines
  BY <1>2, <1>3 DEF ClientType, PartsTyped
<1>5. ResultsTyped'
  BY DEF Store, ClientType, ResultsTyped
<1>6. overlaid' \in [Keys -> SUBSET Parts]
  BY <1>2 DEF Store, ClientType, HistoryTyped
<1>7. lines # None
  BY StoreAssumption
<1>8. \A k \in Keys : \A part \in Parts :
        stored'[k][part] = stored[k][part] \/ stored'[k][part] = lines
  BY <1>2, <1>3 DEF ClientType, PartsTyped
<1> QED
  BY <1>4, <1>5, <1>6, <1>7, <1>8

LEMMA UploadTyped ==
  ASSUME ClientType, NEW c \in Handlers,
         \/ UploadEven(c) \/ UploadOdd(c)
         \/ Uploads(c) /\ \E n \in 0 .. Len(LinesOf(c)) : \E m \in 0 .. n : UploadFails(c, n, m)
  PROVE  ClientType'
<1>1. /\ at[c] \in {"uploadEven", "uploadOdd"} /\ name[c] \in Names /\ origin[c] \in Files
      /\ Key(c) \in Keys /\ PartOf(c) \in Parts
  BY RepositoryAssumption DEF UploadEven, UploadOdd, Uploads, ClientType, Scope, Key, PartOf, Parts
<1>2. LinesOf(c) \in Seq(Text)
  BY <1>1, DividedTyped DEF LinesOf, PartOf, Parts
<1>3. PICK lines \in Seq(Text) : Store(c, lines)
  <2>1. CASE UploadEven(c) \/ UploadOdd(c)
    BY <1>2, <2>1 DEF UploadEven, UploadOdd
  <2>2. CASE \E n \in 0 .. Len(LinesOf(c)) : \E m \in 0 .. n : UploadFails(c, n, m)
    <3>1. PICK n \in 0 .. Len(LinesOf(c)) : \E m \in 0 .. n : UploadFails(c, n, m)
      BY <2>2
    <3>2. PICK m \in 0 .. n : UploadFails(c, n, m)
      BY <3>1
    <3>3. SubSeq(LinesOf(c), 1, m) \in Seq(Text)
      BY <1>2
    <3> QED
      BY <3>2, <3>3 DEF UploadFails
  <2> QED
    BY <2>1, <2>2
<1>4. /\ PartsTyped' /\ ResultsTyped' /\ overlaid' \in [Keys -> SUBSET Parts]
      /\ stored'[Key(c)][PartOf(c)] = lines /\ lines # None
      /\ \A k \in Keys : \A part \in Parts :
           stored'[k][part] = stored[k][part] \/ stored'[k][part] = lines
  BY <1>1, <1>3, StoreTyped
<1>5. HistoryTyped'
  BY <1>1, <1>4 DEF UploadEven, UploadOdd, UploadFails, ClientType, HistoryTyped
<1>6. ConnectionsTyped'
  BY DEF UploadEven, UploadOdd, UploadFails, ClientType, ConnectionsTyped, connectionVars
<1>7. PlacesTyped' /\ LocalsTyped' /\ Scope'
  <2>1. CASE UploadEven(c) \/ UploadOdd(c)
    <3>1. Goes(c, "uploadOdd") \/ Goes(c, "update")
      BY <2>1 DEF UploadEven, UploadOdd
    <3>2. UNCHANGED localVars
      BY <2>1 DEF UploadEven, UploadOdd
    <3> QED
      BY <1>1, <3>1, <3>2 DEF Goes, localVars, ClientType, PlacesTyped, LocalsTyped, Scope,
                              Downloading
  <2>2. CASE \E n \in 0 .. Len(LinesOf(c)) : \E m \in 0 .. n : UploadFails(c, n, m)
    BY <2>2, BackTyped, BackScope DEF UploadFails
  <2> QED
    BY <2>1, <2>2
<1>8. LeaksTyped'
  <2>1. \A leak \in leaked : /\ leak.key \in Keys /\ leak.part \in Parts
                            /\ stored[leak.key][leak.part] # None
    BY DEF ClientType, LeaksTyped
  <2>2. \A leak \in leaked : stored'[leak.key][leak.part] # None
    BY <1>4, <2>1
  <2>3. CASE UNCHANGED leaked
    BY <2>2, <2>3 DEF ClientType, LeaksTyped
  <2>4. CASE \E n \in 0 .. Len(LinesOf(c)) : \E m \in 0 .. n : UploadFails(c, n, m)
    <3>1. PICK n \in 0 .. Len(LinesOf(c)) : \E m \in 0 .. n : UploadFails(c, n, m)
      BY <2>4
    <3>2. PICK m \in 0 .. n : UploadFails(c, n, m)
      BY <3>1
    <3> DEFINE new == [key |-> Key(c), part |-> PartOf(c), offset |-> m,
                       lines |-> SubSeq(LinesOf(c), m + 1, n)]
    <3>3. SubSeq(LinesOf(c), m + 1, n) \in Seq(Text) /\ m \in Nat
      BY <1>2
    <3>4. new \in [key : Keys, part : Parts, offset : Nat, lines : Seq(Text)]
      BY <1>1, <3>3
    <3>5. stored'[new.key][new.part] # None
      BY <1>4
    <3>6. leaked' \subseteq leaked \union {new}
      BY <3>2 DEF UploadFails
    <3> HIDE DEF new
    <3> QED
      BY <2>2, <3>4, <3>5, <3>6 DEF ClientType, LeaksTyped
  <2> QED
    BY <2>3, <2>4 DEF UploadEven, UploadOdd
<1> QED
  BY <1>4, <1>5, <1>6, <1>7, <1>8 DEF ClientType

LEMMA DownloadTyped ==
  ASSUME ClientType, NEW c \in Handlers,
         NoPart(c) \/ ReceiveLine(c) \/ DownloadEven(c) \/ DownloadOdd(c)
  PROVE  ClientType'
<1>1. /\ Downloading(c) /\ name[c] \in Names /\ Key(c) \in Keys /\ PartOf(c) \in Parts
      /\ at[c] \notin {"uploadEven", "uploadOdd"}
  BY RepositoryAssumption DEF NoPart, ReceiveLine, DownloadEven, DownloadOdd, PartEnds, Downloads,
       Downloading, ClientType, Scope, Key, PartOf, Parts
<1>2. PartsTyped' /\ LeaksTyped' /\ HistoryTyped' /\ ConnectionsTyped'
  BY DEF NoPart, ReceiveLine, DownloadEven, DownloadOdd, storeVars, connectionVars,
         ClientType, PartsTyped, LeaksTyped, HistoryTyped, ConnectionsTyped
<1>3. Content(c) \in Seq(Text) \union {None}
  BY <1>1 DEF Content, ClientType, PartsTyped
<1>4. received[c] \in Seq(Text) /\ evenPart[c] \in Seq(Text)
      /\ announced[c] \in Seq(Text) \union {None}
  BY DEF ClientType, LocalsTyped
<1>5. ASSUME HasMore(c) PROVE Got(c) \in Seq(Text) /\ RecvHeader(c) \in Seq(Text)
  <2>1. Content(c) \in Seq(Text) /\ Len(received[c]) < Len(Content(c))
    BY <1>3, <1>5 DEF HasMore
  <2>2. Content(c)[Len(received[c]) + 1] \in Text
    BY <1>4, <2>1
  <2>3. Got(c) \in Seq(Text)
    BY <1>4, <2>2 DEF Got
  <2> QED
    BY <1>4, <2>1, <2>3 DEF RecvHeader
<1>6. CASE NoPart(c)
  BY <1>2, <1>6, BackTyped, BackScope DEF NoPart, ClientType, ResultsTyped, resultVars
<1>7. CASE ReceiveLine(c)
  <2>1. Got(c) \in Seq(Text) /\ RecvHeader(c) \in Seq(Text)
    BY <1>5, <1>7 DEF ReceiveLine
  <2>2. LocalsTyped'
    BY <1>7, <2>1 DEF ReceiveLine, ClientType, LocalsTyped
  <2>3. PlacesTyped' /\ ResultsTyped' /\ Scope'
    BY <1>1, <1>7 DEF ReceiveLine, resultVars, ClientType, PlacesTyped, ResultsTyped, LocalsTyped,
                      Scope, Downloading
  <2> QED
    BY <1>2, <2>2, <2>3 DEF ClientType
<1>8. CASE DownloadEven(c)
  <2>1. Got(c) \in Seq(Text)
    BY <1>5, <1>8 DEF DownloadEven, PartEnds
  <2>2. LocalsTyped'
    BY <1>8, <2>1 DEF DownloadEven, NoTransfer, ClientType, LocalsTyped
  <2>3. PlacesTyped' /\ ResultsTyped' /\ Scope'
    BY <1>1, <1>8 DEF DownloadEven, NoTransfer, Goes, resultVars, ClientType, PlacesTyped,
                      ResultsTyped, LocalsTyped, Scope, Downloading
  <2> QED
    BY <1>2, <2>2, <2>3 DEF ClientType
<1>9. CASE DownloadOdd(c)
  <2>1. Got(c) \in Seq(Text)
    BY <1>5, <1>9 DEF DownloadOdd, PartEnds
  <2>2. CombineFile(Written(evenPart[c]), Written(Got(c))) \in Contents
    BY <1>4, <2>1, CombinedTyped
  <2>3. ResultsTyped'
    BY <1>9, <2>2 DEF DownloadOdd, ClientType, ResultsTyped
  <2>4. PlacesTyped' /\ LocalsTyped' /\ Scope'
    BY <1>9, BackTyped, BackScope DEF DownloadOdd
  <2> QED
    BY <1>2, <2>3, <2>4 DEF ClientType
<1> QED
  BY <1>6, <1>7, <1>8, <1>9

LEMMA MenuTyped ==
  ASSUME ClientType, NEW c \in Handlers,
         \/ Connect(c) \/ Quit(c) \/ Abandon(c) \/ Discovery(c)
         \/ \E n \in Names, f \in Files : GetServersUpload(c, n, f)
         \/ \E n \in Names : GetServersDownload(c, n) \/ ServersNotFound(c, n)
  PROVE  ClientType'
<1> USE DEF ClientType, PartsTyped, LeaksTyped, PlacesTyped, LocalsTyped, ResultsTyped,
            ConnectionsTyped, HistoryTyped, Scope, Downloading, storeVars, localVars, resultVars,
            connectionVars
<1>1. CASE Connect(c)
  BY <1>1 DEF Connect, Goes
<1>2. CASE Quit(c)
  BY <1>2 DEF Quit, Goes, ClearResults
<1>3. CASE Abandon(c)
  BY <1>3, BackTyped, BackScope DEF Abandon
<1>4. CASE Discovery(c)
  BY <1>4 DEF Discovery, ClearResults
<1>5. ASSUME NEW n \in Names, NEW f \in Files, GetServersUpload(c, n, f) PROVE ClientType'
  BY <1>5 DEF GetServersUpload, Goes, ClearResults, Asks
<1>6. ASSUME NEW n \in Names, GetServersDownload(c, n) PROVE ClientType'
  <2>1. Hash[n] \in Keys
    BY RepositoryAssumption
  <2>2. settled[Hash[n]] \in Files \union {None}
    BY <2>1
  <2> QED
    BY <1>6, <2>2 DEF GetServersDownload, Goes, Asks
<1>7. ASSUME NEW n \in Names, ServersNotFound(c, n) PROVE ClientType'
  BY <1>7 DEF ServersNotFound, ClearResults
<1> QED
  BY <1>1, <1>2, <1>3, <1>4, <1>5, <1>6, <1>7

(* The transfers are cut off: who does not notice is about to connect.     *)
LEMMA CutTyped ==
  ASSUME ClientType, CutTransfers
  PROVE  PlacesTyped' /\ LocalsTyped' /\ ResultsTyped' /\ ConnectionsTyped' /\ Scope'
<1>1. PlacesTyped'
  BY DEF ClientType, PlacesTyped, CutTransfers
<1>2. LocalsTyped'
  <2> DEFINE Cut == {c \in Handlers : \/ at[c] \in {"uploadOdd", "downloadOdd"}
                                      \/ at[c] = "downloadEven" /\ announced[c] # None}
  <2>1. /\ name' = [c \in Handlers |-> IF c \in Cut THEN None ELSE name[c]]
        /\ origin' = [c \in Handlers |-> IF c \in Cut THEN None ELSE origin[c]]
        /\ announced' = [c \in Handlers |-> IF c \in Cut THEN None ELSE announced[c]]
        /\ received' = [c \in Handlers |-> IF c \in Cut THEN <<>> ELSE received[c]]
        /\ sending' = [c \in Handlers |-> IF c \in Cut THEN FALSE ELSE sending[c]]
        /\ evenPart' = [c \in Handlers |-> IF c \in Cut THEN <<>> ELSE evenPart[c]]
    BY Zenon DEF CutTransfers
  <2> HIDE DEF Cut
  <2>2. <<>> \in Seq(Text)
    OBVIOUS
  <2>3. name' \in [Handlers -> Names \union {None}]
    BY <2>1 DEF ClientType, LocalsTyped
  <2>4. origin' \in [Handlers -> Files \union {None}]
    BY <2>1 DEF ClientType, LocalsTyped
  <2>5. announced' \in [Handlers -> Seq(Text) \union {None}]
    BY <2>1 DEF ClientType, LocalsTyped
  <2>6. received' \in [Handlers -> Seq(Text)] /\ evenPart' \in [Handlers -> Seq(Text)]
    BY <2>1, <2>2 DEF ClientType, LocalsTyped
  <2>7. sending' \in [Handlers -> BOOLEAN]
    BY <2>1 DEF ClientType, LocalsTyped
  <2> QED
    BY <2>3, <2>4, <2>5, <2>6, <2>7 DEF LocalsTyped
<1>3. ResultsTyped' /\ ConnectionsTyped'
  BY DEF ClientType, ResultsTyped, ConnectionsTyped, CutTransfers
<1>4. Scope'
  BY DEF ClientType, PlacesTyped, LocalsTyped, Scope, Downloading, CutTransfers
<1> QED
  BY <1>1, <1>2, <1>3, <1>4

(* A leaked buffer is written.                                             *)
LEMMA FlushTyped ==
  ASSUME ClientType, NEW leak \in leaked, FlushLeaked(leak)
  PROVE  ClientType'
<1>1. /\ leak.key \in Keys /\ leak.part \in Parts /\ leak.offset \in Nat
      /\ leak.lines \in Seq(Text) /\ stored[leak.key][leak.part] # None
  BY DEF ClientType, LeaksTyped
<1>2. PICK old \in Seq(Text) : old = stored[leak.key][leak.part]
  BY <1>1 DEF ClientType, PartsTyped
<1>3. PICK lines \in Seq(Text) : lines = Overwritten(old, leak.offset, leak.lines)
  BY <1>1, OverwrittenTyped
<1>4. lines # None
  BY StoreAssumption
<1>5. stored' = [stored EXCEPT ![leak.key][leak.part] = lines]
  BY <1>2, <1>3 DEF FlushLeaked
<1>6. PartsTyped'
  BY <1>1, <1>5 DEF ClientType, PartsTyped
<1>7. ASSUME NEW other \in leaked PROVE stored'[other.key][other.part] # None
  <2>1. /\ other.key \in Keys /\ other.part \in Parts
        /\ stored[other.key][other.part] # None
    BY DEF ClientType, LeaksTyped
  <2> QED
    BY <1>1, <1>4, <1>5, <2>1 DEF ClientType, PartsTyped
<1>8. LeaksTyped'
  BY <1>7 DEF FlushLeaked, ClientType, LeaksTyped
<1>9. HistoryTyped'
  BY <1>1 DEF FlushLeaked, ClientType, HistoryTyped
<1>10. PlacesTyped' /\ LocalsTyped' /\ ResultsTyped' /\ ConnectionsTyped' /\ Scope'
  BY DEF FlushLeaked, ClientType, PlacesTyped, LocalsTyped, ResultsTyped, ConnectionsTyped, Scope,
         Downloading, localVars, resultVars, connectionVars
<1> QED
  BY <1>6, <1>8, <1>9, <1>10 DEF ClientType

LEMMA ServerTyped ==
  ASSUME ClientType,
         \/ \E c \in Handlers : UpdateFilesList(c) \/ HandleInput(c) \/ Disconnect(c)
         \/ ProcessStep \/ UNCHANGED vars
         \/ \E leak \in leaked : FlushLeaked(leak)
  PROVE  ClientType'
<1> USE DEF ClientType, PartsTyped, LeaksTyped, PlacesTyped, LocalsTyped, ResultsTyped,
            ConnectionsTyped, HistoryTyped, Scope, Downloading, storeVars, localVars, resultVars,
            connectionVars
<1>1. ASSUME NEW c \in Handlers, UpdateFilesList(c) PROVE ClientType'
  <2>1. name[c] \in Names
    BY <1>1 DEF UpdateFilesList
  <2>2. PlacesTyped' /\ LocalsTyped' /\ Scope'
    BY <1>1, BackTyped, BackScope DEF UpdateFilesList
  <2>3. ConnectionsTyped'
    <3>1. CASE Serves(c)
      <4>1. /\ inbox' = [inbox EXCEPT ![c] = name[c]]
            /\ promised' = [promised EXCEPT ![c] = @ \union {name[c]}]
        BY <1>1, <3>1 DEF UpdateFilesList
      <4> QED
        BY <2>1, <4>1
    <3>2. CASE ~Serves(c)
      <4>1. UNCHANGED <<inbox, promised>>
        BY <1>1, <3>2 DEF UpdateFilesList
      <4> QED
        BY <4>1
    <3> QED
      BY <3>1, <3>2
  <2>4. UNCHANGED <<storeVars, resultVars>>
    BY <1>1 DEF UpdateFilesList
  <2>5. PartsTyped' /\ LeaksTyped' /\ ResultsTyped' /\ HistoryTyped'
    BY <2>4
  <2> QED
    BY <2>2, <2>3, <2>5
<1>2. ASSUME NEW c \in Handlers, HandleInput(c) PROVE ClientType'
  BY <1>2 DEF HandleInput
<1>3. ASSUME NEW c \in Handlers, Disconnect(c) PROVE ClientType'
  BY <1>3 DEF Disconnect
<1>4. CASE ProcessStep
  <2>1. PartsTyped' /\ LeaksTyped' /\ HistoryTyped'
    BY <1>4 DEF ProcessStep
  <2>2. CASE CutTransfers
    BY <2>1, <2>2, CutTyped
  <2>3. CASE UNCHANGED <<at, localVars, resultVars, connectionVars>>
    BY <2>1, <2>3
  <2> QED
    BY <1>4, <2>2, <2>3 DEF ProcessStep
<1>5. CASE UNCHANGED vars
  BY <1>5 DEF vars
<1> QED
  BY <1>1, <1>2, <1>3, <1>4, <1>5, FlushTyped

LEMMA ClientTypeStep ==
  ASSUME ClientType, [StoreNext]_vars
  PROVE  ClientType'
BY UploadTyped, DownloadTyped, MenuTyped, ServerTyped DEF StoreNext

-----------------------------------------------------------------------------
(* Whatever the clients do, the repository makes a step of its own or none.*)
LEMMA Composes ==
  ASSUME ClientType, [StoreNext]_vars
  PROVE  [Next]_repositoryVars
<1>1. ASSUME NEW c \in Handlers, Connect(c) PROVE Next
  BY <1>1 DEF Connect, Next
<1>2. ASSUME NEW c \in Handlers, HandleInput(c) PROVE Next
  <2>1. inbox[c] \in Names
    BY <1>2 DEF HandleInput, ClientType, ConnectionsTyped
  <2>2. HandleUpdateFilesList(c, inbox[c], m_uploadServers)
    BY <1>2 DEF HandleInput
  <2>3. m_uploadServers \in Pairs
    BY StoreAssumption
  <2> QED
    BY <2>1, <2>2, <2>3 DEF Next
<1>3. ASSUME NEW c \in Handlers, Discovery(c) PROVE Next
  BY <1>3 DEF Discovery, Next
<1>4. ASSUME NEW c \in Handlers, Disconnect(c) PROVE Next
  BY <1>4 DEF Disconnect, Next
<1>5. CASE ProcessStep
  BY <1>5 DEF ProcessStep, Next
<1>6. ASSUME NEW leak \in leaked, FlushLeaked(leak) PROVE UNCHANGED repositoryVars
  BY <1>6 DEF FlushLeaked
<1>7. ASSUME NEW c \in Handlers,
             \/ Quit(c) \/ Abandon(c)
             \/ \E n \in Names, f \in Files : GetServersUpload(c, n, f)
             \/ UploadEven(c) \/ UploadOdd(c)
             \/ Uploads(c) /\ \E n \in 0 .. Len(LinesOf(c)) : \E m \in 0 .. n : UploadFails(c, n, m)
             \/ UpdateFilesList(c)
             \/ \E n \in Names : GetServersDownload(c, n) \/ ServersNotFound(c, n)
             \/ NoPart(c) \/ ReceiveLine(c) \/ DownloadEven(c) \/ DownloadOdd(c)
      PROVE  UNCHANGED repositoryVars
  BY <1>7 DEF Quit, Abandon, GetServersUpload, UploadEven, UploadOdd, UploadFails,
       UpdateFilesList, GetServersDownload, ServersNotFound, NoPart, ReceiveLine, DownloadEven,
       DownloadOdd
<1>8. CASE UNCHANGED vars
  BY <1>8 DEF vars
<1> QED
  BY <1>1, <1>2, <1>3, <1>4, <1>5, <1>6, <1>7, <1>8 DEF StoreNext

LEMMA InitTyped == StoreInit => Init /\ ClientType
<1> SUFFICES ASSUME StoreInit PROVE Init /\ ClientType
  OBVIOUS
<1>1. Init
  BY DEF StoreInit
<1>2. PartsTyped /\ LeaksTyped /\ PlacesTyped /\ LocalsTyped
  BY DEF StoreInit, PartsTyped, LeaksTyped, PlacesTyped, LocalsTyped
<1>3. ResultsTyped /\ ConnectionsTyped /\ HistoryTyped
  BY DEF StoreInit, ResultsTyped, ConnectionsTyped, HistoryTyped
<1>4. Scope
  BY DEF StoreInit, Scope, Downloading
<1> QED
  BY <1>1, <1>2, <1>3, <1>4 DEF ClientType

(* The clients' states are as the menu leaves them.                        *)
LEMMA ClientInvariance == StoreSpec => []ClientType
<1>1. ClientType /\ [StoreNext]_vars => ClientType'
  BY ClientTypeStep
<1> QED
  BY <1>1, InitTyped, PTL DEF StoreSpec

(* The file store implements the repository: what is proved of the latter's*)
(* specification holds of every behaviour of clients, failures included.   *)
THEOREM StoreImplementsRepository == StoreSpec => Spec
<1>1. ClientType /\ [StoreNext]_vars => [Next]_repositoryVars
  BY Composes
<1> QED
  BY <1>1, InitTyped, ClientInvariance, PTL DEF StoreSpec, Spec

(* The state is always of its type.                                        *)
THEOREM StoreTypeCorrect == StoreSpec => []StoreTypeOK
<1>1. TypeOK /\ ClientType => StoreTypeOK
  BY DEF ClientType, PartsTyped, LeaksTyped, PlacesTyped, LocalsTyped, ResultsTyped,
         ConnectionsTyped, HistoryTyped, StoreTypeOK, Transfers
<1> QED
  BY <1>1, ClientInvariance, StoreImplementsRepository, TypeCorrect, PTL

-----------------------------------------------------------------------------
(* What the process has in its map, or is about to, or somebody got from   *)
(* it, has not been written over by a leaked buffer: that comes when a     *)
(* process is at its end, and the next one begins with an empty map.       *)
MapClean == \A k \in Keys : process = "running" /\ downloadServers[k] # None => overlaid[k] = {}
ClientClean(c) ==
  /\ inbox[c] # None => process = "running" /\ overlaid[Hash[inbox[c]]] = {}
  /\ at[c] = "update" /\ isOpen[c] => overlaid[Key(c)] = {}
  /\ at[c] = "uploadOdd" => process = "running" /\ "even" \notin overlaid[Key(c)]
  /\ Downloading(c) /\ sameProcess[c] => process = "running" /\ overlaid[Key(c)] = {}
Clean == MapClean /\ \A c \in Handlers : ClientClean(c)

(* Of what a process that runs is written over, uploads only take away.    *)
LEMMA OverlaidShrinks ==
  ASSUME ClientType, [StoreNext]_vars, ~(\E leak \in leaked : FlushLeaked(leak)), NEW k \in Keys
  PROVE  overlaid'[k] \subseteq overlaid[k]
<1>1. ASSUME NEW c \in Handlers,
             \/ UploadEven(c) \/ UploadOdd(c)
             \/ Uploads(c) /\ \E n \in 0 .. Len(LinesOf(c)) : \E m \in 0 .. n : UploadFails(c, n, m)
      PROVE  overlaid'[k] \subseteq overlaid[k]
  <2>1. overlaid' = [overlaid EXCEPT ![Key(c)] = @ \ {PartOf(c)}]
    BY <1>1 DEF UploadEven, UploadOdd, UploadFails, Store
  <2> QED
    BY <2>1 DEF ClientType, HistoryTyped
<1>2. ASSUME NEW c \in Handlers,
             \/ Connect(c) \/ Quit(c) \/ Abandon(c) \/ Disconnect(c)
             \/ \E n \in Names, f \in Files : GetServersUpload(c, n, f)
             \/ UpdateFilesList(c) \/ HandleInput(c) \/ Discovery(c)
             \/ \E n \in Names : GetServersDownload(c, n) \/ ServersNotFound(c, n)
             \/ NoPart(c) \/ ReceiveLine(c) \/ DownloadEven(c) \/ DownloadOdd(c)
      PROVE  UNCHANGED overlaid
  BY <1>2 DEF Connect, Quit, Abandon, Disconnect, GetServersUpload, UpdateFilesList, HandleInput,
       Discovery, GetServersDownload, ServersNotFound, NoPart, ReceiveLine, DownloadEven,
       DownloadOdd, storeVars
<1>3. CASE ProcessStep \/ UNCHANGED vars
  BY <1>3 DEF ProcessStep, vars, storeVars
<1> QED
  BY <1>1, <1>2, <1>3 DEF StoreNext

(* What one client does concerns the others only by what it uploads.       *)
LEMMA OthersClean ==
  ASSUME Clean, NEW c \in Handlers, NEW d \in Handlers, ClientType,
         UNCHANGED <<process, at[d], name[d], inbox[d], sameProcess[d]>>, isOpen'[d] => isOpen[d],
         \A k \in Keys : overlaid'[k] \subseteq overlaid[k]
  PROVE  ClientClean(d)'
<1>1. ClientClean(d)
  BY DEF Clean
<1>2. inbox[d] # None => Hash[inbox[d]] \in Keys
  BY RepositoryAssumption DEF ClientType, ConnectionsTyped
<1>3. at[d] \notin {"out", "menu"} => Key(d) \in Keys /\ Key(d)' = Key(d)
  BY RepositoryAssumption DEF ClientType, Scope, Key
<1> QED
  BY <1>1, <1>2, <1>3 DEF ClientClean, Downloading

LEMMA CleanUpload ==
  ASSUME ClientType, Clean, NEW c \in Handlers,
         \/ UploadEven(c) \/ UploadOdd(c)
         \/ Uploads(c) /\ \E n \in 0 .. Len(LinesOf(c)) : \E m \in 0 .. n : UploadFails(c, n, m),
         \A k \in Keys : overlaid'[k] \subseteq overlaid[k]
  PROVE  Clean'
<1>1. /\ UNCHANGED <<repositoryVars, inbox, sameProcess>> /\ process = "running"
      /\ overlaid' = [overlaid EXCEPT ![Key(c)] = @ \ {PartOf(c)}]
  BY DEF UploadEven, UploadOdd, UploadFails, Uploads, Store, connectionVars
<1>2. UNCHANGED <<process, downloadServers, isOpen>>
  BY <1>1 DEF repositoryVars, handlerVars
<1>3. \A d \in Handlers : d # c => UNCHANGED <<at[d], name[d]>>
  BY DEF UploadEven, UploadOdd, UploadFails, Goes, BackToMenu, localVars, ClientType, PlacesTyped,
         LocalsTyped
<1>4. MapClean'
  BY <1>2 DEF Clean, MapClean
<1>5. Key(c) \in Keys /\ at[c] \in {"uploadEven", "uploadOdd"}
  BY RepositoryAssumption DEF UploadEven, UploadOdd, UploadFails, Uploads, ClientType, Scope, Key
<1>6. ClientClean(c)'
  <2>1. inbox[c] # None => process = "running" /\ overlaid'[Hash[inbox[c]]] = {}
    <3>1. inbox[c] # None => overlaid[Hash[inbox[c]]] = {} /\ Hash[inbox[c]] \in Keys
      BY RepositoryAssumption DEF Clean, ClientClean, ClientType, ConnectionsTyped
    <3> QED
      BY <1>1, <3>1
  <2>2. CASE UploadEven(c)
    <3>1. at'[c] = "uploadOdd" /\ Key(c)' = Key(c) /\ PartOf(c) = "even"
      BY <2>2 DEF UploadEven, Goes, Key, PartOf, localVars, ClientType, PlacesTyped
    <3>2. "even" \notin overlaid'[Key(c)]
      BY <1>1, <1>5, <3>1 DEF ClientType, HistoryTyped
    <3> QED
      BY <1>1, <1>2, <2>1, <3>1, <3>2 DEF ClientClean, Downloading
  <2>3. CASE UploadOdd(c)
    <3>1. /\ at[c] = "uploadOdd" /\ at'[c] = "update" /\ Key(c)' = Key(c) /\ PartOf(c) = "odd"
      BY <2>3 DEF UploadOdd, Goes, Key, PartOf, localVars, ClientType, PlacesTyped
    <3>2. "even" \notin overlaid[Key(c)] /\ overlaid[Key(c)] \subseteq {"even", "odd"}
      BY <1>5, <3>1 DEF Clean, ClientClean, ClientType, HistoryTyped, Parts
    <3>3. overlaid'[Key(c)] = {}
      BY <1>1, <1>5, <3>1, <3>2 DEF ClientType, HistoryTyped
    <3> QED
      BY <1>1, <1>2, <2>1, <3>1, <3>3 DEF ClientClean, Downloading
  <2>4. CASE \E n \in 0 .. Len(LinesOf(c)) : \E m \in 0 .. n : UploadFails(c, n, m)
    <3>1. at'[c] = "menu"
      BY <2>4 DEF UploadFails, BackToMenu, Goes, ClientType, PlacesTyped
    <3> QED
      BY <1>1, <1>2, <2>1, <3>1 DEF ClientClean, Downloading
  <2> QED
    BY <2>2, <2>3, <2>4
<1>7. ASSUME NEW d \in Handlers, d # c PROVE ClientClean(d)'
  BY <1>1, <1>2, <1>3, <1>7, OthersClean
<1> QED
  BY <1>4, <1>6, <1>7 DEF Clean

LEMMA CleanClient ==
  ASSUME TypeOK, ClientType, Clean, NEW c \in Handlers,
         \/ Connect(c) \/ Quit(c) \/ Abandon(c) \/ Disconnect(c)
         \/ \E n \in Names, f \in Files : GetServersUpload(c, n, f)
         \/ UpdateFilesList(c) \/ HandleInput(c) \/ Discovery(c)
         \/ \E n \in Names : GetServersDownload(c, n) \/ ServersNotFound(c, n)
         \/ NoPart(c) \/ ReceiveLine(c) \/ DownloadEven(c) \/ DownloadOdd(c)
  PROVE  Clean'
<1>1. UNCHANGED <<process, overlaid>>
  BY DEF Connect, Quit, Abandon, Disconnect, GetServersUpload, UpdateFilesList, HandleInput,
       Discovery, GetServersDownload, ServersNotFound, NoPart, ReceiveLine, DownloadEven,
       DownloadOdd, storeVars, repositoryVars, Open, HandleClose, HandleUpdateFilesList,
       HandleDiscovery
<1>2. \A d \in Handlers : d # c =>
        UNCHANGED <<at[d], name[d], inbox[d], sameProcess[d], isOpen[d]>>
  BY DEF Connect, Quit, Abandon, Disconnect, GetServersUpload, UpdateFilesList, HandleInput,
       Discovery, GetServersDownload, ServersNotFound, NoPart, ReceiveLine, DownloadEven,
       DownloadOdd, repositoryVars, handlerVars, localVars, resultVars, connectionVars, Goes,
       BackToMenu, ClearResults, Open, HandleClose, HandleUpdateFilesList, HandleDiscovery,
       TypeOK, ClientType, PlacesTyped, LocalsTyped, ResultsTyped, ConnectionsTyped
<1>3. ASSUME NEW d \in Handlers, d # c PROVE ClientClean(d)'
  BY <1>1, <1>2, <1>3, OthersClean
<1>4. ClientClean(c)
  BY DEF Clean
<1>5. CASE HandleInput(c)
  <2>1. /\ inbox[c] \in Names /\ overlaid[Hash[inbox[c]]] = {}
        /\ inbox'[c] = None /\ UNCHANGED <<at, localVars, resultVars, isOpen>>
    BY <1>4, <1>5 DEF HandleInput, HandleUpdateFilesList, ClientClean, ClientType,
         ConnectionsTyped
  <2>2. \A k \in Keys : k # Hash[inbox[c]] => downloadServers'[k] = downloadServers[k]
    BY <1>5 DEF HandleInput, HandleUpdateFilesList, Insert, TypeOK
  <2>3. MapClean'
    BY <1>1, <2>1, <2>2 DEF Clean, MapClean
  <2>4. ClientClean(c)'
    BY <1>1, <1>4, <2>1 DEF ClientClean, Downloading, Key, localVars, resultVars
  <2> QED
    BY <1>3, <2>3, <2>4 DEF Clean
<1>6. CASE ~HandleInput(c)
  <2>1. UNCHANGED downloadServers
    BY <1>6 DEF Connect, Quit, Abandon, Disconnect, GetServersUpload, UpdateFilesList,
         Discovery, GetServersDownload, ServersNotFound, NoPart, ReceiveLine, DownloadEven,
         DownloadOdd, repositoryVars, Open, HandleClose, HandleDiscovery
  <2>2. MapClean'
    BY <1>1, <2>1 DEF Clean, MapClean
  <2>3. CASE UpdateFilesList(c)
    <3>1. /\ at[c] = "update" /\ at'[c] = "menu" /\ name[c] \in Names
          /\ UNCHANGED repositoryVars
      BY <2>3 DEF UpdateFilesList, BackToMenu, Goes, ClientType, PlacesTyped, Scope
    <3>2. inbox'[c] # None /\ inbox'[c] # inbox[c] =>
            process = "running" /\ isOpen[c] /\ inbox'[c] = name[c]
      BY <2>3 DEF UpdateFilesList, Serves, connectionVars, ClientType, ConnectionsTyped
    <3>3. inbox'[c] # None => process = "running" /\ overlaid[Hash[inbox'[c]]] = {}
      BY <1>4, <3>1, <3>2 DEF ClientClean, Key
    <3>4. ClientClean(c)'
      BY <1>1, <3>1, <3>3 DEF ClientClean, Downloading
    <3> QED
      BY <1>3, <2>2, <3>4 DEF Clean
  <2>4. CASE \/ Connect(c) \/ Quit(c) \/ Abandon(c) \/ NoPart(c) \/ DownloadOdd(c)
             \/ \E n \in Names, f \in Files : GetServersUpload(c, n, f)
    <3>1. at'[c] \in {"out", "menu", "uploadEven"} /\ UNCHANGED inbox
      BY <2>4 DEF Connect, Quit, Abandon, NoPart, DownloadOdd, GetServersUpload, BackToMenu, Goes,
           connectionVars, ClientType, PlacesTyped
    <3>2. ClientClean(c)'
      BY <1>1, <1>4, <3>1 DEF ClientClean, Downloading
    <3> QED
      BY <1>3, <2>2, <3>2 DEF Clean
  <2>5. CASE Disconnect(c)
    <3>1. inbox'[c] = None /\ UNCHANGED <<at, name, sameProcess>> /\ ~isOpen'[c]
      BY <2>5 DEF Disconnect, HandleClose, localVars, resultVars, ClientType, ConnectionsTyped,
           TypeOK
    <3>2. ClientClean(c)'
      BY <1>1, <1>4, <3>1 DEF ClientClean, Downloading, Key
    <3> QED
      BY <1>3, <2>2, <3>2 DEF Clean
  <2>6. CASE Discovery(c) \/ \E n \in Names : ServersNotFound(c, n)
    <3>1. at[c] = "menu" /\ UNCHANGED <<at, inbox>>
      BY <2>6 DEF Discovery, ServersNotFound, Asks, connectionVars
    <3>2. ClientClean(c)'
      BY <1>1, <1>4, <3>1 DEF ClientClean, Downloading
    <3> QED
      BY <1>3, <2>2, <3>2 DEF Clean
  <2>7. ASSUME NEW n \in Names, GetServersDownload(c, n) PROVE Clean'
    <3>1. /\ at'[c] = "downloadEven" /\ name'[c] = n /\ UNCHANGED inbox
          /\ process = "running" /\ downloadServers[Hash[n]] # None
      BY <2>7 DEF GetServersDownload, Asks, Serves, DownloadServers, Goes, connectionVars,
           ClientType, PlacesTyped, LocalsTyped
    <3>2. Hash[n] \in Keys
      BY RepositoryAssumption
    <3>3. overlaid[Hash[n]] = {}
      BY <3>1, <3>2 DEF Clean, MapClean
    <3>4. ClientClean(c)'
      BY <1>1, <1>4, <3>1, <3>3 DEF ClientClean, Downloading, Key
    <3> QED
      BY <1>3, <2>2, <3>4 DEF Clean
  <2>8. CASE ReceiveLine(c) \/ DownloadEven(c)
    <3>1. /\ Downloading(c) /\ at'[c] \in {"downloadEven", "downloadOdd"}
          /\ UNCHANGED <<name, inbox, sameProcess>>
      BY <2>8 DEF ReceiveLine, DownloadEven, PartEnds, Downloads, Downloading, Goes, resultVars,
           connectionVars, ClientType, PlacesTyped
    <3>2. ClientClean(c)'
      BY <1>1, <1>4, <3>1 DEF ClientClean, Downloading, Key
    <3> QED
      BY <1>3, <2>2, <3>2 DEF Clean
  <2> QED
    BY <1>6, <2>3, <2>4, <2>5, <2>6, <2>7, <2>8
<1> QED
  BY <1>5, <1>6

(* A process that ends leaves no client with anything of it.               *)
LEMMA CleanServer ==
  ASSUME DownHasNoHandlers, ClientType, Clean,
         \/ ProcessStep \/ UNCHANGED vars
         \/ \E leak \in leaked : FlushLeaked(leak)
  PROVE  Clean'
<1>1. CASE UNCHANGED vars
  BY <1>1 DEF vars, repositoryVars, handlerVars, storeVars, localVars, resultVars, connectionVars,
       Clean, MapClean, ClientClean, Downloading, Key
<1>2. CASE (SignalHandler \/ Kill) /\ CutTransfers
  <2>1. process' = "down" /\ \A c \in Handlers : ~isOpen'[c]
    BY <1>2 DEF SignalHandler, Kill
  <2>2. ASSUME NEW c \in Handlers
        PROVE  /\ inbox'[c] = None /\ at'[c] # "uploadOdd"
               /\ ~(Downloading(c)' /\ sameProcess'[c])
    BY <1>2 DEF CutTransfers, Downloading
  <2> QED
    BY <2>1, <2>2 DEF Clean, MapClean, ClientClean
<1>3. CASE /\ Restart
           /\ UNCHANGED <<at, localVars, resultVars, connectionVars, overlaid>>
  <2>1. /\ process = "down" /\ downloadServers' = [k \in Keys |-> None] /\ UNCHANGED isOpen
    BY <1>3 DEF Restart, handlerVars
  <2>2. MapClean'
    BY <2>1 DEF MapClean
  <2>3. ASSUME NEW c \in Handlers PROVE ClientClean(c)'
    <3>1. ClientClean(c) /\ ~isOpen[c]
      BY <2>1 DEF Clean, DownHasNoHandlers
    <3> QED
      BY <1>3, <2>1, <3>1 DEF ClientClean, Downloading, localVars, resultVars, connectionVars
  <2> QED
    BY <2>2, <2>3 DEF Clean
<1>4. ASSUME NEW leak \in leaked, FlushLeaked(leak) PROVE Clean'
  <2>1. process = "down" /\ UNCHANGED <<repositoryVars, at, localVars, resultVars, connectionVars>>
    BY <1>4 DEF FlushLeaked
  <2>2. UNCHANGED <<process, isOpen, inbox, sameProcess>>
    BY <2>1 DEF repositoryVars, handlerVars, resultVars, connectionVars
  <2>3. ASSUME NEW c \in Handlers PROVE ClientClean(c)'
    <3>1. ClientClean(c) /\ ~isOpen[c]
      BY <2>1 DEF Clean, DownHasNoHandlers
    <3> QED
      BY <2>1, <2>2, <3>1 DEF ClientClean, Downloading
  <2> QED
    BY <2>1, <2>2, <2>3 DEF Clean, MapClean
<1> QED
  BY <1>1, <1>2, <1>3, <1>4 DEF ProcessStep

LEMMA CleanStep ==
  ASSUME TypeOK, DownHasNoHandlers, ClientType, Clean, [StoreNext]_vars
  PROVE  Clean'
<1>1. CASE \/ ProcessStep \/ UNCHANGED vars
           \/ \E leak \in leaked : FlushLeaked(leak)
  BY <1>1, CleanServer
<1>2. CASE ~(\E leak \in leaked : FlushLeaked(leak))
  <2>1. \A k \in Keys : overlaid'[k] \subseteq overlaid[k]
    BY <1>2, OverlaidShrinks
  <2> QED
    BY <1>1, <2>1, CleanUpload, CleanClient DEF StoreNext
<1> QED
  BY <1>1, <1>2

LEMMA CleanInvariance == StoreSpec => []Clean
<1>1. StoreInit => Clean
  BY DEF StoreInit, Init, Clean, MapClean, ClientClean, Downloading
<1>2. IInv /\ ClientType /\ Clean /\ [StoreNext]_vars => Clean'
  BY CleanStep DEF IInv
<1> QED
  BY <1>1, <1>2, ClientInvariance, StoreImplementsRepository, Invariance, PTL DEF StoreSpec

-----------------------------------------------------------------------------
(* What is settled is what both parts are of, if no leaked buffer has been *)
(* written over them ...                                                   *)
SettledIsStored ==
  \A k \in Keys : settled[k] # None =>
    /\ "even" \notin overlaid[k] => stored[k]["even"] = EvenLines(settled[k].lines)
    /\ "odd" \notin overlaid[k] => stored[k]["odd"] = OddLines(settled[k].lines)

(* ... which is half true when only the even part has been stored.         *)
WriterStored ==
  \A c \in Handlers :
    at[c] = "uploadOdd" /\ writer[Key(c)] = c
      => stored[Key(c)]["even"] = EvenLines(origin[c].lines)

(* A client whose download nobody has disturbed is sent what is settled,   *)
(* and was sent it as the even part.                                       *)
SentSettled ==
  \A c \in Handlers : Downloading(c) /\ expected[c] # None /\ sameProcess[c] =>
    /\ expected[c] = settled[Key(c)]
    /\ announced[c] \in {None, Content(c)}
    /\ at[c] = "downloadOdd" => evenPart[c] = EvenLines(expected[c].lines)

QuietInv ==
  ClientType /\ SettledIsStored /\ WriterStored /\ SentSettled /\ QuietDownload

(* A part is stored: who was being sent the file is not undisturbed.       *)
LEMMA UploadQuiet ==
  ASSUME QuietInv, NEW c \in Handlers,
         \/ UploadEven(c) \/ UploadOdd(c)
         \/ Uploads(c) /\ \E n \in 0 .. Len(LinesOf(c)) : \E m \in 0 .. n : UploadFails(c, n, m)
  PROVE  SettledIsStored' /\ WriterStored' /\ SentSettled' /\ QuietDownload'
<1> USE RepositoryAssumption, StoreAssumption
<1>1. /\ name[c] \in Names /\ name[c] # None /\ Key(c) \in Keys /\ origin[c] \in Files
      /\ at[c] \in {"uploadEven", "uploadOdd"}
  BY DEF UploadEven, UploadOdd, Uploads, QuietInv, ClientType, Scope, Key
<1>2. PICK lines : Store(c, lines) /\ (UploadEven(c) \/ UploadOdd(c) => lines = LinesOf(c))
  BY DEF UploadEven, UploadOdd, UploadFails
<1>3. /\ stored' = [stored EXCEPT ![Key(c)][PartOf(c)] = lines]
      /\ overlaid' = [overlaid EXCEPT ![Key(c)] = @ \ {PartOf(c)}]
      /\ UNCHANGED <<output, sameProcess>>
      /\ expected' = [d \in Handlers |->
                        IF name[d] # None /\ Key(d) = Key(c) THEN None ELSE expected[d]]
  BY <1>2 DEF Store
<1>4. \A k \in Keys : k # Key(c) => stored'[k] = stored[k] /\ overlaid'[k] = overlaid[k]
  BY <1>3 DEF QuietInv, ClientType, PartsTyped, HistoryTyped
<1>5. \A k \in Keys : k # Key(c) => settled'[k] = settled[k] /\ writer'[k] = writer[k]
  BY DEF UploadEven, UploadOdd, UploadFails, QuietInv, ClientType, HistoryTyped
<1>6. /\ \A d \in Handlers : d # c => at'[d] = at[d] /\ UNCHANGED <<name[d], origin[d]>>
      /\ ~Downloading(c)'
      /\ UNCHANGED <<announced, evenPart>> \/ BackToMenu(c)
  BY DEF UploadEven, UploadOdd, UploadFails, BackToMenu, Goes, Downloading, localVars,
         QuietInv, ClientType, PlacesTyped, LocalsTyped
<1>7. \A d \in Handlers : d # c => UNCHANGED <<announced[d], evenPart[d]>>
  BY <1>6 DEF BackToMenu, NoTransfer, QuietInv, ClientType, LocalsTyped
<1>8. QuietDownload'
  BY <1>3 DEF QuietInv, QuietDownload
<1>9. SentSettled'
  <2> SUFFICES ASSUME NEW d \in Handlers, Downloading(d)', expected'[d] # None,
                      sameProcess'[d]
               PROVE  /\ expected'[d] = settled'[Key(d)']
                      /\ announced'[d] \in {None, Content(d)'}
                      /\ at'[d] = "downloadOdd" => evenPart'[d] = EvenLines(expected'[d].lines)
    BY DEF SentSettled
  <2>1. d # c /\ Downloading(d) /\ name[d] \in Names /\ name[d] # None
    BY <1>6 DEF Downloading, QuietInv, ClientType, Scope
  <2>2. /\ Key(d) # Key(c) /\ Key(d) \in Keys /\ expected'[d] = expected[d] /\ Key(d)' = Key(d)
        /\ sameProcess[d]
    BY <1>3, <1>6, <2>1 DEF Key
  <2>3. Content(d)' = Content(d)
    BY <1>4, <1>6, <2>1, <2>2 DEF Content, PartOf
  <2>4. settled'[Key(d)] = settled[Key(d)]
    BY <1>5, <2>2
  <2> QED
    BY <1>6, <1>7, <2>1, <2>2, <2>3, <2>4 DEF QuietInv, SentSettled
<1>10. CASE UploadEven(c)
  <2>1. /\ PartOf(c) = "even" /\ lines = EvenLines(origin[c].lines)
        /\ settled'[Key(c)] = None /\ writer'[Key(c)] = c
        /\ UNCHANGED <<name, origin>>
    BY <1>1, <1>2, <1>10 DEF UploadEven, PartOf, LinesOf, DivideFile, Written, localVars,
         QuietInv, ClientType, HistoryTyped
  <2>2. stored'[Key(c)]["even"] = EvenLines(origin[c].lines)
    BY <1>1, <1>3, <2>1 DEF QuietInv, ClientType, PartsTyped, Parts
  <2>3. SettledIsStored'
    BY <1>4, <1>5, <2>1 DEF SettledIsStored, QuietInv
  <2>4. WriterStored'
    <3> SUFFICES ASSUME NEW d \in Handlers, at'[d] = "uploadOdd", writer'[Key(d)] = d
                 PROVE  stored'[Key(d)]["even"] = EvenLines(origin[d].lines)
      BY <2>1 DEF WriterStored, Key
    <3>1. CASE d = c
      BY <2>2, <3>1
    <3>2. CASE d # c
      <4>1. at[d] = "uploadOdd" /\ Key(d) \in Keys
        BY <1>6, <3>2 DEF QuietInv, ClientType, Scope, Key
      <4>2. Key(d) # Key(c)
        BY <2>1, <3>2
      <4> QED
        BY <1>4, <1>5, <4>1, <4>2 DEF QuietInv, WriterStored
    <3> QED
      BY <3>1, <3>2
  <2> QED
    BY <1>8, <1>9, <2>3, <2>4
<1>11. CASE UploadOdd(c) \/ \E n \in 0 .. Len(LinesOf(c)) : \E m \in 0 .. n : UploadFails(c, n, m)
  <2>1. writer'[Key(c)] = None /\ at'[c] # "uploadOdd"
    BY <1>1, <1>11 DEF UploadOdd, UploadFails, BackToMenu, Goes, QuietInv, ClientType,
         HistoryTyped, PlacesTyped
  <2>2. WriterStored'
    <3> SUFFICES ASSUME NEW d \in Handlers, at'[d] = "uploadOdd", writer'[Key(d)'] = d
                 PROVE  stored'[Key(d)']["even"] = EvenLines(origin'[d].lines)
      BY DEF WriterStored
    <3>1. d # c /\ at[d] = "uploadOdd" /\ Key(d)' = Key(d) /\ Key(d) \in Keys
          /\ origin'[d] = origin[d]
      BY <1>6, <2>1 DEF QuietInv, ClientType, Scope, Key
    <3>2. Key(d) # Key(c)
      BY <2>1, <3>1
    <3> QED
      BY <1>4, <1>5, <3>1, <3>2 DEF QuietInv, WriterStored
  <2>3. settled'[Key(c)] # None =>
          /\ UploadOdd(c) /\ writer[Key(c)] = c /\ settled'[Key(c)] = origin[c]
    BY <1>1, <1>11 DEF UploadOdd, UploadFails, QuietInv, ClientType, HistoryTyped
  <2>4. SettledIsStored'
    <3> SUFFICES ASSUME NEW k \in Keys, settled'[k] # None
                 PROVE  /\ "even" \notin overlaid'[k]
                             => stored'[k]["even"] = EvenLines(settled'[k].lines)
                        /\ "odd" \notin overlaid'[k]
                             => stored'[k]["odd"] = OddLines(settled'[k].lines)
      BY DEF SettledIsStored
    <3>1. CASE k # Key(c)
      BY <1>4, <1>5, <3>1 DEF QuietInv, SettledIsStored
    <3>2. CASE k = Key(c)
      <4>1. /\ UploadOdd(c) /\ writer[k] = c /\ settled'[k] = origin[c]
        BY <2>3, <3>2
      <4>2. at[c] = "uploadOdd" /\ PartOf(c) = "odd" /\ lines = OddLines(origin[c].lines)
        BY <1>2, <4>1 DEF UploadOdd, PartOf, LinesOf, DivideFile, Written
      <4>3. stored[k]["even"] = EvenLines(origin[c].lines)
        BY <3>2, <4>1, <4>2 DEF QuietInv, WriterStored
      <4>4. stored'[k]["even"] = stored[k]["even"] /\ stored'[k]["odd"] = lines
        BY <1>1, <1>3, <3>2, <4>2 DEF QuietInv, ClientType, PartsTyped, Parts
      <4> QED
        BY <4>1, <4>2, <4>3, <4>4
    <3> QED
      BY <3>1, <3>2
  <2> QED
    BY <1>8, <1>9, <2>2, <2>4
<1> QED
  BY <1>10, <1>11

(* Nothing is stored, and who is downloading goes on or gives up.          *)
LEMMA ElsewhereQuiet ==
  ASSUME QuietInv, UNCHANGED storeVars, NEW c \in Handlers,
         \A d \in Handlers : d # c =>
           UNCHANGED <<at[d], name[d], origin[d], announced[d], evenPart[d], output[d],
                       expected[d], sameProcess[d]>>
  PROVE  /\ SettledIsStored'
         /\ at'[c] # "uploadOdd" => WriterStored'
         /\ ~Downloading(c)' => SentSettled'
         /\ (output'[c] # None /\ expected'[c] # None /\ sameProcess'[c]
               => output'[c] = Written(expected'[c].lines)) => QuietDownload'
<1>1. SettledIsStored'
  BY DEF storeVars, SettledIsStored, QuietInv
<1>2. at'[c] # "uploadOdd" => WriterStored'
  BY DEF storeVars, WriterStored, QuietInv, Key
<1>3. ~Downloading(c)' => SentSettled'
  <2> SUFFICES ASSUME ~Downloading(c)', NEW d \in Handlers, Downloading(d)', expected'[d] # None,
                      sameProcess'[d]
               PROVE  /\ expected'[d] = settled'[Key(d)']
                      /\ announced'[d] \in {None, Content(d)'}
                      /\ at'[d] = "downloadOdd" => evenPart'[d] = EvenLines(expected'[d].lines)
    BY DEF SentSettled
  <2>1. d # c /\ Downloading(d) /\ Key(d)' = Key(d)
    BY DEF Downloading, Key
  <2>2. Content(d)' = Content(d)
    BY <2>1 DEF Content, PartOf, storeVars
  <2> QED
    BY <2>1, <2>2 DEF storeVars, QuietInv, SentSettled
<1>4. (output'[c] # None /\ expected'[c] # None /\ sameProcess'[c]
         => output'[c] = Written(expected'[c].lines)) => QuietDownload'
  BY DEF QuietInv, QuietDownload
<1> QED
  BY <1>1, <1>2, <1>3, <1>4

LEMMA DownloadQuiet ==
  ASSUME QuietInv, Clean, NEW c \in Handlers,
         ReceiveLine(c) \/ DownloadEven(c) \/ DownloadOdd(c)
  PROVE  SettledIsStored' /\ WriterStored' /\ SentSettled' /\ QuietDownload'
<1> USE RepositoryAssumption, StoreAssumption
<1>1. /\ Downloading(c) /\ name[c] \in Names /\ name[c] # None /\ Key(c) \in Keys
      /\ at[c] # "uploadOdd"
  BY DEF ReceiveLine, DownloadEven, DownloadOdd, PartEnds, Downloads, Downloading, QuietInv,
         ClientType, Scope, Key
<1>2. /\ UNCHANGED storeVars
      /\ \A d \in Handlers : d # c =>
           UNCHANGED <<at[d], name[d], origin[d], announced[d], evenPart[d], output[d],
                       expected[d], sameProcess[d]>>
  BY DEF ReceiveLine, DownloadEven, DownloadOdd, Goes, NoTransfer, BackToMenu, resultVars,
         QuietInv, ClientType, PlacesTyped, LocalsTyped, ResultsTyped
<1>3. at'[c] # "uploadOdd"
  BY <1>1 DEF ReceiveLine, DownloadEven, DownloadOdd, Goes, BackToMenu, QuietInv, ClientType,
         PlacesTyped
<1>4. expected'[c] = expected[c] /\ sameProcess' = sameProcess
  BY DEF ReceiveLine, DownloadEven, DownloadOdd, resultVars
<1>5. expected[c] # None /\ sameProcess[c] =>
        /\ expected[c] = settled[Key(c)] /\ RecvHeader(c) = Content(c)
        /\ expected[c] \in Contents /\ overlaid[Key(c)] = {}
  BY <1>1 DEF QuietInv, SentSettled, RecvHeader, ClientType, ResultsTyped, Clean, ClientClean
<1>6. SettledIsStored' /\ WriterStored'
  BY <1>2, <1>3, ElsewhereQuiet
<1>7. CASE ReceiveLine(c)
  <2>1. UNCHANGED <<at, name, evenPart, output, expected>>
        /\ announced' = [announced EXCEPT ![c] = RecvHeader(c)]
    BY <1>7 DEF ReceiveLine, resultVars
  <2>2. QuietDownload'
    BY <1>4, <2>1 DEF QuietInv, QuietDownload
  <2>3. \A d \in Handlers : Content(d)' = Content(d) /\ Key(d)' = Key(d)
    BY <1>2, <2>1 DEF Content, Key, PartOf, storeVars
  <2>4. announced'[c] = RecvHeader(c)
    BY <2>1 DEF QuietInv, ClientType, LocalsTyped
  <2>5. SentSettled'
    <3> SUFFICES ASSUME NEW d \in Handlers, Downloading(d)', expected'[d] # None,
                        sameProcess'[d]
                 PROVE  /\ expected'[d] = settled'[Key(d)']
                        /\ announced'[d] \in {None, Content(d)'}
                        /\ at'[d] = "downloadOdd" => evenPart'[d] = EvenLines(expected'[d].lines)
      BY DEF SentSettled
    <3>1. Downloading(d) /\ expected[d] # None /\ sameProcess[d]
      BY <1>4, <2>1 DEF Downloading
    <3>2. settled' = settled
      BY <1>2 DEF storeVars
    <3>3. /\ expected[d] = settled[Key(d)]
          /\ announced[d] \in {None, Content(d)}
          /\ at[d] = "downloadOdd" => evenPart[d] = EvenLines(expected[d].lines)
      BY <3>1 DEF QuietInv, SentSettled
    <3>4. announced'[d] \in {None, Content(d)}
      BY <1>2, <1>5, <2>1, <2>4, <3>1, <3>3
    <3> QED
      BY <2>1, <2>3, <3>2, <3>3, <3>4
  <2> QED
    BY <1>6, <2>2, <2>5
<1>8. CASE DownloadEven(c)
  <2>1. /\ at[c] = "downloadEven" /\ at' = [at EXCEPT ![c] = "downloadOdd"]
        /\ evenPart' = [evenPart EXCEPT ![c] = RecvHeader(c)]
        /\ announced' = [announced EXCEPT ![c] = None]
        /\ UNCHANGED <<name, output, expected>>
    BY <1>8 DEF DownloadEven, SumMatches, Goes, NoTransfer, resultVars
  <2>2. at'[c] = "downloadOdd" /\ evenPart'[c] = RecvHeader(c) /\ announced'[c] = None
    BY <2>1 DEF QuietInv, ClientType, PlacesTyped, LocalsTyped
  <2>3. QuietDownload'
    BY <1>4, <2>1 DEF QuietInv, QuietDownload
  <2>4. expected[c] # None /\ sameProcess[c] => RecvHeader(c) = EvenLines(expected[c].lines)
    <3>1. Content(c) = stored[Key(c)]["even"]
      BY <2>1 DEF Content, PartOf
    <3> QED
      BY <1>1, <1>5, <3>1 DEF QuietInv, SettledIsStored
  <2>5. SentSettled'
    <3> SUFFICES ASSUME NEW d \in Handlers, Downloading(d)', expected'[d] # None,
                        sameProcess'[d]
                 PROVE  /\ expected'[d] = settled'[Key(d)']
                        /\ announced'[d] \in {None, Content(d)'}
                        /\ at'[d] = "downloadOdd" => evenPart'[d] = EvenLines(expected'[d].lines)
      BY DEF SentSettled
    <3>1. settled' = settled /\ Key(d)' = Key(d)
      BY <1>2, <2>1 DEF storeVars, Key
    <3>2. CASE d = c
      BY <1>4, <1>5, <2>1, <2>2, <2>4, <3>1, <3>2
    <3>3. CASE d # c
      <4>1. Downloading(d) /\ Content(d)' = Content(d)
        BY <1>2, <3>1, <3>3 DEF Downloading, Content, PartOf, storeVars
      <4> QED
        BY <1>2, <3>1, <3>3, <4>1 DEF QuietInv, SentSettled
    <3> QED
      BY <3>2, <3>3
  <2> QED
    BY <1>6, <2>3, <2>5
<1>9. CASE DownloadOdd(c)
  <2>1. /\ at[c] = "downloadOdd" /\ ~Downloading(c)'
        /\ output'[c] = CombineFile(Written(evenPart[c]), Written(RecvHeader(c)))
    BY <1>9 DEF DownloadOdd, SumMatches, BackToMenu, Goes, Downloading, QuietInv, ClientType,
         PlacesTyped, ResultsTyped
  <2>2. ASSUME expected[c] # None, sameProcess[c] PROVE output'[c] = Written(expected[c].lines)
    <3>1. Content(c) = stored[Key(c)]["odd"]
      BY <2>1 DEF Content, PartOf
    <3>2. RecvHeader(c) = OddLines(expected[c].lines)
      BY <1>1, <1>5, <2>2, <3>1 DEF QuietInv, SettledIsStored
    <3>3. evenPart[c] = EvenLines(expected[c].lines)
      BY <1>1, <2>1, <2>2 DEF QuietInv, SentSettled
    <3>4. output'[c] = CombineFile(DivideFile(expected[c]).even, DivideFile(expected[c]).odd)
      BY <2>1, <3>2, <3>3 DEF DivideFile
    <3> QED
      BY <1>5, <2>2, <3>4, RoundTrip
  <2> QED
    BY <1>2, <1>4, <1>6, <2>1, <2>2, ElsewhereQuiet
<1> QED
  BY <1>7, <1>8, <1>9

LEMMA MenuQuiet ==
  ASSUME QuietInv, NEW c \in Handlers,
         \/ Connect(c) \/ Quit(c) \/ Abandon(c) \/ NoPart(c) \/ Discovery(c) \/ UpdateFilesList(c)
         \/ \E n \in Names, f \in Files : GetServersUpload(c, n, f)
         \/ \E n \in Names : ServersNotFound(c, n)
  PROVE  SettledIsStored' /\ WriterStored' /\ SentSettled' /\ QuietDownload'
<1>1. /\ UNCHANGED storeVars
      /\ \A d \in Handlers : d # c =>
           UNCHANGED <<at[d], name[d], origin[d], announced[d], evenPart[d], output[d],
                       expected[d], sameProcess[d]>>
  BY DEF Connect, Quit, Abandon, NoPart, Discovery, UpdateFilesList, GetServersUpload,
         ServersNotFound, Goes, NoTransfer, BackToMenu, ClearResults, localVars, resultVars,
         QuietInv, ClientType, PlacesTyped, LocalsTyped, ResultsTyped
<1>2. at'[c] # "uploadOdd" /\ ~Downloading(c)'
  BY DEF Connect, Quit, Abandon, NoPart, Discovery, UpdateFilesList, GetServersUpload,
         ServersNotFound, Asks, Goes, BackToMenu, Downloading, QuietInv, ClientType, PlacesTyped
<1>3. output'[c] = None \/ UNCHANGED <<output, expected, sameProcess>>
  BY DEF Connect, Quit, Abandon, NoPart, Discovery, UpdateFilesList, GetServersUpload,
         ServersNotFound, ClearResults, resultVars, QuietInv, ClientType, ResultsTyped
<1>4. output'[c] # None /\ expected'[c] # None /\ sameProcess'[c]
        => output'[c] = Written(expected'[c].lines)
  BY <1>3 DEF QuietInv, QuietDownload
<1> QED
  BY <1>1, <1>2, <1>4, ElsewhereQuiet

(* A download begins with what is settled then.                            *)
LEMMA BeginsQuiet ==
  ASSUME QuietInv, NEW c \in Handlers, NEW n \in Names, GetServersDownload(c, n)
  PROVE  SettledIsStored' /\ WriterStored' /\ SentSettled' /\ QuietDownload'
<1>1. /\ UNCHANGED <<storeVars, origin, announced, evenPart>>
      /\ \A d \in Handlers : d # c =>
           UNCHANGED <<at[d], name[d], origin[d], announced[d], evenPart[d], output[d],
                       expected[d], sameProcess[d]>>
  BY DEF GetServersDownload, Goes, QuietInv, ClientType, PlacesTyped, LocalsTyped, ResultsTyped
<1>2. /\ at[c] = "menu" /\ at'[c] = "downloadEven" /\ name'[c] = n /\ output'[c] = None
      /\ expected'[c] = settled[Hash[n]]
  BY DEF GetServersDownload, Asks, Goes, QuietInv, ClientType, PlacesTyped, LocalsTyped,
         ResultsTyped
<1>3. SettledIsStored' /\ WriterStored' /\ QuietDownload'
  BY <1>1, <1>2, ElsewhereQuiet
<1>4. announced[c] = None
  BY <1>2 DEF QuietInv, ClientType, Scope, Downloading
<1>5. SentSettled'
  <2> SUFFICES ASSUME NEW d \in Handlers, Downloading(d)', expected'[d] # None,
                      sameProcess'[d]
               PROVE  /\ expected'[d] = settled'[Key(d)']
                      /\ announced'[d] \in {None, Content(d)'}
                      /\ at'[d] = "downloadOdd" => evenPart'[d] = EvenLines(expected'[d].lines)
    BY DEF SentSettled
  <2>1. CASE d = c
    BY <1>1, <1>2, <1>4, <2>1 DEF Key, storeVars
  <2>2. CASE d # c
    <3>1. Downloading(d) /\ Content(d)' = Content(d) /\ Key(d)' = Key(d)
      BY <1>1, <2>2 DEF Downloading, Content, PartOf, Key, storeVars
    <3> QED
      BY <1>1, <2>2, <3>1 DEF QuietInv, SentSettled, storeVars
  <2> QED
    BY <2>1, <2>2
<1> QED
  BY <1>3, <1>5

(* The process ends or begins: nothing is stored, and who is still on the  *)
(* way to a download is not on the way to the process that sent it there.  *)
LEMMA ProcessQuiet ==
  ASSUME QuietInv, ProcessStep
  PROVE  SettledIsStored' /\ WriterStored' /\ SentSettled' /\ QuietDownload'
<1>1. UNCHANGED <<stored, writer, settled, overlaid>>
  BY DEF ProcessStep
<1>2. SettledIsStored'
  BY <1>1 DEF QuietInv, SettledIsStored
<1>3. CASE CutTransfers
  <2>1. ASSUME NEW c \in Handlers
        PROVE  /\ at'[c] # "uploadOdd" /\ ~(Downloading(c)' /\ sameProcess'[c])
               /\ sameProcess'[c] => sameProcess[c]
    BY <1>3 DEF CutTransfers, Downloading, QuietInv, ClientType, ResultsTyped
  <2>2. UNCHANGED <<output, expected>>
    BY <1>3 DEF CutTransfers
  <2> QED
    BY <1>2, <2>1, <2>2 DEF QuietInv, WriterStored, SentSettled, QuietDownload
<1>4. CASE UNCHANGED <<at, localVars, resultVars, connectionVars>>
  <2>1. WriterStored' /\ QuietDownload'
    BY <1>1, <1>4 DEF QuietInv, WriterStored, QuietDownload, Key, localVars, resultVars
  <2>2. SentSettled'
    BY <1>1, <1>4 DEF QuietInv, SentSettled, Downloading, Content, PartOf, Key, localVars,
         resultVars
  <2> QED
    BY <1>2, <2>1, <2>2
<1> QED
  BY <1>3, <1>4 DEF ProcessStep

(* A leaked buffer is written: nobody is uploading, and who is on the way  *)
(* to a download is not undisturbed.                                       *)
LEMMA FlushQuiet ==
  ASSUME QuietInv, Clean, NEW leak \in leaked, FlushLeaked(leak)
  PROVE  SettledIsStored' /\ WriterStored' /\ SentSettled' /\ QuietDownload'
<1>1. /\ process = "down" /\ UNCHANGED <<settled, at, output, expected, sameProcess>>
      /\ stored' = [stored EXCEPT ![leak.key][leak.part] =
                      Overwritten(@, leak.offset, leak.lines)]
      /\ overlaid' = [overlaid EXCEPT ![leak.key] = @ \union {leak.part}]
  BY DEF FlushLeaked, resultVars
<1>2. leak.key \in Keys /\ leak.part \in Parts
  BY DEF QuietInv, ClientType, LeaksTyped
<1>3. ASSUME NEW k \in Keys, NEW part \in Parts, part \notin overlaid'[k]
      PROVE  part \notin overlaid[k] /\ stored'[k][part] = stored[k][part]
  BY <1>1, <1>2, <1>3 DEF QuietInv, ClientType, PartsTyped, HistoryTyped
<1>4. SettledIsStored'
  BY <1>1, <1>3 DEF QuietInv, SettledIsStored, Parts
<1>5. \A c \in Handlers : at[c] # "uploadOdd" /\ ~(Downloading(c) /\ sameProcess[c])
  BY <1>1 DEF Clean, ClientClean
<1> QED
  BY <1>1, <1>4, <1>5 DEF QuietInv, WriterStored, SentSettled, QuietDownload, Downloading

LEMMA QuietStep ==
  ASSUME QuietInv, Clean, [StoreNext]_vars
  PROVE  QuietInv'
<1>1. ClientType'
  BY ClientTypeStep DEF QuietInv
<1>2. SettledIsStored' /\ WriterStored' /\ SentSettled' /\ QuietDownload'
  <2>1. CASE \/ UNCHANGED vars
             \/ \E c \in Handlers : HandleInput(c) \/ Disconnect(c)
    <3>1. UNCHANGED <<storeVars, at, localVars, resultVars>>
      BY <2>1 DEF vars, HandleInput, Disconnect
    <3>2. UNCHANGED <<stored, writer, settled, overlaid, at, name, origin, announced, evenPart,
                      output, expected, sameProcess>>
      BY <3>1 DEF storeVars, localVars, resultVars
    <3>3. SettledIsStored' /\ WriterStored' /\ QuietDownload'
      BY <3>2 DEF QuietInv, SettledIsStored, WriterStored, QuietDownload, Key
    <3>4. SentSettled'
      BY <3>2 DEF QuietInv, SentSettled, Downloading, Content, PartOf, Key
    <3> QED
      BY <3>3, <3>4
  <2> QED
    BY <2>1, UploadQuiet, DownloadQuiet, MenuQuiet, BeginsQuiet, ProcessQuiet, FlushQuiet
       DEF StoreNext
<1> QED
  BY <1>1, <1>2 DEF QuietInv

LEMMA InitQuiet == StoreInit => QuietInv
<1>1. StoreInit => SettledIsStored /\ WriterStored /\ SentSettled /\ QuietDownload
  BY DEF StoreInit, SettledIsStored, WriterStored, SentSettled, QuietDownload, Downloading
<1> QED
  BY <1>1, InitTyped DEF QuietInv

(* A download that nothing has disturbed gives the file that was uploaded. *)
THEOREM UndisturbedIsWhole == StoreSpec => []QuietDownload
<1>1. QuietInv /\ Clean /\ [StoreNext]_vars => QuietInv'
  BY QuietStep
<1>2. QuietInv => QuietDownload
  BY DEF QuietInv
<1> QED
  BY <1>1, <1>2, InitQuiet, CleanInvariance, PTL DEF StoreSpec

-----------------------------------------------------------------------------
(* What a handler of the repository has been told, or will be ...          *)
Told(n) == \/ filesList[n] > 0 \/ Holding(n) # {} \/ DownloadServers(n) # None
           \/ \E c \in Handlers : inbox[c] = n
IsStored(n) == \A part \in Parts : stored[Hash[n]][part] # None

(* ... by a client that has stored first one part and then the other.      *)
StoredBefore ==
  \A c \in Handlers :
    /\ at[c] = "uploadOdd" => stored[Key(c)]["even"] # None
    /\ at[c] = "update" => IsStored(name[c])

ListedInv == TypeOK /\ ClientType /\ StoredBefore /\ ListedIsStored

LEMMA ToldIsListed == ListedIsStored <=> \A n \in Names : Told(n) => IsStored(n)
BY DEF ListedIsStored, Told, IsStored

(* A part that is stored is replaced, never removed.                       *)
LEMMA StaysStored ==
  ASSUME ClientType, [StoreNext]_vars, NEW k \in Keys, NEW part \in Parts,
         stored[k][part] # None
  PROVE  stored'[k][part] # None
<1> USE StoreAssumption
<1>1. ASSUME NEW c \in Handlers, at[c] \in {"uploadEven", "uploadOdd"},
             NEW lines \in Seq(Text), Store(c, lines)
      PROVE  stored'[k][part] # None
  <2>1. stored' = [stored EXCEPT ![Key(c)][PartOf(c)] = lines]
    BY <1>1 DEF Store
  <2>2. stored'[k][part] \in {stored[k][part], lines}
    BY <2>1 DEF ClientType, PartsTyped
  <2>3. lines # None
    BY <1>1
  <2> QED
    BY <2>2, <2>3
<1>2. ASSUME NEW c \in Handlers,
             \/ UploadEven(c) \/ UploadOdd(c)
             \/ Uploads(c) /\ \E n \in 0 .. Len(LinesOf(c)) : \E m \in 0 .. n : UploadFails(c, n, m)
      PROVE  stored'[k][part] # None
  <2>1. at[c] \in {"uploadEven", "uploadOdd"} /\ origin[c] \in Files
    BY <1>2 DEF UploadEven, UploadOdd, Uploads, ClientType, Scope
  <2>2. LinesOf(c) \in Seq(Text)
    BY <2>1, DividedTyped DEF LinesOf, PartOf, Parts
  <2>3. CASE UploadEven(c) \/ UploadOdd(c)
    BY <1>1, <2>1, <2>2, <2>3 DEF UploadEven, UploadOdd
  <2>4. CASE \E n \in 0 .. Len(LinesOf(c)) : \E m \in 0 .. n : UploadFails(c, n, m)
    <3>1. PICK n \in 0 .. Len(LinesOf(c)) : \E m \in 0 .. n : UploadFails(c, n, m)
      BY <2>4
    <3>2. PICK m \in 0 .. n : UploadFails(c, n, m)
      BY <3>1
    <3>3. SubSeq(LinesOf(c), 1, m) \in Seq(Text)
      BY <2>2
    <3> QED
      BY <1>1, <2>1, <3>2, <3>3 DEF UploadFails
  <2> QED
    BY <1>2, <2>3, <2>4
<1>3. CASE UNCHANGED stored
  BY <1>3
<1>4. ASSUME NEW leak \in leaked, FlushLeaked(leak) PROVE stored'[k][part] # None
  <2>1. /\ leak.key \in Keys /\ leak.part \in Parts /\ leak.offset \in Nat
        /\ leak.lines \in Seq(Text) /\ stored[leak.key][leak.part] # None
    BY DEF ClientType, LeaksTyped
  <2>2. stored[leak.key][leak.part] \in Seq(Text)
    BY <2>1 DEF ClientType, PartsTyped
  <2>3. PICK lines \in Seq(Text) :
          lines = Overwritten(stored[leak.key][leak.part], leak.offset, leak.lines)
    BY <2>1, <2>2, OverwrittenTyped
  <2>4. stored' = [stored EXCEPT ![leak.key][leak.part] = lines]
    BY <1>4, <2>3 DEF FlushLeaked
  <2>5. stored'[k][part] \in {stored[k][part], lines}
    BY <2>4 DEF ClientType, PartsTyped
  <2>6. lines # None
    OBVIOUS
  <2> QED
    BY <2>5, <2>6
<1> QED
  BY <1>2, <1>3, <1>4 DEF StoreNext, vars, storeVars, Connect, Quit, Abandon, Disconnect,
       GetServersUpload, UpdateFilesList, HandleInput, Discovery, GetServersDownload,
       ServersNotFound, NoPart, ReceiveLine, DownloadEven, DownloadOdd, ProcessStep

LEMMA StaysIsStored ==
  ASSUME ClientType, [StoreNext]_vars, NEW n \in Names, IsStored(n)
  PROVE  IsStored(n)'
<1>1. Hash[n] \in Keys
  BY RepositoryAssumption
<1> QED
  BY <1>1, StaysStored DEF IsStored

(* A step of the repository alone tells nobody anything new.               *)
LEMMA OwnStepTellsNothing ==
  ASSUME TypeOK, NEW n \in Names,
         \/ SignalHandler \/ Kill \/ Restart \/ UNCHANGED repositoryVars
         \/ \E h \in Handlers : Open(h) \/ HandleDiscovery(h) \/ HandleClose(h)
  PROVE  filesList'[n] > 0 \/ Holding(n)' # {} \/ DownloadServers(n)' # None
           => filesList[n] > 0 \/ Holding(n) # {} \/ DownloadServers(n) # None
<1> USE RepositoryAssumption
<1>1. n \in Lines /\ n # None /\ n # Header /\ filesList[n] \in Nat /\ Hash[n] \in Keys
  BY NamesAreLines DEF TypeOK
<1>2. ASSUME NEW h \in Handlers, Flush(h), NEW l \in {None, Header},
             buffer' = [buffer EXCEPT ![h] = l]
      PROVE  filesList'[n] > 0 \/ Holding(n)' # {} => filesList[n] > 0 \/ Holding(n) # {}
  <2>1. filesList'[n] = IF buffer[h] = n THEN filesList[n] + 1 ELSE filesList[n]
    BY <1>1, <1>2 DEF Flush
  <2>2. Holding(n)' \subseteq Holding(n)
    BY <1>1, <1>2 DEF Holding, TypeOK
  <2>3. buffer[h] = n => Holding(n) # {}
    BY DEF Holding
  <2> QED
    BY <2>1, <2>2, <2>3
<1>3. ASSUME NEW h \in Handlers, HandleDiscovery(h) \/ HandleClose(h)
      PROVE  filesList'[n] > 0 \/ Holding(n)' # {} \/ DownloadServers(n)' # None
               => filesList[n] > 0 \/ Holding(n) # {} \/ DownloadServers(n) # None
  <2>1. Flush(h) /\ buffer' = [buffer EXCEPT ![h] = None] /\ UNCHANGED downloadServers
    BY <1>3 DEF HandleDiscovery, HandleClose
  <2> QED
    BY <1>2, <2>1 DEF DownloadServers
<1>4. ASSUME NEW h \in Handlers, Open(h)
      PROVE  filesList'[n] > 0 \/ Holding(n)' # {} \/ DownloadServers(n)' # None
               => filesList[n] > 0 \/ Holding(n) # {} \/ DownloadServers(n) # None
  <2>1. Holding(n)' \subseteq Holding(n)
    BY <1>1, <1>4 DEF Open, Holding, TypeOK
  <2> QED
    BY <1>4, <2>1 DEF Open, DownloadServers
<1>5. CASE SignalHandler
  <2>1. filesList'[n] = filesList[n] + Cardinality(Holding(n))
    BY <1>1, <1>5 DEF SignalHandler
  <2>2. Holding(n) = {} => Cardinality(Holding(n)) = 0
    BY FS_EmptySet
  <2>3. filesList'[n] > 0 => filesList[n] > 0 \/ Holding(n) # {}
    BY <1>1, <2>1, <2>2
  <2>4. Holding(n)' = {} /\ DownloadServers(n)' = DownloadServers(n)
    BY <1>1, <1>5, Emptied DEF SignalHandler, DownloadServers
  <2> QED
    BY <2>3, <2>4
<1>6. CASE Kill
  <2>1. Holding(n)' = {}
    BY <1>1, <1>6, Emptied DEF Kill
  <2> QED
    BY <1>6, <2>1 DEF Kill, diskVars, DownloadServers
<1>7. CASE Restart
  <2>1. downloadServers'[Hash[n]] = None /\ UNCHANGED <<filesList, buffer>>
    BY <1>1, <1>7 DEF Restart, diskVars, handlerVars
  <2> QED
    BY <2>1 DEF DownloadServers, Holding
<1>8. CASE UNCHANGED repositoryVars
  BY <1>8 DEF repositoryVars, diskVars, handlerVars, DownloadServers, Holding
<1> QED
  BY <1>3, <1>4, <1>5, <1>6, <1>7, <1>8

(* A message tells the handler what the client has sent.                   *)
LEMMA InputTellsInbox ==
  ASSUME TypeOK, ClientType, NEW c \in Handlers, HandleInput(c), NEW n \in Names, Told(n)'
  PROVE  \E m \in Names : Hash[m] = Hash[n] /\ Told(m)
<1> USE RepositoryAssumption
<1>1. inbox[c] \in Names /\ Told(inbox[c])
  BY DEF HandleInput, ClientType, ConnectionsTyped, Told
<1>2. PICK m \in Names : m = inbox[c]
  BY <1>1
<1>3. /\ Flush(c) /\ buffer' = [buffer EXCEPT ![c] = m] /\ Insert(m, m_uploadServers)
      /\ inbox' = [inbox EXCEPT ![c] = None]
  BY <1>2 DEF HandleInput, HandleUpdateFilesList
<1>4. n \in Lines /\ n # None /\ filesList[n] \in Nat /\ Hash[n] \in Keys /\ Hash[m] \in Keys
  BY NamesAreLines DEF TypeOK
<1>5. CASE filesList'[n] > 0
  <2>1. filesList'[n] = IF buffer[c] = n THEN filesList[n] + 1 ELSE filesList[n]
    BY <1>3, <1>4 DEF Flush
  <2>2. filesList[n] > 0 \/ buffer[c] = n
    BY <1>4, <1>5, <2>1
  <2>3. Told(n)
    BY <2>2 DEF Told, Holding
  <2> QED
    BY <2>3
<1>6. CASE Holding(n)' # {}
  <2>1. PICK h \in Handlers : buffer'[h] = n
    BY <1>6 DEF Holding
  <2>2. n = m \/ buffer[h] = n
    BY <1>3, <2>1 DEF TypeOK
  <2>3. n = m \/ Holding(n) # {}
    BY <2>2 DEF Holding
  <2> QED
    BY <1>1, <1>2, <2>3 DEF Told
<1>7. CASE DownloadServers(n)' # None
  <2>1. downloadServers'[Hash[n]] # None
    BY <1>7 DEF DownloadServers
  <2>2. Hash[n] = Hash[m] \/ downloadServers'[Hash[n]] = downloadServers[Hash[n]]
    BY <1>3, <1>4 DEF Insert, TypeOK
  <2>3. Hash[n] = Hash[m] \/ DownloadServers(n) # None
    BY <2>1, <2>2 DEF DownloadServers
  <2> QED
    BY <1>1, <1>2, <2>3 DEF Told
<1>8. CASE \E d \in Handlers : inbox'[d] = n
  <2>1. PICK d \in Handlers : inbox'[d] = n
    BY <1>8
  <2>2. inbox[d] = n
    BY <1>3, <1>4, <2>1 DEF ClientType, ConnectionsTyped
  <2> QED
    BY <2>2 DEF Told
<1> QED
  BY <1>5, <1>6, <1>7, <1>8 DEF Told

(* A client goes on without a word to the repository.                      *)
ClientStep(c) ==
  \/ Quit(c) \/ Abandon(c)
  \/ \E n \in Names, f \in Files : GetServersUpload(c, n, f)
  \/ UploadEven(c) \/ UploadOdd(c)
  \/ Uploads(c) /\ \E n \in 0 .. Len(LinesOf(c)) : \E m \in 0 .. n : UploadFails(c, n, m)
  \/ \E n \in Names : GetServersDownload(c, n) \/ ServersNotFound(c, n)
  \/ NoPart(c) \/ ReceiveLine(c) \/ DownloadEven(c) \/ DownloadOdd(c)

LEMMA ClientStepIsQuiet ==
  ASSUME NEW c \in Handlers, ClientStep(c)
  PROVE  UNCHANGED <<repositoryVars, inbox, promised>>
BY DEF ClientStep, Quit, Abandon, GetServersUpload, UploadEven, UploadOdd, UploadFails,
     GetServersDownload, ServersNotFound, NoPart, ReceiveLine, DownloadEven, DownloadOdd,
     connectionVars

LEMMA StoreNextIs ==
  ASSUME StoreNext
  PROVE  \/ \E c \in Handlers : ClientStep(c)
         \/ \E c \in Handlers : Connect(c) \/ Discovery(c) \/ Disconnect(c)
         \/ \E c \in Handlers : UpdateFilesList(c)
         \/ \E c \in Handlers : HandleInput(c)
         \/ ProcessStep
         \/ \E leak \in leaked : FlushLeaked(leak)
BY DEF StoreNext, ClientStep

(* Nobody is told of a name before it is stored.                           *)
LEMMA ListedStep ==
  ASSUME ListedInv, [StoreNext]_vars
  PROVE  ListedIsStored'
<1> USE RepositoryAssumption
<1>1. ASSUME NEW n \in Names, NEW m \in Names, Hash[m] = Hash[n], Told(m) \/ IsStored(m)
      PROVE  IsStored(n)'
  <2>1. IsStored(m)
    BY <1>1, ToldIsListed DEF ListedInv
  <2>2. IsStored(n)
    BY <1>1, <2>1 DEF IsStored
  <2> QED
    BY <2>2, StaysIsStored DEF ListedInv
<1> SUFFICES ASSUME NEW n \in Names, Told(n)' PROVE IsStored(n)'
  BY DEF ListedIsStored, Told, IsStored
<1>2. CASE UNCHANGED inbox /\ UNCHANGED repositoryVars
  <2>1. Told(n)
    BY <1>2 DEF Told, repositoryVars, diskVars, handlerVars, DownloadServers, Holding
  <2> QED
    BY <1>1, <2>1
<1>3. ASSUME \/ SignalHandler \/ Kill \/ Restart
             \/ \E h \in Handlers : Open(h) \/ HandleDiscovery(h) \/ HandleClose(h),
             \A d \in Handlers : inbox'[d] \in {inbox[d], None}
      PROVE  IsStored(n)'
  <2>1. Told(n)
    <3>1. n # None
      OBVIOUS
    <3>2. (\E d \in Handlers : inbox'[d] = n) => \E d \in Handlers : inbox[d] = n
      BY <1>3, <3>1
    <3>3. filesList'[n] > 0 \/ Holding(n)' # {} \/ DownloadServers(n)' # None
            => filesList[n] > 0 \/ Holding(n) # {} \/ DownloadServers(n) # None
      BY <1>3, OwnStepTellsNothing DEF ListedInv
    <3> QED
      BY <3>2, <3>3 DEF Told
  <2> QED
    BY <1>1, <2>1
<1>4. ASSUME NEW c \in Handlers, Connect(c) \/ Discovery(c) \/ Disconnect(c) PROVE IsStored(n)'
  <2>1. Open(c) \/ HandleDiscovery(c) \/ HandleClose(c)
    BY <1>4 DEF Connect, Discovery, Disconnect
  <2>2. \A d \in Handlers : inbox'[d] \in {inbox[d], None}
    BY <1>4 DEF Connect, Discovery, Disconnect, connectionVars, ListedInv, ClientType,
                ConnectionsTyped
  <2> QED
    BY <1>3, <2>1, <2>2
<1>5. CASE ProcessStep
  <2>1. SignalHandler \/ Kill \/ Restart
    BY <1>5 DEF ProcessStep
  <2>2. \A d \in Handlers : inbox'[d] \in {inbox[d], None}
    BY <1>5 DEF ProcessStep, CutTransfers, connectionVars
  <2> QED
    BY <1>3, <2>1, <2>2
<1>6. ASSUME NEW c \in Handlers, HandleInput(c) PROVE IsStored(n)'
  BY <1>1, <1>6, InputTellsInbox DEF ListedInv
<1>7. ASSUME NEW c \in Handlers, UpdateFilesList(c) PROVE IsStored(n)'
  <2>1. at[c] = "update" /\ UNCHANGED repositoryVars
        /\ \A d \in Handlers : inbox'[d] \in {inbox[d], name[c]}
    <3>1. \/ inbox' = [inbox EXCEPT ![c] = name[c]]
          \/ UNCHANGED inbox
      BY <1>7 DEF UpdateFilesList, connectionVars
    <3>2. \A d \in Handlers : inbox'[d] \in {inbox[d], name[c]}
      BY <3>1 DEF ListedInv, ClientType, ConnectionsTyped
    <3> QED
      BY <1>7, <3>2 DEF UpdateFilesList
  <2>2. IsStored(name[c])
    BY <2>1 DEF ListedInv, StoredBefore
  <2>3. Told(n) \/ n = name[c]
    BY <2>1 DEF Told, repositoryVars, diskVars, handlerVars, DownloadServers, Holding
  <2> QED
    BY <1>1, <2>2, <2>3
<1>8. ASSUME NEW c \in Handlers, ClientStep(c) PROVE IsStored(n)'
  BY <1>2, <1>8, ClientStepIsQuiet
<1>9. CASE UNCHANGED vars \/ \E leak \in leaked : FlushLeaked(leak)
  BY <1>2, <1>9 DEF vars, FlushLeaked, connectionVars
<1> QED
  BY <1>4, <1>5, <1>6, <1>7, <1>8, <1>9, StoreNextIs

LEMMA StoredBeforeStep ==
  ASSUME ListedInv, [StoreNext]_vars
  PROVE  StoredBefore'
<1> USE RepositoryAssumption, StoreAssumption
<1> SUFFICES ASSUME NEW d \in Handlers
             PROVE  /\ at'[d] = "uploadOdd" => stored'[Key(d)']["even"] # None
                    /\ at'[d] = "update" => IsStored(name[d])'
  BY DEF StoredBefore, IsStored
<1>1. CASE /\ UNCHANGED name[d]
           /\ at'[d] \in {"uploadOdd", "update"} => at'[d] = at[d]
  <2>1. CASE at'[d] = "uploadOdd"
    <3>1. stored[Key(d)]["even"] # None /\ Key(d) \in Keys /\ Key(d)' = Key(d)
      BY <1>1, <2>1 DEF ListedInv, StoredBefore, ClientType, Scope, Key
    <3> QED
      BY <2>1, <3>1, StaysStored DEF ListedInv, Parts
  <2>2. CASE at'[d] = "update"
    <3>1. IsStored(name[d]) /\ name[d] \in Names
      BY <1>1, <2>2 DEF ListedInv, StoredBefore, ClientType, Scope
    <3>2. PICK n \in Names : n = name[d]
      BY <3>1
    <3>3. IsStored(n)'
      BY <3>1, <3>2, StaysIsStored DEF ListedInv
    <3>4. name'[d] = n
      BY <1>1, <3>2
    <3> QED
      BY <2>2, <3>3, <3>4 DEF IsStored
  <2> QED
    BY <2>1, <2>2
<1>2. CASE at'[d] \notin {"uploadOdd", "update"}
  BY <1>2
<1>3. CASE UploadEven(d) \/ UploadOdd(d)
  <2>1. /\ name[d] \in Names /\ Key(d) \in Keys /\ origin[d] \in Files
        /\ LinesOf(d) \in Seq(Text) /\ LinesOf(d) # None
    BY <1>3, DividedTyped DEF UploadEven, UploadOdd, Uploads, ListedInv, ClientType, Scope, Key,
         LinesOf, PartOf, Parts
  <2>2. /\ stored' = [stored EXCEPT ![Key(d)][PartOf(d)] = LinesOf(d)]
        /\ UNCHANGED name
    BY <1>3 DEF UploadEven, UploadOdd, Store, localVars
  <2>3. CASE UploadEven(d)
    <3>1. PartOf(d) = "even" /\ at'[d] = "uploadOdd"
      BY <2>3 DEF UploadEven, PartOf, Goes, ListedInv, ClientType, PlacesTyped
    <3>2. stored'[Key(d)]["even"] = LinesOf(d)
      BY <2>1, <2>2, <3>1 DEF ListedInv, ClientType, PartsTyped, Parts
    <3> QED
      BY <2>1, <2>2, <3>1, <3>2 DEF Key
  <2>4. CASE UploadOdd(d)
    <3>1. at[d] = "uploadOdd" /\ PartOf(d) = "odd" /\ at'[d] = "update"
      BY <2>4 DEF UploadOdd, PartOf, Goes, ListedInv, ClientType, PlacesTyped
    <3>2. stored'[Key(d)]["odd"] = LinesOf(d)
          /\ stored'[Key(d)]["even"] = stored[Key(d)]["even"]
      BY <2>1, <2>2, <3>1 DEF ListedInv, ClientType, PartsTyped, Parts
    <3>3. stored[Key(d)]["even"] # None
      BY <3>1 DEF ListedInv, StoredBefore
    <3> QED
      BY <2>1, <2>2, <3>1, <3>2, <3>3 DEF Key, IsStored, Parts
  <2> QED
    BY <1>3, <2>3, <2>4
<1>4. \/ UploadEven(d) \/ UploadOdd(d) \/ at'[d] \notin {"uploadOdd", "update"}
      \/ UNCHANGED name[d] /\ (at'[d] \in {"uploadOdd", "update"} => at'[d] = at[d])
  <2>1. ASSUME NEW c \in Handlers,
               \/ Connect(c) \/ Quit(c) \/ Abandon(c) \/ Disconnect(c)
               \/ \E n \in Names, f \in Files : GetServersUpload(c, n, f)
               \/ UploadEven(c) \/ UploadOdd(c)
               \/ Uploads(c) /\ \E n \in 0 .. Len(LinesOf(c)) : \E m \in 0 .. n : UploadFails(c, n, m)
               \/ UpdateFilesList(c) \/ HandleInput(c) \/ Discovery(c)
               \/ \E n \in Names : GetServersDownload(c, n) \/ ServersNotFound(c, n)
               \/ NoPart(c) \/ ReceiveLine(c) \/ DownloadEven(c) \/ DownloadOdd(c)
        PROVE  \/ c = d /\ (UploadEven(d) \/ UploadOdd(d) \/ at'[d] \notin {"uploadOdd", "update"})
               \/ UNCHANGED <<at[d], name[d]>>
    BY <2>1 DEF Connect, Quit, Abandon, Disconnect, GetServersUpload, UploadEven, UploadOdd,
         UploadFails, UpdateFilesList, HandleInput, Discovery, GetServersDownload, ServersNotFound,
         NoPart, ReceiveLine, DownloadEven, DownloadOdd, Goes, BackToMenu, localVars, ListedInv,
         ClientType, PlacesTyped, LocalsTyped
  <2>2. CASE ProcessStep \/ UNCHANGED vars
    <3>1. CASE CutTransfers
      <4>1. at'[d] = "menu" \/ UNCHANGED <<at[d], name[d]>>
        BY <3>1 DEF CutTransfers
      <4> QED
        BY <4>1
    <3>2. CASE UNCHANGED <<at, localVars>>
      BY <3>2 DEF localVars
    <3> QED
      BY <2>2, <3>1, <3>2 DEF ProcessStep, vars
  <2>3. ASSUME NEW leak \in leaked, FlushLeaked(leak) PROVE UNCHANGED <<at[d], name[d]>>
    BY <2>3 DEF FlushLeaked, localVars
  <2> QED
    BY <2>1, <2>2, <2>3 DEF StoreNext
<1> QED
  BY <1>1, <1>2, <1>3, <1>4

(* Whatever the repository lists or finds has been stored.                 *)
THEOREM ToldAfterStored == StoreSpec => []ListedIsStored
<1>1. TypeOK /\ ClientType /\ StoredBefore /\ ListedIsStored /\ [StoreNext]_vars
        => StoredBefore' /\ ListedIsStored'
  BY ListedStep, StoredBeforeStep DEF ListedInv
<1>2. StoreInit => StoredBefore /\ ListedIsStored
  <2> SUFFICES ASSUME StoreInit PROVE StoredBefore /\ ListedIsStored
    OBVIOUS
  <2>1. StoredBefore
    BY DEF StoreInit, StoredBefore
  <2>2. ASSUME NEW n \in Names PROVE ~Told(n)
    <3>1. Hash[n] \in Keys /\ n \in Lines /\ n # None
      BY RepositoryAssumption, NamesAreLines
    <3> QED
      BY <3>1 DEF StoreInit, Init, Told, Holding, DownloadServers
  <2> QED
    BY <2>1, <2>2, ToldIsListed
<1> QED
  BY <1>1, <1>2, ClientInvariance, StoreImplementsRepository, TypeCorrect, PTL DEF StoreSpec

-----------------------------------------------------------------------------
(* What becomes of a promise: it is on its way, or it is found and listed, *)
(* or its line is where the client's own DISCOVERY will flush it.          *)
Kept(c, n) ==
  \/ inbox[c] = n
  \/ /\ DownloadServers(n) # None
     /\ filesList[n] > 0 \/ buffer[c] = n

PromisesKept == \A c \in Handlers : \A n \in promised[c] : Serves(c) /\ Kept(c, n)

(* A client that is doing something has nothing on its way, and one that   *)
(* will announce has been denied nothing since.                            *)
NothingPending ==
  \A c \in Handlers :
    /\ at[c] \notin {"out", "menu"} => inbox[c] = None
    /\ at[c] \in {"uploadEven", "uploadOdd", "update"} => denied[c] = {}

PromiseInv == TypeOK /\ ClientType /\ PromisesKept /\ NothingPending /\ ReadYourWrites

(* Others' steps and one's own leave a promise that the handler has read.  *)
LEMMA FlushKeepsPromise ==
  ASSUME TypeOK, NEW h \in Handlers, Flush(h), NEW c \in Handlers,
         c # h => buffer'[c] = buffer[c],
         NEW n \in Names
  PROVE  (filesList[n] > 0 \/ buffer[c] = n)
           => /\ filesList'[n] > 0 \/ buffer'[c] = n
              /\ c = h => filesList'[n] > 0
<1>1. n \in Lines /\ filesList[n] \in Nat
  BY NamesAreLines DEF TypeOK
<1>2. filesList'[n] = IF buffer[h] = n THEN filesList[n] + 1 ELSE filesList[n]
  BY <1>1 DEF Flush
<1>3. filesList[n] > 0 => filesList'[n] > 0
  BY <1>1, <1>2
<1>4. buffer[c] = n /\ c = h => filesList'[n] > 0
  BY <1>1, <1>2
<1>5. buffer[c] = n /\ c # h => buffer'[c] = n
  OBVIOUS
<1> QED
  BY <1>3, <1>4, <1>5

LEMMA OtherStepsKeep ==
  ASSUME PromiseInv, NEW c \in Handlers, NEW n \in promised[c],
         UNCHANGED <<inbox[c], repositoryVars>>
  PROVE  (Serves(c) /\ Kept(c, n))'
BY DEF PromiseInv, PromisesKept, Serves, Kept, DownloadServers, repositoryVars, diskVars,
       handlerVars

LEMMA ServerStepsKeep ==
  ASSUME PromiseInv, NEW c \in Handlers, NEW n \in promised[c], NEW d \in Handlers,
         \/ Connect(d) \/ Discovery(d)
         \/ HandleInput(d)
         \/ d # c /\ Disconnect(d)
  PROVE  (Serves(c) /\ Kept(c, n))'
<1> USE RepositoryAssumption, StoreAssumption
<1>1. /\ Serves(c) /\ Kept(c, n) /\ n \in Names /\ n \in Lines /\ Hash[n] \in Keys
      /\ n # None
  BY NamesAreLines DEF PromiseInv, PromisesKept, ClientType, ConnectionsTyped
<1>2. CASE Connect(d)
  <2>1. Open(d) /\ d # c /\ UNCHANGED inbox
    BY <1>1, <1>2 DEF Connect, Open, Serves, connectionVars
  <2>2. /\ process' = process /\ isOpen'[c] = isOpen[c] /\ buffer'[c] = buffer[c]
        /\ UNCHANGED <<filesList, downloadServers>>
    BY <2>1 DEF Open, PromiseInv, TypeOK
  <2> QED
    BY <1>1, <2>1, <2>2 DEF Serves, Kept, DownloadServers
<1>3. CASE Discovery(d)
  <2>1. /\ Flush(d) /\ buffer' = [buffer EXCEPT ![d] = None]
        /\ UNCHANGED <<process, isOpen, downloadServers, inbox>>
    BY <1>3 DEF Discovery, HandleDiscovery, connectionVars
  <2>2. TypeOK /\ (c # d => buffer'[c] = buffer[c])
    BY <2>1 DEF PromiseInv, TypeOK
  <2>3. (filesList[n] > 0 \/ buffer[c] = n) => (filesList'[n] > 0 \/ buffer'[c] = n)
    BY <1>1, <2>1, <2>2, FlushKeepsPromise
  <2> QED
    BY <1>1, <2>1, <2>3 DEF Serves, Kept, DownloadServers
<1>4. CASE d # c /\ Disconnect(d)
  <2>1. /\ Flush(d) /\ buffer' = [buffer EXCEPT ![d] = None]
        /\ isOpen' = [isOpen EXCEPT ![d] = FALSE]
        /\ inbox' = [inbox EXCEPT ![d] = None]
        /\ UNCHANGED <<process, downloadServers>>
    BY <1>4 DEF Disconnect, HandleClose
  <2>4. TypeOK /\ (c # d => buffer'[c] = buffer[c])
    BY <2>1 DEF PromiseInv, TypeOK
  <2>2. (filesList[n] > 0 \/ buffer[c] = n) => (filesList'[n] > 0 \/ buffer'[c] = n)
    BY <1>1, <2>1, <2>4, FlushKeepsPromise
  <2>3. isOpen'[c] = isOpen[c] /\ inbox'[c] = inbox[c]
    BY <1>4, <2>1 DEF PromiseInv, TypeOK, ClientType, ConnectionsTyped
  <2> QED
    BY <1>1, <2>1, <2>2, <2>3 DEF Serves, Kept, DownloadServers
<1>5. CASE HandleInput(d)
  <2>1. inbox[d] \in Names /\ inbox[d] \in Lines /\ Hash[inbox[d]] \in Keys
    BY <1>5, NamesAreLines DEF HandleInput, PromiseInv, ClientType, ConnectionsTyped
  <2>2. PICK m \in Names : m = inbox[d]
    BY <2>1
  <2>3. /\ Flush(d) /\ buffer' = [buffer EXCEPT ![d] = m] /\ Insert(m, m_uploadServers)
        /\ inbox' = [inbox EXCEPT ![d] = None]
        /\ UNCHANGED <<process, isOpen>>
    BY <1>5, <2>2 DEF HandleInput, HandleUpdateFilesList
  <2>4. m_uploadServers # None
    OBVIOUS
  <2>5. downloadServers'[Hash[m]] # None
        /\ (downloadServers[Hash[n]] # None => downloadServers'[Hash[n]] # None)
    BY <1>1, <2>1, <2>2, <2>3, <2>4 DEF Insert, PromiseInv, TypeOK
  <2>6. Serves(c)'
    BY <1>1, <2>3 DEF Serves
  <2>7. CASE d = c /\ inbox[c] = n
    <3>1. buffer'[c] = n /\ n = m
      BY <2>2, <2>3, <2>7 DEF PromiseInv, TypeOK
    <3> QED
      BY <2>5, <2>6, <3>1 DEF Kept, DownloadServers
  <2>8. CASE d # c /\ inbox[c] = n
    <3>1. inbox'[c] = n
      BY <2>3, <2>8 DEF PromiseInv, ClientType, ConnectionsTyped
    <3> QED
      BY <2>6, <3>1 DEF Kept
  <2>9. CASE inbox[c] # n
    <3>1. DownloadServers(n) # None /\ (filesList[n] > 0 \/ buffer[c] = n)
      BY <1>1, <2>9 DEF Kept
    <3>3. TypeOK /\ (c # d => buffer'[c] = buffer[c])
      BY <2>3 DEF PromiseInv, TypeOK
    <3>2. filesList'[n] > 0 \/ buffer'[c] = n
      BY <1>1, <2>3, <3>1, <3>3, FlushKeepsPromise
    <3> QED
      BY <2>5, <2>6, <3>1, <3>2 DEF Kept, DownloadServers
  <2> QED
    BY <2>7, <2>8, <2>9
<1> QED
  BY <1>2, <1>3, <1>4, <1>5

LEMMA PromisesStep ==
  ASSUME PromiseInv, [StoreNext]_vars
  PROVE  PromisesKept'
<1> SUFFICES ASSUME NEW c \in Handlers, NEW n \in promised'[c]
             PROVE  (Serves(c) /\ Kept(c, n))'
  BY DEF PromisesKept
<1>1. ASSUME NEW d \in Handlers, ClientStep(d) PROVE (Serves(c) /\ Kept(c, n))'
  <2>1. UNCHANGED <<repositoryVars, inbox, promised>>
    BY <1>1, ClientStepIsQuiet
  <2> QED
    BY <2>1, OtherStepsKeep
<1>2. CASE UNCHANGED vars \/ \E leak \in leaked : FlushLeaked(leak)
  <2>1. UNCHANGED <<repositoryVars, inbox, promised>>
    BY <1>2 DEF vars, FlushLeaked, connectionVars
  <2> QED
    BY <2>1, OtherStepsKeep
<1>3. ASSUME NEW d \in Handlers, Connect(d) \/ Discovery(d) \/ HandleInput(d)
      PROVE  (Serves(c) /\ Kept(c, n))'
  <2>1. promised' = promised
    BY <1>3 DEF Connect, Discovery, HandleInput, connectionVars
  <2> QED
    BY <1>3, <2>1, ServerStepsKeep
<1>4. ASSUME NEW d \in Handlers, Disconnect(d) PROVE (Serves(c) /\ Kept(c, n))'
  <2>1. promised' = [promised EXCEPT ![d] = {}]
    BY <1>4 DEF Disconnect
  <2>2. d # c /\ promised'[c] = promised[c]
    BY <2>1 DEF PromiseInv, ClientType, ConnectionsTyped
  <2> QED
    BY <1>4, <2>2, ServerStepsKeep
<1>5. CASE ProcessStep
  <2>1. CASE Restart /\ UNCHANGED connectionVars
    <3>1. process = "down" /\ n \in promised[c]
      BY <2>1 DEF Restart, connectionVars
    <3> QED
      BY <3>1 DEF PromiseInv, PromisesKept, Serves
  <2>2. CASE promised' = [d \in Handlers |-> {}]
    BY <2>2
  <2> QED
    BY <1>5, <2>1, <2>2 DEF ProcessStep, CutTransfers
<1>6. ASSUME NEW d \in Handlers, UpdateFilesList(d) PROVE (Serves(c) /\ Kept(c, n))'
  <2>1. at[d] = "update" /\ UNCHANGED repositoryVars
    BY <1>6 DEF UpdateFilesList
  <2>2. inbox[d] = None
    BY <2>1 DEF PromiseInv, NothingPending
  <2>3. CASE ~Serves(d)
    <3>1. UNCHANGED <<repositoryVars, inbox, promised>>
      BY <1>6, <2>3 DEF UpdateFilesList, connectionVars
    <3> QED
      BY <3>1, OtherStepsKeep
  <2>4. CASE Serves(d)
    <3>1. /\ inbox' = [inbox EXCEPT ![d] = name[d]]
          /\ promised' = [promised EXCEPT ![d] = @ \union {name[d]}]
      BY <1>6, <2>4 DEF UpdateFilesList
    <3>2. CASE d # c
      <4>1. n \in promised[c] /\ inbox'[c] = inbox[c]
        BY <3>1, <3>2 DEF PromiseInv, ClientType, ConnectionsTyped
      <4> QED
        BY <2>1, <4>1, OtherStepsKeep
    <3>3. CASE d = c
      <4>1. inbox'[c] = name[c] /\ (n \in promised[c] \/ n = name[c])
        BY <3>1, <3>3 DEF PromiseInv, ClientType, ConnectionsTyped
      <4>2. Serves(c)'
        BY <2>1, <2>4, <3>3 DEF Serves, repositoryVars, handlerVars
      <4>3. CASE n = name[c]
        BY <4>1, <4>2, <4>3 DEF Kept
      <4>4. CASE n \in promised[c]
        <5>1. Kept(c, n) /\ n # None
          BY <4>4, RepositoryAssumption DEF PromiseInv, PromisesKept, ClientType, ConnectionsTyped
        <5>2. DownloadServers(n) # None /\ (filesList[n] > 0 \/ buffer[c] = n)
          BY <2>2, <3>3, <5>1 DEF Kept
        <5> QED
          BY <2>1, <4>2, <5>2 DEF Kept, DownloadServers, repositoryVars, diskVars, handlerVars
      <4> QED
        BY <4>1, <4>3, <4>4
    <3> QED
      BY <3>2, <3>3
  <2> QED
    BY <2>3, <2>4
<1> QED
  BY <1>1, <1>2, <1>3, <1>4, <1>5, <1>6 DEF StoreNext, ClientStep

LEMMA PendingStep ==
  ASSUME PromiseInv, [StoreNext]_vars
  PROVE  NothingPending'
<1> SUFFICES ASSUME NEW c \in Handlers
             PROVE  /\ at'[c] \notin {"out", "menu"} => inbox'[c] = None
                    /\ at'[c] \in {"uploadEven", "uploadOdd", "update"} => denied'[c] = {}
  BY DEF NothingPending
<1>1. CASE inbox'[c] \in {inbox[c], None} /\ UNCHANGED <<at[c], denied[c]>>
  BY <1>1 DEF PromiseInv, NothingPending
<1>2. CASE at'[c] \in {"out", "menu"}
  BY <1>2
<1>3. ASSUME NEW d \in Handlers, ClientStep(d)
      PROVE  /\ at'[c] \notin {"out", "menu"} => inbox'[c] = None
             /\ at'[c] \in {"uploadEven", "uploadOdd", "update"} => denied'[c] = {}
  <2>1. UNCHANGED inbox
    BY <1>3, ClientStepIsQuiet
  <2>2. CASE d # c
    <3>1. UNCHANGED <<at[c], denied[c]>>
      BY <1>3, <2>2 DEF ClientStep, Quit, Abandon, GetServersUpload, UploadEven, UploadOdd,
           UploadFails, Store, GetServersDownload, ServersNotFound, NoPart, ReceiveLine,
           DownloadEven, DownloadOdd, Goes, BackToMenu, resultVars, PromiseInv, ClientType,
           PlacesTyped, ResultsTyped
    <3> QED
      BY <1>1, <2>1, <3>1
  <2>3. CASE d = c
    <3>1. CASE \E n \in Names, f \in Files : GetServersUpload(c, n, f)
      BY <2>1, <3>1 DEF GetServersUpload, Asks, PromiseInv, ClientType, ResultsTyped
    <3>2. CASE \E n \in Names : GetServersDownload(c, n)
      BY <2>1, <3>2 DEF GetServersDownload, Asks, Goes, PromiseInv, ClientType, PlacesTyped
    <3>3. CASE UploadEven(c) \/ UploadOdd(c)
      BY <2>1, <3>3 DEF UploadEven, UploadOdd, Store, PromiseInv, NothingPending
    <3>4. CASE ReceiveLine(c) \/ \E n \in Names : ServersNotFound(c, n)
      BY <2>1, <3>4 DEF ReceiveLine, ServersNotFound, Asks, Downloads, resultVars, PromiseInv,
           NothingPending
    <3>5. CASE DownloadEven(c)
      BY <2>1, <3>5 DEF DownloadEven, PartEnds, Goes, PromiseInv, NothingPending, ClientType,
           PlacesTyped
    <3>6. CASE \/ Quit(c) \/ Abandon(c) \/ NoPart(c) \/ DownloadOdd(c)
               \/ \E n \in 0 .. Len(LinesOf(c)) : \E m \in 0 .. n : UploadFails(c, n, m)
      BY <1>2, <3>6 DEF Quit, Abandon, NoPart, DownloadOdd, UploadFails, BackToMenu, Goes,
           PromiseInv, ClientType, PlacesTyped
    <3> QED
      BY <1>3, <2>3, <3>1, <3>2, <3>3, <3>4, <3>5, <3>6 DEF ClientStep
  <2> QED
    BY <2>2, <2>3
<1>4. ASSUME NEW d \in Handlers, Connect(d) \/ Discovery(d) \/ UpdateFilesList(d)
      PROVE  /\ at'[c] \notin {"out", "menu"} => inbox'[c] = None
             /\ at'[c] \in {"uploadEven", "uploadOdd", "update"} => denied'[c] = {}
  <2>1. CASE d # c
    <3>1. /\ at'[c] = at[c] /\ denied'[c] = denied[c] /\ inbox'[c] = inbox[c]
      BY <1>4, <2>1 DEF Connect, Discovery, UpdateFilesList, Goes, BackToMenu, resultVars,
           connectionVars, PromiseInv, ClientType, PlacesTyped, ResultsTyped, ConnectionsTyped
    <3> QED
      BY <1>1, <3>1
  <2>2. CASE d = c
    <3>1. at'[c] = "menu"
      BY <1>4, <2>2 DEF Connect, Discovery, UpdateFilesList, Asks, Goes, BackToMenu, PromiseInv,
           ClientType, PlacesTyped
    <3> QED
      BY <1>2, <3>1
  <2> QED
    BY <2>1, <2>2
<1>5. CASE \/ UNCHANGED vars
           \/ \E d \in Handlers : HandleInput(d) \/ Disconnect(d)
           \/ \E leak \in leaked : FlushLeaked(leak)
  <2>1. UNCHANGED <<at, denied>> /\ inbox'[c] \in {inbox[c], None}
    BY <1>5 DEF vars, FlushLeaked, HandleInput, Disconnect, resultVars, connectionVars,
         PromiseInv, ClientType, ConnectionsTyped
  <2> QED
    BY <1>1, <2>1
<1>6. CASE ProcessStep
  <2>1. CutTransfers \/ UNCHANGED <<at, resultVars, connectionVars>>
    BY <1>6 DEF ProcessStep
  <2>2. /\ inbox'[c] \in {inbox[c], None} /\ denied' = denied
        /\ at'[c] = at[c] \/ at'[c] = "menu"
    <3>1. CASE CutTransfers
      BY <3>1 DEF CutTransfers
    <3>2. CASE UNCHANGED <<at, resultVars, connectionVars>>
      BY <3>2 DEF resultVars, connectionVars
    <3> QED
      BY <2>1, <3>1, <3>2
  <2> QED
    BY <1>1, <1>2, <2>2
<1> QED
  BY <1>3, <1>4, <1>5, <1>6, StoreNextIs

LEMMA DeniedStep ==
  ASSUME PromiseInv, [StoreNext]_vars
  PROVE  ReadYourWrites'
<1> SUFFICES ASSUME NEW c \in Handlers PROVE denied'[c] \intersect promised'[c] = {}
  BY DEF ReadYourWrites
<1> USE DEF PromiseInv
<1>1. CASE denied'[c] \in {denied[c], {}} /\ promised'[c] \in {promised[c], {}}
  BY <1>1 DEF ReadYourWrites
<1>2. ASSUME NEW n \in promised[c], inbox[c] = None
      PROVE  /\ n \in Names /\ DownloadServers(n) # None
             /\ filesList[n] > 0 \/ buffer[c] = n
  <2>1. Kept(c, n) /\ n \in Names /\ n # None
    BY RepositoryAssumption DEF PromisesKept, ClientType, ConnectionsTyped
  <2> QED
    BY <1>2, <2>1 DEF Kept
<1>3. ASSUME NEW d \in Handlers, Discovery(d) PROVE denied'[c] \intersect promised'[c] = {}
  <2>1. CASE d # c
    <3>1. denied'[c] = denied[c] /\ promised'[c] = promised[c]
      BY <1>3, <2>1 DEF Discovery, connectionVars, ClientType, ResultsTyped
    <3> QED
      BY <1>1, <3>1
  <2>2. CASE d = c
    <3>1. /\ denied'[c] = {n \in Names : filesList'[n] = 0} /\ promised'[c] = promised[c]
          /\ inbox[c] = None /\ Flush(c)
      BY <1>3, <2>2 DEF Discovery, Asks, HandleDiscovery, connectionVars, ClientType, ResultsTyped
    <3>2. ASSUME NEW n \in promised[c] PROVE filesList'[n] > 0
      <4>1. n \in Names /\ (filesList[n] > 0 \/ buffer[c] = n)
        BY <1>2, <3>1, <3>2
      <4> QED
        BY <3>1, <4>1, FlushKeepsPromise
    <3> QED
      BY <3>1, <3>2
  <2> QED
    BY <2>1, <2>2
<1>4. ASSUME NEW d \in Handlers, ClientStep(d) PROVE denied'[c] \intersect promised'[c] = {}
  <2>1. promised' = promised
    BY <1>4, ClientStepIsQuiet
  <2>2. CASE \E n \in Names : d = c /\ ServersNotFound(c, n)
    <3>1. PICK n \in Names : ServersNotFound(c, n)
      BY <2>2
    <3>2. denied'[c] = {n} /\ DownloadServers(n) = None /\ inbox[c] = None
      BY <3>1 DEF ServersNotFound, Asks, ClientType, ResultsTyped
    <3> QED
      BY <1>2, <2>1, <3>2
  <2>3. CASE ~\E n \in Names : d = c /\ ServersNotFound(c, n)
    <3>1. denied'[c] \in {denied[c], {}}
      BY <1>4, <2>3 DEF ClientStep, Quit, Abandon, GetServersUpload, UploadEven, UploadOdd,
           UploadFails, Store, GetServersDownload, ServersNotFound, NoPart, ReceiveLine,
           DownloadEven, DownloadOdd, resultVars, ClientType, ResultsTyped
    <3> QED
      BY <1>1, <2>1, <3>1
  <2> QED
    BY <2>2, <2>3
<1>5. ASSUME NEW d \in Handlers, UpdateFilesList(d)
      PROVE  denied'[c] \intersect promised'[c] = {}
  <2>1. at[d] = "update" /\ denied' = denied
    BY <1>5 DEF UpdateFilesList, resultVars
  <2>2. CASE d = c
    BY <2>1, <2>2 DEF NothingPending
  <2>3. CASE d # c
    <3>1. promised'[c] = promised[c]
      BY <1>5, <2>3 DEF UpdateFilesList, connectionVars, ClientType, ConnectionsTyped
    <3> QED
      BY <1>1, <2>1, <3>1
  <2> QED
    BY <2>2, <2>3
<1>6. ASSUME \/ UNCHANGED vars \/ ProcessStep
             \/ \E d \in Handlers : Connect(d) \/ HandleInput(d) \/ Disconnect(d)
             \/ \E leak \in leaked : FlushLeaked(leak)
      PROVE  denied'[c] \intersect promised'[c] = {}
  <2>1. denied' = denied
    BY <1>6 DEF vars, ProcessStep, CutTransfers, FlushLeaked, Connect, HandleInput, Disconnect,
         resultVars
  <2>2. promised'[c] \in {promised[c], {}}
    BY <1>6 DEF vars, ProcessStep, CutTransfers, FlushLeaked, Connect, HandleInput, Disconnect,
         connectionVars, ClientType, ConnectionsTyped
  <2> QED
    BY <1>1, <2>1, <2>2
<1> QED
  BY <1>3, <1>4, <1>5, <1>6 DEF StoreNext, ClientStep

(* A client finds what it has announced on its connection.                 *)
THEOREM OwnAnnouncementsSeen == StoreSpec => []ReadYourWrites
<1>1. TypeOK /\ ClientType /\ PromisesKept /\ NothingPending /\ ReadYourWrites /\ [StoreNext]_vars
        => PromisesKept' /\ NothingPending' /\ ReadYourWrites'
  BY PromisesStep, PendingStep, DeniedStep DEF PromiseInv
<1>2. StoreInit => PromisesKept /\ NothingPending /\ ReadYourWrites
  BY DEF StoreInit, PromisesKept, NothingPending, ReadYourWrites
<1> QED
  BY <1>1, <1>2, ClientInvariance, StoreImplementsRepository, TypeCorrect, PTL DEF StoreSpec

-----------------------------------------------------------------------------
(* Each file, header and downloaded part has the lines of one upload: a    *)
(* file if no leaked buffer has been written over it, the others if they   *)
(* came from the process that named it.                                    *)
StoredWhole ==
  \A k \in Keys, part \in Parts :
    stored[k][part] # None /\ part \notin overlaid[k] => IsPart(stored[k][part], part)
HeaderWhole ==
  \A c \in Handlers : announced[c] # None /\ sameProcess[c] => IsPart(announced[c], PartOf(c))
EvenWhole ==
  \A c \in Handlers : IF at[c] = "downloadOdd" THEN sameProcess[c] => IsPart(evenPart[c], "even")
                      ELSE evenPart[c] = <<>>

WholeInv == ClientType /\ StoredWhole /\ HeaderWhole /\ EvenWhole /\ NoMixture

LEMMA PrefixIsPart ==
  ASSUME NEW lines \in Seq(Text), NEW part \in Parts, IsPart(lines, part),
         NEW n \in 0 .. Len(lines)
  PROVE  IsPart(SubSeq(lines, 1, n), part)
<1>1. PICK f \in Files : LET whole == DivideFile(f)[part].lines
                         IN  Len(lines) <= Len(whole) /\ lines = SubSeq(whole, 1, Len(lines))
  BY DEF IsPart
<1>2. PICK whole \in Seq(Text) : whole = DivideFile(f)[part].lines
  BY DividedTyped
<1>3. Len(lines) <= Len(whole) /\ lines = SubSeq(whole, 1, Len(lines))
  BY <1>1, <1>2
<1>4. Len(SubSeq(lines, 1, n)) = n /\ n <= Len(whole)
  BY <1>3
<1>5. \A i \in 1 .. Len(lines) : lines[i] = whole[i]
  BY <1>2, <1>3
<1>6. SubSeq(lines, 1, n) = SubSeq(whole, 1, n)
  BY <1>2, <1>3, <1>5
<1> QED
  BY <1>2, <1>4, <1>6 DEF IsPart

(* What a client stores.                                                   *)
LEMMA UploadedIsPart ==
  ASSUME NEW f \in Files, NEW part \in Parts, NEW n \in 0 .. Len(DivideFile(f)[part].lines)
  PROVE  /\ IsPart(DivideFile(f)[part].lines, part)
         /\ IsPart(SubSeq(DivideFile(f)[part].lines, 1, n), part)
<1>1. PICK whole \in Seq(Text) : whole = DivideFile(f)[part].lines
  BY DividedTyped
<1>2. whole = SubSeq(whole, 1, Len(whole)) /\ Len(whole) <= Len(whole)
  BY <1>1
<1>3. IsPart(whole, part)
  BY <1>1, <1>2 DEF IsPart
<1> QED
  BY <1>1, <1>3, PrefixIsPart

LEMMA UploadWhole ==
  ASSUME WholeInv, NEW c \in Handlers,
         \/ UploadEven(c) \/ UploadOdd(c)
         \/ Uploads(c) /\ \E n \in 0 .. Len(LinesOf(c)) : \E m \in 0 .. n : UploadFails(c, n, m)
  PROVE  StoredWhole'
<1>1. origin[c] \in Files /\ PartOf(c) \in Parts
  BY DEF UploadEven, UploadOdd, Uploads, WholeInv, ClientType, Scope, PartOf, Parts
<1>2. PICK lines : Store(c, lines) /\ IsPart(lines, PartOf(c))
  <2>1. CASE UploadEven(c) \/ UploadOdd(c)
    <3>1. LinesOf(c) \in Seq(Text)
      BY <1>1, DividedTyped DEF LinesOf
    <3>2. 0 \in 0 .. Len(LinesOf(c))
      BY <3>1
    <3>3. IsPart(LinesOf(c), PartOf(c))
      BY <1>1, <3>2, UploadedIsPart DEF LinesOf
    <3> QED
      BY <2>1, <3>3 DEF UploadEven, UploadOdd
  <2>2. CASE \E n \in 0 .. Len(LinesOf(c)) : \E m \in 0 .. n : UploadFails(c, n, m)
    <3>1. PICK n \in 0 .. Len(LinesOf(c)) : \E m \in 0 .. n : UploadFails(c, n, m)
      BY <2>2
    <3>2. PICK m \in 0 .. n : UploadFails(c, n, m)
      BY <3>1
    <3>3. LinesOf(c) \in Seq(Text)
      BY <1>1, DividedTyped DEF LinesOf
    <3>4. m \in 0 .. Len(LinesOf(c))
      BY <3>3
    <3>5. IsPart(SubSeq(LinesOf(c), 1, m), PartOf(c))
      BY <1>1, <3>4, UploadedIsPart DEF LinesOf
    <3> QED
      BY <3>2, <3>5 DEF UploadFails
  <2> QED
    BY <2>1, <2>2
<1>3. /\ stored' = [stored EXCEPT ![Key(c)][PartOf(c)] = lines]
      /\ overlaid' = [overlaid EXCEPT ![Key(c)] = @ \ {PartOf(c)}]
  BY <1>2 DEF Store
<1> SUFFICES ASSUME NEW k \in Keys, NEW part \in Parts, stored'[k][part] # None,
                    part \notin overlaid'[k]
             PROVE  IsPart(stored'[k][part], part)
  BY DEF StoredWhole
<1>4. \/ stored'[k][part] = stored[k][part] /\ part \notin overlaid[k]
      \/ stored'[k][part] = lines /\ part = PartOf(c)
  <2>1. CASE k = Key(c) /\ part = PartOf(c)
    BY <1>3, <2>1 DEF WholeInv, ClientType, PartsTyped
  <2>2. CASE ~(k = Key(c) /\ part = PartOf(c))
    BY <1>3, <2>2 DEF WholeInv, ClientType, PartsTyped, HistoryTyped
  <2> QED
    BY <2>1, <2>2
<1> QED
  BY <1>2, <1>4 DEF WholeInv, StoredWhole

LEMMA ReceivedWhole ==
  ASSUME WholeInv, Clean, NEW c \in Handlers, Downloads(c), HasMore(c)
  PROVE  /\ PartOf(c) \in Parts /\ RecvHeader(c) \in Seq(Text)
         /\ sameProcess[c] => IsPart(RecvHeader(c), PartOf(c))
<1>1. name[c] \in Names /\ PartOf(c) \in Parts
  BY DEF Downloads, WholeInv, ClientType, Scope, PartOf, Parts
<1>2. Key(c) \in Keys
  BY <1>1, RepositoryAssumption DEF Key
<1>3. Content(c) # None /\ Content(c) \in Seq(Text) \union {None}
  BY <1>1, <1>2 DEF HasMore, Content, WholeInv, ClientType, PartsTyped
<1>4. ASSUME sameProcess[c] PROVE IsPart(Content(c), PartOf(c))
  <2>1. overlaid[Key(c)] = {}
    BY <1>4 DEF Downloads, Downloading, Clean, ClientClean
  <2> QED
    BY <1>1, <1>2, <1>3, <2>1 DEF Content, WholeInv, StoredWhole
<1>5. announced[c] \in Seq(Text) \union {None}
  BY DEF WholeInv, ClientType, LocalsTyped
<1> QED
  BY <1>1, <1>3, <1>4, <1>5 DEF RecvHeader, WholeInv, HeaderWhole

LEMMA CombinedWhole ==
  ASSUME NEW even \in Seq(Text), NEW odd \in Seq(Text), IsPart(even, "even"), IsPart(odd, "odd"),
         NEW file, file = CombineFile(Written(even), Written(odd)), NEW part \in Parts
  PROVE  IsPart(DivideFile(file)[part].lines, part)
<1>0. /\ \E m \in 0 .. Len(even) :
            EvenLines(CombineFile(Written(even), Written(odd)).lines) = SubSeq(even, 1, m)
      /\ \E k \in 0 .. Len(odd) :
            OddLines(CombineFile(Written(even), Written(odd)).lines) = SubSeq(odd, 1, k)
  BY CombinedFromFirst, Zenon
<1>1. DivideFile(file)["even"].lines = EvenLines(file.lines)
      /\ DivideFile(file)["odd"].lines = OddLines(file.lines)
  BY DEF DivideFile, Written
<1>2. IsPart(EvenLines(file.lines), "even")
  <2>1. \E m \in 0 .. Len(even) : EvenLines(file.lines) = SubSeq(even, 1, m)
    BY <1>0, Zenon
  <2>2. PICK m \in 0 .. Len(even) : EvenLines(file.lines) = SubSeq(even, 1, m)
    BY <2>1
  <2>3. "even" \in Parts
    BY DEF Parts
  <2>4. IsPart(SubSeq(even, 1, m), "even")
    BY <2>3, PrefixIsPart
  <2> QED
    BY <2>2, <2>4
<1>3. IsPart(OddLines(file.lines), "odd")
  <2>1. \E k \in 0 .. Len(odd) : OddLines(file.lines) = SubSeq(odd, 1, k)
    BY <1>0, Zenon
  <2>2. PICK k \in 0 .. Len(odd) : OddLines(file.lines) = SubSeq(odd, 1, k)
    BY <2>1
  <2>3. "odd" \in Parts
    BY DEF Parts
  <2>4. IsPart(SubSeq(odd, 1, k), "odd")
    BY <2>3, PrefixIsPart
  <2> QED
    BY <2>2, <2>4
<1> QED
  BY <1>1, <1>2, <1>3 DEF Parts

LEMMA DownloadWhole ==
  ASSUME WholeInv, Clean, NEW c \in Handlers,
         ReceiveLine(c) \/ DownloadEven(c) \/ DownloadOdd(c)
  PROVE  StoredWhole' /\ HeaderWhole' /\ EvenWhole' /\ NoMixture'
<1> USE StoreAssumption
<1>1. Downloads(c) /\ HasMore(c) /\ UNCHANGED <<stored, overlaid, sameProcess>>
  BY DEF ReceiveLine, DownloadEven, DownloadOdd, PartEnds, storeVars, resultVars
<1>2. /\ PartOf(c) \in Parts /\ RecvHeader(c) \in Seq(Text)
      /\ sameProcess[c] => IsPart(RecvHeader(c), PartOf(c))
  BY <1>1, ReceivedWhole
<1>3. StoredWhole'
  BY <1>1 DEF WholeInv, StoredWhole
<1>4. \A d \in Handlers : announced[d] # None /\ sameProcess[d] => IsPart(announced[d], PartOf(d))
  BY DEF WholeInv, HeaderWhole
<1>5. CASE ReceiveLine(c)
  <2>1. UNCHANGED <<at, evenPart, output>> /\ announced' = [announced EXCEPT ![c] = RecvHeader(c)]
    BY <1>5 DEF ReceiveLine, resultVars
  <2>2. EvenWhole' /\ NoMixture'
    BY <1>1, <2>1 DEF WholeInv, EvenWhole, NoMixture
  <2>3. \A d \in Handlers : announced'[d] = IF d = c THEN RecvHeader(c) ELSE announced[d]
    BY <2>1 DEF WholeInv, ClientType, LocalsTyped
  <2>4. HeaderWhole'
    BY <1>1, <1>2, <1>4, <2>1, <2>3 DEF HeaderWhole, PartOf
  <2> QED
    BY <1>3, <2>2, <2>4
<1>6. ASSUME DownloadEven(c) \/ DownloadOdd(c) PROVE HeaderWhole'
  <2>1. \A d \in Handlers : d # c => UNCHANGED <<announced[d], at[d]>>
    BY <1>6 DEF DownloadEven, DownloadOdd, NoTransfer, BackToMenu, Goes, WholeInv, ClientType,
                LocalsTyped, PlacesTyped
  <2>2. announced'[c] = None
    BY <1>6 DEF DownloadEven, DownloadOdd, NoTransfer, BackToMenu, WholeInv, ClientType, LocalsTyped
  <2> QED
    BY <1>1, <1>4, <2>1, <2>2 DEF HeaderWhole, PartOf
<1>7. CASE DownloadEven(c)
  <2>1. /\ PartOf(c) = "even" /\ UNCHANGED output
        /\ evenPart' = [evenPart EXCEPT ![c] = RecvHeader(c)]
        /\ \A d \in Handlers : at'[d] = IF d = c THEN "downloadOdd" ELSE at[d]
    BY <1>7 DEF DownloadEven, SumMatches, PartOf, Goes, resultVars, WholeInv, ClientType, PlacesTyped
  <2>2. \A d \in Handlers : evenPart'[d] = IF d = c THEN RecvHeader(c) ELSE evenPart[d]
    BY <2>1 DEF WholeInv, ClientType, LocalsTyped
  <2>3. EvenWhole'
    BY <1>1, <1>2, <2>1, <2>2 DEF WholeInv, EvenWhole
  <2>4. NoMixture'
    BY <1>1, <1>2, <2>1, <2>2 DEF WholeInv, NoMixture
  <2> QED
    BY <1>3, <1>6, <1>7, <2>3, <2>4
<1>8. CASE DownloadOdd(c)
  <2>1. /\ at[c] = "downloadOdd" /\ PartOf(c) = "odd"
        /\ output' = [output EXCEPT ![c] =
                        CombineFile(Written(evenPart[c]), Written(RecvHeader(c)))]
        /\ evenPart' = [evenPart EXCEPT ![c] = <<>>] /\ at' = [at EXCEPT ![c] = "menu"]
    BY <1>8 DEF DownloadOdd, SumMatches, PartOf, BackToMenu, Goes
  <2>2. evenPart[c] \in Seq(Text) /\ (sameProcess[c] => IsPart(evenPart[c], "even"))
    BY <2>1 DEF WholeInv, EvenWhole, ClientType, LocalsTyped
  <2>3. EvenWhole'
    BY <1>1, <2>1 DEF WholeInv, EvenWhole, ClientType, PlacesTyped, LocalsTyped
  <2>4. PICK file : file = CombineFile(Written(evenPart[c]), Written(RecvHeader(c)))
    OBVIOUS
  <2>5. sameProcess[c] => \A part \in Parts : IsPart(DivideFile(file)[part].lines, part)
    BY <1>2, <2>1, <2>2, <2>4, CombinedWhole
  <2>6. /\ \A d \in Handlers : output'[d] = IF d = c THEN file ELSE output[d]
        /\ \A d \in Handlers : evenPart'[d] = IF d = c THEN <<>> ELSE evenPart[d]
    BY <2>1, <2>4 DEF WholeInv, ClientType, ResultsTyped, LocalsTyped
  <2>7. NoMixture'
    BY <1>1, <2>5, <2>6 DEF WholeInv, NoMixture
  <2> QED
    BY <1>3, <1>6, <1>8, <2>3, <2>7
<1> QED
  BY <1>5, <1>7, <1>8

(* The process ends or begins, or a leaked buffer is written.              *)
LEMMA ProcessWhole ==
  ASSUME WholeInv, ProcessStep
  PROVE  StoredWhole' /\ HeaderWhole' /\ EvenWhole' /\ NoMixture'
<1>1. StoredWhole'
  BY DEF ProcessStep, WholeInv, StoredWhole
<1>2. CASE CutTransfers
  <2>1. ASSUME NEW c \in Handlers
        PROVE  /\ at'[c] # "downloadOdd" /\ evenPart'[c] = <<>>
               /\ announced'[c] # None => ~sameProcess'[c]
               /\ sameProcess'[c] => sameProcess[c]
    <3>1. at[c] = "downloadOdd" \/ evenPart[c] = <<>>
      BY DEF WholeInv, EvenWhole
    <3>2. at[c] \in {"downloadEven", "downloadOdd"} \/ announced[c] = None
      BY DEF WholeInv, ClientType, Scope, Downloading
    <3> QED
      BY <1>2, <3>1, <3>2 DEF CutTransfers, WholeInv, ClientType, ResultsTyped
  <2>2. UNCHANGED output
    BY <1>2 DEF CutTransfers
  <2> QED
    BY <1>1, <2>1, <2>2 DEF WholeInv, HeaderWhole, EvenWhole, NoMixture
<1>3. CASE UNCHANGED <<at, localVars, resultVars, connectionVars>>
  BY <1>1, <1>3 DEF localVars, resultVars, WholeInv, HeaderWhole, EvenWhole, NoMixture, PartOf
<1> QED
  BY <1>2, <1>3 DEF ProcessStep

LEMMA FlushWhole ==
  ASSUME WholeInv, NEW leak \in leaked, FlushLeaked(leak)
  PROVE  StoredWhole' /\ HeaderWhole' /\ EvenWhole' /\ NoMixture'
<1>1. /\ UNCHANGED <<at, evenPart, announced, output, sameProcess>>
      /\ stored' = [stored EXCEPT ![leak.key][leak.part] =
                      Overwritten(@, leak.offset, leak.lines)]
      /\ overlaid' = [overlaid EXCEPT ![leak.key] = @ \union {leak.part}]
  BY DEF FlushLeaked, localVars, resultVars
<1>2. leak.key \in Keys /\ leak.part \in Parts
  BY DEF WholeInv, ClientType, LeaksTyped
<1>3. ASSUME NEW k \in Keys, NEW part \in Parts, part \notin overlaid'[k]
      PROVE  part \notin overlaid[k] /\ stored'[k][part] = stored[k][part]
  BY <1>1, <1>2, <1>3 DEF WholeInv, ClientType, PartsTyped, HistoryTyped
<1>4. StoredWhole'
  BY <1>3 DEF WholeInv, StoredWhole
<1> QED
  BY <1>1, <1>4 DEF WholeInv, HeaderWhole, EvenWhole, NoMixture, PartOf

LEMMA WholeStep ==
  ASSUME WholeInv, Clean, [StoreNext]_vars
  PROVE  StoredWhole' /\ HeaderWhole' /\ EvenWhole' /\ NoMixture'
<1>1. CASE \E c \in Handlers : ReceiveLine(c) \/ DownloadEven(c) \/ DownloadOdd(c)
  BY <1>1, DownloadWhole
<1>2. ASSUME NEW c \in Handlers,
             \/ Connect(c) \/ Quit(c) \/ Abandon(c) \/ NoPart(c) \/ Discovery(c)
             \/ UpdateFilesList(c) \/ HandleInput(c) \/ Disconnect(c)
             \/ \E n \in Names, f \in Files : GetServersUpload(c, n, f)
             \/ UploadEven(c) \/ UploadOdd(c)
             \/ Uploads(c) /\ \E n \in 0 .. Len(LinesOf(c)) : \E m \in 0 .. n : UploadFails(c, n, m)
             \/ \E n \in Names : GetServersDownload(c, n) \/ ServersNotFound(c, n)
      PROVE  StoredWhole' /\ HeaderWhole' /\ EvenWhole' /\ NoMixture'
  <2>1. \A d \in Handlers : d # c =>
          UNCHANGED <<at[d], announced[d], evenPart[d], output[d], sameProcess[d]>>
    BY <1>2 DEF Connect, Quit, Abandon, NoPart, Discovery, UpdateFilesList, HandleInput, Disconnect,
         GetServersUpload, UploadEven, UploadOdd, UploadFails, Store, GetServersDownload,
         ServersNotFound, BackToMenu, NoTransfer, Goes, ClearResults, localVars, resultVars,
         WholeInv, ClientType, PlacesTyped, LocalsTyped, ResultsTyped
  <2>2. /\ at'[c] = "downloadOdd" => UNCHANGED <<at[c], evenPart[c], sameProcess[c]>>
        /\ announced'[c] # None => UNCHANGED <<at[c], announced[c], sameProcess[c]>>
        /\ at'[c] # "downloadOdd" => evenPart'[c] = <<>>
        /\ output'[c] # None => UNCHANGED <<output[c], sameProcess[c]>>
    <3>1. /\ announced[c] = None \/ Downloading(c)
          /\ at[c] # "downloadOdd" => evenPart[c] = <<>>
      BY DEF WholeInv, ClientType, Scope, EvenWhole
    <3>2. CASE BackToMenu(c)
      <4>1. /\ at'[c] = "menu" /\ evenPart'[c] = <<>> /\ announced'[c] = None
        BY <3>2 DEF BackToMenu, NoTransfer, Goes, WholeInv, ClientType, PlacesTyped, LocalsTyped
      <4>2. output'[c] # None => UNCHANGED <<output[c], sameProcess[c]>>
        <5>1. CASE Quit(c) \/ Discovery(c) \/ \E n \in Names : ServersNotFound(c, n)
          BY <5>1 DEF Quit, Discovery, ServersNotFound, ClearResults, WholeInv, ClientType,
               ResultsTyped
        <5>2. CASE \E n \in Names : GetServersDownload(c, n)
          BY <5>2 DEF GetServersDownload, WholeInv, ClientType, ResultsTyped
        <5>3. CASE \E n \in Names, f \in Files : GetServersUpload(c, n, f)
          BY <5>3 DEF GetServersUpload, ClearResults, WholeInv, ClientType, ResultsTyped
        <5>4. CASE \/ UploadEven(c) \/ UploadOdd(c)
                   \/ \E n \in 0 .. Len(LinesOf(c)) : \E m \in 0 .. n : UploadFails(c, n, m)
          BY <5>4 DEF UploadEven, UploadOdd, UploadFails, Store
        <5>5. CASE \/ Connect(c) \/ Abandon(c) \/ NoPart(c) \/ UpdateFilesList(c)
                   \/ HandleInput(c) \/ Disconnect(c)
          BY <5>5 DEF Connect, Abandon, NoPart, UpdateFilesList, HandleInput, Disconnect,
               resultVars
        <5> QED
          BY <1>2, <5>1, <5>2, <5>3, <5>4, <5>5
      <4> QED
        BY <4>1, <4>2
    <3>3. CASE ~BackToMenu(c)
      <4>1. CASE Connect(c) \/ Quit(c) \/ Discovery(c) \/ HandleInput(c) \/ Disconnect(c)
        BY <3>1, <4>1 DEF Connect, Quit, Discovery, HandleInput, Disconnect, ClearResults, Goes,
             Asks, Downloading, localVars, resultVars, WholeInv, ClientType, PlacesTyped,
             LocalsTyped, ResultsTyped
      <4>2. CASE UploadEven(c) \/ UploadOdd(c)
        BY <3>1, <4>2 DEF UploadEven, UploadOdd, Store, Uploads, Goes, Downloading, localVars,
             WholeInv, ClientType, PlacesTyped, LocalsTyped, ResultsTyped
      <4>3. CASE \E n \in Names : GetServersDownload(c, n) \/ ServersNotFound(c, n)
        BY <3>1, <4>3 DEF GetServersDownload, ServersNotFound, ClearResults, Goes, Asks,
             Downloading, localVars, WholeInv, ClientType, PlacesTyped, LocalsTyped, ResultsTyped
      <4>4. CASE \E n \in Names, f \in Files : GetServersUpload(c, n, f)
        BY <3>1, <4>4 DEF GetServersUpload, ClearResults, Goes, Asks, Downloading, WholeInv,
             ClientType, PlacesTyped, LocalsTyped, ResultsTyped
      <4> QED
        BY <1>2, <3>3, <4>1, <4>2, <4>3, <4>4 DEF Abandon, NoPart, UpdateFilesList, UploadFails
    <3> QED
      BY <3>2, <3>3
  <2>3. StoredWhole'
    <3>1. CASE UNCHANGED <<stored, overlaid>>
      BY <3>1 DEF WholeInv, StoredWhole
    <3>2. CASE \/ UploadEven(c) \/ UploadOdd(c)
               \/ Uploads(c) /\ \E n \in 0 .. Len(LinesOf(c)) : \E m \in 0 .. n : UploadFails(c, n, m)
      BY <3>2, UploadWhole
    <3> QED
      BY <1>2, <3>1, <3>2 DEF Connect, Quit, Abandon, NoPart, Discovery, UpdateFilesList,
           HandleInput, Disconnect, GetServersUpload, GetServersDownload, ServersNotFound, storeVars
  <2>4. HeaderWhole'
    BY <2>1, <2>2 DEF WholeInv, HeaderWhole, PartOf
  <2>5. EvenWhole'
    BY <2>1, <2>2 DEF WholeInv, EvenWhole
  <2>6. NoMixture'
    BY <2>1, <2>2 DEF WholeInv, EvenWhole, NoMixture
  <2> QED
    BY <2>3, <2>4, <2>5, <2>6
<1>3. CASE UNCHANGED vars
  <2>1. UNCHANGED <<stored, overlaid, at, announced, evenPart, output, sameProcess>>
    BY <1>3 DEF vars, storeVars, localVars, resultVars
  <2> QED
    BY <2>1 DEF WholeInv, StoredWhole, HeaderWhole, EvenWhole, NoMixture, PartOf
<1> QED
  BY <1>1, <1>2, <1>3, ProcessWhole, FlushWhole DEF StoreNext

(* No accepted part is of two uploads, however the transfers interleave.   *)
THEOREM PartsOfOneUpload == StoreSpec => []NoMixture
<1>1. ClientType /\ StoredWhole /\ HeaderWhole /\ EvenWhole /\ NoMixture
      /\ Clean /\ [StoreNext]_vars
        => StoredWhole' /\ HeaderWhole' /\ EvenWhole' /\ NoMixture'
  BY WholeStep DEF WholeInv
<1>2. StoreInit => StoredWhole /\ HeaderWhole /\ EvenWhole /\ NoMixture
  BY DEF StoreInit, StoredWhole, HeaderWhole, EvenWhole, NoMixture
<1> QED
  BY <1>1, <1>2, ClientInvariance, CleanInvariance, PTL DEF StoreSpec

=============================================================================
