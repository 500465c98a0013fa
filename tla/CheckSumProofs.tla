--------------------------- MODULE CheckSumProofs ---------------------------
(***************************************************************************)
(* MD5ChkSum is right when it runs alone, for any processes, directories   *)
(* and files.                                                              *)
(***************************************************************************)
EXTENDS CheckSum, TLAPS

(* The temporary files of two directories are different inodes, those      *)
(* still open after their removal included.                                *)
Apart ==
  /\ \A d, e \in Directories : entry[d] = entry[e] => d = e \/ entry[d] = None
  /\ \A p \in Processes, d \in Directories :
       handle[p] = entry[d] => d = Directory[p] \/ handle[p] = None
  /\ \A p, q \in Processes :
       handle[p] = handle[q] => Directory[p] = Directory[q] \/ handle[p] = None

(* What is known, statement by statement, of a call that is alone.         *)
Undisturbed ==
  \A p \in Processes : alone[p] =>
    /\ Computing(p) => \A q \in Neighbours(p) : ~Computing(q)
    /\ at[p] # "crashed"
    /\ at[p] = "write" => handle[p] = CHKSUM_FILENAME(p)
    /\ at[p] = "fopen" => CHKSUM_FILENAME(p) # None /\ data[CHKSUM_FILENAME(p)] = file[p]
    /\ at[p] = "fread" => data[handle[p]] = file[p]
    /\ at[p] \in {"rm", "returned"} => result[p] = file[p]

LonersAlone == \A p \in Processes : Neighbours(p) = {} => alone[p]

IInv == TypeOK /\ Apart /\ Undisturbed /\ LonersAlone

-----------------------------------------------------------------------------
(* Every step keeps the types.                                             *)
LEMMA Typing == TypeOK /\ [Next]_vars => TypeOK'
<1> SUFFICES ASSUME TypeOK, [Next]_vars PROVE TypeOK'
  OBVIOUS
<1> USE CheckSumAssumption DEF TypeOK, Statements, Moves, CHKSUM_FILENAME
<1>1. CASE UNCHANGED vars
  BY <1>1 DEF vars
<1>2. ASSUME NEW p \in Processes, NEW f \in Files, MD5ChkSum(p, f) PROVE TypeOK'
  BY <1>2 DEF MD5ChkSum
<1>3. ASSUME NEW p \in Processes, NEW i \in Inodes, CreateTemp(p, i) PROVE TypeOK'
  BY <1>3 DEF CreateTemp
<1>4. ASSUME NEW p \in Processes, TruncateTemp(p) PROVE TypeOK'
  BY <1>4 DEF TruncateTemp
<1>5. ASSUME NEW p \in Processes, WriteSum(p) PROVE TypeOK'
  BY <1>5 DEF WriteSum
<1>6. ASSUME NEW p \in Processes, OpenTemp(p) PROVE TypeOK'
  BY <1>6 DEF OpenTemp
<1>7. ASSUME NEW p \in Processes, OpenNothing(p) PROVE TypeOK'
  BY <1>7 DEF OpenNothing
<1>8. ASSUME NEW p \in Processes, ReadSum(p) PROVE TypeOK'
  BY <1>8 DEF ReadSum
<1>9. ASSUME NEW p \in Processes, RemoveTemp(p) PROVE TypeOK'
  BY <1>9 DEF RemoveTemp
<1>10. QED
  BY <1>1, <1>2, <1>3, <1>4, <1>5, <1>6, <1>7, <1>8, <1>9 DEF Next

(* Every step keeps the directories apart: what it opens is the file of    *)
(* its own directory, or new.                                              *)
LEMMA KeepsApart == TypeOK /\ Apart /\ [Next]_vars => Apart'
<1> SUFFICES ASSUME TypeOK, Apart, [Next]_vars PROVE Apart'
  OBVIOUS
<1> USE CheckSumAssumption DEF TypeOK, Statements, Moves, CHKSUM_FILENAME, Apart
<1>1. CASE UNCHANGED vars
  BY <1>1 DEF vars
<1>2. ASSUME NEW p \in Processes, NEW f \in Files, MD5ChkSum(p, f) PROVE Apart'
  BY <1>2 DEF MD5ChkSum
<1>3. ASSUME NEW p \in Processes, NEW i \in Inodes, CreateTemp(p, i) PROVE Apart'
  BY <1>3 DEF CreateTemp, Unused
<1>4. ASSUME NEW p \in Processes, TruncateTemp(p) PROVE Apart'
  BY <1>4 DEF TruncateTemp
<1>5. ASSUME NEW p \in Processes, WriteSum(p) PROVE Apart'
  BY <1>5 DEF WriteSum
<1>6. ASSUME NEW p \in Processes, OpenTemp(p) PROVE Apart'
  BY <1>6 DEF OpenTemp
<1>7. ASSUME NEW p \in Processes, OpenNothing(p) PROVE Apart'
  BY <1>7 DEF OpenNothing
<1>8. ASSUME NEW p \in Processes, ReadSum(p) PROVE Apart'
  BY <1>8 DEF ReadSum
<1>9. ASSUME NEW p \in Processes, RemoveTemp(p) PROVE Apart'
  BY <1>9 DEF RemoveTemp
<1>10. QED
  BY <1>1, <1>2, <1>3, <1>4, <1>5, <1>6, <1>7, <1>8, <1>9 DEF Next

-----------------------------------------------------------------------------
(* The statements of a call that is alone follow each other undisturbed: a *)
(* process that moves is either the caller itself or in another directory, *)
(* whose temporary file is another inode.                                  *)
LEMMA KeepsUndisturbed ==
  TypeOK /\ Apart /\ Undisturbed /\ [Next]_vars => Undisturbed'
<1> SUFFICES ASSUME TypeOK, Apart, Undisturbed, [Next]_vars,
                    NEW p \in Processes, alone'[p]
             PROVE
    /\ Computing(p)' => \A q \in Neighbours(p)' : ~Computing(q)'
    /\ at'[p] # "crashed"
    /\ at'[p] = "write" => handle'[p] = CHKSUM_FILENAME(p)'
    /\ at'[p] = "fopen" => CHKSUM_FILENAME(p)' # None /\ data'[CHKSUM_FILENAME(p)'] = file'[p]
    /\ at'[p] = "fread" => data'[handle'[p]] = file'[p]
    /\ at'[p] \in {"rm", "returned"} => result'[p] = file'[p]
  BY DEF Undisturbed
<1> DEFINE Goal ==
    /\ Computing(p)' => \A q \in Neighbours(p)' : ~Computing(q)'
    /\ at'[p] # "crashed"
    /\ at'[p] = "write" => handle'[p] = CHKSUM_FILENAME(p)'
    /\ at'[p] = "fopen" => CHKSUM_FILENAME(p)' # None /\ data'[CHKSUM_FILENAME(p)'] = file'[p]
    /\ at'[p] = "fread" => data'[handle'[p]] = file'[p]
    /\ at'[p] \in {"rm", "returned"} => result'[p] = file'[p]
<1> SUFFICES Goal
  OBVIOUS
<1> USE CheckSumAssumption DEF TypeOK, Statements, Moves, CHKSUM_FILENAME, Apart,
                               Undisturbed, Computing, Neighbours
<1>1. CASE UNCHANGED vars
  BY <1>1 DEF vars
<1>2. ASSUME NEW q \in Processes, NEW f \in Files, MD5ChkSum(q, f) PROVE Goal
  <2>1. /\ at' = [at EXCEPT ![q] = "redirect"] /\ UNCHANGED <<entry, data, handle>>
        /\ \A r \in Processes : r # q => file'[r] = file[r] /\ result'[r] = result[r]
    BY <1>2 DEF MD5ChkSum
  <2>2. CASE q = p
    <3>1. alone'[p] = \A n \in Neighbours(p) : ~Computing(n)
      BY <1>2, <2>2 DEF MD5ChkSum
    <3>2. \A n \in Neighbours(p) : ~Computing(n)'
      BY <2>1, <2>2, <3>1
    <3> QED BY <2>1, <2>2, <3>2
  <2>3. CASE q # p
    <3>1. alone[p] /\ p \notin Neighbours(q)
      BY <1>2, <2>3 DEF MD5ChkSum
    <3>2. q \notin Neighbours(p)
      BY <3>1, <2>3
    <3>3. at'[p] = at[p] /\ \A n \in Neighbours(p) : at'[n] = at[n]
      BY <2>1, <2>3, <3>2
    <3> QED BY <2>1, <2>3, <3>1, <3>3
  <2>4. QED
    BY <2>2, <2>3
<1>3. ASSUME NEW q \in Processes, NEW i \in Inodes, CreateTemp(q, i) PROVE Goal
  BY <1>3 DEF CreateTemp, Unused
<1>4. ASSUME NEW q \in Processes, TruncateTemp(q) PROVE Goal
  BY <1>4 DEF TruncateTemp
<1>5. ASSUME NEW q \in Processes, WriteSum(q) PROVE Goal
  BY <1>5 DEF WriteSum
<1>6. ASSUME NEW q \in Processes, OpenTemp(q) PROVE Goal
  BY <1>6 DEF OpenTemp
<1>7. ASSUME NEW q \in Processes, OpenNothing(q) PROVE Goal
  BY <1>7 DEF OpenNothing
<1>8. ASSUME NEW q \in Processes, ReadSum(q) PROVE Goal
  BY <1>8 DEF ReadSum
<1>9. ASSUME NEW q \in Processes, RemoveTemp(q) PROVE Goal
  BY <1>9 DEF RemoveTemp
<1>10. QED
  BY <1>1, <1>2, <1>3, <1>4, <1>5, <1>6, <1>7, <1>8, <1>9 DEF Next

(* A process without neighbours is alone in every call.                    *)
LEMMA KeepsLoners == TypeOK /\ LonersAlone /\ [Next]_vars => LonersAlone'
<1> SUFFICES ASSUME TypeOK, LonersAlone, [Next]_vars,
                    NEW p \in Processes, Neighbours(p) = {}
             PROVE  alone'[p]
  BY DEF LonersAlone, Neighbours
<1>1. alone[p]
  BY DEF LonersAlone
<1>2. \A q \in Processes : p \notin Neighbours(q)
  BY DEF Neighbours
<1>3. CASE \E q \in Processes, f \in Files : MD5ChkSum(q, f)
  BY <1>1, <1>2, <1>3 DEF MD5ChkSum, TypeOK
<1>4. CASE UNCHANGED alone
  BY <1>1, <1>4
<1>5. QED
  BY <1>3, <1>4 DEF Next, vars, CreateTemp, TruncateTemp, WriteSum, OpenTemp, OpenNothing,
                    ReadSum, RemoveTemp

-----------------------------------------------------------------------------
(* The inductive invariant of MD5ChkSum holds.                             *)
THEOREM Invariance == Spec => []IInv
<1>1. Init => IInv
  BY CheckSumAssumption DEF Init, IInv, TypeOK, Statements, Apart, Undisturbed, LonersAlone,
                            Computing, Neighbours, CHKSUM_FILENAME
<1>2. IInv /\ [Next]_vars => IInv'
  BY Typing, KeepsApart, KeepsUndisturbed, KeepsLoners DEF IInv
<1>3. QED
  BY <1>1, <1>2, PTL DEF Spec

(* The variables of MD5ChkSum have their types.                            *)
THEOREM TypeCorrect == Spec => []TypeOK
<1>1. IInv => TypeOK
  BY DEF IInv
<1>2. QED
  BY <1>1, Invariance, PTL

(* A call of MD5ChkSum that no other call in its directory overlaps        *)
(* returns the sum of its argument.                                        *)
THEOREM OwnSumReturned == Spec => []OwnSum
<1>1. IInv => OwnSum
  BY DEF IInv, Undisturbed, OwnSum
<1>2. QED
  BY <1>1, Invariance, PTL

(* A process with a directory of its own does not crash in MD5ChkSum.      *)
THEOREM LonersNeverCrash == Spec => []LonersSurvive
<1>1. IInv => LonersSurvive
  BY DEF IInv, Undisturbed, LonersAlone, LonersSurvive
<1>2. QED
  BY <1>1, Invariance, PTL

(* The temporary file exists only while some call is using it.             *)
THEOREM TempRemoved == Spec => []NoLitter
<1> USE CheckSumAssumption DEF TypeOK, NoLitter, CHKSUM_FILENAME
<1>1. Init => NoLitter
  BY DEF Init
<1>2. TypeOK /\ NoLitter /\ [Next]_vars => NoLitter'
  <2> SUFFICES ASSUME TypeOK, NoLitter, [Next]_vars,
                      NEW p \in Processes, entry'[Directory[p]] # None
               PROVE  \E q \in Processes : Directory[q] = Directory[p]
                                           /\ at'[q] \in {"write", "fopen", "fread", "rm"}
    OBVIOUS
  <2>1. CASE entry[Directory[p]] = None
    <3>1. PICK q \in Processes : \E i \in Inodes : CreateTemp(q, i)
      <4>1. ~UNCHANGED entry
        BY <2>1
      <4>2. \A q \in Processes : ~RemoveTemp(q)
        BY <2>1 DEF RemoveTemp
      <4>3. \A q \in Processes, f \in Files : ~MD5ChkSum(q, f)
        BY <4>1 DEF MD5ChkSum
      <4>4. \A q \in Processes : ~(TruncateTemp(q) \/ WriteSum(q) \/ OpenTemp(q)
                                   \/ OpenNothing(q) \/ ReadSum(q))
        BY <4>1 DEF TruncateTemp, WriteSum, OpenTemp, OpenNothing, ReadSum
      <4>5. ~UNCHANGED vars
        BY <4>1 DEF vars
      <4>6. QED
        BY <4>2, <4>3, <4>4, <4>5 DEF Next
    <3>2. Directory[q] = Directory[p]
      BY <2>1, <3>1 DEF CreateTemp
    <3>3. at'[q] = "write"
      BY <3>1 DEF CreateTemp, Moves
    <3> QED BY <3>2, <3>3
  <2>2. CASE entry[Directory[p]] # None
    <3>1. PICK q \in Processes : Directory[q] = Directory[p]
                                 /\ at[q] \in {"write", "fopen", "fread", "rm"}
      BY <2>2
    <3>2. CASE UNCHANGED vars
      BY <3>1, <3>2 DEF vars
    <3>3. ASSUME NEW r \in Processes, at'[r] \in {"redirect", "write"},
                 at[r] \in {"idle", "returned", "redirect"}, \A o \in Processes \ {r} : at'[o] = at[o]
          PROVE  at'[q] \in {"write", "fopen", "fread", "rm"}
      BY <3>1, <3>3
    <3>4. ASSUME NEW r \in Processes, OpenNothing(r)
          PROVE  at'[q] \in {"write", "fopen", "fread", "rm"}
      BY <3>1, <3>4, <2>2 DEF OpenNothing, Moves
    <3>5. ASSUME NEW r \in Processes, WriteSum(r) \/ OpenTemp(r) \/ ReadSum(r)
          PROVE  at'[q] \in {"write", "fopen", "fread", "rm"}
      BY <3>1, <3>5 DEF WriteSum, OpenTemp, ReadSum, Moves
    <3>6. ASSUME NEW r \in Processes, RemoveTemp(r)
          PROVE  at'[q] \in {"write", "fopen", "fread", "rm"}
      BY <3>1, <3>6 DEF RemoveTemp, Moves
    <3>7. ASSUME NEW r \in Processes, NEW f \in Files, MD5ChkSum(r, f)
          PROVE  at'[q] \in {"write", "fopen", "fread", "rm"}
      BY <3>3, <3>7 DEF MD5ChkSum, Moves
    <3>8. ASSUME NEW r \in Processes, TruncateTemp(r) \/ \E i \in Inodes : CreateTemp(r, i)
          PROVE  at'[q] \in {"write", "fopen", "fread", "rm"}
      BY <3>3, <3>8 DEF TruncateTemp, CreateTemp, Moves
    <3>9. at'[q] \in {"write", "fopen", "fread", "rm"} \/ UNCHANGED vars
      BY <3>4, <3>5, <3>6, <3>7, <3>8 DEF Next
    <3> QED BY <3>1, <3>2, <3>9
  <2>3. QED
    BY <2>1, <2>2
<1>3. QED
  BY <1>1, <1>2, TypeCorrect, PTL DEF Spec
=============================================================================
