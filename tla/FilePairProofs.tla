--------------------------- MODULE FilePairProofs ---------------------------
(* What is divided and combined again is the file, for lines of any number *)
(* and length.                                                             *)
EXTENDS FilePair, TLAPS

LEMMA Halves ==
  ASSUME NEW n \in Nat
  PROVE  /\ (n + 1) \div 2 \in Nat
         /\ n \div 2 \in Nat
         /\ \A i \in 1 .. (n + 1) \div 2 : 2 * i - 1 \in 1 .. n
         /\ \A i \in 1 .. n \div 2 : 2 * i \in 1 .. n
<1>1. (n + 1) \div 2 \in Nat /\ n \div 2 \in Nat
  OBVIOUS
<1>2. \A i \in 1 .. (n + 1) \div 2 : 2 * i - 1 \in 1 .. n
  OBVIOUS
<1>3. \A i \in 1 .. n \div 2 : 2 * i \in 1 .. n
  OBVIOUS
<1> QED
  BY <1>1, <1>2, <1>3

(* Line i of the file is line (i + 1) \div 2 of the even file or line      *)
(* i \div 2 of the odd one.                                                *)
LEMMA Places ==
  ASSUME NEW n \in Nat, NEW i \in 1 .. n
  PROVE  /\ i % 2 = 1 => /\ (i + 1) \div 2 \in 1 .. (n + 1) \div 2
                         /\ 2 * ((i + 1) \div 2) - 1 = i
         /\ i % 2 # 1 => /\ i \div 2 \in 1 .. n \div 2
                         /\ 2 * (i \div 2) = i
  OBVIOUS

(* The loop of CombineFile stops after as many lines as were divided.      *)
LEMMA LoopLength ==
  ASSUME NEW n \in Nat
  PROVE  n = IF (n + 1) \div 2 <= n \div 2 THEN 2 * ((n + 1) \div 2)
                                           ELSE 2 * (n \div 2) + 1
  OBVIOUS

LEMMA LinesType ==
  ASSUME NEW file \in Contents
  PROVE  Len(file.lines) \in Nat /\ file.lines \in [1 .. Len(file.lines) -> Text]
  BY DEF Contents

(* The even file has the odd one's number of lines, or one more.           *)
LEMMA PartLengths ==
  ASSUME NEW file \in Contents
  PROVE  /\ EvenLines(file.lines) \in Seq(Text)
         /\ Len(EvenLines(file.lines)) = (Len(file.lines) + 1) \div 2
         /\ OddLines(file.lines) \in Seq(Text)
         /\ Len(OddLines(file.lines)) = Len(file.lines) \div 2
<1> SUFFICES ASSUME NEW n, n = Len(file.lines)
             PROVE  /\ EvenLines(file.lines) \in Seq(Text)
                    /\ Len(EvenLines(file.lines)) = (n + 1) \div 2
                    /\ OddLines(file.lines) \in Seq(Text)
                    /\ Len(OddLines(file.lines)) = n \div 2
  OBVIOUS
<1>1. n \in Nat /\ file.lines \in [1 .. n -> Text]
  BY LinesType
<1>2. PICK m, k : m = (n + 1) \div 2 /\ k = n \div 2
  OBVIOUS
<1>3. /\ m \in Nat /\ k \in Nat
      /\ \A i \in 1 .. m : 2 * i - 1 \in 1 .. n
      /\ \A i \in 1 .. k : 2 * i \in 1 .. n
  BY <1>1, <1>2, Halves, Zenon
<1>4. EvenLines(file.lines) = [i \in 1 .. m |-> file.lines[2 * i - 1]]
  BY <1>2 DEF EvenLines
<1>5. OddLines(file.lines) = [i \in 1 .. k |-> file.lines[2 * i]]
  BY <1>2 DEF OddLines
<1>6. EvenLines(file.lines) \in [1 .. m -> Text]
  BY <1>1, <1>3, <1>4
<1>7. OddLines(file.lines) \in [1 .. k -> Text]
  BY <1>1, <1>3, <1>5
<1>8. /\ EvenLines(file.lines) \in Seq(Text) /\ Len(EvenLines(file.lines)) = m
      /\ OddLines(file.lines) \in Seq(Text) /\ Len(OddLines(file.lines)) = k
  BY <1>3, <1>6, <1>7
<1> QED
  BY <1>2, <1>8

(* CombineFile undoes DivideFile, but for the newline that a last line     *)
(* without one has been given (DownloadPair after UploadPair).             *)
THEOREM RoundTrip ==
  ASSUME NEW file \in Contents
  PROVE  CombineFile(DivideFile(file).even, DivideFile(file).odd) = Written(file.lines)
<1>1. PICK n, even, odd : /\ n = Len(file.lines)
                          /\ even = EvenLines(file.lines)
                          /\ odd = OddLines(file.lines)
  OBVIOUS
<1>2. n \in Nat /\ file.lines \in [1 .. n -> Text]
  BY <1>1, LinesType
<1>3. PICK m, k : m = (n + 1) \div 2 /\ k = n \div 2
  OBVIOUS
<1>4. Len(even) = m /\ Len(odd) = k
  BY <1>1, <1>3, PartLengths
<1>5. n = IF m <= k THEN 2 * m ELSE 2 * k + 1
  BY <1>2, <1>3, LoopLength, Zenon
<1>6. CombinedLength(Written(even), Written(odd)) = n
  BY <1>4, <1>5 DEF CombinedLength, Written
<1>7. ASSUME NEW i \in 1 .. n
      PROVE  file.lines[i] = IF i % 2 = 1 THEN even[(i + 1) \div 2] ELSE odd[i \div 2]
  <2>1. even = [j \in 1 .. m |-> file.lines[2 * j - 1]]
    BY <1>1, <1>3 DEF EvenLines
  <2>2. odd = [j \in 1 .. k |-> file.lines[2 * j]]
    BY <1>1, <1>3 DEF OddLines
  <2>3. /\ i % 2 = 1 => (i + 1) \div 2 \in 1 .. m /\ 2 * ((i + 1) \div 2) - 1 = i
        /\ i % 2 # 1 => i \div 2 \in 1 .. k /\ 2 * (i \div 2) = i
    BY <1>2, <1>3, <1>7, Places, Zenon
  <2>4. i % 2 = 1 => even[(i + 1) \div 2] = file.lines[i]
    <3> SUFFICES ASSUME NEW j, j = (i + 1) \div 2, j \in 1 .. m, 2 * j - 1 = i
                 PROVE  even[j] = file.lines[i]
      BY <2>3
    <3> QED
      BY <2>1
  <2>5. i % 2 # 1 => odd[i \div 2] = file.lines[i]
    <3> SUFFICES ASSUME NEW j, j = i \div 2, j \in 1 .. k, 2 * j = i
                 PROVE  odd[j] = file.lines[i]
      BY <2>3
    <3> QED
      BY <2>2
  <2> QED
    BY <2>4, <2>5, Zenon
<1>8. [i \in 1 .. n |-> IF i % 2 = 1 THEN even[(i + 1) \div 2] ELSE odd[i \div 2]] = file.lines
  BY <1>2, <1>7, Zenon
<1>9. Written(even).lines = even /\ Written(odd).lines = odd
  BY DEF Written
<1>10. CombineFile(Written(even), Written(odd)) = Written(file.lines)
  BY <1>6, <1>8, <1>9, Zenon DEF CombineFile
<1> QED
  BY <1>1, <1>10, Zenon DEF DivideFile

(* How many lines CombineFile takes from each file.                        *)
LEMMA Taken ==
  ASSUME NEW e \in Nat, NEW o \in Nat, NEW n, n = IF e <= o THEN 2 * e ELSE 2 * o + 1
  PROVE  n \in Nat /\ (n + 1) \div 2 \in 0 .. e /\ n \div 2 \in 0 .. o
<1>1. CASE e <= o
  BY <1>1
<1>2. CASE ~(e <= o)
  <2>1. n = 2 * o + 1 /\ o + 1 <= e
    BY <1>2
  <2>2. n \div 2 = o /\ (n + 1) \div 2 = o + 1
    BY <2>1
  <2> QED
    BY <2>1, <2>2
<1> QED
  BY <1>1, <1>2

LEMMA PairIndices ==
  ASSUME NEW i \in Nat
  PROVE  /\ (2 * i - 1) % 2 = 1 /\ (2 * i - 1 + 1) \div 2 = i
         /\ (2 * i) % 2 # 1 /\ (2 * i) \div 2 = i
  OBVIOUS

(* Whatever is combined has of each file the first lines.                  *)
LEMMA CombinedFromFirst ==
  ASSUME NEW even \in Seq(Text), NEW odd \in Seq(Text)
  PROVE  /\ \E m \in 0 .. Len(even) :
               EvenLines(CombineFile(Written(even), Written(odd)).lines) = SubSeq(even, 1, m)
         /\ \E k \in 0 .. Len(odd) :
               OddLines(CombineFile(Written(even), Written(odd)).lines) = SubSeq(odd, 1, k)
<1>0. PICK file : file = CombineFile(Written(even), Written(odd))
  OBVIOUS
<1>1. PICK e, o, n : e = Len(even) /\ o = Len(odd) /\ n = IF e <= o THEN 2 * e ELSE 2 * o + 1
  OBVIOUS
<1>2. CombinedLength(Written(even), Written(odd)) = n
  BY <1>1 DEF CombinedLength, Written
<1>3. PICK m, k : m = (n + 1) \div 2 /\ k = n \div 2
  OBVIOUS
<1>4. e \in Nat /\ o \in Nat
  BY <1>1
<1>5. n \in Nat /\ m \in 0 .. e /\ k \in 0 .. o
  BY <1>1, <1>3, <1>4, Taken, Zenon
<1>6. file.lines = [i \in 1 .. n |-> IF i % 2 = 1 THEN even[(i + 1) \div 2] ELSE odd[i \div 2]]
  BY <1>0, <1>2, Zenon DEF CombineFile, Written
<1>7. PICK lines : lines = file.lines
  OBVIOUS
<1>8. \A i \in 1 .. n : lines[i] = IF i % 2 = 1 THEN even[(i + 1) \div 2] ELSE odd[i \div 2]
  BY <1>6, <1>7, Zenon
<1>9. Len(lines) = n
  <2>1. DOMAIN lines = 1 .. n
    BY <1>6, <1>7, Zenon
  <2> QED
    BY <1>5, <1>6, <1>7, <2>1
<1>10. \A i \in 1 .. m : 2 * i - 1 \in 1 .. n /\ i \in Nat
  BY <1>3, <1>5, Halves
<1>11. \A i \in 1 .. k : 2 * i \in 1 .. n /\ i \in Nat
  BY <1>3, <1>5, Halves
<1>12. ASSUME NEW i \in 1 .. m PROVE lines[2 * i - 1] = even[i]
  BY <1>8, <1>10, PairIndices, Zenon
<1>13. ASSUME NEW i \in 1 .. k PROVE lines[2 * i] = odd[i]
  BY <1>8, <1>11, PairIndices, Zenon
<1>14. EvenLines(lines) = [i \in 1 .. m |-> even[i]]
  BY <1>3, <1>9, <1>12, Zenon DEF EvenLines
<1>15. OddLines(lines) = [i \in 1 .. k |-> odd[i]]
  BY <1>3, <1>9, <1>13, Zenon DEF OddLines
<1>16. SubSeq(even, 1, m) = [i \in 1 .. m |-> even[i]]
  BY <1>1, <1>5
<1>17. SubSeq(odd, 1, k) = [i \in 1 .. k |-> odd[i]]
  BY <1>1, <1>5
<1> QED
  BY <1>0, <1>1, <1>5, <1>7, <1>14, <1>15, <1>16, <1>17, Zenon

=============================================================================
