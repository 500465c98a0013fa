-------------------------- MODULE PairLoopsProofs --------------------------
(***************************************************************************)
(* The loops of DivideFile and CombineFile compute what FilePair says, for *)
(* files of any number of lines, whichever writes fail.                    *)
(***************************************************************************)
EXTENDS PairLoops, FilePairProofs

-----------------------------------------------------------------------------
(* What has been written when n lines have been read.                      *)
EvenUpTo(lines, n) == [i \in 1 .. (n + 1) \div 2 |-> lines[2 * i - 1]]
OddUpTo(lines, n) == [i \in 1 .. n \div 2 |-> lines[2 * i]]

Joined(even, odd, n) ==
  [i \in 1 .. n |-> IF i % 2 = 1 THEN even[(i + 1) \div 2] ELSE odd[i \div 2]]

(* A function on 1 .. m + 1 is the one on 1 .. m with a last element.      *)
LEMMA OneMore ==
  ASSUME NEW S, NEW m \in Nat, NEW s, NEW t \in [1 .. m + 1 -> S],
         s = [i \in 1 .. m |-> t[i]]
  PROVE  s \in Seq(S) /\ Len(s) = m /\ t = Append(s, t[m + 1])
<1>1. s \in [1 .. m -> S]
  OBVIOUS
<1>2. s \in Seq(S) /\ Len(s) = m
  BY <1>1
<1>3. Append(s, t[m + 1]) = [i \in 1 .. m + 1 |-> IF i <= m THEN s[i] ELSE t[m + 1]]
  BY <1>2
<1>4. \A i \in 1 .. m + 1 : t[i] = IF i <= m THEN s[i] ELSE t[m + 1]
  OBVIOUS
<1> QED BY <1>2, <1>3, <1>4

LEMMA UpToTyped ==
  ASSUME NEW lines \in Seq(Text), NEW n \in 0 .. Len(lines)
  PROVE  /\ EvenUpTo(lines, n) \in Seq(Text) /\ Len(EvenUpTo(lines, n)) = (n + 1) \div 2
         /\ OddUpTo(lines, n) \in Seq(Text) /\ Len(OddUpTo(lines, n)) = n \div 2
<1>1. n \in Nat /\ Len(lines) \in Nat /\ lines \in [1 .. Len(lines) -> Text]
  OBVIOUS
<1>2. PICK m, k : m = (n + 1) \div 2 /\ k = n \div 2
  OBVIOUS
<1>3. /\ m \in Nat /\ k \in Nat
      /\ \A i \in 1 .. m : 2 * i - 1 \in 1 .. n
      /\ \A i \in 1 .. k : 2 * i \in 1 .. n
  BY <1>1, <1>2, Halves, Zenon
<1>4. 1 .. n \subseteq 1 .. Len(lines)
  BY <1>1
<1>5. EvenUpTo(lines, n) = [i \in 1 .. m |-> lines[2 * i - 1]]
  BY <1>2 DEF EvenUpTo
<1>6. OddUpTo(lines, n) = [i \in 1 .. k |-> lines[2 * i]]
  BY <1>2 DEF OddUpTo
<1>7. EvenUpTo(lines, n) \in [1 .. m -> Text]
  BY <1>1, <1>3, <1>4, <1>5
<1>8. OddUpTo(lines, n) \in [1 .. k -> Text]
  BY <1>1, <1>3, <1>4, <1>6
<1> QED BY <1>2, <1>3, <1>7, <1>8

(* The lines go to the two files in turn.                                  *)
LEMMA Turns ==
  ASSUME NEW n \in Nat
  PROVE  /\ n % 2 = 0 => /\ (n + 1 + 1) \div 2 = (n + 1) \div 2 + 1
                         /\ 2 * ((n + 1) \div 2 + 1) - 1 = n + 1
                         /\ (n + 1) \div 2 = n \div 2
                         /\ (n + 1) % 2 = 1
         /\ n % 2 = 1 => /\ (n + 1) \div 2 = n \div 2 + 1
                         /\ 2 * (n \div 2 + 1) = n + 1
                         /\ (n + 1 + 1) \div 2 = (n + 1) \div 2
                         /\ (n + 1) % 2 = 0
  OBVIOUS

LEMMA EvenTurn ==
  ASSUME NEW lines \in Seq(Text), NEW n \in 0 .. Len(lines), n < Len(lines), n % 2 = 0
  PROVE  /\ EvenUpTo(lines, n + 1) = Append(EvenUpTo(lines, n), lines[n + 1])
         /\ OddUpTo(lines, n + 1) = OddUpTo(lines, n)
<1>1. n \in Nat /\ n + 1 \in 0 .. Len(lines)
  OBVIOUS
<1>2. PICK m \in Nat : m = (n + 1) \div 2
  BY <1>1, Halves
<1>3. (n + 1 + 1) \div 2 = m + 1 /\ 2 * (m + 1) - 1 = n + 1 /\ (n + 1) \div 2 = n \div 2
  BY <1>1, <1>2, Turns
<1>4. PICK s, t : s = EvenUpTo(lines, n) /\ t = EvenUpTo(lines, n + 1)
  OBVIOUS
<1>5. t = [i \in 1 .. m + 1 |-> lines[2 * i - 1]] /\ s = [i \in 1 .. m |-> lines[2 * i - 1]]
  BY <1>2, <1>3, <1>4, Zenon DEF EvenUpTo
<1>6. t \in [1 .. m + 1 -> Text]
  <2>1. t \in Seq(Text) /\ Len(t) = m + 1
    BY <1>1, <1>3, <1>4, UpToTyped
  <2> QED BY <2>1
<1>7. s = [i \in 1 .. m |-> t[i]] /\ t[m + 1] = lines[n + 1]
  BY <1>3, <1>5
<1>8. t = Append(s, lines[n + 1])
  BY <1>6, <1>7, OneMore
<1>9. OddUpTo(lines, n + 1) = OddUpTo(lines, n)
  BY <1>3, Zenon DEF OddUpTo
<1> QED BY <1>4, <1>8, <1>9

LEMMA OddTurn ==
  ASSUME NEW lines \in Seq(Text), NEW n \in 0 .. Len(lines), n < Len(lines), n % 2 = 1
  PROVE  /\ OddUpTo(lines, n + 1) = Append(OddUpTo(lines, n), lines[n + 1])
         /\ EvenUpTo(lines, n + 1) = EvenUpTo(lines, n)
<1>1. n \in Nat /\ n + 1 \in 0 .. Len(lines)
  OBVIOUS
<1>2. PICK m \in Nat : m = n \div 2
  BY <1>1, Halves
<1>3. (n + 1) \div 2 = m + 1 /\ 2 * (m + 1) = n + 1 /\ (n + 1 + 1) \div 2 = (n + 1) \div 2
  BY <1>1, <1>2, Turns
<1>4. PICK s, t : s = OddUpTo(lines, n) /\ t = OddUpTo(lines, n + 1)
  OBVIOUS
<1>5. t = [i \in 1 .. m + 1 |-> lines[2 * i]] /\ s = [i \in 1 .. m |-> lines[2 * i]]
  BY <1>2, <1>3, <1>4, Zenon DEF OddUpTo
<1>6. t \in [1 .. m + 1 -> Text]
  <2>1. t \in Seq(Text) /\ Len(t) = m + 1
    BY <1>1, <1>3, <1>4, UpToTyped
  <2> QED BY <2>1
<1>7. s = [i \in 1 .. m |-> t[i]] /\ t[m + 1] = lines[n + 1]
  <2>1. m + 1 \in 1 .. m + 1
    OBVIOUS
  <2>2. t[m + 1] = lines[n + 1]
    BY <1>3, <1>5, <2>1, Zenon
  <2>3. \A i \in 1 .. m : i \in 1 .. m + 1
    OBVIOUS
  <2> QED BY <1>5, <2>2, <2>3, Zenon
<1>8. t = Append(s, lines[n + 1])
  BY <1>6, <1>7, OneMore
<1>9. EvenUpTo(lines, n + 1) = EvenUpTo(lines, n)
  BY <1>3, Zenon DEF EvenUpTo
<1> QED BY <1>4, <1>8, <1>9

(* CombineFile's output grows by a line of the even file, then the odd.    *)
LEMMA JoinedTyped ==
  ASSUME NEW even \in Seq(Text), NEW odd \in Seq(Text), NEW n \in Nat,
         (n + 1) \div 2 <= Len(even), n \div 2 <= Len(odd)
  PROVE  /\ Joined(even, odd, n) \in [1 .. n -> Text]
         /\ Joined(even, odd, n) \in Seq(Text)
<1>1. ASSUME NEW i \in 1 .. n
      PROVE  (IF i % 2 = 1 THEN even[(i + 1) \div 2] ELSE odd[i \div 2]) \in Text
  <2>1. CASE i % 2 = 1
    <3>1. (i + 1) \div 2 \in 1 .. Len(even)
      BY <2>1
    <3>2. even[(i + 1) \div 2] \in Text
      <4> SUFFICES ASSUME NEW j \in 1 .. Len(even) PROVE even[j] \in Text
        BY <3>1
      <4> QED OBVIOUS
    <3> QED BY <2>1, <3>2
  <2>2. CASE i % 2 # 1
    <3>1. i \div 2 \in 1 .. Len(odd)
      BY <2>2
    <3>2. odd[i \div 2] \in Text
      <4> SUFFICES ASSUME NEW j \in 1 .. Len(odd) PROVE odd[j] \in Text
        BY <3>1
      <4> QED OBVIOUS
    <3> QED BY <2>2, <3>2
  <2> QED BY <2>1, <2>2
<1>2. Joined(even, odd, n) \in [1 .. n -> Text]
  BY <1>1, Zenon DEF Joined
<1> QED BY <1>2

LEMMA JoinsEven ==
  ASSUME NEW even \in Seq(Text), NEW odd \in Seq(Text), NEW e \in Nat,
         e < Len(even), e <= Len(odd)
  PROVE  Joined(even, odd, (e + 1) + e) = Append(Joined(even, odd, e + e), even[e + 1])
<1>1. PICK n \in Nat : n = e + e
  OBVIOUS
<1>2. /\ n + 1 = (e + 1) + e
      /\ (n + 1) % 2 = 1 /\ (n + 1 + 1) \div 2 = e + 1
      /\ (n + 1 + 1) \div 2 <= Len(even) /\ (n + 1) \div 2 <= Len(odd)
  BY <1>1
<1>3. PICK s, t : s = Joined(even, odd, n) /\ t = Joined(even, odd, n + 1)
  OBVIOUS
<1>4. n + 1 \in Nat /\ t \in [1 .. n + 1 -> Text]
  BY <1>2, <1>3, JoinedTyped
<1>5. n + 1 \in 1 .. n + 1 /\ \A i \in 1 .. n : i \in 1 .. n + 1
  OBVIOUS
<1>6. s = [i \in 1 .. n |-> t[i]]
  BY <1>3, <1>5, Zenon DEF Joined
<1>7. t[n + 1] = even[e + 1]
  BY <1>2, <1>3, <1>5, Zenon DEF Joined
<1>8. t = Append(s, even[e + 1])
  BY <1>4, <1>6, <1>7, OneMore
<1> QED BY <1>1, <1>2, <1>3, <1>8

LEMMA JoinsOdd ==
  ASSUME NEW even \in Seq(Text), NEW odd \in Seq(Text), NEW o \in Nat,
         o < Len(odd), o + 1 <= Len(even)
  PROVE  Joined(even, odd, (o + 1) + (o + 1)) = Append(Joined(even, odd, (o + 1) + o), odd[o + 1])
<1>1. PICK n \in Nat : n = (o + 1) + o
  OBVIOUS
<1>2. /\ n + 1 = (o + 1) + (o + 1)
      /\ (n + 1) % 2 # 1 /\ (n + 1) \div 2 = o + 1
      /\ (n + 1 + 1) \div 2 <= Len(even) /\ (n + 1) \div 2 <= Len(odd)
  BY <1>1
<1>3. PICK s, t : s = Joined(even, odd, n) /\ t = Joined(even, odd, n + 1)
  OBVIOUS
<1>4. n + 1 \in Nat /\ t \in [1 .. n + 1 -> Text]
  <2>1. PICK p \in Nat : p = n + 1
    BY <1>1
  <2>2. (p + 1) \div 2 <= Len(even) /\ p \div 2 <= Len(odd)
    BY <1>2, <2>1, Zenon
  <2>3. Joined(even, odd, p) \in [1 .. p -> Text]
    BY <2>2, JoinedTyped
  <2> QED BY <1>3, <2>1, <2>3
<1>5. n + 1 \in 1 .. n + 1 /\ \A i \in 1 .. n : i \in 1 .. n + 1
  OBVIOUS
<1>6. s = [i \in 1 .. n |-> t[i]]
  BY <1>3, <1>5, Zenon DEF Joined
<1>7. t[n + 1] = odd[o + 1]
  BY <1>2, <1>3, <1>5, Zenon DEF Joined
<1>8. t = Append(s, odd[o + 1])
  BY <1>4, <1>6, <1>7, OneMore
<1> QED BY <1>1, <1>2, <1>3, <1>8

(* Where CombineFile's loop stops, its output is FilePair's.               *)
LEMMA StopsThere ==
  ASSUME NEW even \in Contents, NEW odd \in Contents, NEW e \in Nat, NEW o \in Nat,
         \/ e = o /\ e = Len(even.lines) /\ o <= Len(odd.lines)
         \/ e = o + 1 /\ e <= Len(even.lines) /\ o = Len(odd.lines)
  PROVE  CombineFile(even, odd) = Written(Joined(even.lines, odd.lines, e + o))
<1>1. Len(even.lines) \in Nat /\ Len(odd.lines) \in Nat
  BY DEF Contents
<1>2. CombinedLength(even, odd) = e + o
  BY <1>1 DEF CombinedLength
<1> QED BY <1>2, Zenon DEF CombineFile, Joined

(* Some of the lines are the first of them.                                *)
LEMMA FirstOfThem ==
  ASSUME NEW t \in Seq(Text), NEW m \in 0 .. Len(t)
  PROVE  Begins([i \in 1 .. m |-> t[i]], t)
<1>1. [i \in 1 .. m |-> t[i]] \in [1 .. m -> Text] /\ m \in Nat
  OBVIOUS
<1>2. Len([i \in 1 .. m |-> t[i]]) = m
  BY <1>1
<1>3. SubSeq(t, 1, m) = [i \in 1 .. m |-> t[i]]
  OBVIOUS
<1> QED BY <1>2, <1>3 DEF Begins

LEMMA UpToBegins ==
  ASSUME NEW file \in Contents, NEW n \in 0 .. Len(file.lines)
  PROVE  /\ Begins(EvenUpTo(file.lines, n), EvenLines(file.lines))
         /\ Begins(OddUpTo(file.lines, n), OddLines(file.lines))
<1>1. PICK lines, len : lines = file.lines /\ len = Len(lines)
  OBVIOUS
<1>2. lines \in Seq(Text) /\ len \in Nat /\ n \in 0 .. len
  BY <1>1 DEF Contents
<1>3. PICK m, k, a, b : /\ m = (n + 1) \div 2 /\ k = n \div 2
                        /\ a = (len + 1) \div 2 /\ b = len \div 2
  OBVIOUS
<1>4. m \in 0 .. a /\ k \in 0 .. b /\ a \in Nat /\ b \in Nat
  BY <1>2, <1>3
<1>5. PICK s, t : s = EvenLines(lines) /\ t = OddLines(lines)
  OBVIOUS
<1>6. s \in Seq(Text) /\ Len(s) = a /\ t \in Seq(Text) /\ Len(t) = b
  BY <1>1, <1>3, <1>5, PartLengths
<1>7. s = [i \in 1 .. a |-> lines[2 * i - 1]] /\ t = [i \in 1 .. b |-> lines[2 * i]]
  BY <1>1, <1>3, <1>5, Zenon DEF EvenLines, OddLines
<1>8. /\ EvenUpTo(lines, n) = [i \in 1 .. m |-> lines[2 * i - 1]]
      /\ OddUpTo(lines, n) = [i \in 1 .. k |-> lines[2 * i]]
  BY <1>3, Zenon DEF EvenUpTo, OddUpTo
<1>9. \A i \in 1 .. m : i \in 1 .. a
  BY <1>4
<1>10. \A i \in 1 .. k : i \in 1 .. b
  BY <1>4
<1>11. EvenUpTo(lines, n) = [i \in 1 .. m |-> s[i]]
  BY <1>7, <1>8, <1>9, Zenon
<1>12. OddUpTo(lines, n) = [i \in 1 .. k |-> t[i]]
  BY <1>7, <1>8, <1>10, Zenon
<1>13. Begins(EvenUpTo(lines, n), s)
  BY <1>4, <1>6, <1>11, FirstOfThem
<1>14. Begins(OddUpTo(lines, n), t)
  BY <1>4, <1>6, <1>12, FirstOfThem
<1> QED BY <1>1, <1>5, <1>13, <1>14

LEMMA AllOfThem ==
  ASSUME NEW lines
  PROVE  /\ EvenUpTo(lines, Len(lines)) = EvenLines(lines)
         /\ OddUpTo(lines, Len(lines)) = OddLines(lines)
  BY Zenon DEF EvenUpTo, EvenLines, OddUpTo, OddLines

LEMMA NothingYet ==
  /\ Empty \in Contents /\ Empty.lines = <<>> /\ Whole(Empty) = <<>>
  /\ \A lines \in Seq(Text) : /\ Empty = Written(EvenUpTo(lines, 0))
                              /\ Empty = Written(OddUpTo(lines, 0))
  /\ \A even, odd : Empty = Written(Joined(even, odd, 0))
  /\ \A t \in Seq(Text) : Begins(<<>>, t)
<1>1. /\ \A lines : EvenUpTo(lines, 0) = <<>> /\ OddUpTo(lines, 0) = <<>>
      /\ \A even, odd : Joined(even, odd, 0) = <<>>
  BY DEF EvenUpTo, OddUpTo, Joined
<1>2. Empty \in Contents /\ Empty.lines = <<>> /\ Whole(Empty) = <<>>
  BY DEF Empty, Written, Contents, Whole
<1>3. \A t \in Seq(Text) : Begins(<<>>, t)
  BY DEF Begins
<1> QED BY <1>1, <1>2, <1>3, Zenon DEF Empty

-----------------------------------------------------------------------------
(* The inductive invariant: what the loops have done so far.  Of a file    *)
(* whose write has failed it says only what PartsBegin does.               *)
Dividing ==
  at \in {"divideEven", "divideOdd"} =>
    /\ fresh = {}
    /\ read["original"] <= Len(disk["original"].lines)
    /\ read["original"] % 2 = IF at = "divideEven" THEN 0 ELSE 1
    /\ "even" \notin failed =>
         disk["even"] = Written(EvenUpTo(disk["original"].lines, read["original"]))
    /\ "odd" \notin failed =>
         disk["odd"] = Written(OddUpTo(disk["original"].lines, read["original"]))

Combining ==
  at \in {"combineEven", "combineOdd"} =>
    /\ "output" \notin fresh
    /\ read["even"] <= Len(disk["even"].lines)
    /\ read["odd"] <= Len(disk["odd"].lines)
    /\ read["even"] = IF at = "combineEven" THEN read["odd"] ELSE read["odd"] + 1
    /\ "output" \notin failed =>
         disk["output"] = Written(Joined(disk["even"].lines, disk["odd"].lines,
                                         read["even"] + read["odd"]))

IInv == TypeOK /\ Dividing /\ Combining /\ PartsBegin /\ Divided /\ Combined

(* What a write does, whether or not it succeeds.                          *)
LEMMA AWrite ==
  ASSUME TypeOK, NEW out \in Outputs, NEW line \in Text, WriteLine(out, line)
  PROVE  /\ disk' \in [Inputs \cup Outputs -> Contents]
         /\ \A f \in Inputs \cup Outputs : f # out => disk'[f] = disk[f]
         /\ failed \subseteq failed' /\ failed' \subseteq failed \cup {out}
         /\ failed' \subseteq Outputs
         /\ out \notin failed' => /\ out \notin failed
                                  /\ disk'[out] = Written(Append(disk[out].lines, line))
         /\ out \in failed' => \/ disk'[out] = disk[out]
                               \/ out \notin failed /\ Whole(disk'[out]) = disk[out].lines
<1>0. out \in Inputs \cup Outputs /\ disk[out] \in Contents /\ disk[out].lines \in Seq(Text)
  BY DEF TypeOK, Contents
<1>1. ASSUME NEW l \in Text, NEW b \in BOOLEAN
      PROVE  [lines |-> Append(disk[out].lines, l), ended |-> b] \in Contents
  BY <1>0, <1>1 DEF Contents
<1>2. CASE out \in failed /\ UNCHANGED <<disk, failed>>
  BY <1>2 DEF TypeOK
<1>3. CASE /\ out \notin failed
           /\ disk' = [disk EXCEPT ![out] = Written(Append(@.lines, line))]
           /\ UNCHANGED failed
  <2>1. Written(Append(disk[out].lines, line)) \in Contents
    BY <1>1 DEF Written
  <2> QED BY <1>0, <1>3, <2>1 DEF TypeOK
<1>4. CASE out \notin failed /\ UNCHANGED disk /\ failed' = failed \cup {out}
  BY <1>4 DEF TypeOK
<1>5. CASE /\ out \notin failed
           /\ \E piece \in Text :
                disk' = [disk EXCEPT ![out] = [lines |-> Append(@.lines, piece), ended |-> FALSE]]
           /\ failed' = failed \cup {out}
  <2>1. PICK piece \in Text :
          disk' = [disk EXCEPT ![out] = [lines |-> Append(disk[out].lines, piece), ended |-> FALSE]]
    BY <1>5
  <2>2. [lines |-> Append(disk[out].lines, piece), ended |-> FALSE] \in Contents
    BY <1>1
  <2>3. disk'[out] = [lines |-> Append(disk[out].lines, piece), ended |-> FALSE]
    BY <1>0, <2>1 DEF TypeOK
  <2>4. \A t \in Seq(Text) : SubSeq(Append(t, piece), 1, Len(Append(t, piece)) - 1) = t
    OBVIOUS
  <2>5. Whole(disk'[out]) = disk[out].lines
    BY <1>0, <2>3, <2>4 DEF Whole
  <2>6. disk' \in [Inputs \cup Outputs -> Contents]
    BY <1>0, <2>1, <2>2 DEF TypeOK
  <2>7. \A f \in Inputs \cup Outputs : f # out => disk'[f] = disk[f]
    BY <2>1 DEF TypeOK
  <2> QED BY <1>5, <2>5, <2>6, <2>7 DEF TypeOK
<1> QED BY <1>2, <1>3, <1>4, <1>5 DEF WriteLine

(* A part that has been written so far begins as it should.                *)
LEMMA WrittenBegins ==
  ASSUME NEW file \in Contents, NEW n \in 0 .. Len(file.lines)
  PROVE  /\ Begins(Whole(Written(EvenUpTo(file.lines, n))), EvenLines(file.lines))
         /\ Begins(Whole(Written(OddUpTo(file.lines, n))), OddLines(file.lines))
  BY UpToBegins DEF Whole, Written

-----------------------------------------------------------------------------
(* Every step keeps the invariant.                                         *)

LEMMA InitHolds == Init => IInv
<1> SUFFICES ASSUME Init PROVE IInv
  OBVIOUS
<1>1. TypeOK
  BY NothingYet DEF Init, TypeOK
<1> QED BY <1>1 DEF Init, IInv, Dividing, Combining, PartsBegin, Divided, Combined

LEMMA EvenStep ==
  ASSUME IInv, DivideEven
  PROVE  IInv'
<1>1. PICK lines, n : lines = disk["original"].lines /\ n = read["original"]
  OBVIOUS
<1>2. /\ TypeOK /\ disk["original"] \in Contents /\ lines \in Seq(Text)
      /\ fresh = {} /\ n \in 0 .. Len(lines) /\ n < Len(lines) /\ n % 2 = 0
      /\ "even" \notin failed => disk["even"] = Written(EvenUpTo(lines, n))
      /\ "odd" \notin failed => disk["odd"] = Written(OddUpTo(lines, n))
      /\ lines[n + 1] \in Text
  BY <1>1 DEF IInv, Dividing, TypeOK, Contents, DivideEven, Copy, HasLine, Inputs, Outputs, Parts
<1>3. /\ read' = [read EXCEPT !["original"] = n + 1]
      /\ WriteLine("even", lines[n + 1])
      /\ at' = "divideOdd" /\ fresh' = fresh /\ result' = result
  BY <1>1 DEF DivideEven, Copy
<1>4. /\ disk' \in [Inputs \cup Outputs -> Contents]
      /\ disk'["original"] = disk["original"] /\ disk'["odd"] = disk["odd"]
      /\ failed \subseteq failed' /\ failed' \subseteq failed \cup {"even"}
      /\ failed' \subseteq Outputs
      /\ "even" \notin failed' => /\ "even" \notin failed
                                  /\ disk'["even"] = Written(Append(disk["even"].lines, lines[n + 1]))
      /\ "even" \in failed' => \/ disk'["even"] = disk["even"]
                               \/ "even" \notin failed /\ Whole(disk'["even"]) = disk["even"].lines
  <2>1. /\ "even" \in Outputs /\ "original" \in Inputs \cup Outputs
        /\ "odd" \in Inputs \cup Outputs /\ "even" # "original" /\ "even" # "odd"
    BY DEF Inputs, Outputs, Parts
  <2> QED BY <1>2, <1>3, <2>1, AWrite
<1>5. TypeOK'
  BY <1>2, <1>3, <1>4 DEF TypeOK, Inputs
<1>6. /\ EvenUpTo(lines, n + 1) = Append(EvenUpTo(lines, n), lines[n + 1])
      /\ OddUpTo(lines, n + 1) = OddUpTo(lines, n)
  BY <1>2, EvenTurn
<1>7. /\ read'["original"] = n + 1 /\ n + 1 \in 0 .. Len(lines) /\ (n + 1) % 2 = 1
      /\ disk'["original"].lines = lines
  <2>1. read'["original"] = n + 1
    BY <1>2, <1>3 DEF TypeOK, Inputs
  <2>2. n \in Nat /\ n + 1 \in 0 .. Len(lines)
    BY <1>2
  <2>3. (n + 1) % 2 = 1
    BY <1>2, <2>2, Turns
  <2>4. disk'["original"].lines = lines
    BY <1>1, <1>4
  <2> QED BY <2>1, <2>2, <2>3, <2>4
<1>8. /\ "even" \notin failed' => disk'["even"] = Written(EvenUpTo(lines, n + 1))
      /\ "odd" \notin failed' => disk'["odd"] = Written(OddUpTo(lines, n + 1))
  <2>1. \A l : Written(l).lines = l
    BY DEF Written
  <2>2. "odd" \notin failed' => "odd" \notin failed
    BY <1>4, Zenon
  <2>3. "even" \notin failed' => "even" \notin failed
    BY <1>4, Zenon
  <2> QED BY <1>2, <1>4, <1>6, <2>1, <2>2, <2>3, Zenon
<1>9. Dividing'
  BY <1>2, <1>3, <1>7, <1>8 DEF Dividing
<1>10. PartsBegin'
  <2>1. Begins(Whole(disk["odd"]), OddLines(lines)) /\ Begins(Whole(disk["even"]), EvenLines(lines))
    BY <1>1 DEF IInv, PartsBegin, DivideEven
  <2>2. Begins(Whole(disk'["even"]), EvenLines(lines))
    <3>1. CASE "even" \notin failed'
      BY <1>1, <1>2, <1>7, <1>8, <3>1, WrittenBegins
    <3>2. CASE disk'["even"] = disk["even"]
      BY <2>1, <3>2
    <3>3. CASE "even" \notin failed /\ Whole(disk'["even"]) = disk["even"].lines
      <4>1. Whole(disk["even"]) = disk["even"].lines
        BY <1>2, <3>3 DEF Written, Whole
      <4> QED BY <2>1, <3>3, <4>1
    <3> QED BY <1>4, <3>1, <3>2, <3>3
  <2> QED BY <1>4, <1>7, <2>1, <2>2 DEF PartsBegin
<1>11. Combining' /\ Divided' /\ Combined'
  BY <1>2, <1>3 DEF Combining, Divided, Combined
<1> QED BY <1>5, <1>9, <1>10, <1>11 DEF IInv

LEMMA OddStep ==
  ASSUME IInv, DivideOdd
  PROVE  IInv'
<1>1. PICK lines, n : lines = disk["original"].lines /\ n = read["original"]
  OBVIOUS
<1>2. /\ TypeOK /\ disk["original"] \in Contents /\ lines \in Seq(Text)
      /\ fresh = {} /\ n \in 0 .. Len(lines) /\ n < Len(lines) /\ n % 2 = 1
      /\ "even" \notin failed => disk["even"] = Written(EvenUpTo(lines, n))
      /\ "odd" \notin failed => disk["odd"] = Written(OddUpTo(lines, n))
      /\ lines[n + 1] \in Text
  BY <1>1 DEF IInv, Dividing, TypeOK, Contents, DivideOdd, Copy, HasLine, Inputs, Outputs, Parts
<1>3. /\ read' = [read EXCEPT !["original"] = n + 1]
      /\ WriteLine("odd", lines[n + 1])
      /\ at' = "divideEven" /\ fresh' = fresh /\ result' = result
  BY <1>1 DEF DivideOdd, Copy
<1>4. /\ disk' \in [Inputs \cup Outputs -> Contents]
      /\ disk'["original"] = disk["original"] /\ disk'["even"] = disk["even"]
      /\ failed \subseteq failed' /\ failed' \subseteq failed \cup {"odd"}
      /\ failed' \subseteq Outputs
      /\ "odd" \notin failed' => /\ "odd" \notin failed
                                 /\ disk'["odd"] = Written(Append(disk["odd"].lines, lines[n + 1]))
      /\ "odd" \in failed' => \/ disk'["odd"] = disk["odd"]
                              \/ "odd" \notin failed /\ Whole(disk'["odd"]) = disk["odd"].lines
  <2>1. /\ "odd" \in Outputs /\ "original" \in Inputs \cup Outputs
        /\ "even" \in Inputs \cup Outputs /\ "odd" # "original" /\ "odd" # "even"
    BY DEF Inputs, Outputs, Parts
  <2> QED BY <1>2, <1>3, <2>1, AWrite
<1>5. TypeOK'
  BY <1>2, <1>3, <1>4 DEF TypeOK, Inputs
<1>6. /\ OddUpTo(lines, n + 1) = Append(OddUpTo(lines, n), lines[n + 1])
      /\ EvenUpTo(lines, n + 1) = EvenUpTo(lines, n)
  BY <1>2, OddTurn
<1>7. /\ read'["original"] = n + 1 /\ n + 1 \in 0 .. Len(lines) /\ (n + 1) % 2 = 0
      /\ disk'["original"].lines = lines
  <2>1. read'["original"] = n + 1
    BY <1>2, <1>3 DEF TypeOK, Inputs
  <2>2. n \in Nat /\ n + 1 \in 0 .. Len(lines)
    BY <1>2
  <2>3. (n + 1) % 2 = 0
    BY <1>2, <2>2, Turns
  <2>4. disk'["original"].lines = lines
    BY <1>1, <1>4
  <2> QED BY <2>1, <2>2, <2>3, <2>4
<1>8. /\ "even" \notin failed' => disk'["even"] = Written(EvenUpTo(lines, n + 1))
      /\ "odd" \notin failed' => disk'["odd"] = Written(OddUpTo(lines, n + 1))
  <2>1. \A l : Written(l).lines = l
    BY DEF Written
  <2>2. "odd" \notin failed' => "odd" \notin failed
    BY <1>4, Zenon
  <2>3. "even" \notin failed' => "even" \notin failed
    BY <1>4, Zenon
  <2> QED BY <1>2, <1>4, <1>6, <2>1, <2>2, <2>3, Zenon
<1>9. Dividing'
  BY <1>2, <1>3, <1>7, <1>8 DEF Dividing
<1>10. PartsBegin'
  <2>1. Begins(Whole(disk["odd"]), OddLines(lines)) /\ Begins(Whole(disk["even"]), EvenLines(lines))
    BY <1>1 DEF IInv, PartsBegin, DivideOdd
  <2>2. Begins(Whole(disk'["odd"]), OddLines(lines))
    <3>1. CASE "odd" \notin failed'
      BY <1>1, <1>2, <1>7, <1>8, <3>1, WrittenBegins
    <3>2. CASE disk'["odd"] = disk["odd"]
      BY <2>1, <3>2
    <3>3. CASE "odd" \notin failed /\ Whole(disk'["odd"]) = disk["odd"].lines
      <4>1. Whole(disk["odd"]) = disk["odd"].lines
        BY <1>2, <3>3 DEF Written, Whole
      <4> QED BY <2>1, <3>3, <4>1
    <3> QED BY <1>4, <3>1, <3>2, <3>3
  <2> QED BY <1>4, <1>7, <2>1, <2>2 DEF PartsBegin
<1>11. Combining' /\ Divided' /\ Combined'
  BY <1>2, <1>3 DEF Combining, Divided, Combined
<1> QED BY <1>5, <1>9, <1>10, <1>11 DEF IInv

LEMMA DivideStops ==
  ASSUME IInv, DivideReturns
  PROVE  IInv'
<1>1. PICK lines, n : lines = disk["original"].lines /\ n = read["original"]
  OBVIOUS
<1>2. /\ TypeOK /\ disk["original"] \in Contents /\ n = Len(lines)
      /\ "even" \notin failed => disk["even"] = Written(EvenUpTo(lines, n))
      /\ "odd" \notin failed => disk["odd"] = Written(OddUpTo(lines, n))
  BY <1>1 DEF IInv, Dividing, TypeOK, Contents, DivideReturns, HasLine, Inputs, Outputs, Parts
<1>3. /\ at' = "idle" /\ result' = "OK" /\ fresh' = {"parts"}
      /\ disk' = disk /\ read' = read /\ failed' = failed
  BY DEF DivideReturns
<1>4. TypeOK'
  BY <1>2, <1>3 DEF TypeOK
<1>5. PartsBegin'
  BY <1>3 DEF IInv, PartsBegin, DivideReturns
<1>6. Divided'
  <2>1. EvenUpTo(lines, n) = EvenLines(lines) /\ OddUpTo(lines, n) = OddLines(lines)
    BY <1>2, AllOfThem
  <2>2. /\ "even" \notin failed => disk["even"] = DivideFile(disk["original"]).even
        /\ "odd" \notin failed => disk["odd"] = DivideFile(disk["original"]).odd
    BY <1>1, <1>2, <2>1 DEF DivideFile
  <2> QED BY <1>3, <2>2 DEF Divided, Undamaged, Parts
<1> QED BY <1>3, <1>4, <1>5, <1>6 DEF IInv, Dividing, Combining, Combined

(* CombineFile writes its output and nothing else.                         *)
LEMMA PartsRemain ==
  ASSUME IInv, at' \in {"idle", "combineEven", "combineOdd"},
         at \in {"idle", "combineEven", "combineOdd"},
         \A f \in Inputs : disk'[f] = disk[f],
         failed' \cap Parts = failed \cap Parts, fresh' \cap {"parts"} = fresh \cap {"parts"}
  PROVE  Dividing' /\ PartsBegin' /\ Divided'
<1>1. /\ disk'["even"] = disk["even"] /\ disk'["odd"] = disk["odd"]
      /\ disk'["original"] = disk["original"]
  BY DEF Inputs, Parts
<1>2. "parts" \in fresh' => "parts" \in fresh
  OBVIOUS
<1>3. Dividing'
  BY DEF Dividing
<1>4. PartsBegin'
  BY <1>1, <1>2 DEF IInv, PartsBegin
<1>5. Divided'
  BY <1>1, <1>2 DEF IInv, Divided, Undamaged
<1> QED BY <1>3, <1>4, <1>5

LEMMA EvenCombined ==
  ASSUME IInv, CombineEven
  PROVE  IInv'
<1>1. PICK even, odd, e : even = disk["even"].lines /\ odd = disk["odd"].lines /\ e = read["even"]
  OBVIOUS
<1>2. /\ TypeOK /\ even \in Seq(Text) /\ odd \in Seq(Text)
      /\ "output" \notin fresh /\ e \in Nat /\ e < Len(even) /\ e <= Len(odd) /\ read["odd"] = e
      /\ "output" \notin failed => disk["output"] = Written(Joined(even, odd, e + e))
      /\ even[e + 1] \in Text
  BY <1>1 DEF IInv, Combining, TypeOK, Contents, CombineEven, Copy, HasLine, Inputs, Outputs, Parts
<1>3. /\ read' = [read EXCEPT !["even"] = e + 1]
      /\ WriteLine("output", even[e + 1])
      /\ at = "combineEven" /\ at' = "combineOdd" /\ fresh' = fresh /\ result' = result
  BY <1>1 DEF CombineEven, Copy
<1>4. /\ disk' \in [Inputs \cup Outputs -> Contents]
      /\ \A f \in Inputs : disk'[f] = disk[f]
      /\ failed \subseteq failed' /\ failed' \subseteq failed \cup {"output"}
      /\ failed' \subseteq Outputs
      /\ "output" \notin failed' => /\ "output" \notin failed
                                    /\ disk'["output"] = Written(Append(disk["output"].lines, even[e + 1]))
  <2>1. "output" \in Outputs /\ "output" \notin Inputs
    BY DEF Inputs, Outputs, Parts
  <2> QED BY <1>2, <1>3, <2>1, AWrite
<1>5. TypeOK'
  <2>1. read' \in [Inputs -> Nat]
    <3>1. e + 1 \in Nat /\ read \in [Inputs -> Nat]
      BY <1>2 DEF TypeOK
    <3> QED BY <1>3, <3>1
  <2>2. at' \in {"combineEven", "combineOdd"}
    BY <1>3
  <2> QED BY <1>2, <1>3, <1>4, <2>1, <2>2 DEF TypeOK
<1>6. Dividing' /\ PartsBegin' /\ Divided'
  <2>1. failed' \cap Parts = failed \cap Parts
    BY <1>4 DEF Parts
  <2> QED BY <1>3, <1>4, <2>1, PartsRemain
<1>7. /\ read'["even"] = e + 1 /\ read'["odd"] = e
      /\ disk'["even"].lines = even /\ disk'["odd"].lines = odd
  BY <1>1, <1>2, <1>3, <1>4 DEF TypeOK, Inputs, Parts
<1>8. "output" \notin failed' => disk'["output"] = Written(Joined(even, odd, (e + 1) + e))
  <2>1. Joined(even, odd, (e + 1) + e) = Append(Joined(even, odd, e + e), even[e + 1])
    BY <1>2, JoinsEven
  <2>2. \A l : Written(l).lines = l
    BY DEF Written
  <2> QED BY <1>2, <1>4, <2>1, <2>2, Zenon
<1>9. Combining'
  <2>1. e + 1 <= Len(even)
    BY <1>2
  <2> QED BY <1>2, <1>3, <1>7, <1>8, <2>1 DEF Combining
<1>10. Combined'
  BY <1>2, <1>3 DEF Combined
<1> QED BY <1>5, <1>6, <1>9, <1>10 DEF IInv

LEMMA OddCombined ==
  ASSUME IInv, CombineOdd
  PROVE  IInv'
<1>1. PICK even, odd, o : even = disk["even"].lines /\ odd = disk["odd"].lines /\ o = read["odd"]
  OBVIOUS
<1>2. /\ TypeOK /\ even \in Seq(Text) /\ odd \in Seq(Text)
      /\ "output" \notin fresh /\ o \in Nat /\ o < Len(odd) /\ o + 1 <= Len(even)
      /\ read["even"] = o + 1
      /\ "output" \notin failed => disk["output"] = Written(Joined(even, odd, (o + 1) + o))
      /\ odd[o + 1] \in Text
  BY <1>1 DEF IInv, Combining, TypeOK, Contents, CombineOdd, Copy, HasLine, Inputs, Outputs, Parts
<1>3. /\ read' = [read EXCEPT !["odd"] = o + 1]
      /\ WriteLine("output", odd[o + 1])
      /\ at = "combineOdd" /\ at' = "combineEven" /\ fresh' = fresh /\ result' = result
  BY <1>1 DEF CombineOdd, Copy
<1>4. /\ disk' \in [Inputs \cup Outputs -> Contents]
      /\ \A f \in Inputs : disk'[f] = disk[f]
      /\ failed \subseteq failed' /\ failed' \subseteq failed \cup {"output"}
      /\ failed' \subseteq Outputs
      /\ "output" \notin failed' => /\ "output" \notin failed
                                    /\ disk'["output"] = Written(Append(disk["output"].lines, odd[o + 1]))
  <2>1. "output" \in Outputs /\ "output" \notin Inputs
    BY DEF Inputs, Outputs, Parts
  <2> QED BY <1>2, <1>3, <2>1, AWrite
<1>5. TypeOK'
  <2>1. read' \in [Inputs -> Nat]
    <3>1. o + 1 \in Nat /\ read \in [Inputs -> Nat]
      BY <1>2 DEF TypeOK
    <3> QED BY <1>3, <3>1
  <2>2. at' \in {"combineEven", "combineOdd"}
    BY <1>3
  <2> QED BY <1>2, <1>3, <1>4, <2>1, <2>2 DEF TypeOK
<1>6. Dividing' /\ PartsBegin' /\ Divided'
  <2>1. failed' \cap Parts = failed \cap Parts
    BY <1>4 DEF Parts
  <2> QED BY <1>3, <1>4, <2>1, PartsRemain
<1>7. /\ read'["odd"] = o + 1 /\ read'["even"] = o + 1
      /\ disk'["even"].lines = even /\ disk'["odd"].lines = odd
  BY <1>1, <1>2, <1>3, <1>4 DEF TypeOK, Inputs, Parts
<1>8. "output" \notin failed' => disk'["output"] = Written(Joined(even, odd, (o + 1) + (o + 1)))
  <2>1. Joined(even, odd, (o + 1) + (o + 1)) = Append(Joined(even, odd, (o + 1) + o), odd[o + 1])
    BY <1>2, JoinsOdd
  <2>2. \A l : Written(l).lines = l
    BY DEF Written
  <2> QED BY <1>2, <1>4, <2>1, <2>2, Zenon
<1>9. Combining'
  <2>1. o + 1 <= Len(odd)
    BY <1>2
  <2> QED BY <1>2, <1>3, <1>7, <1>8, <2>1 DEF Combining
<1>10. Combined'
  BY <1>2, <1>3 DEF Combined
<1> QED BY <1>5, <1>6, <1>9, <1>10 DEF IInv

LEMMA CombineStops ==
  ASSUME IInv, CombineReturns
  PROVE  IInv'
<1>1. PICK even, odd, e, o : /\ even = disk["even"] /\ odd = disk["odd"]
                             /\ e = read["even"] /\ o = read["odd"]
  OBVIOUS
<1>2. /\ TypeOK /\ even \in Contents /\ odd \in Contents /\ e \in Nat /\ o \in Nat
      /\ at \in {"combineEven", "combineOdd"}
      /\ e <= Len(even.lines) /\ o <= Len(odd.lines)
      /\ e = IF at = "combineEven" THEN o ELSE o + 1
      /\ at = "combineEven" => ~(e < Len(even.lines))
      /\ at = "combineOdd" => ~(o < Len(odd.lines))
      /\ "output" \notin failed => disk["output"] = Written(Joined(even.lines, odd.lines, e + o))
  BY <1>1 DEF IInv, Combining, TypeOK, CombineReturns, HasLine, Inputs, Outputs, Parts
<1>3. /\ at' = "idle" /\ result' = "OK" /\ fresh' = fresh \cup {"output"}
      /\ disk' = disk /\ read' = read /\ failed' = failed
  BY DEF CombineReturns
<1>4. TypeOK'
  BY <1>2, <1>3 DEF TypeOK
<1>5. Dividing' /\ PartsBegin' /\ Divided'
  BY <1>2, <1>3, PartsRemain
<1>6. CombineFile(even, odd) = Written(Joined(even.lines, odd.lines, e + o))
  <2>1. Len(even.lines) \in Nat /\ Len(odd.lines) \in Nat
    BY <1>2 DEF Contents
  <2>2. \/ e = o /\ e = Len(even.lines) /\ o <= Len(odd.lines)
        \/ e = o + 1 /\ e <= Len(even.lines) /\ o = Len(odd.lines)
    BY <1>2, <2>1
  <2> QED BY <1>2, <2>2, StopsThere
<1>7. Combined'
  BY <1>1, <1>2, <1>3, <1>6 DEF Combined, Undamaged
<1>8. Combining'
  BY <1>3 DEF Combining
<1> QED BY <1>4, <1>5, <1>7, <1>8 DEF IInv

LEMMA DivideCalled ==
  ASSUME IInv, NEW file \in Files, DivideFileOf(file)
  PROVE  IInv'
<1>1. /\ TypeOK /\ file \in Contents /\ file.lines \in Seq(Text)
  BY LoopsAssumption DEF IInv, Contents
<1>2. /\ disk' = [disk EXCEPT !["original"] = file, !["even"] = Empty, !["odd"] = Empty]
      /\ read' = [read EXCEPT !["original"] = 0]
      /\ failed' = failed \ Parts /\ fresh' = {} /\ at' = "divideEven" /\ result' = result
  BY DEF DivideFileOf
<1>3. /\ disk' \in [Inputs \cup Outputs -> Contents]
      /\ disk'["original"] = file /\ disk'["even"] = Empty /\ disk'["odd"] = Empty
  BY <1>1, <1>2, NothingYet DEF TypeOK, Inputs, Outputs, Parts
<1>4. read' \in [Inputs -> Nat] /\ read'["original"] = 0
  BY <1>1, <1>2 DEF TypeOK, Inputs
<1>5. TypeOK'
  BY <1>1, <1>2, <1>3, <1>4 DEF TypeOK
<1>6. Dividing'
  <2>1. Empty = Written(EvenUpTo(file.lines, 0)) /\ Empty = Written(OddUpTo(file.lines, 0))
    BY <1>1, NothingYet
  <2>2. Len(file.lines) \in Nat /\ 0 % 2 = 0
    BY <1>1
  <2> QED BY <1>2, <1>3, <1>4, <2>1, <2>2 DEF Dividing
<1>7. PartsBegin'
  <2>1. EvenLines(file.lines) \in Seq(Text) /\ OddLines(file.lines) \in Seq(Text)
    BY <1>1, PartLengths
  <2> QED BY <1>3, <2>1, NothingYet DEF PartsBegin
<1> QED BY <1>2, <1>5, <1>6, <1>7 DEF IInv, Combining, Divided, Combined

LEMMA DivideCallFails ==
  ASSUME IInv, NEW file \in Files, DivideFileFails(file)
  PROVE  IInv'
<1>1. TypeOK /\ file \in Contents
  BY LoopsAssumption DEF IInv
<1>2. /\ fresh' = {} /\ at' = "idle" /\ result' = "SYS_ERR" /\ read' = read /\ failed' = failed
      /\ \/ disk' = [disk EXCEPT !["original"] = file]
         \/ disk' = [disk EXCEPT !["original"] = file, !["even"] = Empty]
  BY DEF DivideFileFails
<1>3. disk' \in [Inputs \cup Outputs -> Contents]
  BY <1>1, <1>2, NothingYet DEF TypeOK
<1>4. TypeOK'
  BY <1>1, <1>2, <1>3 DEF TypeOK
<1> QED BY <1>2, <1>4 DEF IInv, Dividing, Combining, PartsBegin, Divided, Combined

LEMMA CombineCalled ==
  ASSUME IInv, CombineFileOf
  PROVE  IInv'
<1>1. TypeOK
  BY DEF IInv
<1>2. /\ disk' = [disk EXCEPT !["output"] = Empty]
      /\ read' = [read EXCEPT !["even"] = 0, !["odd"] = 0]
      /\ failed' = failed \ {"output"} /\ fresh' = fresh \ {"output"}
      /\ at = "idle" /\ at' = "combineEven" /\ result' = result
  BY DEF CombineFileOf
<1>3. /\ disk' \in [Inputs \cup Outputs -> Contents]
      /\ disk'["output"] = Empty /\ \A f \in Inputs : disk'[f] = disk[f]
  BY <1>1, <1>2, NothingYet DEF TypeOK, Inputs, Outputs, Parts
<1>4. read' \in [Inputs -> Nat] /\ read'["even"] = 0 /\ read'["odd"] = 0
  BY <1>1, <1>2 DEF TypeOK, Inputs, Parts
<1>5. TypeOK'
  BY <1>1, <1>2, <1>3, <1>4 DEF TypeOK
<1>6. Dividing' /\ PartsBegin' /\ Divided'
  <2>1. failed' \cap Parts = failed \cap Parts
    BY <1>2 DEF Parts
  <2> QED BY <1>2, <1>3, <2>1, PartsRemain
<1>7. Combining'
  <2>1. disk'["even"] \in Contents /\ disk'["odd"] \in Contents
    BY <1>3 DEF Inputs, Parts
  <2>2. Len(disk'["even"].lines) \in Nat /\ Len(disk'["odd"].lines) \in Nat
    BY <2>1 DEF Contents
  <2>3. Empty = Written(Joined(disk'["even"].lines, disk'["odd"].lines, 0)) /\ 0 + 0 = 0
    BY NothingYet
  <2> QED BY <1>2, <1>3, <1>4, <2>2, <2>3 DEF Combining
<1> QED BY <1>2, <1>5, <1>6, <1>7 DEF IInv, Combined

LEMMA CombineCallFails ==
  ASSUME IInv, CombineFileFails
  PROVE  IInv'
  BY DEF CombineFileFails, IInv, TypeOK, Dividing, Combining, PartsBegin, Divided, Combined,
         Undamaged

LEMMA Downloaded ==
  ASSUME IInv, NEW even \in Files, NEW odd \in Files, Download(even, odd)
  PROVE  IInv'
<1>1. TypeOK /\ even \in Contents /\ odd \in Contents
  BY LoopsAssumption DEF IInv
<1>2. /\ disk' = [disk EXCEPT !["even"] = even, !["odd"] = odd]
      /\ failed' = failed \ Parts /\ fresh' = {}
      /\ at' = "idle" /\ read' = read /\ result' = result
  BY DEF Download
<1>3. TypeOK'
  BY <1>1, <1>2 DEF TypeOK
<1> QED BY <1>2, <1>3 DEF IInv, Dividing, Combining, PartsBegin, Divided, Combined

LEMMA Steps == IInv /\ [Next]_vars => IInv'
<1> SUFFICES ASSUME IInv, [Next]_vars PROVE IInv'
  OBVIOUS
<1>1. CASE Loop
  BY <1>1, EvenStep, OddStep, DivideStops, EvenCombined, OddCombined, CombineStops DEF Loop
<1>2. CASE \E file \in Files : DivideFileOf(file) \/ DivideFileFails(file)
  BY <1>2, DivideCalled, DivideCallFails
<1>3. CASE CombineFileOf \/ CombineFileFails
  BY <1>3, CombineCalled, CombineCallFails
<1>4. CASE \E even, odd \in Files : Download(even, odd)
  BY <1>4, Downloaded
<1>5. CASE UNCHANGED vars
  BY <1>5 DEF vars, IInv, TypeOK, Dividing, Combining, PartsBegin, Divided, Combined, Undamaged
<1> QED BY <1>1, <1>2, <1>3, <1>4, <1>5 DEF Next

-----------------------------------------------------------------------------
(* The theorems.                                                           *)

(* The loops keep their invariant, whatever the calls and the disk do.     *)
THEOREM Invariance == Spec => []IInv
  BY InitHolds, Steps, PTL DEF Spec

(* The variables of the loops have their types.                            *)
THEOREM TypeCorrect == Spec => []TypeOK
<1>1. IInv => TypeOK
  BY DEF IInv
<1> QED BY <1>1, Invariance, PTL

(* DivideFile's loop computes FilePair's function.                         *)
THEOREM DivideLoop == Spec => []Divided
<1>1. IInv => Divided
  BY DEF IInv
<1> QED BY <1>1, Invariance, PTL

(* CombineFile's loop computes FilePair's function, of any two files.      *)
THEOREM CombineLoop == Spec => []Combined
<1>1. IInv => Combined
  BY DEF IInv
<1> QED BY <1>1, Invariance, PTL

(* However many writes fail, a part begins as it should.                   *)
THEOREM PartsAreBeginnings == Spec => []PartsBegin
<1>1. IInv => PartsBegin
  BY DEF IInv
<1> QED BY <1>1, Invariance, PTL

(* What was divided and combined again has the original's lines.           *)
THEOREM LoopsRestore == Spec => []Restored
<1>1. IInv => Restored
  <2> SUFFICES ASSUME IInv, {"parts", "output"} \subseteq fresh, Undamaged(Outputs)
               PROVE  disk["output"].lines = disk["original"].lines
    BY DEF Restored
  <2>1. Undamaged(Parts) /\ Undamaged({"output"})
    BY DEF Undamaged, Outputs
  <2>2. /\ disk["even"] = DivideFile(disk["original"]).even
        /\ disk["odd"] = DivideFile(disk["original"]).odd
        /\ disk["output"] = CombineFile(disk["even"], disk["odd"])
    BY <2>1 DEF IInv, Divided, Combined
  <2>3. disk["original"] \in Contents
    BY DEF IInv, TypeOK, Inputs
  <2>4. disk["output"] = Written(disk["original"].lines)
    BY <2>2, <2>3, RoundTrip
  <2> QED BY <2>4 DEF Written
<1> QED BY <1>1, Invariance, PTL

-----------------------------------------------------------------------------
(* Why the calls return: every turn of a loop reads a line.                *)

LinesLeft(f) == Len(disk[f].lines) - read[f]

Remaining ==
  CASE at \in {"divideEven", "divideOdd"} -> 1 + LinesLeft("original")
    [] at \in {"combineEven", "combineOdd"} -> 1 + LinesLeft("even") + LinesLeft("odd")
    [] OTHER -> 0

Lower == Remaining \in Nat /\ Remaining' \in Nat /\ Remaining' < Remaining

(* A loop writes to none of the files it reads.                            *)
LEMMA CopyReads ==
  ASSUME TypeOK, NEW in \in Inputs, NEW out \in Outputs, NEW next, Copy(in, out, next),
         NEW f \in Inputs, f # out
  PROVE  /\ LinesLeft(f) \in Int
         /\ LinesLeft(f)' = IF f = in THEN LinesLeft(f) - 1 ELSE LinesLeft(f)
<1>1. /\ \A g \in Inputs : disk[g] \in Contents /\ disk[g].lines \in Seq(Text) /\ read[g] \in Nat
  BY DEF TypeOK, Contents
<1>2. /\ read' = [read EXCEPT ![in] = @ + 1] /\ read[in] < Len(disk[in].lines)
      /\ WriteLine(out, disk[in].lines[read[in] + 1])
  BY DEF Copy, HasLine
<1>3. disk[in].lines[read[in] + 1] \in Text
  BY <1>1, <1>2
<1>4. disk'[f] = disk[f]
  BY <1>2, <1>3, AWrite
<1>5. read'[f] = IF f = in THEN read[f] + 1 ELSE read[f]
  BY <1>2 DEF TypeOK
<1>6. Len(disk[f].lines) \in Nat /\ read[f] \in Nat
  BY <1>1
<1> QED BY <1>4, <1>5, <1>6 DEF LinesLeft

LEMMA DivideLowers ==
  ASSUME IInv, DivideEven \/ DivideOdd \/ DivideReturns
  PROVE  Lower
<1>1. /\ at \in {"divideEven", "divideOdd"} /\ TypeOK
      /\ disk["original"] \in Contents /\ Len(disk["original"].lines) \in Nat
      /\ read["original"] \in Nat /\ read["original"] <= Len(disk["original"].lines)
  BY DEF IInv, Dividing, TypeOK, Contents, DivideEven, DivideOdd, DivideReturns, Inputs
<1>2. Remaining = 1 + LinesLeft("original") /\ LinesLeft("original") \in Nat
  BY <1>1 DEF Remaining, LinesLeft
<1>3. ASSUME NEW out \in Parts, NEW next \in {"divideEven", "divideOdd"},
             Copy("original", out, next)
      PROVE  Lower
  <2>1. LinesLeft("original")' = LinesLeft("original") - 1
    BY <1>1, <1>3, CopyReads DEF Inputs, Outputs, Parts
  <2>2. LinesLeft("original") > 0
    BY <1>1, <1>3 DEF Copy, HasLine, LinesLeft
  <2>3. Remaining' = 1 + LinesLeft("original")'
    BY <1>3 DEF Copy, Remaining
  <2> QED BY <1>2, <2>1, <2>2, <2>3 DEF Lower
<1>4. CASE DivideEven \/ DivideOdd
  BY <1>3, <1>4 DEF DivideEven, DivideOdd, Parts
<1>5. CASE DivideReturns
  <2>1. Remaining' = 0
    BY <1>5 DEF DivideReturns, Remaining
  <2> QED BY <1>2, <2>1 DEF Lower
<1> QED BY <1>4, <1>5

LEMMA CombineLowers ==
  ASSUME IInv, CombineEven \/ CombineOdd \/ CombineReturns
  PROVE  Lower
<1>1. /\ at \in {"combineEven", "combineOdd"} /\ TypeOK
      /\ \A f \in Parts : /\ disk[f] \in Contents /\ Len(disk[f].lines) \in Nat
                          /\ read[f] \in Nat /\ read[f] <= Len(disk[f].lines)
  BY DEF IInv, Combining, TypeOK, Contents, CombineEven, CombineOdd, CombineReturns, Inputs, Parts
<1>2. /\ Remaining = 1 + LinesLeft("even") + LinesLeft("odd")
      /\ LinesLeft("even") \in Nat /\ LinesLeft("odd") \in Nat
  <2>1. \A f \in Parts : LinesLeft(f) \in Nat
    BY <1>1 DEF LinesLeft
  <2>2. Remaining = 1 + LinesLeft("even") + LinesLeft("odd")
    BY <1>1 DEF Remaining
  <2> QED BY <2>1, <2>2 DEF Parts
<1>3. ASSUME NEW in \in Parts, NEW next \in {"combineEven", "combineOdd"},
             Copy(in, "output", next)
      PROVE  Lower
  <2>1. \A f \in Parts : LinesLeft(f)' = IF f = in THEN LinesLeft(f) - 1 ELSE LinesLeft(f)
    BY <1>1, <1>3, CopyReads DEF Inputs, Outputs, Parts
  <2>2. LinesLeft(in) > 0
    BY <1>1, <1>3 DEF Copy, HasLine, LinesLeft
  <2>3. Remaining' = 1 + LinesLeft("even")' + LinesLeft("odd")'
    BY <1>3 DEF Copy, Remaining
  <2> QED BY <1>2, <2>1, <2>2, <2>3 DEF Lower, Parts
<1>4. CASE CombineEven \/ CombineOdd
  BY <1>3, <1>4 DEF CombineEven, CombineOdd, Parts
<1>5. CASE CombineReturns
  <2>1. Remaining' = 0
    BY <1>5 DEF CombineReturns, Remaining
  <2> QED BY <1>2, <2>1 DEF Lower
<1> QED BY <1>4, <1>5

(* DivideFile and CombineFile return, whatever their files and the disk:   *)
(* every step of a call leaves fewer lines to read, or is its last.        *)
THEOREM CallsReturn == Spec => [][at # "idle" => Lower]_vars
<1>1. IInv /\ [Next]_vars => [at # "idle" => Lower]_vars
  <2> SUFFICES ASSUME IInv, Next, at # "idle" PROVE Lower
    OBVIOUS
  <2>1. Loop
    BY DEF Next, DivideFileOf, DivideFileFails, CombineFileOf, CombineFileFails, Download
  <2> QED BY <2>1, DivideLowers, CombineLowers DEF Loop
<1> QED BY <1>1, Invariance, PTL DEF Spec

=============================================================================
