------------------------------ MODULE FilePair ------------------------------
(***************************************************************************)
(* DivideFile and CombineFile: a file is kept as two, the lines at even    *)
(* indices (from 0, as the code counts) and those at odd ones.             *)
(***************************************************************************)
EXTENDS Integers, Sequences

CONSTANT Text   \* what a line may be, without its newline

(* A file as getline sees it; `ended': the last line has its newline.      *)
Contents == [lines : Seq(Text), ended : BOOLEAN]

(* A loop of "<< line << endl" ends every line.                            *)
Written(lines) == [lines |-> lines, ended |-> TRUE]

(* DivideFile: each round takes a line for the even file and, if there is  *)
(* one, a line for the odd file.                                           *)
EvenLines(lines) == [i \in 1 .. (Len(lines) + 1) \div 2 |-> lines[2 * i - 1]]
OddLines(lines) == [i \in 1 .. Len(lines) \div 2 |-> lines[2 * i]]

DivideFile(file) == [even |-> Written(EvenLines(file.lines)),
                     odd  |-> Written(OddLines(file.lines))]

(* CombineFile: each round takes a line of the even file and one of the    *)
(* odd file; without the first the loop is not entered, without the second *)
(* it is left.                                                             *)
CombinedLength(even, odd) ==
  IF Len(even.lines) <= Len(odd.lines) THEN 2 * Len(even.lines)
                                       ELSE 2 * Len(odd.lines) + 1

CombineFile(even, odd) ==
  Written([i \in 1 .. CombinedLength(even, odd) |->
             IF i % 2 = 1 THEN even.lines[(i + 1) \div 2] ELSE odd.lines[i \div 2]])

=============================================================================
