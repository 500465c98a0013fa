----------------------------- MODULE PairLoops -----------------------------
(***************************************************************************)
(* DivideFile and CombineFile of file_operations.cpp, one getline and one  *)
(* "<< line << endl" at a time, with files that cannot be opened and a     *)
(* disk that fills up.  FilePair says what the two loops compute.          *)
(***************************************************************************)
EXTENDS FilePair

CONSTANTS
  Files,      \* what is divided, and what is downloaded as parts
  Troubles    \* of "open" (a file cannot be opened), "full" (a write fails)

ASSUME LoopsAssumption == Files \subseteq Contents /\ Troubles \subseteq {"open", "full"}

VARIABLES
  at,        \* the getline that is next, or "idle" between calls
  disk,      \* the contents of each file
  read,      \* how many lines of each file its ifstream has given
  failed,    \* ofstreams whose last write failed: they take nothing more
  result,    \* what the last call returned
  fresh      \* "parts": they are DivideFile's of the original; "output": it
             \* is CombineFile's of the parts (history)

vars == <<at, disk, read, failed, result, fresh>>

Parts == {"even", "odd"}
Outputs == Parts \cup {"output"}
Inputs == Parts \cup {"original"}

Empty == Written(<<>>)

TypeOK ==
  /\ at \in {"idle", "divideEven", "divideOdd", "combineEven", "combineOdd"}
  /\ disk \in [Inputs \cup Outputs -> Contents]
  /\ read \in [Inputs -> Nat]
  /\ failed \subseteq Outputs
  /\ result \in {"OK", "SYS_ERR"}
  /\ fresh \subseteq {"parts", "output"}

Init ==
  /\ at = "idle"
  /\ disk = [f \in Inputs \cup Outputs |-> Empty]
  /\ read = [f \in Inputs |-> 0]
  /\ failed = {}
  /\ result = "OK"
  /\ fresh = {}

-----------------------------------------------------------------------------
(* The loops.                                                              *)

HasLine(f) == read[f] < Len(disk[f].lines)

(* (a failed write is tried again with the next line)                      *)
ForgetsFailure(out, line) ==
  \/ disk' = [disk EXCEPT ![out] = Written(Append(@.lines, line))] /\ UNCHANGED failed
  \/ "full" \in Troubles /\ UNCHANGED <<disk, failed>>

(* out << line << endl, which flushes.  Nobody looks whether it has        *)
(* failed: what is left may be a piece of the line, and nothing follows.   *)
WriteLine(out, line) ==
  \/ out \in failed /\ UNCHANGED <<disk, failed>>
  \/ /\ out \notin failed
     /\ disk' = [disk EXCEPT ![out] = Written(Append(@.lines, line))]
     /\ UNCHANGED failed
  \/ /\ "full" \in Troubles /\ out \notin failed
     /\ \/ UNCHANGED disk
        \/ \E piece \in Text :
             disk' = [disk EXCEPT ![out] = [lines |-> Append(@.lines, piece), ended |-> FALSE]]
     /\ failed' = failed \cup {out}

(* A getline that succeeds, and the line is passed on.                     *)
Copy(in, out, next) ==
  /\ HasLine(in)
  /\ read' = [read EXCEPT ![in] = @ + 1]
  /\ WriteLine(out, disk[in].lines[read[in] + 1])
  /\ at' = next
  /\ UNCHANGED <<result, fresh>>

DivideEven == at = "divideEven" /\ Copy("original", "even", "divideOdd")

(* (the second getline is forgotten)                                       *)
RepeatsLine ==
  /\ at = "divideOdd" /\ HasLine("original")
  /\ WriteLine("odd", disk["original"].lines[read["original"]])
  /\ at' = "divideEven"
  /\ UNCHANGED <<read, result, fresh>>

DivideOdd == at = "divideOdd" /\ Copy("original", "odd", "divideEven")

CombineEven == at = "combineEven" /\ Copy("even", "output", "combineOdd")

(* (without a line of the odd file the loop goes on)                       *)
GoesOnWithEven ==
  /\ at = "combineOdd"
  /\ \/ Copy("odd", "output", "combineEven")
     \/ ~HasLine("odd") /\ at' = "combineEven" /\ UNCHANGED <<disk, read, failed, result, fresh>>

CombineOdd == at = "combineOdd" /\ Copy("odd", "output", "combineEven")

(* A getline that fails: the condition of the loop, or its break.          *)
DivideReturns ==
  /\ at \in {"divideEven", "divideOdd"}
  /\ ~HasLine("original")
  /\ at' = "idle"
  /\ result' = "OK"
  /\ fresh' = {"parts"}
  /\ UNCHANGED <<disk, read, failed>>

CombineReturns ==
  /\ \/ at = "combineEven" /\ ~HasLine("even")
     \/ at = "combineOdd" /\ ~HasLine("odd")
  /\ at' = "idle"
  /\ result' = "OK"
  /\ fresh' = fresh \cup {"output"}
  /\ UNCHANGED <<disk, read, failed>>

Loop ==
  \/ DivideEven \/ DivideOdd \/ DivideReturns
  \/ CombineEven \/ CombineOdd \/ CombineReturns

-----------------------------------------------------------------------------
(* The calls.  Each opens its three files in turn; an ofstream truncates.  *)

DivideFileOf(file) ==
  /\ at = "idle"
  /\ disk' = [disk EXCEPT !["original"] = file, !["even"] = Empty, !["odd"] = Empty]
  /\ read' = [read EXCEPT !["original"] = 0]
  /\ failed' = failed \ Parts
  /\ fresh' = {}
  /\ at' = "divideEven"
  /\ UNCHANGED result

(* The even file is truncated when the odd one cannot be opened.           *)
DivideFileFails(file) ==
  /\ "open" \in Troubles
  /\ at = "idle"
  /\ \/ disk' = [disk EXCEPT !["original"] = file]
     \/ disk' = [disk EXCEPT !["original"] = file, !["even"] = Empty]
  /\ result' = "SYS_ERR"
  /\ fresh' = {}
  /\ UNCHANGED <<at, read, failed>>

CombineFileOf ==
  /\ at = "idle"
  /\ disk' = [disk EXCEPT !["output"] = Empty]
  /\ read' = [read EXCEPT !["even"] = 0, !["odd"] = 0]
  /\ failed' = failed \ {"output"}
  /\ fresh' = fresh \ {"output"}
  /\ at' = "combineEven"
  /\ UNCHANGED result

(* The output is opened last: until then nothing has changed.              *)
CombineFileFails ==
  /\ "open" \in Troubles
  /\ at = "idle"
  /\ result' = "SYS_ERR"
  /\ UNCHANGED <<at, disk, read, failed, fresh>>

(* DownloadPair has brought parts, of one file or of two.                  *)
Download(even, odd) ==
  /\ at = "idle"
  /\ disk' = [disk EXCEPT !["even"] = even, !["odd"] = odd]
  /\ failed' = failed \ Parts
  /\ fresh' = {}
  /\ UNCHANGED <<at, read, result>>

Next ==
  \/ Loop
  \/ \E file \in Files : DivideFileOf(file) \/ DivideFileFails(file)
  \/ CombineFileOf \/ CombineFileFails
  \/ \E even, odd \in Files : Download(even, odd)

Spec == Init /\ [][Next]_vars

-----------------------------------------------------------------------------
(* Properties.                                                             *)

Undamaged(outs) == failed \cap outs = {}

(* DivideFile's loop computes FilePair's function: every line goes to one  *)
(* file, in order, whichever getline ends the loop.                        *)
Divided ==
  "parts" \in fresh /\ Undamaged(Parts) =>
    /\ disk["even"] = DivideFile(disk["original"]).even
    /\ disk["odd"] = DivideFile(disk["original"]).odd

(* CombineFile's loop computes FilePair's function, of any two files: it   *)
(* stops at the first of them that has no line for its turn.               *)
Combined ==
  "output" \in fresh /\ Undamaged({"output"}) =>
    disk["output"] = CombineFile(disk["even"], disk["odd"])

(* What was divided and combined again has the original's lines.           *)
Restored ==
  {"parts", "output"} \subseteq fresh /\ Undamaged(Outputs) =>
    disk["output"].lines = disk["original"].lines

(* Whatever happens to the writes, at any time, the complete lines of a    *)
(* part are the first of those it should have: a full disk cuts the end    *)
(* off, and no line is lost before another.                                *)
Whole(file) ==
  IF file.ended THEN file.lines ELSE SubSeq(file.lines, 1, Len(file.lines) - 1)

Begins(s, t) == Len(s) <= Len(t) /\ s = SubSeq(t, 1, Len(s))

PartsBegin ==
  "parts" \in fresh \/ at \in {"divideEven", "divideOdd"} =>
    /\ Begins(Whole(disk["even"]), EvenLines(disk["original"].lines))
    /\ Begins(Whole(disk["odd"]), OddLines(disk["original"].lines))

=============================================================================
