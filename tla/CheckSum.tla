------------------------------ MODULE CheckSum ------------------------------
(***************************************************************************)
(* MD5ChkSum, called by the server and by every client: a shell writes the *)
(* output of md5sum into md5_chk_sum.temp of the current directory, the    *)
(* caller reads the file back, and a second shell removes it.  Processes   *)
(* that were started in one directory use one and the same file.           *)
(***************************************************************************)
CONSTANTS
  Processes,   \* the server and the clients on one machine
  Directories,
  Directory,   \* Directory[p]: where p was started
  Files,       \* what they compute checksums of; a file stands for its sum
  Inodes,      \* of the temporary files, the removed ones still open included
  Empty,       \* the contents of a file md5sum has not written to yet
  None         \* no inode, no result

ASSUME CheckSumAssumption ==
  /\ Directory \in [Processes -> Directories]
  /\ Empty \notin Files /\ None \notin Files /\ None # Empty
  /\ None \notin Inodes

VARIABLES
  entry,    \* entry[d]: the inode md5_chk_sum.temp names in d, or None
  data,     \* data[i]: the contents of inode i
  at,       \* at[p]: the next statement of p's MD5ChkSum
  file,     \* file[p]: its argument
  handle,   \* handle[p]: the inode its shell, and then its FILE*, has open
  result,   \* result[p]: the array of that name
  alone     \* alone[p]: nobody in p's directory has computed a checksum
            \* since p's call began (history)

vars == <<entry, data, at, file, handle, result, alone>>

Statements == {"idle", "redirect", "write", "fopen", "fread", "rm", "returned", "crashed"}

TypeOK ==
  /\ entry \in [Directories -> Inodes \union {None}]
  /\ data \in [Inodes -> Files \union {Empty}]
  /\ at \in [Processes -> Statements]
  /\ file \in [Processes -> Files]
  /\ handle \in [Processes -> Inodes \union {None}]
  /\ result \in [Processes -> Files \union {Empty, None}]
  /\ alone \in [Processes -> BOOLEAN]
  /\ \A p \in Processes : at[p] \in {"write", "fread"} => handle[p] # None

Init ==
  /\ entry = [d \in Directories |-> None]
  /\ data = [i \in Inodes |-> Empty]
  /\ at = [p \in Processes |-> "idle"]
  /\ file \in [Processes -> Files]
  /\ handle = [p \in Processes |-> None]
  /\ result = [p \in Processes |-> None]
  /\ alone = [p \in Processes |-> TRUE]

Computing(p) == at[p] \notin {"idle", "returned", "crashed"}
Neighbours(p) == {q \in Processes \ {p} : Directory[q] = Directory[p]}
CHKSUM_FILENAME(p) == entry[Directory[p]]

Moves(p, statement) == at' = [at EXCEPT ![p] = statement]

-----------------------------------------------------------------------------
(* A call of MD5ChkSum(f).                                                 *)
MD5ChkSum(p, f) ==
  /\ at[p] \in {"idle", "returned"}
  /\ Moves(p, "redirect")
  /\ file' = [file EXCEPT ![p] = f]
  /\ result' = [result EXCEPT ![p] = None]
  /\ alone' = [q \in Processes |->
                 IF q = p THEN \A n \in Neighbours(p) : ~Computing(n)
                 ELSE alone[q] /\ q \notin Neighbours(p)]
  /\ UNCHANGED <<entry, data, handle>>

Unused(i) ==
  /\ \A d \in Directories : entry[d] # i
  /\ \A p \in Processes : handle[p] # i

(* (the shell runs in the background)                                      *)
DoesNotWait(p, i) ==
  /\ at[p] = "redirect"
  /\ CHKSUM_FILENAME(p) = None
  /\ Unused(i)
  /\ entry' = [entry EXCEPT ![Directory[p]] = i]
  /\ data' = [data EXCEPT ![i] = Empty]
  /\ Moves(p, "fopen")
  /\ UNCHANGED <<file, handle, result, alone>>

(* (the file is created in another directory than it is opened in)         *)
CreatesElsewhere(p, i) ==
  /\ at[p] = "redirect"
  /\ Unused(i)
  /\ handle' = [handle EXCEPT ![p] = i]
  /\ Moves(p, "write")
  /\ UNCHANGED <<entry, data, file, result, alone>>

(* "> md5_chk_sum.temp" in the first shell creates the file ...            *)
CreateTemp(p, i) ==
  /\ at[p] = "redirect"
  /\ CHKSUM_FILENAME(p) = None
  /\ Unused(i)
  /\ entry' = [entry EXCEPT ![Directory[p]] = i]
  /\ data' = [data EXCEPT ![i] = Empty]
  /\ handle' = [handle EXCEPT ![p] = i]
  /\ Moves(p, "write")
  /\ UNCHANGED <<file, result, alone>>

(* ... or truncates the one that is there.                                 *)
TruncateTemp(p) ==
  /\ at[p] = "redirect"
  /\ CHKSUM_FILENAME(p) # None
  /\ data' = [data EXCEPT ![CHKSUM_FILENAME(p)] = Empty]
  /\ handle' = [handle EXCEPT ![p] = CHKSUM_FILENAME(p)]
  /\ Moves(p, "write")
  /\ UNCHANGED <<entry, file, result, alone>>

(* md5sum writes its line at the start of the inode it has open, and ends. *)
WriteSum(p) ==
  /\ at[p] = "write"
  /\ data' = [data EXCEPT ![handle[p]] = file[p]]
  /\ handle' = [handle EXCEPT ![p] = None]
  /\ Moves(p, "fopen")
  /\ UNCHANGED <<entry, file, result, alone>>

OpenTemp(p) ==
  /\ at[p] = "fopen"
  /\ CHKSUM_FILENAME(p) # None
  /\ handle' = [handle EXCEPT ![p] = CHKSUM_FILENAME(p)]
  /\ Moves(p, "fread")
  /\ UNCHANGED <<entry, data, file, result, alone>>

(* (the FILE* is not looked at)                                            *)
OpensNull(p) ==
  /\ at[p] = "fopen"
  /\ CHKSUM_FILENAME(p) = None
  /\ Moves(p, "fread")
  /\ UNCHANGED <<entry, data, file, handle, result, alone>>

(* A neighbour has removed it: fopen fails, which is only reported, and    *)
(* fread is given a null pointer.                                          *)
OpenNothing(p) ==
  /\ at[p] = "fopen"
  /\ CHKSUM_FILENAME(p) = None
  /\ Moves(p, "crashed")
  /\ UNCHANGED <<entry, data, file, handle, result, alone>>

(* fread of 32 characters, and fclose.                                     *)
ReadSum(p) ==
  /\ at[p] = "fread"
  /\ result' = [result EXCEPT ![p] = data[handle[p]]]
  /\ handle' = [handle EXCEPT ![p] = None]
  /\ Moves(p, "rm")
  /\ UNCHANGED <<entry, data, file, alone>>

(* (the file is kept for the next call)                                    *)
KeepsTemp(p) ==
  /\ at[p] = "rm"
  /\ Moves(p, "returned")
  /\ UNCHANGED <<entry, data, file, handle, result, alone>>

(* "rm md5_chk_sum.temp" in the second shell; its failure is not noticed.  *)
RemoveTemp(p) ==
  /\ at[p] = "rm"
  /\ entry' = [entry EXCEPT ![Directory[p]] = None]
  /\ Moves(p, "returned")
  /\ UNCHANGED <<data, file, handle, result, alone>>

Next ==
  \E p \in Processes :
    \/ \E f \in Files : MD5ChkSum(p, f)
    \/ \E i \in Inodes : CreateTemp(p, i)
    \/ TruncateTemp(p) \/ WriteSum(p)
    \/ OpenTemp(p) \/ OpenNothing(p) \/ ReadSum(p) \/ RemoveTemp(p)

Spec == Init /\ [][Next]_vars

-----------------------------------------------------------------------------
(* "Return the MD5Checksum of a file" (fileserver_common.h): a call returns*)
(* the sum of its own argument, and not a neighbour's or an empty one, if  *)
(* no other call in its directory was running at any time during it.       *)
OwnSum == \A p \in Processes : at[p] = "returned" /\ alone[p] => result[p] = file[p]

(* A process that shares its directory with nobody never hands fread a     *)
(* null pointer.                                                           *)
LonersSurvive == \A p \in Processes : at[p] = "crashed" => Neighbours(p) # {}

(* No call leaves the temporary file behind: where it exists, somebody is  *)
(* between the redirection and the rm.                                     *)
NoLitter ==
  \A p \in Processes :
    CHKSUM_FILENAME(p) # None =>
      \E q \in Processes : Directory[q] = Directory[p]
                           /\ at[q] \in {"write", "fopen", "fread", "rm"}

=============================================================================
