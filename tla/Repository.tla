----------------------------- MODULE Repository -----------------------------
(***************************************************************************)
(* What the repository knows: the files list on disk, which every          *)
(* FsRepoHandler appends to through a FILE* of its own, and the static map *)
(* m_downloadServers in memory; with the end of the process, by SIGINT or  *)
(* by force, and its restart.  Only how often a line is in the list        *)
(* matters, not where.                                                     *)
(***************************************************************************)
EXTENDS Integers, FiniteSets

CONSTANTS
  Handlers,    \* FsRepoHandler objects, one for each connection
  Names,       \* of files
  Keys,        \* HashFileName's results
  Hash,        \* HashFileName: two names may have one key
  Pairs,       \* of IP:PORT
  Header,      \* the line "** FILES_LIST **"
  None,
  MaxUpdates   \* bound: UPDATE_FILES_LIST messages for each name

ASSUME RepositoryAssumption ==
  /\ IsFiniteSet(Handlers)
  /\ Hash \in [Names -> Keys]
  /\ Header \notin Names /\ None \notin Names /\ None # Header /\ None \notin Pairs
  /\ MaxUpdates \in Nat

VARIABLES
  process,          \* "running" or "down"
  isExists,         \* the file of the list exists
  filesList,        \* filesList[l]: how many times the file has line l
  isOpen,           \* isOpen[h]: the handler exists
  buffer,           \* buffer[h]: the line in the buffer of its FILE*
  downloadServers,  \* m_downloadServers: a pair for each key, or None
  updates,          \* updates[n]: UPDATE_FILES_LIST messages handled (history)
  lost,             \* lost[n]: of them, lines that were never written (history)
  fresh             \* names in messages this process has handled (history)

diskVars == <<isExists, filesList>>
handlerVars == <<isOpen, buffer>>
historyVars == <<updates, lost, fresh>>
repositoryVars ==
  <<process, diskVars, handlerVars, downloadServers, historyVars>>

Lines == Names \union {Header}

TypeOK ==
  /\ process \in {"running", "down"}
  /\ isExists \in BOOLEAN
  /\ filesList \in [Lines -> Nat]
  /\ isOpen \in [Handlers -> BOOLEAN]
  /\ buffer \in [Handlers -> Lines \union {None}]
  /\ downloadServers \in [Keys -> Pairs \union {None}]
  /\ updates \in [Names -> Nat] /\ lost \in [Names -> Nat]
  /\ fresh \in SUBSET Names

Init ==
  /\ process = "running"
  /\ isExists = FALSE
  /\ filesList = [l \in Lines |-> 0]
  /\ isOpen = [h \in Handlers |-> FALSE]
  /\ buffer = [h \in Handlers |-> None]
  /\ downloadServers = [k \in Keys |-> None]
  /\ updates = [n \in Names |-> 0] /\ lost = [n \in Names |-> 0]
  /\ fresh = {}

Serves(h) == process = "running" /\ isOpen[h]
Holding(l) == {h \in Handlers : buffer[h] = l}

(* The buffer of h's FILE* goes to the end of the file ("a+b").            *)
Flush(h) == filesList' = [l \in Lines |-> IF buffer[h] = l THEN filesList[l] + 1
                                          ELSE filesList[l]]

-----------------------------------------------------------------------------
(* (the header is written to an empty file, not to a new one)              *)
HeaderIfEmpty(h) ==
  /\ process = "running" /\ ~isOpen[h]
  /\ isOpen' = [isOpen EXCEPT ![h] = TRUE]
  /\ isExists' = TRUE
  /\ buffer' = [buffer EXCEPT ![h] = IF \E l \in Lines : filesList[l] > 0 THEN None ELSE Header]
  /\ UNCHANGED <<process, filesList, downloadServers, historyVars>>

(* (fopen in mode "w+b", which empties the list)                           *)
OpenTruncates(h) ==
  /\ process = "running" /\ ~isOpen[h]
  /\ isOpen' = [isOpen EXCEPT ![h] = TRUE]
  /\ isExists' = TRUE
  /\ filesList' = [l \in Lines |-> 0]
  /\ buffer' = [buffer EXCEPT ![h] = Header]
  /\ UNCHANGED <<process, downloadServers, historyVars>>

(* Open: fopen creates the file; the header only goes to the buffer.       *)
Open(h) ==
  /\ process = "running" /\ ~isOpen[h]
  /\ isOpen' = [isOpen EXCEPT ![h] = TRUE]
  /\ isExists' = TRUE
  /\ buffer' = [buffer EXCEPT ![h] = IF isExists THEN None ELSE Header]
  /\ UNCHANGED <<process, filesList, downloadServers, historyVars>>

(* (key and value are swapped)                                             *)
Swapped(n, pair) == downloadServers' = [downloadServers EXCEPT ![Hash[n]] = Hash[n]]

(* (operator[] instead of insert)                                          *)
Assign(n, pair) == downloadServers' = [downloadServers EXCEPT ![Hash[n]] = pair]

(* map::insert does nothing when the key is there.                         *)
Insert(n, pair) ==
  downloadServers' =
    [downloadServers EXCEPT ![Hash[n]] = IF @ = None THEN pair ELSE @]

(* HandleUpdateFilesList: the fseek in FileAppend flushes what is in the   *)
(* buffer, the new line stays there.                                       *)
HandleUpdateFilesList(h, n, pair) ==
  /\ Serves(h)
  /\ updates[n] < MaxUpdates
  /\ Flush(h)
  /\ buffer' = [buffer EXCEPT ![h] = n]
  /\ Insert(n, pair)
  /\ updates' = [updates EXCEPT ![n] = @ + 1]
  /\ fresh' = fresh \union {n}
  /\ UNCHANGED <<process, isExists, isOpen, lost>>

(* HandleDiscovery: the fseek in FileSize flushes; what is then sent is    *)
(* the file, without the lines other handlers still hold.                  *)
HandleDiscovery(h) ==
  /\ Serves(h)
  /\ Flush(h)
  /\ buffer' = [buffer EXCEPT ![h] = None]
  /\ UNCHANGED <<process, isExists, isOpen, downloadServers, historyVars>>

(* HandleGSFD's answer, None for the ports -1.                             *)
DownloadServers(n) == downloadServers[Hash[n]]

(* (HandleClose forgets to close the file)                                 *)
LeaksFile(h) ==
  /\ Serves(h)
  /\ buffer' = [buffer EXCEPT ![h] = None]
  /\ isOpen' = [isOpen EXCEPT ![h] = FALSE]
  /\ UNCHANGED <<process, diskVars, downloadServers, historyVars>>

(* HandleClose, for the peer or for the timer: fclose flushes.             *)
HandleClose(h) ==
  /\ Serves(h)
  /\ Flush(h)
  /\ buffer' = [buffer EXCEPT ![h] = None]
  /\ isOpen' = [isOpen EXCEPT ![h] = FALSE]
  /\ UNCHANGED <<process, isExists, downloadServers, historyVars>>

(* SIGINT: every handler is closed, then the process ends.                 *)
SignalHandler ==
  /\ process = "running"
  /\ process' = "down"
  /\ filesList' = [l \in Lines |-> filesList[l] + Cardinality(Holding(l))]
  /\ buffer' = [h \in Handlers |-> None]
  /\ isOpen' = [h \in Handlers |-> FALSE]
  /\ UNCHANGED <<isExists, downloadServers, historyVars>>

(* SIGPIPE or a crash: what is in the buffers is lost.                     *)
Kill ==
  /\ process = "running"
  /\ process' = "down"
  /\ isOpen' = [h \in Handlers |-> FALSE]
  /\ buffer' = [h \in Handlers |-> None]
  /\ lost' = [n \in Names |-> lost[n] + Cardinality(Holding(n))]
  /\ UNCHANGED <<diskVars, downloadServers, updates, fresh>>

(* (the list is started anew)                                              *)
RestartsEmpty ==
  /\ process = "down"
  /\ process' = "running"
  /\ filesList' = [l \in Lines |-> 0]
  /\ downloadServers' = [k \in Keys |-> None]
  /\ fresh' = {}
  /\ UNCHANGED <<isExists, handlerVars, updates, lost>>

(* The program is started again: the static map is empty.                  *)
Restart ==
  /\ process = "down"
  /\ process' = "running"
  /\ downloadServers' = [k \in Keys |-> None]
  /\ fresh' = {}
  /\ UNCHANGED <<diskVars, handlerVars, updates, lost>>

Next ==
  \/ \E h \in Handlers :
       \/ Open(h) \/ HandleDiscovery(h) \/ HandleClose(h)
       \/ \E n \in Names, pair \in Pairs : HandleUpdateFilesList(h, n, pair)
  \/ SignalHandler \/ Kill \/ Restart

Spec == Init /\ [][Next]_repositoryVars

-----------------------------------------------------------------------------
(* No UPDATE_FILES_LIST is forgotten, whoever else has the list open: each *)
(* is a line of the file, or in the buffer of one handler, or was there    *)
(* when the process was killed.  So a DISCOVERY lacks at most the last     *)
(* update of each other connection.                                        *)
EveryUpdateKept ==
  \A n \in Names : updates[n] = filesList[n] + Cardinality(Holding(n)) + lost[n]

(* However many handlers find the list missing or empty, and however often *)
(* the process ends, it gets one header.                                   *)
OneHeader == filesList[Header] + Cardinality(Holding(Header)) <= 1

(* The map and the list agree as far as they can: a name this process was  *)
(* given is found, and what is found was given: a name with that key is a  *)
(* line of the file or in an open handler's buffer.  The converse fails    *)
(* after a restart only.                                                   *)
FoundIsListed ==
  /\ \A n \in fresh : DownloadServers(n) # None
  /\ process = "running" => \A n \in Names : DownloadServers(n) # None =>
       \E m \in fresh : /\ Hash[m] = Hash[n]
                        /\ filesList[m] > 0 \/ \E h \in Holding(m) : isOpen[h]

(* As long as the process lives, every client that asks for a name gets    *)
(* the same servers: a second UPDATE_FILES_LIST does not move a file.      *)
AnswersAgree ==
  [][process = "running" =>
       \A n \in Names : DownloadServers(n) # None
                          => DownloadServers(n)' = DownloadServers(n)]_repositoryVars

(* The file only grows, over ends and restarts of the process too, which   *)
(* is what a client that is being sent the list may rely on.               *)
ListOnlyGrows ==
  [][\A l \in Lines : filesList'[l] >= filesList[l]]_repositoryVars

=============================================================================
