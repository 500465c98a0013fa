----------------------------- MODULE FileStore -----------------------------
(***************************************************************************)
(* The interactive client's menu (OptionSwitch) over the repository and    *)
(* the two services: several clients that upload, announce and download    *)
(* files as pairs of parts, and may fail anywhere in between.  The services*)
(* run in the repository's process and keep their files in one directory.  *)
(* A line of text is what one HandleOutput sends.                          *)
(***************************************************************************)
EXTENDS Repository, FilePair

CONSTANTS
  Files,           \* contents of what users upload
  Zeros,           \* what a line is where a file has a hole
  MaxLeaks,        \* bound: FILE*s that are leaked and hold lines
  m_uploadServers  \* the one pair GET_SERV_UPLOAD answers with

Parts == {"even", "odd"}

ASSUME StoreAssumption ==
  /\ Files \subseteq Contents
  /\ None \notin Seq(Text) /\ None \notin Contents
  /\ Zeros \in Text
  /\ MaxLeaks \in Nat
  /\ m_uploadServers \in Pairs
  /\ None \notin Handlers

VARIABLES
  stored,      \* stored[k][part]: lines of the file under the hash of name@part
  leaked,      \* FILE*s that WriteSocketToFile opened and did not close: the
               \* lines in the buffer of each, and where they belong
  at,          \* at[c]: where in the menu, UploadPair or DownloadPair c is
  name,        \* name[c]: what its user has typed, or None
  origin,      \* origin[c]: the file it uploads, or None
  inbox,       \* inbox[c]: name in an UPDATE_FILES_LIST not read yet, or None
  announced,   \* announced[c]: the lines the checksum in m_recvHeader is of
  received,    \* received[c]: lines of the part c has written to its file
  sending,     \* sending[c]: the service handler still has WRITE registered
  evenPart,    \* evenPart[c]: the downloaded file@even
  output,      \* output[c]: what DownloadPair made last, or None
  writer,      \* writer[k]: who alone has stored parts under k since it
               \* stored the even one, or None (history)
  settled,     \* settled[k]: the file last uploaded under k, all of it and by
               \* one client, with nothing stored since, or None (history)
  overlaid,    \* overlaid[k]: parts that a leaked buffer was written to
               \* since they were last uploaded (history)
  expected,    \* expected[c]: settled since c's DownloadPair began (history)
  sameProcess, \* sameProcess[c]: the process that answered c's last
               \* GET_SERV_DOWNLOAD is the one it downloads from (history)
  promised,    \* promised[c]: names announced on c's open connection (history)
  denied       \* denied[c]: names the last answer of the repository to c
               \* lacked (history)

storeVars == <<stored, leaked, writer, settled, overlaid>>
localVars == <<name, origin, announced, received, sending, evenPart>>
resultVars == <<output, expected, sameProcess, denied>>
connectionVars == <<inbox, promised>>
vars == <<repositoryVars, storeVars, at, localVars, resultVars, connectionVars>>

Transfers == {"uploadEven", "uploadOdd", "downloadEven", "downloadOdd"}

StoreTypeOK ==
  /\ TypeOK
  /\ stored \in [Keys -> [Parts -> Seq(Text) \union {None}]]
  /\ leaked \subseteq
       [key : Keys, part : Parts, offset : Nat, lines : Seq(Text)]
  /\ at \in [Handlers -> Transfers \union {"out", "menu", "update"}]
  /\ name \in [Handlers -> Names \union {None}]
  /\ origin \in [Handlers -> Files \union {None}]
  /\ inbox \in [Handlers -> Names \union {None}]
  /\ announced \in [Handlers -> Seq(Text) \union {None}]
  /\ received \in [Handlers -> Seq(Text)]
  /\ sending \in [Handlers -> BOOLEAN]
  /\ evenPart \in [Handlers -> Seq(Text)]
  /\ output \in [Handlers -> Contents \union {None}]
  /\ writer \in [Keys -> Handlers \union {None}]
  /\ settled \in [Keys -> Files \union {None}]
  /\ overlaid \in [Keys -> SUBSET Parts]
  /\ expected \in [Handlers -> Files \union {None}]
  /\ sameProcess \in [Handlers -> BOOLEAN]
  /\ promised \in [Handlers -> SUBSET Names]
  /\ denied \in [Handlers -> SUBSET Names]

StoreInit ==
  /\ Init
  /\ stored = [k \in Keys |-> [part \in Parts |-> None]]
  /\ leaked = {}
  /\ at = [c \in Handlers |-> "out"]
  /\ name = [c \in Handlers |-> None]
  /\ origin = [c \in Handlers |-> None]
  /\ inbox = [c \in Handlers |-> None]
  /\ announced = [c \in Handlers |-> None]
  /\ received = [c \in Handlers |-> <<>>]
  /\ sending = [c \in Handlers |-> FALSE]
  /\ evenPart = [c \in Handlers |-> <<>>]
  /\ output = [c \in Handlers |-> None]
  /\ writer = [k \in Keys |-> None]
  /\ settled = [k \in Keys |-> None]
  /\ overlaid = [k \in Keys |-> {}]
  /\ expected = [c \in Handlers |-> None]
  /\ sameProcess = [c \in Handlers |-> TRUE]
  /\ promised = [c \in Handlers |-> {}]
  /\ denied = [c \in Handlers |-> {}]

(* DJB2 goes on from the name's hash over "@even" or "@odd": two names have*)
(* one key for their parts exactly when they have one key.                 *)
Key(c) == Hash[name[c]]

PartOf(c) == IF at[c] \in {"uploadEven", "downloadEven"} THEN "even" ELSE "odd"
Goes(c, place) == at' = [at EXCEPT ![c] = place]

(* A new option: what the last one showed is gone.                         *)
ClearResults(c) ==
  /\ output' = [output EXCEPT ![c] = None]
  /\ expected' = [expected EXCEPT ![c] = None]
  /\ sameProcess' = [sameProcess EXCEPT ![c] = TRUE]

(* A request is sent and its answer awaited, which comes after what was    *)
(* sent before on the connection has been read.                            *)
Asks(c) == at[c] = "menu" /\ Serves(c) /\ inbox[c] = None

NoTransfer(c) ==
  /\ announced' = [announced EXCEPT ![c] = None]
  /\ received' = [received EXCEPT ![c] = <<>>]
  /\ sending' = [sending EXCEPT ![c] = FALSE]

(* OptionSwitch is over: its local variables are gone.                     *)
BackToMenu(c) ==
  /\ Goes(c, "menu")
  /\ name' = [name EXCEPT ![c] = None]
  /\ origin' = [origin EXCEPT ![c] = None]
  /\ NoTransfer(c)
  /\ evenPart' = [evenPart EXCEPT ![c] = <<>>]

-----------------------------------------------------------------------------
(* The client is started: its constructor connects, the handler opens.     *)
Connect(c) ==
  /\ at[c] = "out"
  /\ Open(c)
  /\ Goes(c, "menu")
  /\ UNCHANGED <<storeVars, localVars, resultVars, connectionVars>>

(* The menu's last option, and the destructor.                             *)
Quit(c) ==
  /\ at[c] = "menu"
  /\ Goes(c, "out")
  /\ ClearResults(c)
  /\ denied' = [denied EXCEPT ![c] = {}]
  /\ UNCHANGED <<repositoryVars, storeVars, localVars, connectionVars>>

(* (UploadPair does not look at what the second Upload returns)            *)
ReturnsTrue(c) ==
  /\ at[c] \notin {"out", "menu"}
  /\ IF at[c] = "uploadOdd" THEN Goes(c, "update") /\ UNCHANGED localVars ELSE BackToMenu(c)
  /\ UNCHANGED <<repositoryVars, storeVars, resultVars, connectionVars>>

(* Any call of the three options returns false: a timer or the end of the  *)
(* server, a checksum, a wrong size.  OptionSwitch goes back to the menu.  *)
Abandon(c) ==
  /\ at[c] \notin {"out", "menu"}
  /\ BackToMenu(c)
  /\ UNCHANGED <<repositoryVars, storeVars, resultVars, connectionVars>>

-----------------------------------------------------------------------------
(* UPLOAD.                                                                 *)

(* ClientGetUploadServers, and the input of ClientUpload.                  *)
GetServersUpload(c, n, f) ==
  /\ Asks(c)
  /\ Goes(c, "uploadEven")
  /\ name' = [name EXCEPT ![c] = n]
  /\ origin' = [origin EXCEPT ![c] = f]
  /\ ClearResults(c)
  /\ denied' = [denied EXCEPT ![c] = {}]
  /\ UNCHANGED <<repositoryVars, storeVars, announced, received, sending, evenPart,
                 connectionVars>>

Uploads(c) == process = "running" /\ at[c] \in {"uploadEven", "uploadOdd"}
LinesOf(c) == DivideFile(origin[c])[PartOf(c)].lines

(* A part arrives, whole or not.  Nobody else is served meanwhile; but who *)
(* is being sent the file is sent what is in it from now on.  ("wb" makes  *)
(* a file empty that is there: it stays the one that a leaked FILE* has.)  *)
Store(c, lines) ==
  /\ stored' = [stored EXCEPT ![Key(c)][PartOf(c)] = lines]
  /\ overlaid' = [overlaid EXCEPT ![Key(c)] = @ \ {PartOf(c)}]
  /\ expected' = [d \in Handlers |->
                    IF name[d] # None /\ Key(d) = Key(c) THEN None ELSE expected[d]]
  /\ UNCHANGED <<output, sameProcess, denied>>

(* UploadPair: the even part is confirmed ...                              *)
UploadEven(c) ==
  /\ Uploads(c) /\ at[c] = "uploadEven"
  /\ LinesOf(c) # <<>>
  /\ Store(c, LinesOf(c))
  /\ Goes(c, "uploadOdd")
  /\ writer' = [writer EXCEPT ![Key(c)] = c]
  /\ settled' = [settled EXCEPT ![Key(c)] = None]
  /\ UNCHANGED <<repositoryVars, leaked, localVars, connectionVars>>

(* ... then the odd one.  (A part of no lines cannot be sent: a write of 0 *)
(* bytes is taken for an error.)                                           *)
UploadOdd(c) ==
  /\ Uploads(c) /\ at[c] = "uploadOdd"
  /\ LinesOf(c) # <<>>
  /\ Store(c, LinesOf(c))
  /\ Goes(c, "update")
  /\ writer' = [writer EXCEPT ![Key(c)] = None]
  /\ settled' = [settled EXCEPT ![Key(c)] = IF writer[Key(c)] = c THEN origin[c] ELSE None]
  /\ UNCHANGED <<repositoryVars, leaked, localVars, connectionVars>>

(* An upload fails after the service has emptied the file: n lines have    *)
(* come, or all and the confirmation has not.  Where WriteSocketToFile     *)
(* returns for want of the rest it does not close its FILE*: m lines are   *)
(* in the file and the others in the buffer.                               *)
UploadFails(c, n, m) ==
  /\ Uploads(c)
  /\ n \in 0 .. Len(LinesOf(c))
  /\ m \in 0 .. n
  /\ n = Len(LinesOf(c)) => m = n
  /\ m < n => Cardinality(leaked) < MaxLeaks
  /\ Store(c, SubSeq(LinesOf(c), 1, m))
  /\ leaked' = IF m = n THEN leaked
               ELSE leaked \union {[key |-> Key(c), part |-> PartOf(c), offset |-> m,
                                    lines |-> SubSeq(LinesOf(c), m + 1, n)]}
  /\ BackToMenu(c)
  /\ writer' = [writer EXCEPT ![Key(c)] = None]
  /\ settled' = [settled EXCEPT ![Key(c)] = None]
  /\ UNCHANGED <<repositoryVars, connectionVars>>

(* (the name is forgotten before it is sent)                               *)
SendsNoName(c) ==
  /\ at[c] = "update" /\ Serves(c)
  /\ BackToMenu(c)
  /\ inbox' = [inbox EXCEPT ![c] = name'[c]]
  /\ promised' = [promised EXCEPT ![c] = @ \union {name'[c]}]
  /\ UNCHANGED <<repositoryVars, storeVars, resultVars>>

(* ClientUpdateRepo, with the name of the file: UPDATE_FILES_LIST has no   *)
(* answer.  On a connection the server has closed it is "OK" all the same. *)
UpdateFilesList(c) ==
  /\ at[c] = "update"
  /\ updates[name[c]] + Cardinality({d \in Handlers : inbox[d] = name[c]}) < MaxUpdates
  /\ BackToMenu(c)
  /\ IF Serves(c) THEN /\ inbox' = [inbox EXCEPT ![c] = name[c]]
                       /\ promised' = [promised EXCEPT ![c] = @ \union {name[c]}]
                  ELSE UNCHANGED connectionVars
  /\ UNCHANGED <<repositoryVars, storeVars, resultVars>>

(* ... which the handler comes to some time.                               *)
HandleInput(c) ==
  /\ inbox[c] # None
  /\ HandleUpdateFilesList(c, inbox[c], m_uploadServers)
  /\ inbox' = [inbox EXCEPT ![c] = None]
  /\ UNCHANGED <<storeVars, at, localVars, resultVars, promised>>

-----------------------------------------------------------------------------
(* (the file is sent as it is on disk, without what the handler buffers)   *)
DiscoversUnflushed(c) ==
  /\ Asks(c)
  /\ denied' = [denied EXCEPT ![c] = {n \in Names : filesList[n] = 0}]
  /\ ClearResults(c)
  /\ UNCHANGED <<repositoryVars, storeVars, at, localVars, connectionVars>>

(* DISCOVERY: the list as the file has it after the flush.                 *)
Discovery(c) ==
  /\ Asks(c)
  /\ HandleDiscovery(c)
  /\ denied' = [denied EXCEPT ![c] = {n \in Names : filesList'[n] = 0}]
  /\ ClearResults(c)
  /\ UNCHANGED <<storeVars, at, localVars, connectionVars>>

-----------------------------------------------------------------------------
(* DOWNLOAD.                                                               *)

(* GetServersDownload finds the name, and ClientDownload connects ...      *)
GetServersDownload(c, n) ==
  /\ Asks(c)
  /\ DownloadServers(n) # None
  /\ Goes(c, "downloadEven")
  /\ name' = [name EXCEPT ![c] = n]
  /\ denied' = [denied EXCEPT ![c] = {}]
  /\ output' = [output EXCEPT ![c] = None]
  /\ expected' = [expected EXCEPT ![c] = settled[Hash[n]]]
  /\ sameProcess' = [sameProcess EXCEPT ![c] = TRUE]
  /\ UNCHANGED <<repositoryVars, storeVars, origin, announced, received, sending, evenPart,
                 connectionVars>>

(* ... or does not.                                                        *)
ServersNotFound(c, n) ==
  /\ Asks(c)
  /\ DownloadServers(n) = None
  /\ denied' = [denied EXCEPT ![c] = {n}]
  /\ ClearResults(c)
  /\ UNCHANGED <<repositoryVars, storeVars, at, localVars, connectionVars>>

Downloads(c) == process = "running" /\ at[c] \in {"downloadEven", "downloadOdd"}
Content(c) == stored[Key(c)][PartOf(c)]

(* There is no such file (m_size -1), or an empty one: nothing can be sent *)
(* of it, and the handler closes the connection.                           *)
NoPart(c) ==
  /\ Downloads(c) /\ announced[c] = None
  /\ Content(c) \in {None, <<>>}
  /\ BackToMenu(c)
  /\ UNCHANGED <<repositoryVars, storeVars, resultVars, connectionVars>>

(* The first line is sent with the header.                                 *)
RecvHeader(c) == IF announced[c] = None THEN Content(c) ELSE announced[c]
HasMore(c) == /\ announced[c] = None \/ sending[c]
              /\ Content(c) # None /\ Len(received[c]) < Len(Content(c))
Got(c) == Append(received[c], Content(c)[Len(received[c]) + 1])

(* A handler reads where it stands in the file that is there now, and the  *)
(* client gets it.  The end of the file ends the transfer for the handler, *)
(* the announced size for the client.                                      *)
ReceiveLine(c) ==
  /\ Downloads(c) /\ HasMore(c)
  /\ Len(Got(c)) < Len(RecvHeader(c))
  /\ announced' = [announced EXCEPT ![c] = RecvHeader(c)]
  /\ received' = [received EXCEPT ![c] = Got(c)]
  /\ sending' = [sending EXCEPT ![c] = Len(Got(c)) < Len(Content(c))]
  /\ UNCHANGED <<repositoryVars, storeVars, at, name, origin, evenPart, resultVars,
                 connectionVars>>

(* (the checksum is not compared)                                          *)
AcceptsAnySum(lines, header) == TRUE

(* Download: the announced size has been received; is it the sum's file?   *)
SumMatches(lines, header) == lines = header
PartEnds(c) == Downloads(c) /\ HasMore(c) /\ Len(Got(c)) = Len(RecvHeader(c))

(* DownloadPair: after the even part the odd one ...                       *)
DownloadEven(c) ==
  /\ PartEnds(c) /\ at[c] = "downloadEven"
  /\ SumMatches(Got(c), RecvHeader(c))
  /\ Goes(c, "downloadOdd")
  /\ evenPart' = [evenPart EXCEPT ![c] = Got(c)]
  /\ NoTransfer(c)
  /\ UNCHANGED <<repositoryVars, storeVars, name, origin, resultVars, connectionVars>>

(* (the odd part is taken for the even one)                                *)
CombinesSwapped(c) ==
  /\ PartEnds(c) /\ at[c] = "downloadOdd"
  /\ SumMatches(Got(c), RecvHeader(c))
  /\ output' = [output EXCEPT ![c] = CombineFile(Written(Got(c)), Written(evenPart[c]))]
  /\ BackToMenu(c)
  /\ UNCHANGED <<repositoryVars, storeVars, expected, sameProcess, denied, connectionVars>>

(* ... and after the odd one they are combined.                            *)
DownloadOdd(c) ==
  /\ PartEnds(c) /\ at[c] = "downloadOdd"
  /\ SumMatches(Got(c), RecvHeader(c))
  /\ output' = [output EXCEPT ![c] = CombineFile(Written(evenPart[c]), Written(Got(c)))]
  /\ BackToMenu(c)
  /\ UNCHANGED <<repositoryVars, storeVars, expected, sameProcess, denied, connectionVars>>

-----------------------------------------------------------------------------
(* The repository's handler is closed: by the client's end of stream, or by*)
(* its timer; what it has not read is lost.                                *)
Disconnect(c) ==
  /\ HandleClose(c)
  /\ inbox' = [inbox EXCEPT ![c] = None]
  /\ promised' = [promised EXCEPT ![c] = {}]
  /\ UNCHANGED <<storeVars, at, localVars, resultVars>>

(* The process ends, and with it every transfer: the calls return false.   *)
(* Only a client on its way from the repository's answer to the            *)
(* constructors, which connect to the services, does not notice.           *)
CutTransfers ==
  LET Cut == {c \in Handlers : \/ at[c] \in {"uploadOdd", "downloadOdd"}
                               \/ at[c] = "downloadEven" /\ announced[c] # None}
      Now(f, none) == [c \in Handlers |-> IF c \in Cut THEN none ELSE f[c]]
  IN  /\ at' = Now(at, "menu")
      /\ name' = Now(name, None) /\ origin' = Now(origin, None)
      /\ announced' = Now(announced, None) /\ received' = Now(received, <<>>)
      /\ sending' = Now(sending, FALSE) /\ evenPart' = Now(evenPart, <<>>)
      /\ inbox' = [c \in Handlers |-> None]
      /\ promised' = [c \in Handlers |-> {}]
      /\ sameProcess' = [c \in Handlers |-> sameProcess[c] /\ at[c] # "downloadEven"]
      /\ UNCHANGED <<output, expected, denied>>

(* By SIGINT main returns, and leaves its leaked buffers to exit; a crash  *)
(* loses them.                                                             *)
ProcessStep ==
  /\ \/ SignalHandler /\ UNCHANGED leaked /\ CutTransfers
     \/ Kill /\ leaked' = {} /\ CutTransfers
     \/ /\ Restart
        /\ leaked = {}
        /\ UNCHANGED <<leaked, at, localVars, resultVars, connectionVars>>
  /\ UNCHANGED <<stored, writer, settled, overlaid>>

(* write(2) of a buffer at an offset, over what is there or beyond its end *)
Overwritten(lines, offset, new) ==
  LET end == offset + Len(new)
  IN  [i \in 1 .. (IF Len(lines) < end THEN end ELSE Len(lines)) |->
         IF offset < i /\ i <= end THEN new[i - offset]
         ELSE IF i <= Len(lines) THEN lines[i] ELSE Zeros]

(* main returns after SIGINT, and exit flushes the FILE*s that nobody has  *)
(* closed, in whatever order, into files that may be others by now.        *)
FlushLeaked(leak) ==
  /\ process = "down"
  /\ leak \in leaked
  /\ leaked' = leaked \ {leak}
  /\ stored' = [stored EXCEPT ![leak.key][leak.part] =
                  Overwritten(@, leak.offset, leak.lines)]
  /\ overlaid' = [overlaid EXCEPT ![leak.key] = @ \union {leak.part}]
  /\ UNCHANGED <<repositoryVars, writer, settled, at, localVars, resultVars,
                 connectionVars>>

StoreNext ==
  \/ \E c \in Handlers :
       \/ Connect(c) \/ Quit(c) \/ Abandon(c) \/ Disconnect(c)
       \/ \E n \in Names, f \in Files : GetServersUpload(c, n, f)
       \/ UploadEven(c) \/ UploadOdd(c)
       \/ Uploads(c) /\ \E n \in 0 .. Len(LinesOf(c)) :
                          \E m \in 0 .. n : UploadFails(c, n, m)
       \/ UpdateFilesList(c) \/ HandleInput(c)
       \/ Discovery(c)
       \/ \E n \in Names : GetServersDownload(c, n) \/ ServersNotFound(c, n)
       \/ NoPart(c) \/ ReceiveLine(c) \/ DownloadEven(c) \/ DownloadOdd(c)
  \/ ProcessStep
  \/ \E leak \in leaked : FlushLeaked(leak)

StoreSpec == StoreInit /\ [][StoreNext]_vars

-----------------------------------------------------------------------------
(* A DownloadPair during and before which nobody else uploaded anything    *)
(* under the name, since one UploadPair was done, gives the file that was  *)
(* uploaded: although each part has a connection and a checksum of its own *)
(* and nothing ties the two together, and although exit writes buffers of  *)
(* FILE*s that WriteSocketToFile leaked (service_handler.cpp:435) over     *)
(* what is stored: the map of names is lost too, and a name is only found  *)
(* again when its parts have been uploaded again.  A process that ends and *)
(* is back before the client has connected to its services is excepted.    *)
QuietDownload ==
  \A c \in Handlers :
    output[c] # None /\ expected[c] # None /\ sameProcess[c]
      => output[c] = Written(expected[c].lines)

(* A part that a client accepts has lines of one upload only, even if the  *)
(* file is rewritten, under the handler that reads it, while it is sent:   *)
(* the checksum in the header is of the file as it was at the beginning.   *)
(* And a part that has been written over by a leaked buffer is not sent by *)
(* the process that names its services.                                    *)
IsPart(lines, part) ==
  \E f \in Files : LET whole == DivideFile(f)[part].lines
                   IN  Len(lines) <= Len(whole) /\ lines = SubSeq(whole, 1, Len(lines))

NoMixture ==
  \A c \in Handlers : sameProcess[c] =>
    /\ evenPart[c] # <<>> => IsPart(evenPart[c], "even")
    /\ output[c] # None => LET divided == DivideFile(output[c])
                          IN  \A part \in Parts : IsPart(divided[part].lines, part)

(* What any repository handler has been told is stored: every name that is *)
(* listed, about to be, or found, has both parts, whatever was interrupted.*)
ListedIsStored ==
  \A n \in Names :
    \/ filesList[n] > 0 \/ Holding(n) # {} \/ DownloadServers(n) # None
    \/ \E c \in Handlers : inbox[c] = n
    => \A part \in Parts : stored[Hash[n]][part] # None

(* What a client has announced it is not denied on the same connection,    *)
(* neither by the map nor by the list, although the announcement is never  *)
(* acknowledged and its line may be in a buffer.                           *)
ReadYourWrites == \A c \in Handlers : denied[c] \intersect promised[c] = {}

=============================================================================
