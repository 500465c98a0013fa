------------------------------ MODULE Sockets ------------------------------
(***************************************************************************)
(* The world around the server process: the remote peers and the kernel's  *)
(* TCP sockets, as the code under src/ uses them (socket, listen, accept,  *)
(* read, write, close).  One Client is one connection of one remote        *)
(* program; its conversation is reduced to the phase it is in.             *)
(***************************************************************************)
EXTENDS Integers, FiniteSets

CONSTANTS
  Client,       \* the connections that may be made
  Acceptor,     \* the listening Acceptor objects made by main (server.cpp)
  App,          \* App[a]: the handler class acceptor a is instantiated with
  ListenFd,     \* ListenFd[a]: the descriptor acceptor a listens on
  ClientFd,     \* the descriptors the kernel has left for connections
  None,         \* no object
  Disturbance   \* the misfortunes that may happen in this instance

Apps == {"log", "repo", "service"}

(***************************************************************************)
(* timeout:      a client's CLIENT_TIMEOUT may elapse                      *)
(* sigint:       SIGINT may be delivered                                   *)
(* hangup:       a peer may leave in the middle of a conversation          *)
(* openfail:     the fopen in a handler's Open may fail                    *)
(* fcloseFail:   the fclose in a handler's HandleClose may fail            *)
(* wholeBuffers: a file's size may be a multiple of BUFFER_SIZE (or 0)     *)
(***************************************************************************)
Disturbances ==
  {"timeout", "sigint", "hangup", "openfail", "fcloseFail", "wholeBuffers"}

NoFd == -1

Listening(A) == {ListenFd[a] : a \in A}

Fd == ClientFd \cup Listening(Acceptor)

(***************************************************************************)
(* The listening sockets are created first (main calls Init on every       *)
(* acceptor before HandleEvents), so their descriptors are the lower ones. *)
(***************************************************************************)
ASSUME ConstantsAssumption ==
  /\ App \in [Acceptor -> Apps]
  /\ ListenFd \in [Acceptor -> Nat]
  /\ ClientFd \subseteq Nat
  /\ \A a, b \in Acceptor : ListenFd[a] = ListenFd[b] => a = b
  /\ \A a \in Acceptor, f \in ClientFd : ListenFd[a] < f
  /\ Client \cap Acceptor = {}
  /\ None \notin Client \cup Acceptor
  /\ Disturbance \subseteq Disturbances

VARIABLES
  dial,      \* dial[c]: the acceptor whose port c connects to
  peer,      \* peer[c]: "away" (not yet connected), "here", "gone" (closed)
  phase,     \* phase[c]: "idle"; "request" (unread bytes); "response" (being
             \* sent); "sent" (all of it is, but the server does not know);
             \* "again" (sent, and the next request is there)
  backlog,   \* connections the kernel has completed and nobody accepted
  sock,      \* sock[c]: the server's descriptor of c's connection, or NoFd
  listening  \* acceptors whose listening socket is open

netVars == <<dial, peer, phase, backlog, sock, listening>>

Phases == {"idle", "request", "response", "sent", "again"}

NetTypeOK ==
  /\ dial \in [Client -> Acceptor]
  /\ peer \in [Client -> {"away", "here", "gone"}]
  /\ phase \in [Client -> Phases]
  /\ backlog \subseteq Client
  /\ sock \in [Client -> ClientFd \cup {NoFd}]
  /\ listening \subseteq Acceptor

NetInit ==
  /\ dial \in [Client -> Acceptor]
  /\ peer = [c \in Client |-> "away"]
  /\ phase = [c \in Client |-> "idle"]
  /\ backlog = {}
  /\ sock = [c \in Client |-> NoFd]
  /\ listening = Acceptor

Sockets(S) == {sock[c] : c \in S} \ {NoFd}

OpenFds == Sockets(Client) \cup Listening(listening)

Connected(c) == c \in backlog \/ sock[c] # NoFd

(* read(2) on c's socket would return at once: data, or end of stream.     *)
HasRequest(c) == phase[c] \in {"request", "again"}

HasInput(c) == HasRequest(c) \/ peer[c] = "gone"

(* What pselect reports readable among the descriptors it is asked about.  *)
Readable(asked) ==
  {sock[c] : c \in {d \in Client : sock[d] \in asked /\ HasInput(d)}}
    \cup {ListenFd[a] : a \in {b \in listening :
            ListenFd[b] \in asked /\ \E c \in backlog : dial[c] = b}}

-----------------------------------------------------------------------------
(* A remote program connects: the kernel completes the handshake alone.    *)
Connect(c) ==
  /\ peer[c] = "away"
  /\ dial[c] \in listening
  /\ peer' = [peer EXCEPT ![c] = "here"]
  /\ backlog' = backlog \cup {c}
  /\ UNCHANGED <<dial, phase, sock, listening>>

(* It sends its next request once it has the whole answer to the last one  *)
(* (UPDATE_FILES_LIST has none: what follows it is a Send of its own).     *)
(* Only the repository's connections are used for more after a file.       *)
Send(c) ==
  /\ peer[c] = "here"
  /\ Connected(c)
  /\ \/ /\ phase[c] = "idle"
        /\ phase' = [phase EXCEPT ![c] = "request"]
     \/ /\ phase[c] = "sent"
        /\ App[dial[c]] = "repo"
        /\ phase' = [phase EXCEPT ![c] = "again"]
  /\ UNCHANGED <<dial, peer, backlog, sock, listening>>

(* It closes its socket: when it has its answers, or anywhere if it is     *)
(* killed or gives up ("hangup").                                          *)
Hangup(c) ==
  /\ peer[c] = "here"
  /\ Connected(c)
  /\ phase[c] \in {"idle", "sent"} \/ "hangup" \in Disturbance
  /\ peer' = [peer EXCEPT ![c] = "gone"]
  /\ UNCHANGED <<dial, phase, backlog, sock, listening>>

=============================================================================
