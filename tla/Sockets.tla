------------------------------ MODULE Sockets ------------------------------
(***************************************************************************)
(* The TCP sockets the three programs use, as the kernel provides them.    *)
(* This is the environment of the code in src/: it is modelled from the    *)
(* calls socket, listen, accept, connect, send, recv, shutdown and close   *)
(* that the programs make, and from what their results can be.             *)
(*                                                                         *)
(* Each client and each server opens at most one connection, so that a     *)
(* connection is named by the process that opened it.                      *)
(***************************************************************************)
EXTENDS Packets, Sequences

CONSTANTS
  Client, Server, Destination,  \* the processes, by the program they run
  HostOf,                       \* the host a process runs on
  Nobody,                       \* no process
  Backlog,                      \* connections a listening socket can queue
  Reads,                        \* how many of a packet's fields one recv may return
  Faults,                       \* may a system call fail without a peer's doing?
  Interruptible                 \* the processes that may be stopped with Ctrl-C

Opener == Client \cup Server
Acceptor == Server \cup Destination
Process == Client \cup Server \cup Destination

ASSUME SocketsAssumption ==
  /\ Client \cap Acceptor = {}
  /\ Server \cap Destination = {}
  /\ Nobody \notin Process
  /\ HostOf \in [Process -> Host]
  /\ Backlog \in Nat \ {0}
  /\ Reads \subseteq 0..Whole
  /\ Whole \in Reads
  /\ Faults \in BOOLEAN
  /\ Interruptible \subseteq Process

\* How a process ends: main returns 0, main returns -1 or exit(EXIT_FAILURE),
\* a null pointer is dereferenced, Ctrl-C.
Ended == {"exit0", "exit1", "segv", "sigint"}

VARIABLES
  listening,  \* the processes whose listening socket is open
  backlog,    \* the connections waiting to be accepted, by listening process
  link        \* the connections, by opener

socketVars == <<listening, backlog, link>>

(***************************************************************************)
(* near and far are the opener's and the acceptor's end of a connection:   *)
(* "fin" is an end closed in order, "rst" one whose closing reset the      *)
(* connection.  up and down are the bytes under way or unread, from the    *)
(* opener and to it: at most one packet in each direction.                 *)
(***************************************************************************)
Link == [peer : Acceptor \cup {Nobody},
         near : {"idle", "open", "fin", "rst"},
         far  : {"idle", "queued", "open", "fin", "rst"},
         up   : SUBSET Packet,
         down : SUBSET Packet]

NoLink == [peer |-> Nobody, near |-> "idle", far |-> "idle", up |-> {}, down |-> {}]
NewLink(a) == [peer |-> a, near |-> "open", far |-> "queued", up |-> {}, down |-> {}]

SocketsTypeOK ==
  /\ listening \in SUBSET Acceptor
  /\ backlog \in [Acceptor -> Seq(Opener)]
  /\ link \in [Opener -> Link]

SocketsInit ==
  /\ listening = {}
  /\ backlog = [a \in Acceptor |-> <<>>]
  /\ link = [o \in Opener |-> NoLink]

-----------------------------------------------------------------------------
\* socket, setsockopt, bind and listen of create_server_socket() and
\* create_dest_socket().
Listen(a) ==
  /\ listening' = listening \cup {a}
  /\ UNCHANGED <<backlog, link>>

CanDial(addr, a) ==
  /\ a \in listening
  /\ HostOf[a] = addr
  /\ Len(backlog[a]) < Backlog

\* connect() succeeds as soon as the kernel has queued the connection: the
\* listening program need not accept it.
Dial(o, addr) ==
  /\ \E a \in Acceptor :
       /\ CanDial(addr, a)
       /\ link' = [link EXCEPT ![o] = NewLink(a)]
       /\ backlog' = [backlog EXCEPT ![a] = Append(@, o)]
  /\ UNCHANGED listening

\* connect() returns -1: unreachable, refused, or timed out on a full queue.
DialFails(addr) == Faults \/ \A a \in Acceptor : ~CanDial(addr, a)

Accept(a) ==
  /\ backlog[a] # <<>>
  /\ link' = [link EXCEPT ![Head(backlog[a])].far = "open"]
  /\ backlog' = [backlog EXCEPT ![a] = Tail(@)]
  /\ UNCHANGED listening

-----------------------------------------------------------------------------
\* send() succeeds unless a reset has arrived; the bytes reach a live peer only.
SendUp(o, pkt) ==
  /\ link[o].far # "rst"
  /\ link' = [link EXCEPT ![o].up = IF link[o].far = "fin" THEN @ ELSE {pkt}]
  /\ UNCHANGED <<listening, backlog>>

SendDown(o, pkt) ==
  /\ link[o].near # "rst"
  /\ link' = [link EXCEPT ![o].down = IF link[o].near = "fin" THEN @ ELSE {pkt}]
  /\ UNCHANGED <<listening, backlog>>

SendUpFails(o) == Faults \/ link[o].far = "rst"
SendDownFails(o) == Faults \/ link[o].near = "rst"

\* The failed send() has consumed the socket's pending error: a later recv()
\* returns 0, as after an orderly close.
ErrorReported(o) ==
  /\ link' = [link EXCEPT ![o].far = IF @ = "rst" THEN "fin" ELSE @]
  /\ UNCHANGED <<listening, backlog>>

-----------------------------------------------------------------------------
(***************************************************************************)
(* recv() blocks until bytes, an orderly close or a reset has arrived.  It *)
(* returns some of the bytes: those it leaves stay unread, since no        *)
(* program calls it twice on a connection.  An arrival is the packet the   *)
(* call leaves in a buffer that is read in the form f, and the rest.       *)
(***************************************************************************)
CutOrWhole(f) == IF f = "plain" THEN Reads ELSE Reads \ {TextRead}

Arrivals(pkts, end, f) ==
  {[pkt |-> Received(f, p, n), rest |-> IF n = Whole THEN {} ELSE {p}] :
     p \in pkts, n \in CutOrWhole(f)}
  \cup (IF pkts = {} /\ end = "fin"
        THEN {[pkt |-> NothingReceived(f), rest |-> {}]} ELSE {})

UpArrivals(o, f) == Arrivals(link[o].up, link[o].near, f)
DownArrivals(o, f) == Arrivals(link[o].down, link[o].far, f)

RecvUp(o, got) ==
  /\ link' = [link EXCEPT ![o].up = got.rest]
  /\ UNCHANGED <<listening, backlog>>

RecvDown(o, got) ==
  /\ link' = [link EXCEPT ![o].down = got.rest]
  /\ UNCHANGED <<listening, backlog>>

\* Something has arrived: recv() need not block.
UpReady(o, f) == UpArrivals(o, f) # {} \/ link[o].near = "rst"
DownReady(o, f) == DownArrivals(o, f) # {} \/ link[o].far = "rst"

\* recv() returns -1; a reset may overtake bytes sent before it.
RecvUpFails(o) == Faults \/ link[o].near = "rst"
RecvDownFails(o) == Faults \/ link[o].far = "rst"

-----------------------------------------------------------------------------
\* Closing an end with bytes unread resets the connection, and so does
\* closing a listening socket to the connections in its queue.
NearClosed(l) ==
  [l EXCEPT !.near = CASE @ # "open" -> @
                       [] @ = "open" /\ l.down = {} -> "fin"
                       [] OTHER -> "rst"]

FarClosed(l) ==
  [l EXCEPT !.far = CASE @ \notin {"queued", "open"} -> @
                      [] @ = "open" /\ l.up = {} -> "fin"
                      [] OTHER -> "rst"]

\* Process p ends, or has closed its last socket.
HangUp(p) ==
  /\ link' = [o \in Opener |->
                LET l == IF o = p THEN NearClosed(link[o]) ELSE link[o]
                IN  IF l.peer = p THEN FarClosed(l) ELSE l]
  /\ listening' = listening \ {p}
  /\ backlog' = [a \in Acceptor |-> IF a = p THEN <<>> ELSE backlog[a]]
=============================================================================
