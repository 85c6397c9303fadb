----------------------------- MODULE SimpleVPN -----------------------------
(***************************************************************************)
(* Clients, VPN servers and destinations running together: every           *)
(* interleaving of the three programs' system calls, with the connections  *)
(* of module Sockets between them.                                         *)
(***************************************************************************)
EXTENDS VpnClient, VpnServer, VpnDestination

vars == <<clientVars, serverVars, destinationVars, socketVars>>

TypeOK == ClientTypeOK /\ ServerTypeOK /\ DestinationTypeOK /\ SocketsTypeOK

Init == ClientInit /\ ServerInit /\ DestinationInit /\ SocketsInit

\* Every process has ended or listens to nobody: what is left is to wait for
\* a program that nobody starts.
AtRest ==
  /\ \A c \in Client : cpc[c] \in Ended
  /\ \A s \in Server : spc[s] \in Ended \/ (spc[s] = "accept" /\ backlog[s] = <<>>)
  /\ \A d \in Destination :
       dpc[d] \in Ended \/ (dpc[d] = "accept" /\ backlog[d] = <<>>)

ClientStep(c) == ClientNext(c) /\ UNCHANGED <<serverVars, destinationVars>>
ServerStep(s) == ServerNext(s) /\ UNCHANGED <<clientVars, destinationVars>>
DestinationStep(d) == DestinationNext(d) /\ UNCHANGED <<clientVars, serverVars>>
Rest == AtRest /\ UNCHANGED vars

Next ==
  \/ \E c \in Client : ClientStep(c)
  \/ \E s \in Server : ServerStep(s)
  \/ \E d \in Destination : DestinationStep(d)
  \/ Rest

Spec == Init /\ [][Next]_vars

(***************************************************************************)
(* The scheduler runs a process that can run.  A process blocked in        *)
(* accept() or recv() may wait there for ever: the programs set no timeout *)
(* and nothing promises that a call which waits for a peer fails.          *)
(* Starting a program, typing a name and pressing Ctrl-C are up to the     *)
(* user.                                                                   *)
(***************************************************************************)
Fairness ==
  /\ \A c \in Client :
       WF_vars(~ClientBlocked(c) /\ ClientRuns(c)
               /\ UNCHANGED <<serverVars, destinationVars>>)
  /\ \A s \in Server :
       WF_vars(~ServerBlocked(s) /\ ServerRuns(s)
               /\ UNCHANGED <<clientVars, destinationVars>>)
  /\ \A d \in Destination :
       WF_vars(~DestinationBlocked(d) /\ DestinationRuns(d)
               /\ UNCHANGED <<clientVars, serverVars>>)

FairSpec == Spec /\ Fairness

-----------------------------------------------------------------------------
ClientHost == {HostOf[c] : c \in Client}

\* A host that runs a client runs no server and no destination.
HostsApart == \A a \in Acceptor : HostOf[a] \notin ClientHost

OutsideSees(pkt) == pkt.src \notin ClientHost /\ pkt.dst \notin ClientHost

(***************************************************************************)
(* The server proxies (CSCD58_Report.md:10): no packet on a connection     *)
(* that a VPN server opened, in either direction and in any form, and no   *)
(* packet a destination holds, bears the address of a client.  It rests on *)
(* the order of main(): save_client_ip(), then the in-place rewriting of   *)
(* serv_handle_pkt(), then connect() and send(); and on the saved address  *)
(* being put back only in what is sent on the client's own connection.     *)
(***************************************************************************)
ProxyHidesClient ==
  HostsApart =>
    /\ \A s \in Server : \A pkt \in link[s].up \cup link[s].down : OutsideSees(pkt)
    /\ \A d \in Destination : dpkt[d] # Null => OutsideSees(dpkt[d])

-----------------------------------------------------------------------------
(***************************************************************************)
(* Inductive strengthenings of TypeOK and of ProxyHidesClient.             *)
(***************************************************************************)
Holding == {"connect", "forward", "await", "reply", "close"}
Serving == {"recv"} \cup Holding

\* A process has the connection and the packet that its next step uses.
TypeInv ==
  /\ TypeOK
  /\ \A s \in Server : /\ spc[s] \in Serving => accepted[s] \in Opener
                       /\ spc[s] \in Holding => spkt[s] \in Packet
  /\ \A d \in Destination : /\ dpc[d] \in {"recv", "respond", "close"} => caller[d] \in Opener
                            /\ dpc[d] = "respond" => dpkt[d] \in Packet

\* What a client sends is encrypted, what a server sends on is not.
FormInv ==
  /\ \A c \in Client : \A pkt \in link[c].up : pkt.form = "tunnel"
  /\ \A s \in Server : \A pkt \in link[s].up : pkt.form = "plain"

\* A server passes on its clients' packets only, those of a server being
\* unreadable to it, and only once they bear its own address.
ServerInv ==
  \A s \in Server :
    /\ spc[s] \in {"connect", "forward"} =>
         spkt[s].form = "plain" /\ spkt[s].src = HostOf[s]
    /\ spc[s] = "connect" /\ accepted[s] \in Server => spkt[s].dst = NoHost
    /\ spc[s] = "forward" => spkt[s].dst \in {HostOf[a] : a \in Acceptor}
    /\ spc[s] \in {"forward", "await", "reply"} => accepted[s] \in Client

ProxyInv == TypeInv /\ FormInv /\ ServerInv /\ ProxyHidesClient

-----------------------------------------------------------------------------
HasReply(c) == reply[c] # Null /\ reply[c].body = "hello"

\* Server s works for client c, and destination d has answered server s.
Circuit(c, s, d) ==
  /\ link[c].peer = s /\ accepted[s] = c
  /\ link[s].peer = d /\ caller[d] = s

\* What client c receives comes from where it asked for, and is meant for it.
Delivered(c, pkt) ==
  /\ pkt.src = asked[c]
  /\ pkt.dst = HostOf[c]
  /\ \E s \in Server, d \in Destination :
       /\ Circuit(c, s, d)
       /\ HostOf[s] = ServerHost[c]
       /\ HostOf[d] = asked[c]

(***************************************************************************)
(* A client that prints the destination's greeting got it from where it    *)
(* asked for: through a server on the host it named, which worked for that *)
(* client, from a destination on the host it typed, which served that      *)
(* server alone; and the packet is addressed from that destination to this *)
(* client.  So no two clients ever show answers of the same destination    *)
(* process, whatever resets, cut reads and failures occurred on the way.   *)
(***************************************************************************)
ReplyHasCircuit == \A c \in Client : HasReply(c) => Delivered(c, reply[c])

-----------------------------------------------------------------------------
(***************************************************************************)
(* Inductive strengthenings of ReplyHasCircuit: who is connected to whom,  *)
(* where a request goes, and whose answer comes back.                      *)
(***************************************************************************)

\* The process whose connection process a accepted.
Served(a) == IF a \in Server THEN accepted[a] ELSE caller[a]

Undialled(o) ==
  \/ o \in Client /\ cpc[o] \in {"start", "connect"}
  \/ o \in Server /\ spc[o] \in {"start", "accept", "recv", "connect"}

Live(o) ==
  \/ o \in Client /\ cpc[o] \in {"send", "recv", "close"}
  \/ o \in Server /\ spc[o] \in {"forward", "await", "reply", "close"}

Unserving(a) ==
  IF a \in Server THEN spc[a] \in {"start", "accept"} ELSE dpc[a] \in {"start", "accept"}

\* A connection is opened once, waits where it was opened to and is accepted
\* there or nowhere; its opener's end is open until the opener ends.
WireInv ==
  /\ \A o \in Opener : /\ Undialled(o) => link[o] = NoLink
                       /\ Live(o) => link[o].near = "open"
  /\ \A a \in Acceptor :
       /\ Unserving(a) => Served(a) = Nobody
       /\ Served(a) # Nobody => link[Served(a)].peer = a
       /\ \A i \in 1..Len(backlog[a]) : link[backlog[a][i]].peer = a
       /\ \A o \in Opener : link[o].peer = a =>
            /\ link[o].far = "queued" => Served(a) # o
            /\ link[o].far = "open" => Served(a) = o

\* A client dials the server it named; a server dials a host only once it has
\* read whose packet it is, and it is the host that client asked for.
RouteInv ==
  /\ \A c \in Client :
       /\ \A pkt \in link[c].up : pkt = create_packets(HostOf[c], asked[c])
       /\ link[c].peer # Nobody => HostOf[link[c].peer] = ServerHost[c]
  /\ \A s \in Server :
       /\ spc[s] = "connect" /\ spkt[s].dst # NoHost =>
            /\ accepted[s] \in Client
            /\ clientIp[s] = HostOf[accepted[s]]
            /\ spkt[s].dst = asked[accepted[s]]
       /\ spc[s] \in {"forward", "await"} => clientIp[s] = HostOf[accepted[s]]
       /\ link[s].peer # Nobody =>
            accepted[s] \in Client /\ HostOf[link[s].peer] = asked[accepted[s]]

\* A destination that accepted server s wrote the packet.
WrittenFor(s, pkt) == \E d \in Destination : caller[d] = s /\ pkt.src = HostOf[d]

\* Every greeting on its way was written by the destination at the other end.
AnswerInv ==
  /\ \A s \in Server :
       /\ \A pkt \in link[s].down :
            pkt.form = "plain" /\ pkt.body = "hello" => WrittenFor(s, pkt)
       /\ spc[s] = "reply" /\ spkt[s].body = "hello" =>
            WrittenFor(s, spkt[s]) /\ spkt[s].dst = HostOf[accepted[s]]
  /\ \A c \in Client :
       /\ \A pkt \in link[c].down :
            pkt.form = "tunnel" /\ pkt.body = "hello" => Delivered(c, pkt)
       /\ cpc[c] \in {"start", "connect", "send", "recv"} => reply[c] = Null

CircuitInv == ProxyInv /\ WireInv /\ RouteInv /\ AnswerInv /\ ReplyHasCircuit

-----------------------------------------------------------------------------
\* The process that o dialled has taken somebody else's connection.
PassedOver(o) ==
  \E a \in Acceptor : link[o].peer = a /\ Served(a) \notin {o, Nobody}

(***************************************************************************)
(* When no system call fails by itself, nobody presses Ctrl-C and packets  *)
(* are read whole, the null pointer that recv() leads to is dereferenced   *)
(* only by a process that was passed over: its connection was still queued *)
(* when the one-shot program it had dialled finished with somebody else.   *)
(***************************************************************************)
Undisturbed == ~Faults /\ Interruptible = {} /\ Reads = {Whole}

CrashOnlyIfPassedOver ==
  Undisturbed =>
    /\ \A c \in Client : cpc[c] = "segv" => PassedOver(c)
    /\ \A s \in Server : spc[s] = "segv" => PassedOver(s)

(***************************************************************************)
(* Inductive strengthening of CrashOnlyIfPassedOver: what an opener sends  *)
(* is read in one piece before its acceptor ends, so that a reset reaches  *)
(* a live opener only from an acceptor that never took its connection.     *)
(***************************************************************************)
Unsent(o) ==
  \/ Undialled(o)
  \/ o \in Client /\ cpc[o] = "send"
  \/ o \in Server /\ spc[o] = "forward"

HasRead(a) ==
  IF a \in Server THEN spc[a] \notin {"start", "accept", "recv"}
                   ELSE dpc[a] \notin {"start", "accept", "recv"}

ResetAt(o) ==
  /\ link[o].up # {} => ~Unsent(o)
  /\ link[o].near = "open" =>
       /\ link[o].far = "rst" => PassedOver(o)
       /\ \A a \in Acceptor :
            Served(a) = o /\ HasRead(a) => link[o].up = {} /\ ~Unsent(o)

ResetInv == \A o \in Opener : ResetAt(o)

UndisturbedInv == CircuitInv /\ (Undisturbed => ResetInv) /\ CrashOnlyIfPassedOver

-----------------------------------------------------------------------------
\* Servers that wait for the response of one another: all programs use the
\* same port, so that a server may dial a server as if it were a destination.
WaitCycle ==
  \E S \in SUBSET Server \ {{}} : \A s \in S : spc[s] = "await" /\ link[s].peer \in S

(***************************************************************************)
(* Nothing but a cycle of servers that lasts keeps a process that has a    *)
(* connection waiting for ever: a client that starts to connect and a      *)
(* server or a destination that has accepted somebody end, whoever         *)
(* crashes, closes, is interrupted or answers in parts on the way.         *)
(***************************************************************************)
ConversationsEnd ==
  \/ <>[]WaitCycle
  \/ /\ \A c \in Client : cpc[c] = "connect" ~> cpc[c] \in Ended
     /\ \A s \in Server : spc[s] = "recv" ~> spc[s] \in Ended
     /\ \A d \in Destination : dpc[d] = "recv" ~> dpc[d] \in Ended

(***************************************************************************)
(* Undisturbed, a client whose server was accepted by a destination gets   *)
(* the destination's greeting: the server neither gives up nor takes the   *)
(* close of a connection for the response.                                 *)
(***************************************************************************)
CircuitDelivers ==
  Undisturbed =>
    \A c \in Client, s \in Server, d \in Destination :
      Circuit(c, s, d) ~> HasReply(c)

-----------------------------------------------------------------------------
(***************************************************************************)
(* The refinement mapping to VpnService: the destination whose answer a    *)
(* client shows is the one at the end of the client's circuit.             *)
(***************************************************************************)
AtEnd(c) == {d \in Destination : \E s \in Server : Circuit(c, s, d)}

AnswerOf(c) ==
  IF HasReply(c) /\ AtEnd(c) # {} THEN CHOOSE d \in AtEnd(c) : TRUE ELSE Nobody

PhaseOf(c) ==
  CASE cpc[c] = "start" -> "idle"
    [] cpc[c] \in Ended -> "over"
    [] OTHER            -> "asking"

Service ==
  INSTANCE VpnService WITH
    Name   <- DestNames,
    NoName <- NoHost,
    phase  <- [c \in Client |-> PhaseOf(c)],
    wanted <- asked,
    shown  <- [c \in Client |-> AnswerOf(c)]

\* A client and the server that accepted it, each in recv() for the other: the
\* client's send() failed, which main() prints and ignores (client.c:116-124).
Standoff ==
  \E c \in Client, s \in Server :
    /\ ClientBlocked(c)
    /\ spc[s] = "recv" /\ ServerBlocked(s)
    /\ accepted[s] = c

(***************************************************************************)
(* The programs implement the service, its safety and its liveness: with   *)
(* proper names, where no server can dial a server, a client that asked    *)
(* always ends, unless it or the client its server works for is in a       *)
(* standoff that lasts.                                                    *)
(***************************************************************************)
ImplementsService == Service!Spec /\ (<>[]Standoff \/ Service!RequestsEnd)

-----------------------------------------------------------------------------
\* packet.h:30-33: serv_rec_from_cli() returns the pointer of the packet on
\* success, so that what the client prints before it exits with 0 is a packet.
ReplyIsAPacket ==
  \A c \in Client : reply[c] # Null => reply[c].body # "none"

\* packet.h:31-32: NULL if an error occurred; the programs handle it, and end
\* with an exit code of their own.
ErrorsAreHandled ==
  /\ \A c \in Client : cpc[c] # "segv"
  /\ \A s \in Server : spc[s] # "segv"
=============================================================================
