------------------------------ MODULE Topology ------------------------------
(***************************************************************************)
(* The Mininet network of vpn_topo/simple_vpn.py, on which a server dials  *)
(* the host that HostNames ends with.  Before a host can dial an address   *)
(* it asks everybody who has it.  Switches are those of Mininet's default  *)
(* controllers: they learn where a host is from its frames, and flood what *)
(* they do not know; nothing keeps a frame from circulating but the links. *)
(***************************************************************************)
EXTENDS HostNames

S == 115
s(n) == <<S, Zero + n>>
h(n) == <<H, Zero + n>>

Switches == {s(n) : n \in 1..7}
Hosts == {h(n) : n \in 1..7}

\* Slip: switch s6 also gets a cable to s5.
Ring ==
  {{s(1), h(1)}, {s(1), h(2)}, {s(2), h(3)}, {s(1), s(5)}, {s(5), s(2)}, {s(3), h(4)},
   {s(3), h(5)}, {s(4), h(7)}, {s(3), h(6)}, {s(4), s(6)}, {s(6), s(3)}, {s(6), s(7)},
   {s(7), s(5)}, {s(6), s(5)}}

\* Slip: two switches hang together with each other but with nobody else.
Island ==
  {{s(1), h(1)}, {s(1), h(2)}, {s(2), h(3)}, {s(1), s(5)}, {s(5), s(2)}, {s(3), h(4)},
   {s(3), h(5)}, {s(4), h(7)}, {s(3), h(6)}, {s(4), s(6)}, {s(6), s(4)}, {s(6), s(7)},
   {s(7), s(5)}}

\* addLink(), in its order.
Links ==
  {{s(1), h(1)}, {s(1), h(2)}, {s(2), h(3)}, {s(1), s(5)}, {s(5), s(2)}, {s(3), h(4)},
   {s(3), h(5)}, {s(4), h(7)}, {s(3), h(6)}, {s(4), s(6)}, {s(6), s(3)}, {s(6), s(7)},
   {s(7), s(5)}}

\* Slip: two hosts have the addresses of one another.
Swapped == [x \in Hosts |-> <<10, 0, 0, CASE x = h(5) -> 7 [] x = h(7) -> 5
                                          [] OTHER -> x[2] - Zero>>]

\* addHost(): the address of each host, which hosts[] of host_info.c repeats.
ipOf == [x \in Hosts |-> <<10, 0, 0, x[2] - Zero>>]

VARIABLES
  flight,   \* the frames on their way over a link
  learned,  \* where each switch has seen the frames of a host come from
  handled,  \* which questions and answers a switch has passed on
  dialled,  \* the server has asked for the address
  answers   \* what it was told

network == <<flight, learned, handled, dialled, answers>>
all == <<vars, network>>

-----------------------------------------------------------------------------
Neighbours(x) == {y \in Switches \cup Hosts : {x, y} \in Links}

Frames(msg, from, nodes) == {[msg |-> msg, from |-> from, to |-> y] : y \in nodes}

WhoHas(asker, a) == [host |-> Null, asker |-> asker, ip |-> a]
IsAt(host, question) == [question EXCEPT !.host = host]
Question(msg) == msg.host = Null
Sender(msg) == IF Question(msg) THEN msg.asker ELSE msg.host

\* connect() has the server's kernel ask.
Dial ==
  /\ stage = "dialled" /\ ~dialled
  /\ dialled' = TRUE
  /\ flight' = Frames(WhoHas(own.server, parse_ip_addr(ip)), own.server, Neighbours(own.server))
  /\ UNCHANGED <<vars, learned, handled, answers>>

Forward(f) ==
  /\ f.to \in Switches
  /\ LET ports == learned[f.to]
         others == Neighbours(f.to) \ {f.from}
         out == IF ~Question(f.msg) /\ f.msg.asker \in DOMAIN ports
                THEN {ports[f.msg.asker]} ELSE others
         seen == [a \in DOMAIN ports \cup {Sender(f.msg)} |->
                    IF a = Sender(f.msg) THEN f.from ELSE ports[a]]
     IN  /\ flight' = (flight \ {f}) \cup Frames(f.msg, f.to, out)
         /\ learned' = [learned EXCEPT ![f.to] = seen]
  /\ handled' = handled \cup {<<f.to, f.msg>>}
  /\ UNCHANGED <<vars, dialled, answers>>

\* The host with the address answers, the one that asked keeps the answer.
Receive(f) ==
  /\ f.to \in Hosts
  /\ flight' = (flight \ {f})
       \cup IF Question(f.msg) /\ ipOf[f.to] = f.msg.ip
            THEN Frames(IsAt(f.to, f.msg), f.to, Neighbours(f.to)) ELSE {}
  /\ answers' = IF ~Question(f.msg) /\ f.msg.asker = f.to THEN answers \cup {f.msg} ELSE answers
  /\ UNCHANGED <<vars, learned, handled, dialled>>

Program == Next /\ UNCHANGED network

Quiet == flight = {} /\ UNCHANGED all

TopologyInit ==
  /\ Init
  /\ flight = {} /\ handled = {} /\ dialled = FALSE /\ answers = {}
  /\ learned = [x \in Switches |-> <<>>]

TopologyNext ==
  \/ Program \/ Dial
  \/ \E f \in flight : Forward(f) \/ Receive(f)
  \/ Quiet

\* Programs run, and links deliver what they carry.
TopologySpec == TopologyInit /\ [][TopologyNext]_all /\ WF_all(TopologyNext)

-----------------------------------------------------------------------------
(***************************************************************************)
(* The links are no ring: no question comes twice to a switch.  It would   *)
(* circulate for ever, for nothing prunes the links.                       *)
(***************************************************************************)
FloodsEnd ==
  \A f \in flight :
    Question(f.msg) /\ f.to \in Switches => <<f.to, f.msg>> \notin handled

(***************************************************************************)
(* The host that answers a server is the one whose name was typed at the   *)
(* client's prompt: the table of the programs and that of the network, two *)
(* files, agree, and no address changes on the way through text and packet.*)
(***************************************************************************)
NamedHostAnswers == \A a \in answers : a.asker = own.server /\ a.host = name

-----------------------------------------------------------------------------
\* The links as a tree below s6: the other end of a node's link upwards.
Up == [x \in Switches \cup Hosts |->
         CASE x \in {h(1), h(2)} -> s(1) [] x = h(3) -> s(2) [] x \in {s(1), s(2)} -> s(5)
           [] x \in {h(4), h(5), h(6)} -> s(3) [] x = h(7) -> s(4) [] x = s(5) -> s(7)
           [] OTHER -> s(6)]

\* The nodes on the way from a host up to s6, which they leave out.
Above(r) == {r, Up[r], Up[Up[r]], Up[Up[Up[r]]], s(6)} \ {s(6)}

\* The links of a flood that a host starts, in its direction: up from the host, and
\* down everywhere else.
Flood(r) ==
  {<<x, Up[x]>> : x \in Above(r)}
    \cup {<<Up[x], x>> : x \in (Switches \cup Hosts) \ (Above(r) \cup {s(6)})}

\* The one question there is, and its answer.
Asked == WhoHas(own.server, parse_ip_addr(ip))
Answered == IsAt(name, Asked)

(***************************************************************************)
(* The inductive invariant: nothing is on the network but the server's     *)
(* question and its answer.  The question goes over the links in one       *)
(* direction, and to no switch before it went to the one it comes from.    *)
(***************************************************************************)
TopologyInv ==
  /\ NamesInv
  /\ ~dialled => flight = {} /\ handled = {} /\ answers = {}
  /\ dialled => stage = "dialled"
  /\ DOMAIN learned = Switches
  /\ \A x \in Switches : \A a \in DOMAIN learned[x] : learned[x][a] \in Switches \cup Hosts
  /\ flight \subseteq [msg : {Asked, Answered}, from : Switches \cup Hosts,
                       to : Switches \cup Hosts]
  /\ answers \subseteq {Answered}
  /\ \A f \in flight : f.msg = Asked =>
       /\ <<f.from, f.to>> \in Flood(own.server) /\ <<f.to, Asked>> \notin handled
       /\ f.from = own.server \/ <<f.from, Asked>> \in handled
  /\ handled # {} => \A link \in Flood(own.server) : <<link[2], Asked>> \in handled =>
       link[1] = own.server \/ <<link[1], Asked>> \in handled

-----------------------------------------------------------------------------
\* Every server that dials a host of the table is answered: the links join all.
DialsAreAnswered == stage = "dialled" ~> answers # {}
=============================================================================
