----------------------------- MODULE PacketLife -----------------------------
(***************************************************************************)
(* One request and its response, in bytes: every transformation between    *)
(* the client that makes the packet and the client that prints the answer, *)
(* with every cut a recv() may make.  Next to the bytes, pkt is the packet *)
(* of module Packets that stands for them in SimpleVPN, transformed by the *)
(* operators SimpleVPN uses: that the two agree is what justifies them.    *)
(***************************************************************************)
EXTENDS PacketBytes

CONSTANTS
  Texts,       \* the texts the clients send
  Probes,      \* texts other callers may pass; they travel whole, on one host
  RouteHosts,  \* the hosts that clients, servers and destinations run on
  Cuts,        \* numbers of bytes after which a recv() may cut a packet
  NoHost, Null

Hello == <<72, 101, 108, 108, 111, 32, 102, 114, 111, 109, 32, 116, 104, 101, 32,
           111, 116, 104, 101, 114, 32, 115, 105, 100, 101, 33>>

\* The table hosts[]: h1 to h7.
Host == {<<10, 0, 0, n>> : n \in 1..7}

P == INSTANCE Packets

ASSUME PacketLifeAssumption ==
  /\ RouteHosts \subseteq Host
  /\ Cuts \subseteq Nat
  /\ \A t \in Texts \cup Probes : t \in Seq(Byte \ {0}) /\ Len(t) <= MaxPayload

VARIABLES
  stage,     \* what happened to the packet last
  route,     \* the client, the server, the destination and the text
  mem,       \* the buffer that holds the packet
  pkt,       \* the same packet, in module Packets
  client_ip  \* what the server saved

vars == <<stage, route, mem, pkt, client_ip>>

Routes == {[client |-> c, server |-> s, dest |-> d, text |-> t] :
             c \in RouteHosts, s \in RouteHosts, d \in RouteHosts, t \in Texts}
          \cup {[client |-> h, server |-> h, dest |-> h, text |-> t] :
             h \in RouteHosts, t \in Probes}

Init ==
  /\ stage = "start"
  /\ route \in Routes
  /\ mem = Zeroed(TunnelSize)
  /\ pkt = Null
  /\ client_ip = NoHost

-----------------------------------------------------------------------------
\* The offset of the IP header, by form.
IpAt(f) == IF f = "tunnel" THEN GreSize ELSE 0

(***************************************************************************)
(* The fields of module Packets that n bytes of a packet contain, of which *)
(* the text ends at byte end, and of which all bytes are sent.             *)
(***************************************************************************)
FieldsIn(f, n, end, all) ==
  IF n = all THEN P!Whole
  ELSE IF n >= end THEN P!TextRead
  ELSE IF n >= IpAt(f) + IpDst + 4 THEN 2
  ELSE IF n >= IpAt(f) + IpSrc + 4 THEN 1
  ELSE 0

\* One recv() of a packet of which the first all bytes were sent.
ReadSizes(all) == {n \in Cuts : n < all /\ route.text \in Texts} \cup {all}

Arrived(f, n, end, all) ==
  IF n = 0 THEN P!NothingReceived(f) ELSE P!Received(f, pkt, FieldsIn(f, n, end, all))

MakeRequest ==
  /\ stage = "start"
  /\ stage' = "request"
  /\ mem' = create_packets(route.client, route.dest, tcp, route.text, 2)
  /\ pkt' = P!create_packets(route.client, route.dest)
  /\ UNCHANGED <<route, client_ip>>

\* The client's send() and the server's recv(); the server saves the address.
ServerReceives ==
  /\ stage = "request"
  /\ LET all == get_packet_size(tcp, Len(route.text))
     IN  \E n \in ReadSizes(all) :
           /\ mem' = serv_rec_from_cli(Bytes(mem, 0, n))
           /\ pkt' = Arrived("tunnel", n, all, all)
           /\ stage' = IF n = all THEN "arrived" ELSE "cut"
  /\ UNCHANGED <<route, client_ip>>

ServerRewrites ==
  /\ stage \in {"arrived", "cut"}
  /\ stage' = "proxied"
  /\ client_ip' = save_client_ip(mem)
  /\ mem' = serv_handle_pkt(mem, route.server)
  /\ pkt' = P!serv_handle_pkt(pkt, route.server)
  /\ UNCHANGED route

\* connect() needs a host; the server sends the buffer up to its end.
DestinationReceives ==
  /\ stage = "proxied"
  /\ Addr(mem, IpDst) \in Host
  /\ \E n \in ReadSizes(PlainSize) :
       /\ mem' = dest_rec_pkt(Bytes(mem, 0, n))
       /\ pkt' = Arrived("plain", n, TextOf(0) + Len(route.text), PlainSize)
  /\ stage' = "delivered"
  /\ UNCHANGED <<route, client_ip>>

MakeResponse ==
  /\ stage = "delivered"
  /\ stage' = "response"
  /\ mem' = packet_decapsulate(
              create_packets_des(route.dest, Addr(mem, IpSrc), tcp, Hello, 22))
  /\ pkt' = P!create_packets_des(route.dest, pkt.src)
  /\ UNCHANGED <<route, client_ip>>

\* The destination sends as many bytes as the packet had with its GRE header.
ServerReceivesResponse ==
  /\ stage = "response"
  /\ LET all == get_packet_size(tcp, Len(Hello))
     IN  \E n \in ReadSizes(all) :
           /\ mem' = serv_rec_from_des(Bytes(mem, 0, n))
           /\ pkt' = Arrived("plain", n, TextOf(0) + Len(Hello), all)
  /\ stage' = "returned"
  /\ UNCHANGED <<route, client_ip>>

ServerWraps ==
  /\ stage = "returned"
  /\ stage' = "wrapped"
  /\ mem' = serv_handle_pkt_dest(Wrapped(mem), client_ip)
  /\ pkt' = P!serv_handle_pkt_dest(pkt, IF client_ip \in Host THEN client_ip ELSE NoHost)
  /\ UNCHANGED <<route, client_ip>>

\* serv_cli_encrypt_free() and the client's serv_rec_from_cli().
ClientReceives ==
  /\ stage = "wrapped"
  /\ LET len == Len(Text(mem, TextOf(GreSize)))
         all == get_packet_size(tcp, len)
     IN  \E n \in ReadSizes(all) :
           /\ mem' = serv_rec_from_cli(Bytes(serv_cli_encrypt_free(mem, tcp, len), 0, n))
           /\ pkt' = Arrived("tunnel", n, all, all)
  /\ stage' = "shown"
  /\ UNCHANGED <<route, client_ip>>

-----------------------------------------------------------------------------
\* A client has dialled a destination, which reads the request, or a server
\* another server, whose reply it reads as a destination's.
ReadInClear ==
  /\ \/ /\ stage = "request"
        /\ \E n \in ReadSizes(get_packet_size(tcp, Len(route.text))) :
             /\ mem' = dest_rec_pkt(Bytes(mem, 0, n))
             /\ pkt' = Arrived("plain", n, PlainSize, PlainSize)
     \/ /\ stage = "wrapped"
        /\ LET len == Len(Text(mem, TextOf(GreSize)))
           IN  \E n \in ReadSizes(get_packet_size(tcp, len)) :
                 /\ mem' = serv_rec_from_des(
                             Bytes(serv_cli_encrypt_free(mem, tcp, len), 0, n))
                 /\ pkt' = Arrived("plain", n, TunnelSize, TunnelSize)
  /\ stage' = "misread"
  /\ UNCHANGED <<route, client_ip>>

\* A plain packet that a server dials another server with, or that a
\* destination answers a client with.
ReadThroughTunnel ==
  /\ \/ stage = "proxied" /\ Addr(mem, IpDst) \in Host
     \/ stage = "response"
  /\ LET all == IF stage = "proxied" THEN PlainSize
                ELSE get_packet_size(tcp, Len(Hello))
     IN  \E n \in ReadSizes(all) :
           /\ mem' = serv_rec_from_cli(Bytes(mem, 0, n))
           /\ pkt' = Arrived("tunnel", n, all, all)
  /\ stage' = "misread"
  /\ UNCHANGED <<route, client_ip>>

\* The conversation is over; connect() to what is no host fails.
Done == stage \in {"shown", "misread"} /\ UNCHANGED vars
Refused == stage = "proxied" /\ Addr(mem, IpDst) \notin Host /\ UNCHANGED vars

Next ==
  \/ MakeRequest \/ ServerReceives \/ ServerRewrites \/ DestinationReceives
  \/ MakeResponse \/ ServerReceivesResponse \/ ServerWraps \/ ClientReceives
  \/ ReadInClear \/ ReadThroughTunnel \/ Done \/ Refused

Spec == Init /\ [][Next]_vars

-----------------------------------------------------------------------------
\* Where a text has the byte of the key.
Collisions(t) == {i \in DOMAIN t : t[i] = KeyAt(TextOf(GreSize) + i - 1)}

(***************************************************************************)
(* A text that shows whether it came through: the tunnel keeps all of it,  *)
(* it is no part of Hello nor Hello of it, and no reading in the wrong     *)
(* form yields it or, of what it leaves at the wrong place, Hello.  The    *)
(* bytes are those that misreading shows first: of zeroes encrypted; of    *)
(* zeroes decrypted at one place and at another; of Hello's seventh.       *)
(***************************************************************************)
Telling(t) ==
  /\ Len(t) \in 1..(MaxPayload - 1) /\ Collisions(t) = {}
  /\ \E i \in 1..Len(t) : i <= Len(Hello) /\ t[i] # Hello[i]
  /\ t[1] \notin {key[1], BitXor(key[1], key[3]), BitXor(Hello[7], key[3])}
  /\ Len(t) >= 7 => BitXor(t[7], key[3]) # Hello[1]

HostOf(a) == IF a \in Host THEN a ELSE NoHost

\* The program at each stage prints the packet in the form it takes it for.
Shown == IF pkt.form = "tunnel" THEN print_packet(mem) ELSE print_packet_unencap(mem)

(***************************************************************************)
(* Whoever reads a buffer finds in it, and prints, the addresses and the   *)
(* text that module Packets says: after a cut, at the end of a stream,     *)
(* through the wrong decryption, after the checksums' byte swaps, and      *)
(* after two rounds of XOR with strlen() in between.  In particular no cut *)
(* or misread address is ever taken for that of another host.              *)
(***************************************************************************)
BytesMatchPackets ==
  stage \notin {"start", "request"} /\ Telling(route.text) =>
    /\ HostOf(Shown.src) = pkt.src
    /\ HostOf(Shown.dst) = pkt.dst
    /\ (pkt.body = "payload") = (Shown.text = route.text)
    /\ (pkt.body = "hello") = (Shown.text = Hello)

(***************************************************************************)
(* print_payload() and the server's strlen() find the end of the text      *)
(* inside the buffer, also when the packet was cut, was in the other form  *)
(* or went through the wrong decryption: they read nothing behind it.      *)
(***************************************************************************)
TextsEnd ==
  stage # "start" =>
    \E i \in DOMAIN mem : i >= TextOf(IpAt(pkt.form)) /\ mem[i] = 0

\* The bytes of an address, and of the checksum.
Touched(at) == at..(at + 3) \cup IpSum..(IpSum + 1)

(***************************************************************************)
(* serv_handle_pkt() and serv_handle_pkt_dest() swap the length and both   *)
(* addresses to take the checksum, and swap them back: between the packet  *)
(* a server received and the one it sends on, nothing but one address, the *)
(* checksum and the GRE header differs.                                    *)
(***************************************************************************)
RewritingIsLocal ==
  [][/\ ServerRewrites =>
          \A i \in DOMAIN mem' \ Touched(IpSrc) : mem'[i] = mem[i + GreSize]
     /\ ServerWraps =>
          \A i \in 0..(PlainSize - 1) \ Touched(IpDst) : mem'[i + GreSize] = mem[i]]_vars

\* A text before its first collision with the key.
Kept(t) ==
  LET ends == Collisions(t) \cup {Clamped(Len(t)) + 1}
      first == CHOOSE i \in ends : \A j \in ends : i <= j
  IN  SubSeq(t, 1, first - 1)

(***************************************************************************)
(* The tunnel keeps a text up to the first byte that equals the byte of    *)
(* the key at its place: encrypted it is zero, where strlen() stops.       *)
(***************************************************************************)
TunnelKeepsPrefix == stage = "arrived" => Shown.text = Kept(route.text)

-----------------------------------------------------------------------------
InClear == {"proxied", "delivered", "response"}
OutOfTunnel == {"request", "arrived", "cut", "wrapped", "shown"}

\* The form in which the program at this stage takes its packet.
FormInv ==
  /\ stage \in {"start", "returned", "misread"} \cup InClear \cup OutOfTunnel
  /\ stage # "start" => pkt \in P!Packet
  /\ stage \in OutOfTunnel => pkt.form = "tunnel"
  /\ stage \in InClear \cup {"returned"} => pkt.form = "plain"

\* Its buffer.
MemoryInv ==
  \/ mem \in [0..(TunnelSize - 1) -> Byte] /\ stage \notin InClear
  \/ mem \in [0..(PlainSize - 1) -> Byte] /\ stage \in InClear \cup {"misread"}

\* The zeroes behind the text of a response, plain and wrapped again.
ZeroesInv ==
  /\ stage = "returned" =>
       \A i \in (TextOf(GreSize) + Len(Hello))..(TunnelSize - 1) : mem[i] = 0
  /\ stage = "wrapped" => mem[TextOf(2 * GreSize) + Len(Hello)] = 0

(***************************************************************************)
(* The inductive invariant: what kind of buffer and packet there is at     *)
(* each stage, that a request is as it was made until it is received, and  *)
(* a zero byte behind the text.                                            *)
(***************************************************************************)
LifeInv ==
  /\ route \in Routes
  /\ FormInv /\ MemoryInv /\ ZeroesInv
  /\ stage = "request" =>
       mem = create_packets(route.client, route.dest, tcp, route.text, 2)
  /\ stage \in InClear \cup {"returned", "wrapped"} => client_ip \in [1..4 -> Byte]
  /\ TextsEnd /\ TunnelKeepsPrefix

-----------------------------------------------------------------------------
\* The bytes that a reader takes for the addresses and for the first k of a text.
AddressesMatch(ip) ==
  HostOf(Addr(mem, ip + IpSrc)) = pkt.src /\ HostOf(Addr(mem, ip + IpDst)) = pkt.dst

Begins(at, text, k) ==
  (\A j \in 1..k : mem[at + j - 1] = text[j]) /\ mem[at + k] = 0

\* As much of the text as there is; all of it if the packet has that body.
TextMatches(ip, text, body) ==
  /\ pkt.body \in {body, "cut", "none"}
  /\ \E k \in 0..Len(text) :
       Begins(TextOf(ip), text, k) /\ (pkt.body = body <=> k = Len(text))

\* Header bytes that another form would read as an address or as a text, and the
\* first byte behind a text of less than six: the key's, for zeroes decrypted.
RequestTraces(ip, text) ==
  /\ mem[ip + 21] \in {198, 120} /\ mem[ip + 25] \in {0, 120}
  /\ \A k \in 0..Len(text) : k < 6 /\ Begins(TextOf(ip), text, k) => mem[ip + 46] = key[1]

ResponseTraces(ip) ==
  mem[ip + 9] \in {0, tcp} /\ mem[ip + 13] = 0 /\ mem[ip + 34] = 0

(***************************************************************************)
(* The inductive invariant behind BytesMatchPackets: at every stage until  *)
(* a packet is read in the wrong form, its bytes are those that module     *)
(* Packets says, and those that such a reading would take for addresses    *)
(* and text are no host's and of neither text.                             *)
(***************************************************************************)
MatchInv ==
  Telling(route.text) =>
    /\ stage = "request" => pkt = P!create_packets(route.client, route.dest)
    /\ stage \in {"arrived", "cut", "proxied", "delivered"} =>
         /\ AddressesMatch(IpAt(pkt.form))
         /\ TextMatches(IpAt(pkt.form), route.text, "payload")
    /\ stage \in {"arrived", "cut", "proxied"} =>
         RequestTraces(IpAt(pkt.form), route.text)
    /\ stage \in {"response", "returned", "wrapped", "shown"} =>
         /\ AddressesMatch(IpAt(pkt.form))
         /\ TextMatches(IpAt(pkt.form), Hello, "hello")
    /\ stage \in {"response", "returned", "wrapped"} => ResponseTraces(IpAt(pkt.form))
    /\ stage = "response" => mem[21] = 198 /\ mem[25] = 0 /\ pkt.body = "hello"
    /\ stage = "misread" => BytesMatchPackets

-----------------------------------------------------------------------------
\* CSCD58_Documentation.txt:84-86: gre_sum is "updated in network byte order":
\* with the sum in it, the big-endian words of the header add up to -0.
GreSumInNetworkOrder ==
  stage = "wrapped" =>
    256 * mem[4] + mem[5] = 65535 - ((256 * mem[0] + mem[1]) + (256 * mem[2] + mem[3]))
=============================================================================
