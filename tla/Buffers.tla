------------------------------ MODULE Buffers ------------------------------
(***************************************************************************)
(* The heap of each program: every buffer that main() and packet.c take,   *)
(* how far each access reaches into it, and who frees it, on every path    *)
(* that a failing call opens.  A buffer has the name of a variable that    *)
(* holds it; pointers into it (fixed_pkt, the payload) are accesses to it. *)
(***************************************************************************)
EXTENDS Integers, Sequences

CONSTANTS
  Requests,  \* lengths of the texts a client may pass to create_packets()
  Responses  \* lengths of the texts a destination may answer with

MaxPayload == 128                      \* MAX_PAYLOAD_SIZE
GreSize == 6
PlainSize == 168
TunnelSize == GreSize + PlainSize
Payload == TunnelSize - MaxPayload     \* where get_payload() points
StringSize == 16

\* A response is sent from behind its GRE header with the size it has with it:
\* a text of more than 122 bytes would be read past its buffer.
ASSUME BuffersAssumption ==
  Requests \subseteq 0..MaxPayload /\ Responses \subseteq 0..(MaxPayload - GreSize)

\* The lengths of texts found in a received buffer, which ends them.
Found == 0..(MaxPayload - 1)

VARIABLES
  prog,    \* the program
  pc,      \* its next call
  len,     \* the length of the text it sends or has received
  failed,  \* some call has failed
  heap     \* what is allocated, with its size; what was used after or without
           \* its allocation, or how far outside of it

vars == <<prog, pc, len, failed, heap>>

-----------------------------------------------------------------------------
calloc(b, n) == [do |-> "calloc", buf |-> b, end |-> n]
access(b, n) == [do |-> "access", buf |-> b, end |-> n]  \* up to its n-th byte
free(b) == [do |-> "free", buf |-> b, end |-> 0]

Live == DOMAIN heap.size

Operate(h, op) ==
  LET live == op.buf \in DOMAIN h.size IN
  CASE op.do = "calloc" ->
         [h EXCEPT !.size = [b \in DOMAIN @ \cup {op.buf} |->
                               IF b = op.buf THEN op.end ELSE @[b]]]
    [] op.do # "calloc" /\ ~live -> [h EXCEPT !.stale = @ \cup {op.buf}]
    [] op.do = "access" /\ live /\ op.end > h.size[op.buf] ->
         [h EXCEPT !.outside = @ \cup {[buf |-> op.buf, by |-> op.end - h.size[op.buf]]}]
    [] op.do = "free" /\ live -> [h EXCEPT !.size = [b \in DOMAIN @ \ {op.buf} |-> @[b]]]
    [] OTHER -> h

\* One operation after the other.
Executed(h, ops) ==
  LET after[i \in 0..Len(ops)] == IF i = 0 THEN h ELSE Operate(after[i - 1], ops[i])
  IN  after[Len(ops)]

Does(ops) == heap' = Executed(heap, ops)

-----------------------------------------------------------------------------
\* Slip: the terminator of a text that fills the payload falls behind it.
Unclamped(n) == n

Clamped(n) == IF n > MaxPayload - 1 THEN MaxPayload - 1 ELSE n

\* The headers, strncpy() of n bytes, and the terminator.
MakePacket(b, n) ==
  <<calloc(b, TunnelSize), access(b, Payload + n), access(b, Payload + Clamped(n) + 1)>>

create_packets(n) ==
  MakePacket("new_packet", n)
    \o <<calloc("packet", TunnelSize), access("new_packet", TunnelSize),
         access("packet", TunnelSize), access("packet", Payload + Clamped(n) + 1),
         free("new_packet")>>

\* The two address strings, and the text with its terminator.
PrintPacket(b, start, n) ==
  <<calloc("ip_src_str", StringSize), calloc("ip_dst_str", StringSize),
    access(b, start + n + 1), access("ip_src_str", StringSize),
    access("ip_dst_str", StringSize), free("ip_src_str"), free("ip_dst_str")>>

\* serv_rec_from_cli() after recv() into new_rec_pkt has succeeded.
Decrypt(b, n) ==
  <<calloc(b, TunnelSize), access("new_rec_pkt", TunnelSize), access(b, TunnelSize),
    access(b, Payload + Clamped(n) + 1), free("new_rec_pkt")>>

\* serv_cli_encrypt_free() up to send(): the terminator falls behind the buffer.
Encrypt(n) ==
  <<calloc("encrypt_packet", Payload + n), access("enc_pkt", Payload + n),
    access("encrypt_packet", Payload + n), access("encrypt_packet", Payload + n + 1)>>

\* Slip: only the packet that was handed over is freed.
FreeHandedOver == <<free("enc_pkt")>>

\* What it does when the send succeeds.
FreeSent == <<free("enc_pkt"), free("encrypt_packet")>>

-----------------------------------------------------------------------------
At(p, label) == prog = p /\ pc = label
Goto(label) == pc' = label /\ UNCHANGED prog
Fails == failed' = TRUE
Succeeds == UNCHANGED failed

Init ==
  /\ \/ prog = "client" /\ pc = "create" /\ len \in Requests
     \/ prog \in {"server", "destination"} /\ pc = "receive" /\ len = 0
  /\ failed = FALSE
  /\ heap = [size |-> [b \in {} |-> 0], stale |-> {}, outside |-> {}]

\* What a program receives into: the destination has no room for a GRE header.
NewRecPkt ==
  IF prog = "destination" THEN calloc("rec_packet", PlainSize)
                          ELSE calloc("new_rec_pkt", TunnelSize)

\* recv() fails: its buffer stays with nobody and the function returns NULL,
\* which the client and, for the response, the server dereference.
ReceiveFails ==
  /\ \/ At("client", "receive") /\ Goto("segv")
     \/ At("server", "receive") /\ Goto("exit1")
     \/ At("server", "reply") /\ Goto("segv")
     \/ At("destination", "receive") /\ Goto("exit1")
  /\ Does(<<NewRecPkt>>)
  /\ Fails
  /\ UNCHANGED len

ClientCreates ==
  /\ At("client", "create")
  /\ Does(create_packets(len) \o PrintPacket("packet", Payload, Clamped(len)))
  /\ Goto("send")
  /\ Succeeds
  /\ UNCHANGED len

\* send_and_free_packet_vpn() keeps the packet when it fails; the client goes on.
ClientSends ==
  /\ At("client", "send")
  /\ \/ Does(<<access("packet", Payload + len), free("packet")>>) /\ Succeeds
     \/ Does(<<access("packet", Payload + len)>>) /\ Fails
  /\ Goto("receive")
  /\ UNCHANGED len

ClientReceives ==
  /\ At("client", "receive")
  /\ len' \in Found
  /\ Does(<<calloc("new_rec_pkt", TunnelSize)>> \o Decrypt("resp_pkt", len')
            \o PrintPacket("resp_pkt", Payload, len') \o <<free("resp_pkt")>>)
  /\ Goto("exit0")
  /\ Succeeds

ServerReceives ==
  /\ At("server", "receive")
  /\ len' \in Found
  /\ Does(<<calloc("new_rec_pkt", TunnelSize)>> \o Decrypt("rec_packet", len')
            \o PrintPacket("rec_packet", Payload, len'))
  /\ Goto("connect")
  /\ Succeeds

\* socket() fails before dest_ip is allocated, connect() after it.
ServerConnects ==
  /\ At("server", "connect")
  /\ LET dial == <<calloc("dest_ip", StringSize), access("rec_packet", TunnelSize),
                   access("dest_ip", StringSize)>>
     IN  \/ Does(<<>>) /\ Goto("exit1") /\ Fails
         \/ Does(dial) /\ Goto("exit1") /\ Fails
         \/ Does(dial \o <<free("dest_ip")>>) /\ Goto("forward") /\ Succeeds
  /\ UNCHANGED len

\* Slip: the packet is freed before fixed_pkt, which points into it, is sent.
FreedTooEarly ==
  /\ At("server", "forward")
  /\ Does(<<free("rec_packet"), access("rec_packet", TunnelSize)>>)
  /\ \/ Goto("exit1") /\ Fails
     \/ Goto("reply") /\ Succeeds
  /\ UNCHANGED len

ServerForwards ==
  /\ At("server", "forward")
  /\ \/ Does(<<access("rec_packet", TunnelSize)>>) /\ Goto("exit1") /\ Fails
     \/ /\ Does(<<access("rec_packet", TunnelSize), free("rec_packet")>>)
        /\ Goto("reply") /\ Succeeds
  /\ UNCHANGED len

(***************************************************************************)
(* The response arrives, is wrapped, printed and sent: whether the send    *)
(* fails is not tested.  rec_packet_dest has room for a tunnel packet; its *)
(* plain part is copied.                                                   *)
(***************************************************************************)
ServerReplies ==
  /\ At("server", "reply")
  /\ len' \in Found
  /\ LET wrapped == <<calloc("rec_packet_dest", TunnelSize), calloc("enc_pkt", TunnelSize),
                      access("rec_packet_dest", PlainSize), access("enc_pkt", TunnelSize),
                      calloc("client_str_ip", StringSize),
                      access("client_str_ip", StringSize)>>
                      \o PrintPacket("enc_pkt", Payload, len') \o Encrypt(len')
         freed == <<free("rec_packet_dest"), free("client_str_ip")>>
     IN  \/ Does(wrapped \o FreeSent \o freed) /\ Succeeds
         \/ Does(wrapped \o freed) /\ Fails
  /\ Goto("exit0")

DestinationReceives ==
  /\ At("destination", "receive")
  /\ len' \in Found
  /\ Does(<<calloc("rec_packet", PlainSize)>>
            \o PrintPacket("rec_packet", Payload - GreSize, len'))
  /\ Goto("respond")
  /\ Succeeds

\* fixed_pkt points into response_pkt, behind its GRE header.
DestinationResponds ==
  /\ At("destination", "respond")
  /\ len' \in Responses
  /\ LET respond == <<calloc("client_ip_str", StringSize), access("client_ip_str", StringSize)>>
                      \o MakePacket("response_pkt", len')
                      \o PrintPacket("response_pkt", Payload, Clamped(len'))
                      \o <<access("response_pkt", GreSize + Payload + len')>>
     IN  \/ Does(respond) /\ Goto("exit1") /\ Fails
         \/ /\ Does(respond \o <<free("rec_packet"), free("response_pkt"),
                                 free("client_ip_str")>>)
            /\ Goto("exit0") /\ Succeeds

Ended == pc \in {"exit0", "exit1", "segv"} /\ UNCHANGED vars

Next ==
  \/ ReceiveFails
  \/ ClientCreates \/ ClientSends \/ ClientReceives
  \/ ServerReceives \/ ServerConnects \/ ServerForwards \/ ServerReplies
  \/ DestinationReceives \/ DestinationResponds
  \/ Ended

Spec == Init /\ [][Next]_vars

-----------------------------------------------------------------------------
(***************************************************************************)
(* On no path, failing or not, is a buffer used after it was freed, or     *)
(* freed twice: fixed_pkt is sent while the packet it points into lives,   *)
(* strlen() reads enc_pkt before serv_cli_encrypt_free() frees it.         *)
(***************************************************************************)
NothingStale == heap.stale = {}

(***************************************************************************)
(* No access reaches outside its buffer, at any length of a text, but one: *)
(* serv_cli_encrypt_free() stores its terminator in the first byte behind  *)
(* what it has allocated (packet.c:230), every time it is called.          *)
(***************************************************************************)
OnlyTerminatorOutside ==
  heap.outside \subseteq {[buf |-> "encrypt_packet", by |-> 1]}

(***************************************************************************)
(* A program that comes to the end of main() with no call failed has freed *)
(* every buffer it or packet.c took.                                       *)
(***************************************************************************)
SuccessFreesAll == pc = "exit0" /\ ~failed => Live = {}

-----------------------------------------------------------------------------
\* The packet that a program has between two of its calls: it is freed by the
\* one that sends it, but for a client whose send() has failed.
Held ==
  IF pc = "send" \/ (prog = "client" /\ pc = "receive" /\ failed) THEN {"packet"}
  ELSE IF pc \in {"connect", "forward", "respond"} THEN {"rec_packet"} ELSE {}

(***************************************************************************)
(* The inductive invariant: no stale use, one byte outside, and the heap   *)
(* has that packet and nothing else until the program ends, and nothing if *)
(* it ends well.                                                           *)
(***************************************************************************)
BuffersInv ==
  /\ \/ prog = "client" /\ pc \in {"create", "send", "receive", "exit0", "segv"}
     \/ prog = "server" /\ pc \in {"receive", "connect", "forward", "reply",
                                  "exit0", "exit1", "segv"}
     \/ prog = "destination" /\ pc \in {"receive", "respond", "exit0", "exit1"}
  /\ failed \in BOOLEAN
  /\ failed => (prog = "client" /\ pc = "receive") \/ pc \in {"exit0", "exit1", "segv"}
  /\ pc \in {"create", "send"} => len \in 0..MaxPayload
  /\ heap = [size |-> heap.size, stale |-> {}, outside |-> heap.outside]
  /\ OnlyTerminatorOutside
  /\ pc \notin {"exit0", "exit1", "segv"} \/ (pc = "exit0" /\ ~failed) =>
       heap.size = [b \in Held |-> IF prog = "destination" THEN PlainSize ELSE TunnelSize]
=============================================================================
