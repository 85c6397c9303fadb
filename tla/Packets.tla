------------------------------ MODULE Packets ------------------------------
(***************************************************************************)
(* The packets of packet.c, abstracted to what routing and delivery depend *)
(* on: their shape, the two IP addresses and the kind of payload.  The     *)
(* bytes, the byte orders and the checksums are not modelled here.         *)
(*                                                                         *)
(* A "tunnel" packet is a GRE header followed by an IP packet, sent        *)
(* XOR-encrypted (client <-> VPN server).  A "plain" packet is the bare IP *)
(* packet, sent in clear (VPN server <-> destination).                     *)
(***************************************************************************)
EXTENDS Naturals

CONSTANTS
  Host,     \* the hosts of the table hosts[], each standing for its address
  NoHost,   \* every other address, and every name that is not in the table
  Null      \* no packet: the null pointer

Address == Host \cup {NoHost}

Form == {"tunnel", "plain"}

\* "cut": part of a message, or none of it; "none": recv returned 0 bytes;
\* "noise": what reading the bytes in the wrong form yields.
Body == {"payload", "hello", "cut", "none", "noise"}

Packet == [form : Form, src : Address, dst : Address, body : Body]

ASSUME PacketsAssumption ==
  /\ NoHost \notin Host
  /\ Null \notin Packet

-----------------------------------------------------------------------------
create_packets(src, dst) ==
  [form |-> "tunnel", src |-> src, dst |-> dst, body |-> "payload"]

\* Slip: source and destination are swapped in the call of set_ip().
SwappedResponse(src, dst) ==
  [form |-> "plain", src |-> dst, dst |-> src, body |-> "hello"]

\* create_packets_des() followed by packet_decapsulate().
create_packets_des(src, dst) ==
  [form |-> "plain", src |-> src, dst |-> dst, body |-> "hello"]

\* Slip: the packet is decapsulated, its source address is left alone.
KeptSource(pkt, server_ip) == [pkt EXCEPT !.form = "plain"]

\* Decapsulation and source rewriting happen in place: one packet becomes the other.
serv_handle_pkt(pkt, server_ip) ==
  [pkt EXCEPT !.form = "plain", !.src = server_ip]

\* packet_encapsulate(), the copy after the GRE header and serv_handle_pkt_dest().
serv_handle_pkt_dest(pkt, client_ip) ==
  [pkt EXCEPT !.form = "tunnel", !.dst = client_ip]

\* Slip: the packet is saved, not the address in it.
SavedPacket(pkt) == pkt

save_client_ip(pkt) == pkt.src

-----------------------------------------------------------------------------
(***************************************************************************)
(* What one call of recv() on a stream socket leaves in the zeroed buffer, *)
(* for a reader that expects the form f.  How much has arrived is counted  *)
(* in fields: the source address, the destination address, the text of the *)
(* payload and, in a plain packet, the zeroes sent after it, in that       *)
(* order.  An address of which bytes are missing, or which is read at the  *)
(* wrong offset or with the wrong encryption, is no host's address.        *)
(***************************************************************************)
TextRead == 3
Whole == 4

Received(f, pkt, fields) ==
  IF pkt.form # f
  THEN [form |-> f, src |-> NoHost, dst |-> NoHost, body |-> "noise"]
  ELSE [form |-> f,
        src  |-> IF fields >= 1 THEN pkt.src ELSE NoHost,
        dst  |-> IF fields >= 2 THEN pkt.dst ELSE NoHost,
        body |-> IF fields >= TextRead THEN pkt.body ELSE "cut"]

\* The buffer after a recv() that returned 0: zeroes, or what they decrypt to.
NothingReceived(f) ==
  [form |-> f, src |-> NoHost, dst |-> NoHost, body |-> "none"]
=============================================================================
