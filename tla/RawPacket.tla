----------------------------- MODULE RawPacket -----------------------------
(***************************************************************************)
(* The exercise with raw sockets (doc/guide_mininet/examples/): a sender   *)
(* builds an IP and a TCP header with their checksums by hand,             *)
(* client_packet.c, and a receiver prints every TCP packet that its host   *)
(* gets, server_packet.c.  The network may lose the packet or damage a     *)
(* byte of it.  The sender's sums count its headers and its payload; what  *)
(* it sends is always packet_length bytes, padded with zeroes.             *)
(***************************************************************************)
EXTENDS Checksums

CONSTANTS
  packet_length, \* the bytes that are sent; 1023 in the program
  Payloads,   \* what the sender may put into the packet
  Damage,     \* places and values of a byte the network may change
  Null

IpSize == 20
TcpSize == 20
Text == IpSize + TcpSize
BufferSize == 1024

source == <<10, 0, 0, 1>>
destination == <<10, 0, 0, 2>>
tcp == 6

ASSUME RawPacketAssumption ==
  /\ packet_length \in Text..BufferSize
  /\ \A data \in Payloads : data \in Seq(Byte) /\ Text + Len(data) <= packet_length
  /\ Damage \subseteq [at : IpSize..(packet_length - 1), by : Byte]

VARIABLES
  stage,    \* the sender's next step, or what became of the packet
  packet,   \* the sender's buffer
  data,     \* its payload
  arrived,  \* the bytes the receiver's kernel has let through
  printed   \* what the receiver has printed of them

vars == <<stage, packet, data, arrived, printed>>

Init ==
  /\ stage = "ip_header"
  /\ packet = Zeroed(BufferSize)
  /\ data \in Payloads
  /\ arrived = Null /\ printed = Null

-----------------------------------------------------------------------------
\* Slip: all that tot_len counts is there when the header's sum is taken.
AllAtOnce(m) ==
  LET len == Text + Len(data)
      filled == Stored(Stored(StoreWord(StoreWord(m, 2, len), 4, htons(54321)), 0, <<69, 0>>),
                       8, <<255, tcp, 0, 0>> \o source \o destination)
      all == Stored(filled, Text, data)
  IN  StoreWord(all, 10, calculate_checksum(all, 0, len))

\* tot_len stays in the machine's order; the sum is taken over what it counts,
\* of which the header is all that is there.
IpHeader(m) ==
  LET len == Text + Len(data)
      filled == Stored(Stored(StoreWord(StoreWord(m, 2, len), 4, htons(54321)), 0, <<69, 0>>),
                       8, <<255, tcp, 0, 0>> \o source \o destination)
  IN  StoreWord(filled, 10, calculate_checksum(filled, 0, len))

FillIpHeader ==
  /\ stage = "ip_header"
  /\ packet' = IpHeader(packet)
  /\ stage' = "tcp_header"
  /\ UNCHANGED <<data, arrived, printed>>

\* Ports 1234 and 5432, sequence number 1, SYN.
FillTcpHeader ==
  /\ stage = "tcp_header"
  /\ packet' = StoreWord(Stored(StoreWord(StoreWord(packet, IpSize, htons(1234)),
                                          IpSize + 2, htons(5432)),
                                IpSize + 4, <<0, 0, 0, 1, 0, 0, 0, 0, 80, 2>>),
                         IpSize + 14, htons(5840))
  /\ stage' = "payload"
  /\ UNCHANGED <<data, arrived, printed>>

\* The pseudo header, and a segment of len bytes of m.
Pseudogram(m, len) ==
  LET bytes == Bytes(m, 12, 8) \o <<0, tcp, len \div 256, len % 256>> \o Bytes(m, IpSize, len)
  IN  [i \in 0..(Len(bytes) - 1) |-> bytes[i + 1]]

\* Slip: psize leaves out data_len.
HeaderOnly == TcpSize

Covered == TcpSize + Len(data)
TcpSum == IpSize + 16

AddPayload ==
  /\ stage = "payload"
  /\ LET filled == Stored(packet, Text, data)
     IN  packet' = StoreWord(filled, TcpSum,
                     calculate_checksum(Pseudogram(filled, Covered), 0, 12 + Covered))
  /\ stage' = "ready"
  /\ UNCHANGED <<data, arrived, printed>>

\* The socket has IP_HDRINCL: the kernel still sets the length, to all that is
\* sent, and the header's sum.
OnWire ==
  LET blank == StoreWord(StoreWord(packet, 2, htons(packet_length)), 10, 0)
      sent == StoreWord(blank, 10, calculate_checksum(blank, 0, IpSize))
  IN  [i \in 0..(packet_length - 1) |-> sent[i]]

(***************************************************************************)
(* sendto() fails, or the packet is lost, or it arrives, whole or damaged  *)
(* behind its IP header.  The receiver's kernel drops a packet with a bad  *)
(* IP header, but gives raw sockets packets with a bad TCP checksum.       *)
(***************************************************************************)
SendPacket ==
  /\ stage = "ready"
  /\ \/ stage' \in {"failed", "lost"} /\ UNCHANGED arrived
     \/ stage' = "arrived" /\ arrived' = OnWire
     \/ /\ stage' = "arrived"
        /\ \E d \in Damage : arrived' = Stored(OnWire, d.at, <<d.by>>)
  /\ UNCHANGED <<packet, data, printed>>

HeaderLength(m) == 4 * (m[0] % 16)

print_packet(m) ==
  LET at == HeaderLength(m)
  IN  IF m[9] # tcp THEN Null
      ELSE [src |-> Bytes(m, 12, 4), dst |-> Bytes(m, 16, 4),
            sport |-> htons(Word(m, at)), dport |-> htons(Word(m, at + 2))]

\* One turn of the receiver's loop.
ReceivePacket ==
  /\ stage = "arrived"
  /\ printed' = print_packet(arrived)
  /\ stage' = "printed"
  /\ UNCHANGED <<packet, data, arrived>>

Done == stage \in {"failed", "lost", "printed"} /\ UNCHANGED vars

Next ==
  \/ FillIpHeader \/ FillTcpHeader \/ AddPayload \/ SendPacket \/ ReceivePacket
  \/ Done

Spec == Init /\ [][Next]_vars

-----------------------------------------------------------------------------
\* The ones' complement sum of the words of m, with their checksum in place.
SumsUp(m, len) == calculate_checksum(m, 0, len) = 0

\* The length of the segment, for a receiver of m: the IP header's less its own.
SegmentLength(m) == htons(Word(m, 2)) - HeaderLength(m)

\* The bytes that are sent and belong to no header and no payload.
Padding == packet_length - Text - Len(data)

(***************************************************************************)
(* The sum over tot_len bytes is that of the header alone, and the TCP sum *)
(* verifies over the bytes that it was taken of, of an odd or an even      *)
(* number.  But a receiver takes the length from the packet, in which the  *)
(* kernel has counted the padding too: its pseudo header is another one,   *)
(* and the sum verifies there only for a payload that leaves no padding.   *)
(***************************************************************************)
SumsVerify ==
  /\ stage \in {"tcp_header", "payload", "ready"} => SumsUp(packet, IpSize)
  /\ stage = "ready" =>
       LET length == SegmentLength(OnWire)
       IN  /\ SumsUp(Pseudogram(packet, Covered), 12 + Covered)
           /\ SumsUp(Pseudogram(OnWire, length), 12 + length) <=> Padding = 0

\* Equal sums: 0 and 65535 stand for the same.
SameSum(s, t) == s = t \/ {s, t} = {0, 65535}

(***************************************************************************)
(* The repository's two checksums agree on any segment, also of odd length *)
(* and with carries: adding words in the machine's order and storing the   *)
(* result as it is gives the bytes that adding big-endian words and        *)
(* converting gives, except that only cksum() avoids 0.                    *)
(***************************************************************************)
ChecksumsAgree ==
  stage = "ready" =>
    \A len \in 0..(12 + Covered) :
      SameSum(calculate_checksum(Pseudogram(packet, Covered), 0, len),
              cksum(Pseudogram(packet, Covered), 0, len))

\* What verify_checksum() says of the segment that has arrived, without its sum,
\* and of the length that has arrived; cksum() writes 0 as 65535.
Verified ==
  LET length == SegmentLength(arrived)
      old == Word(arrived, TcpSum)
      blank == Pseudogram(StoreWord(arrived, TcpSum, 0), length)
  IN  verify_checksum(blank, 0, 12 + length, IF old = 0 THEN 65535 ELSE old) = 0

Undamaged == arrived = OnWire

Sent == [src |-> source, dst |-> destination, sport |-> 1234, dport |-> 5432]

\* The pseudo header is wrong by more than one byte can be.
BeyondOneByte == Padding > 255 /\ Padding % 256 \notin {0, 255}

(***************************************************************************)
(* What arrives undamaged is printed as it was sent.  The receiver         *)
(* verifies nothing, and the sum would not help it: it tells every damaged *)
(* byte of a packet without padding, but refuses an undamaged packet with  *)
(* padding as it refuses a damaged one.  With a padding as long as that of *)
(* main()'s packet, no damage of one byte makes the packet verify.         *)
(***************************************************************************)
DamageIsDetectable ==
  stage = "printed" =>
    /\ Undamaged => printed = Sent /\ (Verified <=> Padding = 0)
    /\ Padding = 0 /\ ~Undamaged => ~Verified
    /\ BeyondOneByte => ~Verified

-----------------------------------------------------------------------------
(***************************************************************************)
(* What the headers hold at each stage.                                    *)
(***************************************************************************)
Stage == {"ip_header", "tcp_header", "payload", "ready", "failed", "lost", "arrived", "printed"}

\* Version and length of the header, protocol and addresses.
HeaderFilled ==
  /\ packet[0] = 69 /\ packet[9] = tcp
  /\ \A i \in 1..4 : packet[11 + i] = source[i] /\ packet[15 + i] = destination[i]

\* The bytes of 1234 and 5432, the higher one first.
PortsFilled ==
  packet[IpSize] = 4 /\ packet[IpSize + 1] = 210 /\ packet[IpSize + 2] = 21 /\ packet[IpSize + 3] = 56

TcpSummed ==
  Word(packet, TcpSum) =
    calculate_checksum(Pseudogram(StoreWord(packet, TcpSum, 0), Covered), 0, 12 + Covered)

\* Behind the payload is the padding.
Padded == \A i \in (IpSize + Covered)..(BufferSize - 1) : packet[i] = 0

\* What has arrived is what was sent but for one byte.
ArrivedInv ==
  /\ arrived \in [0..(packet_length - 1) -> Byte]
  /\ \E k \in {IpSize} \cup {d.at : d \in Damage} :
       \A i \in (0..(packet_length - 1)) \ {k} : arrived[i] = OnWire[i]

(***************************************************************************)
(* The inductive invariant: what was sent is summed, and what has arrived  *)
(* differs from it in one byte at most.                                    *)
(***************************************************************************)
RawInv ==
  /\ stage \in Stage /\ data \in Payloads
  /\ packet \in [0..(BufferSize - 1) -> Byte]
  /\ stage = "ip_header" => \A i \in 0..(BufferSize - 1) : packet[i] = 0
  /\ stage = "tcp_header" => \A i \in IpSize..(BufferSize - 1) : packet[i] = 0
  /\ stage = "payload" => \A i \in TcpSum..(BufferSize - 1) : packet[i] = 0
  /\ stage # "ip_header" => HeaderFilled /\ SumsUp(packet, IpSize)
  /\ stage \notin {"ip_header", "tcp_header"} => PortsFilled
  /\ stage \notin {"ip_header", "tcp_header", "payload"} => TcpSummed /\ Padded
  /\ stage \in {"arrived", "printed"} => ArrivedInv
  /\ stage = "printed" => printed = print_packet(arrived)
=============================================================================
