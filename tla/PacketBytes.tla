---------------------------- MODULE PacketBytes ----------------------------
(***************************************************************************)
(* The bytes of a packet, as the functions of packet.c, encap.c, decap.c   *)
(* and encrypt.c write and read them on a little-endian machine.           *)
(*                                                                         *)
(* A text is a sequence of bytes without its terminator; an IP address is  *)
(* the sequence of its four octets in the order they are written in.       *)
(***************************************************************************)
EXTENDS Checksums

CONSTANT BitXor(_, _)  \* the operator ^ on bytes

ASSUME BitXorAssumption ==
  \A a, b \in Byte : /\ BitXor(a, b) \in Byte
                     /\ BitXor(BitXor(a, b), b) = a
                     /\ BitXor(a, b) = 0 <=> a = b

\* It works on each bit by itself.
ASSUME BitsAssumption ==
  \A a, b \in Byte : /\ BitXor(a, b) % 2 = (a + b) % 2
                     /\ BitXor(a, b) \div 2 = BitXor(a \div 2, b \div 2)

GreSize == 6
IpSize == 20
TcpSize == 20
MaxPayload == 128                                    \* MAX_PAYLOAD_SIZE
PlainSize == IpSize + TcpSize + MaxPayload
TunnelSize == GreSize + PlainSize

\* The fields of the IP header, from its start, and the payload.
IpLen == 2
IpSum == 10
IpSrc == 12
IpDst == 16
TextOf(ip) == ip + IpSize + TcpSize

-----------------------------------------------------------------------------
ntohl(a) == <<a[4], a[3], a[2], a[1]>>

Addr(m, at) == ntohl(Bytes(m, at, 4))
StoreAddr(m, at, a) == Stored(m, at, ntohl(a))

\* The text at an offset ends at a zero byte, or with the buffer.
Text(m, at) ==
  LET len == CHOOSE n \in 0..TunnelSize :
               /\ at + n \notin DOMAIN m \/ m[at + n] = 0
               /\ \A k \in 0..(n - 1) : at + k \in DOMAIN m /\ m[at + k] # 0
  IN  Bytes(m, at, len)

-----------------------------------------------------------------------------
key == <<18, 52, 86, 120>>
KeyAt(i) == key[(i % 4) + 1]

\* The first bytes of a buffer, encrypted or decrypted into a new one.
xor_encrypt_decrypt(m, length) == [i \in 0..(length - 1) |-> BitXor(m[i], KeyAt(i))]

tcp == 6
get_packet_size(ip_protocol, payload_size) ==
  IF ip_protocol = tcp
  THEN (payload_size + TcpSize + GreSize + IpSize) % 256
  ELSE 255

-----------------------------------------------------------------------------
packet_encapsulate(m) ==
  LET set == StoreWord(StoreWord(StoreWord(m, 0, htons(1)), 2, htons(2048)), 4, 0)
  IN  StoreWord(set, 4, htons(cksum(set, 0, GreSize)))

\* Slip: the GRE header is kept, the end of the packet cut off.
HeaderKept(m) == [i \in 0..(PlainSize - 1) |-> m[i]]

packet_decapsulate(m) == [i \in 0..(PlainSize - 1) |-> m[i + GreSize]]

\* Puts the checksum of the IP header at ip into it.
Summed(m, ip) ==
  LET blank == StoreWord(m, ip + IpSum, 0)
  IN  StoreWord(blank, ip + IpSum, htons(cksum(blank, ip, IpSize)))

set_ip(m, ip, ip_dest, ip_host, ip_protocol, payload_size) ==
  LET versioned == Stored(m, ip, <<64>>)
      sized == StoreWord(versioned, ip + IpLen, htons(payload_size + IpSize))
      typed == Stored(sized, ip + 9, <<ip_protocol>>)
  IN  Summed(StoreAddr(StoreAddr(typed, ip + IpSrc, ip_host), ip + IpDst, ip_dest), ip)

set_tcp(m, at, flags) ==
  LET set == Stored(StoreWord(StoreWord(m, at, htons(17350)), at + 2, htons(17350)),
                    at + 13, <<flags>>)
  IN  StoreWord(set, at + 16, htons(cksum(set, at, TcpSize)))

\* The clamp of the text's length is applied to its terminator only.
Clamped(n) == IF n > MaxPayload - 1 THEN MaxPayload - 1 ELSE n

create_packets_des(ip_src, ip_dest, ip_protocol, payload, flags) ==
  LET gre == packet_encapsulate(Zeroed(TunnelSize))
      ip == set_ip(gre, GreSize, ip_dest, ip_src, ip_protocol, MaxPayload)
      headers == set_tcp(ip, GreSize + IpSize, flags)
  IN  Stored(Stored(headers, TextOf(GreSize), payload),
             TextOf(GreSize) + Clamped(Len(payload)), <<0>>)

create_packets(ip_src, ip_dest, ip_protocol, payload, flags) ==
  Stored(xor_encrypt_decrypt(
           create_packets_des(ip_src, ip_dest, ip_protocol, payload, flags), TunnelSize),
         TextOf(GreSize) + Clamped(Len(payload)), <<0>>)

-----------------------------------------------------------------------------
\* The received bytes in a zeroed buffer of n bytes.
Filled(n, bytes) == Stored(Zeroed(n), 0, bytes)

\* Slip: the length of the text is taken after the packet is decrypted.
LengthOfPlaintext(bytes) ==
  LET decrypted == xor_encrypt_decrypt(Filled(TunnelSize, bytes), TunnelSize)
  IN  Stored(decrypted,
             TextOf(GreSize) + Clamped(Len(Text(decrypted, TextOf(GreSize)))), <<0>>)

\* Slip: the decrypted text is not ended.
UnendedText(bytes) == xor_encrypt_decrypt(Filled(TunnelSize, bytes), TunnelSize)

\* The length of the text is taken before the packet is decrypted.
serv_rec_from_cli(bytes) ==
  LET received == Filled(TunnelSize, bytes)
      len == Len(Text(received, TextOf(GreSize)))
  IN  Stored(xor_encrypt_decrypt(received, TunnelSize),
             TextOf(GreSize) + Clamped(len), <<0>>)

\* Slip: the buffer has no room for the GRE header.
PlainBuffer(bytes) == Filled(PlainSize, bytes)

serv_rec_from_des(bytes) == Filled(TunnelSize, bytes)
dest_rec_pkt(bytes) == Filled(PlainSize, bytes)

save_client_ip(m) == Addr(m, GreSize + IpSrc)

\* Slip: one call too few of htonl(): the destination stays swapped.
SwappedDestination(m, ip, src, dst) ==
  LET swapped == StoreWord(StoreAddr(StoreAddr(m, ip + IpSrc, ntohl(src)),
                                     ip + IpDst, ntohl(dst)),
                           ip + IpLen, htons(Word(m, ip + IpLen)))
  IN  StoreWord(StoreAddr(Summed(swapped, ip), ip + IpSrc, src),
                ip + IpLen, Word(m, ip + IpLen))

\* Slip: the length is not swapped back.
SwappedLength(m, ip, src, dst) ==
  LET swapped == StoreWord(StoreAddr(StoreAddr(m, ip + IpSrc, ntohl(src)),
                                     ip + IpDst, ntohl(dst)),
                           ip + IpLen, htons(Word(m, ip + IpLen)))
  IN  StoreAddr(StoreAddr(Summed(swapped, ip), ip + IpSrc, src), ip + IpDst, dst)

(***************************************************************************)
(* The in-place rewriting shared by the two handlers: the length and the   *)
(* addresses are swapped to the other byte order, the checksum is taken,   *)
(* and they are swapped back.                                              *)
(***************************************************************************)
Rewritten(m, ip, src, dst) ==
  LET swapped == StoreWord(StoreAddr(StoreAddr(m, ip + IpSrc, ntohl(src)),
                                     ip + IpDst, ntohl(dst)),
                           ip + IpLen, htons(Word(m, ip + IpLen)))
  IN  StoreWord(StoreAddr(StoreAddr(Summed(swapped, ip), ip + IpSrc, src), ip + IpDst, dst),
                ip + IpLen, Word(m, ip + IpLen))

serv_handle_pkt(m, server_ip) ==
  packet_decapsulate(Rewritten(m, GreSize, server_ip, Addr(m, GreSize + IpDst)))

serv_handle_pkt_dest(m, client_ip) ==
  Rewritten(m, GreSize, Addr(m, GreSize + IpSrc), client_ip)

\* The GRE header, and the plain packet copied after it.
Wrapped(m) ==
  LET enc_pkt == packet_encapsulate(Zeroed(TunnelSize))
  IN  Stored(enc_pkt, GreSize, Bytes(m, 0, PlainSize))

\* What serv_cli_encrypt_free() sends.  The zero byte it stores after the text
\* falls behind the end of what it has allocated, and is not sent.
serv_cli_encrypt_free(m, ip_protocol, payload_size) ==
  xor_encrypt_decrypt(m, get_packet_size(ip_protocol, payload_size))

-----------------------------------------------------------------------------
\* The fields of a printed packet that tell one packet from another.
Printed(m, ip) ==
  [src |-> Addr(m, ip + IpSrc), dst |-> Addr(m, ip + IpDst), text |-> Text(m, TextOf(ip))]

print_packet(m) == Printed(m, GreSize)
print_packet_unencap(m) == Printed(m, 0)
=============================================================================
