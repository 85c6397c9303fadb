-------------------------- MODULE RawPacketProofs --------------------------
(***************************************************************************)
(* Theorems about the raw socket exercise, for every number of bytes that  *)
(* is sent, every payload that fits into them and every damage of one      *)
(* byte: what both hand-made sums are worth, to the sender and to a        *)
(* receiver that takes the packet's length for its word.                   *)
(***************************************************************************)
EXTENDS RawPacket, ChecksumProofs, SequenceTheorems

Buffer == 0..(BufferSize - 1)
Wire == 0..(packet_length - 1)

\* A word whose bytes are swapped, and swapped again.
LEMMA SwappedTwice ==
  ASSUME NEW w, IsWord(w)
  PROVE  /\ IsWord(htons(w)) /\ htons(htons(w)) = w
         /\ htons(w) % 256 = w \div 256 /\ htons(w) \div 256 = w % 256
<1> DEFINE h == w \div 256
           l == w % 256
<1>1. h \in Int /\ 0 <= h /\ h <= 255 /\ l \in Int /\ 0 <= l /\ l <= 255 /\ w = 256 * h + l
  BY DEF IsWord
<1>2. htons(w) = l * 256 + h
  BY DEF htons
<1> HIDE DEF h, l
<1>3. htons(w) % 256 = h /\ htons(w) \div 256 = l
  BY <1>1, <1>2
<1>4. htons(htons(w)) = w
  BY <1>1, <1>3 DEF htons
<1>5. QED  BY <1>1, <1>2, <1>3, <1>4 DEF h, l, IsWord

\* How much is sent.
LEMMA Sizes ==
  /\ packet_length \in Int /\ 40 <= packet_length /\ packet_length <= 1024
  /\ IsWord(packet_length) /\ IsWord(packet_length - 20)
  BY RawPacketAssumption DEF Text, IpSize, TcpSize, BufferSize, IsWord

\* Words that the program stores.
LEMMA Ports ==
  /\ IsWord(htons(1234)) /\ htons(1234) % 256 = 4 /\ htons(1234) \div 256 = 210
  /\ IsWord(htons(5432)) /\ htons(5432) % 256 = 21 /\ htons(5432) \div 256 = 56
  /\ IsWord(htons(5840)) /\ IsWord(htons(54321)) /\ IsWord(htons(packet_length))
  /\ IsWord(0) /\ 0 % 256 = 0 /\ 0 \div 256 = 0
<1>1. htons(1234) = 4 + 256 * 210 /\ htons(5432) = 21 + 256 * 56
  BY DEF htons
<1>2. htons(5840) = 53270 /\ htons(54321) = 12756
  BY DEF htons
<1>3. IsWord(htons(packet_length))
  BY Sizes, SwappedTwice
<1>4. QED  BY <1>1, <1>2, <1>3 DEF IsWord

\* The bytes of the payload fit into what is sent.
LEMMA DataFits ==
  ASSUME data \in Payloads
  PROVE  /\ data \in Seq(Byte) /\ Len(data) \in Nat /\ Text + Len(data) <= packet_length
         /\ IsWord(Text + Len(data)) /\ Text + Len(data) >= IpSize
         /\ Covered = 20 + Len(data) /\ Covered \in Nat /\ 20 + Covered <= packet_length
         /\ IsWord(Covered) /\ IsWord(12 + Covered) /\ 12 + Covered \in Nat
         /\ Padding = packet_length - 20 - Covered /\ Padding \in Nat /\ Padding <= 984
<1>1. data \in Seq(Byte) /\ Text + Len(data) <= packet_length
  BY RawPacketAssumption
<1>2. Len(data) \in Nat
  BY <1>1
<1>3. Text = 40 /\ Covered = 20 + Len(data) /\ IpSize = 20
  BY DEF Covered, Text, IpSize, TcpSize
<1>4. QED  BY <1>1, <1>2, <1>3, Sizes DEF IsWord, Padding

-----------------------------------------------------------------------------
\* The part of the pseudo header that is not copied from the packet.
Middle(len) == <<0, tcp, len \div 256, len % 256>>

(***************************************************************************)
(* The pseudo header and the segment, byte by byte.                        *)
(***************************************************************************)
LEMMA PseudogramAt ==
  ASSUME NEW D, NEW m \in [D -> Byte], NEW len, IsWord(len),
         \A i \in 12..(IpSize + len - 1) : i \in D
  PROVE  /\ Pseudogram(m, len) \in [0..(12 + len - 1) -> Byte]
         /\ \A i \in 0..(12 + len - 1) : Pseudogram(m, len)[i] =
              IF i < 8 THEN m[12 + i]
              ELSE IF i < 12 THEN Middle(len)[i - 7]
              ELSE m[i + 8]
<1> DEFINE addresses == Bytes(m, 12, 8)
           middle == Middle(len)
           segment == Bytes(m, IpSize, len)
           bytes == addresses \o middle \o segment
           At(i) == IF i < 8 THEN m[12 + i]
                    ELSE IF i < 12 THEN middle[i - 7] ELSE m[i + 8]
<1>1. len \in Nat
  BY DEF IsWord
<1>2. \A i \in D : m[i] \in Byte
  OBVIOUS
<1>3. addresses \in Seq(Byte) /\ Len(addresses) = 8 /\ \A i \in 1..8 : addresses[i] = m[11 + i]
  <2>1. addresses = [i \in 1..8 |-> m[12 + i - 1]]
    BY DEF Bytes
  <2>2. \A i \in 1..8 : m[12 + i - 1] \in Byte /\ 12 + i - 1 = 11 + i
    BY <1>1, <1>2 DEF IpSize
  <2> HIDE DEF addresses
  <2>3. QED  BY <2>1, <2>2
<1>4. middle \in Seq(Byte) /\ Len(middle) = 4
  <2>1. len \div 256 \in Byte /\ len % 256 \in Byte /\ 0 \in Byte /\ tcp \in Byte
    BY SwappedBytes DEF tcp, Byte
  <2>2. QED  BY <2>1 DEF Middle
<1>5. /\ segment \in Seq(Byte) /\ Len(segment) = len
      /\ \A i \in 1..len : segment[i] = m[IpSize + i - 1]
  <2>1. segment = [i \in 1..len |-> m[IpSize + i - 1]]
    BY DEF Bytes
  <2>2. \A i \in 1..len : m[IpSize + i - 1] \in Byte
    BY <1>1, <1>2 DEF IpSize
  <2> HIDE DEF segment
  <2>3. QED  BY <1>1, <2>1, <2>2
<1> HIDE DEF addresses, middle, segment
<1> DEFINE start == addresses \o middle
<1>6. /\ start \in Seq(Byte) /\ Len(start) = 12
      /\ \A i \in 1..12 : start[i] = IF i <= 8 THEN addresses[i] ELSE middle[i - 8]
  <2>1. Len(addresses) + Len(middle) = 12 /\ Len(addresses) = 8
    BY <1>3, <1>4
  <2>2. /\ start \in Seq(Byte) /\ Len(start) = Len(addresses) + Len(middle)
        /\ \A i \in 1..(Len(addresses) + Len(middle)) :
             start[i] = IF i <= Len(addresses) THEN addresses[i] ELSE middle[i - Len(addresses)]
    BY <1>3, <1>4, ConcatProperties
  <2> HIDE DEF start
  <2>3. QED  BY <2>1, <2>2
<1> HIDE DEF start
<1>7. /\ start \o segment \in Seq(Byte) /\ Len(start \o segment) = 12 + len
      /\ \A i \in 1..(12 + len) :
           (start \o segment)[i] = IF i <= 12 THEN start[i] ELSE segment[i - 12]
  <2>1. Len(start) + Len(segment) = 12 + len /\ Len(start) = 12
    BY <1>1, <1>5, <1>6
  <2>2. /\ start \o segment \in Seq(Byte)
        /\ Len(start \o segment) = Len(start) + Len(segment)
        /\ \A i \in 1..(Len(start) + Len(segment)) :
             (start \o segment)[i] = IF i <= Len(start) THEN start[i]
                                     ELSE segment[i - Len(start)]
    BY <1>5, <1>6, ConcatProperties
  <2>3. QED  BY <2>1, <2>2
<1>8. bytes = start \o segment
  BY DEF start
<1> HIDE DEF bytes
<1>9. ASSUME NEW i \in 0..(12 + len - 1)
      PROVE  i + 1 \in 1..(12 + len) /\ bytes[i + 1] \in Byte /\ bytes[i + 1] = At(i)
  <2>1. i \in Nat /\ i + 1 \in 1..(12 + len) /\ i <= 12 + len - 1
    BY <1>1
  <2>2. bytes[i + 1] \in Byte
    BY <1>1, <1>7, <1>8, <2>1
  <2>3. bytes[i + 1] = IF i + 1 <= 12 THEN start[i + 1] ELSE segment[i + 1 - 12]
    BY <1>7, <1>8, <2>1
  <2>4. CASE i < 8
    <3>1. bytes[i + 1] = addresses[i + 1]
      BY <1>6, <2>1, <2>3, <2>4
    <3>2. i + 1 \in 1..8 /\ 11 + (i + 1) = 12 + i
      BY <2>1, <2>4
    <3>3. addresses[i + 1] = m[12 + i]
      BY <1>3, <3>2
    <3>4. QED  BY <2>1, <2>2, <2>4, <3>1, <3>3
  <2>5. CASE i >= 8 /\ i < 12
    <3>1. bytes[i + 1] = middle[i + 1 - 8] /\ i + 1 - 8 = i - 7
      BY <1>6, <2>1, <2>3, <2>5
    <3>2. ~(i < 8)
      BY <2>1, <2>5
    <3>3. QED  BY <2>1, <2>2, <2>5, <3>1, <3>2
  <2>6. CASE i >= 12
    <3>1. bytes[i + 1] = segment[i + 1 - 12] /\ i + 1 - 12 \in 1..len
      BY <1>1, <2>1, <2>3, <2>6
    <3>2. segment[i + 1 - 12] = m[IpSize + (i + 1 - 12) - 1]
      BY <1>5, <3>1
    <3>3. IpSize + (i + 1 - 12) - 1 = i + 8 /\ ~(i < 8) /\ ~(i < 12)
      BY <2>1, <2>6 DEF IpSize
    <3>4. QED  BY <2>1, <2>2, <3>1, <3>2, <3>3
  <2>7. QED  BY <2>1, <2>4, <2>5, <2>6
<1>10. Pseudogram(m, len) = [i \in 0..(12 + len - 1) |-> bytes[i + 1]]
  <2>1. Pseudogram(m, len) = [i \in 0..(Len(bytes) - 1) |-> bytes[i + 1]]
    BY DEF Pseudogram, bytes, addresses, middle, segment, Middle
  <2>2. Len(bytes) = 12 + len
    BY <1>7, <1>8
  <2>3. 0..(Len(bytes) - 1) = 0..(12 + len - 1)
    BY <1>1, <2>2
  <2>4. QED  BY <2>1, <2>3
<1>11. QED  BY <1>9, <1>10 DEF At, middle

-----------------------------------------------------------------------------
(***************************************************************************)
(* The headers.                                                            *)
(***************************************************************************)

\* What goes behind the identification of the IP header.
LEMMA HeaderBytes ==
  LET bytes == <<255, tcp, 0, 0>> \o source \o destination
  IN  /\ bytes \in Seq(Byte) /\ Len(bytes) = 12
      /\ bytes[2] = tcp /\ bytes[3] = 0 /\ bytes[4] = 0
      /\ \A i \in 1..4 : bytes[4 + i] = source[i] /\ bytes[8 + i] = destination[i]
<1> DEFINE first == <<255, tcp, 0, 0>>
           start == first \o source
           bytes == start \o destination
<1>1. first \in Seq(Byte) /\ Len(first) = 4 /\ first[2] = tcp /\ first[3] = 0 /\ first[4] = 0
  BY DEF tcp, Byte
<1>2. source \in Seq(Byte) /\ Len(source) = 4 /\ destination \in Seq(Byte) /\ Len(destination) = 4
  BY DEF source, destination, Byte
<1> HIDE DEF first
<1>3. /\ start \in Seq(Byte) /\ Len(start) = Len(first) + Len(source)
      /\ \A i \in 1..(Len(first) + Len(source)) :
           start[i] = IF i <= Len(first) THEN first[i] ELSE source[i - Len(first)]
  BY <1>1, <1>2, ConcatProperties
<1> HIDE DEF start
<1>4. /\ bytes \in Seq(Byte) /\ Len(bytes) = Len(start) + Len(destination)
      /\ \A i \in 1..(Len(start) + Len(destination)) :
           bytes[i] = IF i <= Len(start) THEN start[i] ELSE destination[i - Len(start)]
  <2>1. start \in Seq(Byte) /\ destination \in Seq(Byte)
    BY <1>2, <1>3
  <2>2. QED  BY <2>1, ConcatProperties
<1> HIDE DEF bytes
<1>5. Len(first) = 4 /\ Len(source) = 4 /\ Len(destination) = 4 /\ Len(start) = 8 /\ Len(bytes) = 12
  BY <1>1, <1>2, <1>3, <1>4
<1>6. \A i \in 1..8 : start[i] = IF i <= 4 THEN first[i] ELSE source[i - 4]
  BY <1>3, <1>5
<1>7. \A i \in 1..12 : bytes[i] = IF i <= 8 THEN start[i] ELSE destination[i - 8]
  BY <1>4, <1>5
<1>8. bytes[2] = tcp /\ bytes[3] = 0 /\ bytes[4] = 0
  BY <1>1, <1>6, <1>7
<1>9. \A i \in 1..4 : bytes[4 + i] = source[i] /\ bytes[8 + i] = destination[i]
  BY <1>6, <1>7
<1>10. QED  BY <1>4, <1>5, <1>8, <1>9 DEF bytes, start, first

\* Bytes of a buffer may be added up from its start.
LEMMA BufferBytes ==
  ASSUME NEW m \in [Buffer -> Byte], NEW len \in Nat, len <= BufferSize
  PROVE  AreBytes(m, 0, len)
  BY DEF AreBytes, Buffer, BufferSize

\* The IP header and its sum, taken over what tot_len counts.
LEMMA IpHeaderFills ==
  ASSUME data \in Payloads, NEW m \in [Buffer -> Byte], \A i \in Buffer : m[i] = 0
  PROVE  LET h == IpHeader(m)
         IN  /\ h \in [Buffer -> Byte] /\ \A i \in IpSize..(BufferSize - 1) : h[i] = 0
             /\ h[0] = 69 /\ h[9] = tcp
             /\ \A i \in 1..4 : h[11 + i] = source[i] /\ h[15 + i] = destination[i]
             /\ SumsUp(h, IpSize)
<1> DEFINE len == Text + Len(data)
           bytes == <<255, tcp, 0, 0>> \o source \o destination
           m1 == StoreWord(m, 2, len)
           m2 == StoreWord(m1, 4, htons(54321))
           m3 == Stored(m2, 0, <<69, 0>>)
           m4 == Stored(m3, 8, bytes)
           c == calculate_checksum(m4, 0, len)
           h == StoreWord(m4, 10, c)
<1>1. IsWord(len) /\ len \in Nat /\ IpSize <= len /\ len <= 1024
  BY DataFits, Sizes DEF IsWord
<1> HIDE DEF len
<1>2. /\ bytes \in Seq(Byte) /\ Len(bytes) = 12
      /\ bytes[2] = tcp /\ bytes[3] = 0 /\ bytes[4] = 0
      /\ \A i \in 1..4 : bytes[4 + i] = source[i] /\ bytes[8 + i] = destination[i]
  BY HeaderBytes
<1> HIDE DEF bytes
<1>3. Buffer \in SUBSET Int /\ \A i \in Int : i \in Buffer <=> 0 <= i /\ i <= 1023
  BY DEF Buffer, BufferSize
<1>4. m1 \in [Buffer -> Byte] /\ \A i \in Buffer : i >= 4 => m1[i] = 0
  BY <1>1, <1>3, WordStoredAt
<1> HIDE DEF m1
<1>5. m2 \in [Buffer -> Byte] /\ \A i \in Buffer : i >= 6 => m2[i] = 0
  BY <1>3, <1>4, WordStoredAt, Ports
<1> HIDE DEF m2
<1>6. /\ m3 \in [Buffer -> Byte] /\ m3[0] = 69 /\ \A i \in Buffer : i >= 6 => m3[i] = 0
  <2> DEFINE two == <<69, 0>>
  <2>1. two \in Seq(Byte) /\ Len(two) = 2 /\ two[1] = 69
    BY DEF Byte
  <2> HIDE DEF two
  <2>2. m3 \in [Buffer -> Byte]
    <3>1. Stored(m2, 0, two) \in [Buffer -> Byte]
      BY <1>5, <2>1, StoredAt
    <3>2. QED  BY <3>1 DEF two
  <2>3. \A i \in Buffer : m3[i] = IF i - 0 \in 0..(Len(two) - 1) THEN two[i - 0 + 1] ELSE m2[i]
    BY <1>5 DEF Stored, two
  <2>4. m3[0] = 69
    <3>1. 0 \in Buffer /\ 0 - 0 \in 0..(Len(two) - 1) /\ 0 - 0 + 1 = 1
      BY <1>3, <2>1
    <3>2. QED  BY <2>1, <2>3, <3>1
  <2>5. ASSUME NEW i \in Buffer, i >= 6
        PROVE  m3[i] = 0
    <3>1. ~(i - 0 \in 0..(Len(two) - 1))
      BY <1>3, <2>1, <2>5
    <3>2. QED  BY <1>5, <2>3, <2>5, <3>1
  <2>6. QED  BY <2>2, <2>4, <2>5
<1> HIDE DEF m3
<1>7. m4 \in [Buffer -> Byte]
  BY <1>2, <1>6, StoredAt
<1>8. \A i \in Buffer : m4[i] = IF i - 8 \in 0..(Len(bytes) - 1) THEN bytes[i - 8 + 1] ELSE m3[i]
  BY <1>6 DEF Stored
<1> HIDE DEF m4
<1>9. \A i \in Buffer : m4[i] = IF i >= 8 /\ i <= 19 THEN bytes[i - 7] ELSE m3[i]
  <2>1. ASSUME NEW i \in Buffer
        PROVE  i - 8 \in 0..(Len(bytes) - 1) <=> i >= 8 /\ i <= 19
    <3>1. i \in Int /\ Len(bytes) = 12
      BY <1>2, <1>3
    <3>2. QED  BY <3>1
  <2>2. \A i \in Buffer : i - 8 + 1 = i - 7
    BY <1>3
  <2>3. QED  BY <1>8, <2>1, <2>2
<1>10. m4[0] = 69 /\ m4[9] = tcp /\ m4[10] = 0 /\ m4[11] = 0
  <2>1. 0 \in Buffer /\ 9 \in Buffer /\ 10 \in Buffer /\ 11 \in Buffer
    BY <1>3
  <2>2. m4[0] = m3[0] /\ m4[9] = bytes[2] /\ m4[10] = bytes[3] /\ m4[11] = bytes[4]
    BY <1>9, <2>1
  <2>3. QED  BY <1>2, <1>6, <2>2
<1>11. \A i \in 1..4 : m4[11 + i] = source[i] /\ m4[15 + i] = destination[i]
  <2> SUFFICES ASSUME NEW i \in 1..4
               PROVE  m4[11 + i] = source[i] /\ m4[15 + i] = destination[i]
    OBVIOUS
  <2>1. 11 + i \in Buffer /\ 11 + i >= 8 /\ 11 + i <= 19 /\ 11 + i - 7 = 4 + i
    BY <1>3
  <2>2. 15 + i \in Buffer /\ 15 + i >= 8 /\ 15 + i <= 19 /\ 15 + i - 7 = 8 + i
    BY <1>3
  <2>3. m4[11 + i] = bytes[4 + i]
    BY <1>9, <2>1
  <2>4. m4[15 + i] = bytes[8 + i]
    BY <1>9, <2>2
  <2>5. QED  BY <1>2, <2>3, <2>4
<1>12. \A i \in Buffer : i >= IpSize => m4[i] = 0
  BY <1>3, <1>6, <1>9 DEF IpSize
<1>13. IsWord(c)
  BY <1>1, <1>7, BufferBytes, ChecksumTypes DEF BufferSize
<1>14. h \in [Buffer -> Byte]
  BY <1>3, <1>7, <1>13, WordStoredAt
<1>15. \A i \in Buffer : h[i] = IF i = 10 THEN c % 256 ELSE IF i = 10 + 1 THEN c \div 256 ELSE m4[i]
  BY <1>3, <1>7, <1>13, WordStoredAt
<1>16. IpHeader(m) = h
  BY DEF IpHeader, h, c, m4, m3, m2, m1, len, bytes
<1> HIDE DEF h, c
<1>17. calculate_checksum(h, 0, len) = 0
  <2>1. AreBytes(m4, 0, len) /\ AreBytes(h, 0, len)
    BY <1>1, <1>7, <1>14, BufferBytes DEF BufferSize
  <2>2. ASSUME NEW i \in (1..len) \ {11, 11 + 1}
        PROVE  m4[0 + i - 1] = h[0 + i - 1]
    <3>1. 0 + i - 1 \in Buffer /\ 0 + i - 1 # 10 /\ 0 + i - 1 # 10 + 1
      BY <1>1, <1>3
    <3>2. QED  BY <1>15, <3>1
  <2>3. m4[0 + 11 - 1] = 0 /\ m4[0 + 11] = 0
    BY <1>10
  <2>4. /\ h[0 + 11 - 1] = calculate_checksum(m4, 0, len) % 256
        /\ h[0 + 11] = calculate_checksum(m4, 0, len) \div 256
    BY <1>3, <1>15 DEF c
  <2>5. 11 \in 1..len /\ 11 + 1 \in 1..len /\ 11 % 2 = 1
    BY <1>1 DEF IpSize
  <2>6. QED  BY <1>1, <2>1, <2>2, <2>3, <2>4, <2>5, StoredSumVerifies
<1>18. SumsUp(h, IpSize)
  <2>1. AreBytes(h, 0, len) /\ IsWord(IpSize) /\ IpSize <= len
    BY <1>1, <1>14, BufferBytes DEF BufferSize, IpSize, IsWord
  <2>2. ASSUME NEW i \in (IpSize + 1)..len
        PROVE  h[0 + i - 1] = 0
    <3>1. 0 + i - 1 \in Buffer /\ 0 + i - 1 >= IpSize
      BY <1>1, <1>3 DEF IpSize
    <3>2. 0 + i - 1 # 10 /\ 0 + i - 1 # 10 + 1
      BY <1>1 DEF IpSize
    <3>3. QED  BY <1>12, <1>15, <3>1, <3>2
  <2>3. calculate_checksum(h, 0, len) = calculate_checksum(h, 0, IpSize)
    BY <1>1, <2>1, <2>2, ZeroesAddNothing
  <2>4. QED  BY <1>17, <2>3 DEF SumsUp
<1>19. \A i \in IpSize..(BufferSize - 1) : h[i] = 0
  <2> SUFFICES ASSUME NEW i \in IpSize..(BufferSize - 1) PROVE h[i] = 0
    OBVIOUS
  <2>1. i \in Buffer /\ i >= IpSize /\ i # 10 /\ i # 10 + 1
    BY <1>3 DEF IpSize, BufferSize
  <2>2. QED  BY <1>12, <1>15, <2>1
<1>20. h[0] = 69 /\ h[9] = tcp /\ \A i \in 1..4 : h[11 + i] = source[i] /\ h[15 + i] = destination[i]
  BY <1>3, <1>10, <1>11, <1>15
<1>21. QED  BY <1>14, <1>16, <1>18, <1>19, <1>20

\* The buffer's places.
LEMMA BufferFacts ==
  /\ Buffer \in SUBSET Int /\ \A i \in Int : i \in Buffer <=> 0 <= i /\ i <= 1023
  /\ Wire \in SUBSET Int /\ \A i \in Int : i \in Wire <=> 0 <= i /\ i < packet_length
  BY Sizes DEF Buffer, Wire, BufferSize

\* A step that writes behind the IP header keeps what is said of the header.
LEMMA HeaderStays ==
  ASSUME packet \in [Buffer -> Byte], packet' \in [Buffer -> Byte],
         HeaderFilled, SumsUp(packet, IpSize),
         \A i \in Buffer : i < IpSize => packet'[i] = packet[i]
  PROVE  HeaderFilled' /\ SumsUp(packet, IpSize)'
<1>1. \A i \in Int : 0 <= i /\ i < 20 => i \in Buffer /\ packet'[i] = packet[i]
  BY BufferFacts DEF IpSize
<1>2. HeaderFilled'
  <2>1. packet'[0] = packet[0] /\ packet'[9] = packet[9]
    BY <1>1
  <2>2. ASSUME NEW i \in 1..4
        PROVE  packet'[11 + i] = packet[11 + i] /\ packet'[15 + i] = packet[15 + i]
    <3>1. 11 + i \in Int /\ 0 <= 11 + i /\ 11 + i < 20 /\ 15 + i \in Int /\ 0 <= 15 + i /\ 15 + i < 20
      OBVIOUS
    <3>2. QED  BY <1>1, <3>1
  <2>3. QED  BY <2>1, <2>2 DEF HeaderFilled
<1>3. SumsUp(packet, IpSize)'
  <2>1. AreBytes(packet, 0, IpSize)
    BY BufferBytes DEF IpSize, BufferSize
  <2>2. Same(packet, packet', 0, IpSize)
    <3>1. \A i \in 1..IpSize : 0 + i - 1 \in Int /\ 0 <= 0 + i - 1 /\ 0 + i - 1 < 20
      BY DEF IpSize
    <3>2. IsWord(IpSize)
      BY DEF IpSize, IsWord
    <3>3. QED  BY <1>1, <3>1, <3>2 DEF Same
  <2>3. calculate_checksum(packet, 0, IpSize) = calculate_checksum(packet', 0, IpSize)
    BY <2>1, <2>2, SameChecksum
  <2>4. QED  BY <2>3 DEF SumsUp
<1>4. QED  BY <1>2, <1>3

\* The TCP header: ports, and no sum yet.
LEMMA TcpHeaderKeeps ==
  ASSUME RawInv, FillTcpHeader
  PROVE  RawInv'
<1> DEFINE long == <<0, 0, 0, 1, 0, 0, 0, 0, 80, 2>>
           m1 == StoreWord(packet, IpSize, htons(1234))
           m2 == StoreWord(m1, IpSize + 2, htons(5432))
           m3 == Stored(m2, IpSize + 4, long)
           m4 == StoreWord(m3, IpSize + 14, htons(5840))
<1>1. packet \in [Buffer -> Byte] /\ \A i \in Buffer : i >= 20 => packet[i] = 0
  <2>1. packet \in [Buffer -> Byte] /\ stage = "tcp_header"
    BY DEF RawInv, FillTcpHeader, Buffer
  <2>2. \A i \in IpSize..(BufferSize - 1) : packet[i] = 0
    BY <2>1 DEF RawInv
  <2>3. \A i \in Buffer : i >= 20 => i \in IpSize..(BufferSize - 1)
    BY DEF Buffer, IpSize, BufferSize
  <2>4. QED  BY <2>1, <2>2, <2>3
<1>2. packet' = m4 /\ stage' = "payload" /\ UNCHANGED <<data, arrived, printed>>
  BY DEF FillTcpHeader
<1>3. /\ m1 \in [Buffer -> Byte]
      /\ \A i \in Buffer : m1[i] = IF i = 20 THEN 4 ELSE IF i = 21 THEN 210 ELSE packet[i]
  <2>1. /\ m1 \in [Buffer -> Byte]
        /\ \A i \in Buffer : m1[i] = IF i = IpSize THEN htons(1234) % 256
                                     ELSE IF i = IpSize + 1 THEN htons(1234) \div 256
                                     ELSE packet[i]
    BY <1>1, BufferFacts, Ports, WordStoredAt DEF IpSize
  <2> HIDE DEF m1
  <2>2. QED  BY <2>1, Ports DEF IpSize
<1> HIDE DEF m1
<1>4. /\ m2 \in [Buffer -> Byte]
      /\ \A i \in Buffer : m2[i] = IF i = 22 THEN 21 ELSE IF i = 23 THEN 56 ELSE m1[i]
  <2>1. IpSize + 2 \in Int
    BY DEF IpSize
  <2>2. /\ m2 \in [Buffer -> Byte]
        /\ \A i \in Buffer : m2[i] = IF i = IpSize + 2 THEN htons(5432) % 256
                                     ELSE IF i = IpSize + 2 + 1 THEN htons(5432) \div 256
                                     ELSE m1[i]
    BY <1>3, <2>1, BufferFacts, Ports, WordStoredAt
  <2> HIDE DEF m2
  <2>3. QED  BY <2>2, Ports DEF IpSize
<1> HIDE DEF m2
<1>5. m3 \in [Buffer -> Byte] /\ \A i \in Buffer : i < 24 \/ i > 33 => m3[i] = m2[i]
  <2>1. long \in Seq(Byte) /\ Len(long) = 10
    BY DEF Byte
  <2> HIDE DEF long
  <2>2. IpSize + 4 \in Int
    BY DEF IpSize
  <2>3. m3 \in [Buffer -> Byte]
    BY <1>4, <2>1, <2>2, StoredAt
  <2>4. \A i \in Buffer : m3[i] =
          IF i - (IpSize + 4) \in 0..(Len(long) - 1) THEN long[i - (IpSize + 4) + 1] ELSE m2[i]
    BY <1>4 DEF Stored
  <2> HIDE DEF m3
  <2>5. \A i \in Buffer : i < 24 \/ i > 33 => ~(i - (IpSize + 4) \in 0..(Len(long) - 1))
    BY <2>1, BufferFacts DEF IpSize
  <2>6. QED  BY <2>3, <2>4, <2>5
<1> HIDE DEF m3
<1>6. m4 \in [Buffer -> Byte] /\ \A i \in Buffer : i < 34 \/ i > 35 => m4[i] = m3[i]
  <2>1. IpSize + 14 \in Int
    BY DEF IpSize
  <2>2. /\ m4 \in [Buffer -> Byte]
        /\ \A i \in Buffer : m4[i] = IF i = IpSize + 14 THEN htons(5840) % 256
                                     ELSE IF i = IpSize + 14 + 1 THEN htons(5840) \div 256
                                     ELSE m3[i]
    BY <1>5, <2>1, BufferFacts, Ports, WordStoredAt
  <2> HIDE DEF m4
  <2>3. QED  BY <2>2, BufferFacts DEF IpSize
<1> HIDE DEF m4
<1>7. \A i \in Int : 0 <= i /\ i <= 1023 => i \in Buffer
  BY BufferFacts
<1>8. \A i \in Buffer : i < IpSize => packet'[i] = packet[i]
  BY <1>2, <1>3, <1>4, <1>5, <1>6, BufferFacts DEF IpSize
<1>9. packet'[20] = 4 /\ packet'[21] = 210 /\ packet'[22] = 21 /\ packet'[23] = 56
  BY <1>2, <1>3, <1>4, <1>5, <1>6, <1>7
<1>10. \A i \in Buffer : i >= 36 => packet'[i] = 0
  BY <1>1, <1>2, <1>3, <1>4, <1>5, <1>6, BufferFacts
<1>11. packet' \in [Buffer -> Byte]
  BY <1>2, <1>6
<1>12. stage = "tcp_header" /\ HeaderFilled /\ SumsUp(packet, IpSize) /\ data' \in Payloads
  BY <1>2 DEF FillTcpHeader, RawInv
<1>13. HeaderFilled' /\ SumsUp(packet, IpSize)'
  BY <1>1, <1>8, <1>11, <1>12, HeaderStays
<1>14. PortsFilled'
  BY <1>9 DEF PortsFilled, IpSize
<1>15. \A i \in TcpSum..(BufferSize - 1) : packet'[i] = 0
  BY <1>10 DEF TcpSum, IpSize, Buffer
<1>16. QED  BY <1>2, <1>11, <1>12, <1>13, <1>14, <1>15 DEF RawInv, Stage, Buffer, SumsUp

\* The IP header, into a buffer of zeroes.
LEMMA IpHeaderKeeps ==
  ASSUME RawInv, FillIpHeader
  PROVE  RawInv'
<1>1. stage = "ip_header" /\ data \in Payloads /\ packet \in [Buffer -> Byte]
  BY DEF RawInv, FillIpHeader, Buffer
<1>2. \A i \in Buffer : packet[i] = 0
  BY <1>1 DEF RawInv, Buffer
<1>3. packet' = IpHeader(packet) /\ stage' = "tcp_header" /\ UNCHANGED <<data, arrived, printed>>
  BY DEF FillIpHeader
<1>4. /\ packet' \in [Buffer -> Byte] /\ \A i \in IpSize..(BufferSize - 1) : packet'[i] = 0
      /\ HeaderFilled' /\ SumsUp(packet', IpSize)
  BY <1>1, <1>2, <1>3, IpHeaderFills DEF HeaderFilled
<1>5. QED  BY <1>1, <1>3, <1>4 DEF RawInv, Stage, Buffer, SumsUp

\* The sender's buffer, or what has arrived, and a length of segment that it has.
IsMemory(m) == m \in [Buffer -> Byte] \/ m \in [Wire -> Byte]
IsLength(len) == len \in Int /\ 20 <= len /\ 20 + len <= packet_length

\* Such a length is a word, and so is that with the pseudo header.
LEMMA Lengths ==
  ASSUME NEW len, IsLength(len)
  PROVE  /\ len \in Nat /\ 20 <= len /\ len <= 1004 /\ 20 + len <= packet_length
         /\ IsWord(len) /\ IsWord(12 + len) /\ 12 + len \in Nat
<1>1. len \in Int /\ 20 <= len /\ 20 + len <= packet_length
  BY DEF IsLength
<1>2. QED  BY <1>1, Sizes DEF IsWord

\* The lengths that the receiver and the sender take.
LEMMA TakenLengths ==
  /\ IsLength(packet_length - 20)
  /\ data \in Payloads => IsLength(Covered)
  BY Sizes, DataFits DEF IsLength

\* The pseudo header and the segment of a buffer are bytes.
LEMMA SegmentBytes ==
  ASSUME NEW m, IsMemory(m), NEW len, IsLength(len)
  PROVE  /\ AreBytes(Pseudogram(m, len), 0, 12 + len)
         /\ \A i \in Int : 12 <= i /\ i <= 11 + len => Pseudogram(m, len)[i] = m[i + 8]
         /\ \A i \in Int : 0 <= i /\ i < 8 => Pseudogram(m, len)[i] = m[i + 12]
         /\ \A i \in Int : 8 <= i /\ i < 12 => Pseudogram(m, len)[i] = Middle(len)[i - 7]
<1>1. len \in Nat /\ 20 <= len /\ 20 + len <= packet_length
  BY Lengths
<1>2. PICK D \in {Buffer, Wire} : m \in [D -> Byte]
  BY DEF IsMemory
<1>3. \A i \in 12..(IpSize + len - 1) : i \in D
  BY <1>1, BufferFacts, Sizes DEF IpSize
<1>4. /\ Pseudogram(m, len) \in [0..(12 + len - 1) -> Byte]
      /\ \A i \in 0..(12 + len - 1) : Pseudogram(m, len)[i] =
           IF i < 8 THEN m[12 + i] ELSE IF i < 12 THEN Middle(len)[i - 7] ELSE m[i + 8]
  <2>1. IsWord(len)
    BY Lengths
  <2>2. QED  BY <1>2, <1>3, <2>1, PseudogramAt
<1> DEFINE p == Pseudogram(m, len)
           middle == Middle(len)
<1>5. \A i \in Int : 0 <= i /\ i <= 11 + len => i \in 0..(12 + len - 1)
  BY <1>1
<1> HIDE DEF p, middle
<1>6. AreBytes(p, 0, 12 + len)
  <2> SUFFICES ASSUME NEW i \in 1..(12 + len) PROVE p[0 + i - 1] \in Byte
    BY DEF AreBytes
  <2>1. 0 + i - 1 \in 0..(12 + len - 1)
    BY <1>1
  <2>2. QED  BY <1>4, <2>1 DEF p
<1>7. \A i \in Int : 0 <= i /\ i <= 11 + len =>
        p[i] = IF i < 8 THEN m[12 + i] ELSE IF i < 12 THEN middle[i - 7] ELSE m[i + 8]
  BY <1>4, <1>5 DEF p, middle
<1>8. \A i \in Int : 12 <= i /\ i <= 11 + len => p[i] = m[i + 8]
  BY <1>1, <1>7
<1>9. \A i \in Int : 0 <= i /\ i < 8 => p[i] = m[i + 12]
  <2>1. \A i \in Int : 12 + i = i + 12
    OBVIOUS
  <2>2. QED  BY <1>1, <1>7, <2>1
<1>10. \A i \in Int : 8 <= i /\ i < 12 => p[i] = middle[i - 7]
  BY <1>1, <1>7
<1>11. QED  BY <1>6, <1>8, <1>9, <1>10 DEF p, middle

(***************************************************************************)
(* Buffers that agree from the addresses on, but for the bytes of Other,   *)
(* have the same pseudo header, and segments that agree but for those.     *)
(***************************************************************************)
LEMMA AlikeSegments ==
  ASSUME NEW m, IsMemory(m), NEW n, IsMemory(n), NEW len, IsLength(len),
         NEW Other, \A k \in Other : k \in Int /\ 20 <= k,
         \A i \in Int : 12 <= i /\ i < 20 + len /\ i \notin Other => m[i] = n[i]
  PROVE  \A i \in 1..(12 + len) : i + 7 \notin Other =>
           Pseudogram(m, len)[0 + i - 1] = Pseudogram(n, len)[0 + i - 1]
<1> DEFINE p == Pseudogram(m, len)
           q == Pseudogram(n, len)
<1>1. len \in Nat /\ 20 <= len
  BY Lengths
<1>2. \A i \in Int : 12 <= i /\ i <= 11 + len => p[i] = m[i + 8] /\ q[i] = n[i + 8]
  BY SegmentBytes
<1>3. \A i \in Int : 0 <= i /\ i < 8 => p[i] = m[i + 12] /\ q[i] = n[i + 12]
  BY SegmentBytes
<1>4. \A i \in Int : 8 <= i /\ i < 12 => p[i] = q[i]
  BY SegmentBytes
<1> HIDE DEF p, q
<1> SUFFICES ASSUME NEW i \in 1..(12 + len), i + 7 \notin Other
             PROVE  p[0 + i - 1] = q[0 + i - 1]
  BY DEF p, q
<1> DEFINE at == 0 + i - 1
<1>5. at \in Int /\ 0 <= at /\ at <= 11 + len /\ at + 8 = i + 7
  BY <1>1
<1> HIDE DEF at
<1>6. CASE at < 8
  <2>1. at + 12 \in Int /\ 12 <= at + 12 /\ at + 12 < 20 + len /\ at + 12 < 20
    BY <1>1, <1>5, <1>6
  <2>2. at + 12 \notin Other
    BY <2>1
  <2>3. m[at + 12] = n[at + 12]
    BY <2>1, <2>2
  <2>4. p[at] = q[at]
    BY <1>3, <1>5, <1>6, <2>3
  <2>5. QED  BY <2>4 DEF at
<1>7. CASE 8 <= at /\ at < 12
  <2>1. p[at] = q[at]
    BY <1>4, <1>5, <1>7
  <2>2. QED  BY <2>1 DEF at
<1>8. CASE 12 <= at
  <2>1. at + 8 \in Int /\ 12 <= at + 8 /\ at + 8 < 20 + len
    BY <1>1, <1>5, <1>8
  <2>2. m[at + 8] = n[at + 8]
    BY <1>5, <2>1
  <2>3. p[at] = q[at]
    BY <1>2, <1>5, <1>8, <2>2
  <2>4. QED  BY <2>3 DEF at
<1>9. QED  BY <1>5, <1>6, <1>7, <1>8

\* Buffers that agree from the addresses on have the same pseudo header and segment.
LEMMA SameSegment ==
  ASSUME NEW m, IsMemory(m), NEW n, IsMemory(n), NEW len, IsLength(len),
         \A i \in Int : 12 <= i /\ i < 20 + len => m[i] = n[i]
  PROVE  Same(Pseudogram(m, len), Pseudogram(n, len), 0, 12 + len)
<1> DEFINE none == {}
<1>1. /\ \A k \in none : k \in Int /\ 20 <= k
      /\ \A i \in Int : 12 <= i /\ i < 20 + len /\ i \notin none => m[i] = n[i]
  OBVIOUS
<1>2. \A i \in Int : i + 7 \notin none
  OBVIOUS
<1> HIDE DEF none
<1>3. \A i \in 1..(12 + len) : i + 7 \notin none =>
        Pseudogram(m, len)[0 + i - 1] = Pseudogram(n, len)[0 + i - 1]
  BY <1>1, AlikeSegments
<1>4. QED  BY <1>2, <1>3, Lengths DEF Same

\* The word of the sum, and a packet with zeroes in its place.
LEMMA Blanked ==
  ASSUME NEW m, IsMemory(m)
  PROVE  /\ IsMemory(StoreWord(m, TcpSum, 0))
         /\ \A i \in Int : 0 <= i /\ i < packet_length =>
              /\ m[i] \in Byte
              /\ StoreWord(m, TcpSum, 0)[i] = IF i = 36 \/ i = 37 THEN 0 ELSE m[i]
         /\ Word(m, TcpSum) = m[36] + 256 * m[37] /\ IsWord(Word(m, TcpSum))
<1>1. PICK D \in {Buffer, Wire} : m \in [D -> Byte]
  BY DEF IsMemory
<1>2. D \in SUBSET Int /\ \A i \in Int : 0 <= i /\ i < packet_length => i \in D
  BY BufferFacts, Sizes
<1>3. TcpSum = 36 /\ TcpSum \in Int
  BY DEF TcpSum, IpSize
<1> DEFINE blank == StoreWord(m, TcpSum, 0)
<1>4. /\ blank \in [D -> Byte]
      /\ \A i \in D : blank[i] = IF i = TcpSum THEN 0 % 256
                                 ELSE IF i = TcpSum + 1 THEN 0 \div 256 ELSE m[i]
  BY <1>1, <1>2, <1>3, Ports, WordStoredAt
<1> HIDE DEF blank
<1>5. \A i \in Int : 0 <= i /\ i < packet_length =>
        blank[i] = IF i = 36 \/ i = 37 THEN 0 ELSE m[i]
  BY <1>2, <1>3, <1>4, Ports
<1>6. \A i \in Int : 0 <= i /\ i < packet_length => m[i] \in Byte
  BY <1>1, <1>2
<1>7. Word(m, TcpSum) = m[36] + 256 * m[37]
  BY <1>3 DEF Word
<1>8. IsWord(Word(m, TcpSum))
  <2>1. m[36] \in Byte /\ m[37] \in Byte
    BY <1>6, Sizes
  <2>2. \A l \in Byte, h \in Byte : l + 256 * h \in Nat /\ l + 256 * h <= 65535
    BY DEF Byte
  <2>3. QED  BY <1>7, <2>1, <2>2 DEF IsWord
<1>9. IsMemory(blank)
  BY <1>1, <1>4 DEF IsMemory
<1>10. QED  BY <1>5, <1>6, <1>7, <1>8, <1>9 DEF blank

(***************************************************************************)
(* Blanking takes from the pseudo header and the segment just the word of  *)
(* the sum, at its 29th byte.                                              *)
(***************************************************************************)
LEMMA BlankedSegment ==
  ASSUME NEW m, IsMemory(m), NEW len, IsLength(len)
  PROVE  LET p == Pseudogram(StoreWord(m, TcpSum, 0), len)
             q == Pseudogram(m, len)
         IN  /\ AreBytes(p, 0, 12 + len) /\ AreBytes(q, 0, 12 + len)
             /\ 29 \in 1..(12 + len) /\ 29 + 1 \in 1..(12 + len) /\ 29 % 2 = 1
             /\ \A i \in (1..(12 + len)) \ {29, 29 + 1} : p[0 + i - 1] = q[0 + i - 1]
             /\ p[0 + 29 - 1] = 0 /\ p[0 + 29] = 0
             /\ q[0 + 29 - 1] = m[36] /\ q[0 + 29] = m[37]
<1> DEFINE blank == StoreWord(m, TcpSum, 0)
           p == Pseudogram(blank, len)
           q == Pseudogram(m, len)
<1>1. len \in Nat /\ 20 <= len /\ 20 + len <= packet_length
  BY Lengths
<1>2. /\ IsMemory(blank)
      /\ \A i \in Int : 0 <= i /\ i < packet_length =>
           blank[i] = IF i = 36 \/ i = 37 THEN 0 ELSE m[i]
  BY Blanked
<1> HIDE DEF blank
<1>3. AreBytes(p, 0, 12 + len) /\ AreBytes(q, 0, 12 + len)
  BY <1>2, SegmentBytes
<1>4. \A i \in 1..(12 + len) : i + 7 \notin {36, 37} => p[0 + i - 1] = q[0 + i - 1]
  <2> DEFINE word == {36, 37}
  <2>1. \A k \in word : k \in Int /\ 20 <= k
    OBVIOUS
  <2>2. \A i \in Int : 12 <= i /\ i < 20 + len /\ i \notin word => blank[i] = m[i]
    BY <1>1, <1>2, Sizes
  <2> HIDE DEF word
  <2>3. \A i \in 1..(12 + len) : i + 7 \notin word => p[0 + i - 1] = q[0 + i - 1]
    BY <1>2, <2>1, <2>2, AlikeSegments
  <2>4. QED  BY <2>3 DEF word
<1>5. p[28] = blank[36] /\ p[29] = blank[37] /\ q[28] = m[36] /\ q[29] = m[37]
  <2>1. \A i \in Int : 12 <= i /\ i <= 11 + len => p[i] = blank[i + 8] /\ q[i] = m[i + 8]
    BY <1>2, SegmentBytes
  <2>2. 28 + 8 = 36 /\ 29 + 8 = 37 /\ 28 <= 11 + len /\ 29 <= 11 + len
    BY <1>1
  <2> HIDE DEF p, q
  <2>3. QED  BY <2>1, <2>2
<1>6. blank[36] = 0 /\ blank[37] = 0
  BY <1>2, Sizes
<1> HIDE DEF p, q
<1>7. \A i \in (1..(12 + len)) \ {29, 29 + 1} : p[0 + i - 1] = q[0 + i - 1]
  <2> SUFFICES ASSUME NEW i \in (1..(12 + len)) \ {29, 29 + 1} PROVE p[0 + i - 1] = q[0 + i - 1]
    OBVIOUS
  <2>1. i + 7 \notin {36, 37}
    BY <1>1
  <2>2. QED  BY <1>4, <2>1
<1>8. 29 \in 1..(12 + len) /\ 29 + 1 \in 1..(12 + len) /\ 29 % 2 = 1
  BY <1>1
<1>9. 0 + 29 - 1 = 28 /\ 0 + 29 = 29
  OBVIOUS
<1>10. QED  BY <1>3, <1>5, <1>6, <1>7, <1>8, <1>9 DEF p, q, blank

\* The TCP sum is stored where the sum was taken over zeroes, and verifies.
LEMMA TcpVerifies ==
  ASSUME data \in Payloads, packet \in [Buffer -> Byte], TcpSummed
  PROVE  SumsUp(Pseudogram(packet, Covered), 12 + Covered)
<1> DEFINE c == Covered
           p == Pseudogram(StoreWord(packet, TcpSum, 0), c)
           q == Pseudogram(packet, c)
           sum == calculate_checksum(p, 0, 12 + c)
<1>1. IsMemory(packet) /\ IsLength(c) /\ IsWord(12 + c)
  BY TakenLengths, Lengths DEF IsMemory
<1>2. sum = packet[36] + 256 * packet[37] /\ packet[36] \in 0..255 /\ packet[37] \in 0..255
  <2>1. sum = Word(packet, TcpSum)
    BY DEF TcpSummed
  <2>2. Word(packet, TcpSum) = packet[36] + 256 * packet[37]
    BY <1>1, Blanked
  <2>3. packet[36] \in 0..255 /\ packet[37] \in 0..255
    BY BufferFacts DEF Byte
  <2>4. QED  BY <2>1, <2>2, <2>3
<1> HIDE DEF c
<1>3. /\ AreBytes(p, 0, 12 + c) /\ AreBytes(q, 0, 12 + c)
      /\ 29 \in 1..(12 + c) /\ 29 + 1 \in 1..(12 + c) /\ 29 % 2 = 1
      /\ \A i \in (1..(12 + c)) \ {29, 29 + 1} : p[0 + i - 1] = q[0 + i - 1]
      /\ p[0 + 29 - 1] = 0 /\ p[0 + 29] = 0
      /\ q[0 + 29 - 1] = packet[36] /\ q[0 + 29] = packet[37]
  BY <1>1, BlankedSegment
<1> HIDE DEF p, q
<1>4. packet[36] = sum % 256 /\ packet[37] = sum \div 256
  <2> DEFINE l == packet[36]
             h == packet[37]
  <2>1. sum = l + 256 * h /\ l \in 0..255 /\ h \in 0..255
    BY <1>2
  <2> HIDE DEF l, h, sum
  <2>2. sum % 256 = l /\ sum \div 256 = h
    BY <2>1
  <2>3. QED  BY <2>2 DEF l, h
<1>5. calculate_checksum(q, 0, 12 + c) = 0
  BY <1>1, <1>3, <1>4, StoredSumVerifies
<1>6. QED  BY <1>5 DEF SumsUp, q, c

\* The payload and the TCP sum.
LEMMA PayloadKeeps ==
  ASSUME RawInv, AddPayload
  PROVE  RawInv'
<1> DEFINE filled == Stored(packet, Text, data)
           c == calculate_checksum(Pseudogram(filled, Covered), 0, 12 + Covered)
<1>1. /\ stage = "payload" /\ data \in Payloads /\ packet \in [Buffer -> Byte]
      /\ \A i \in Buffer : i >= 36 => packet[i] = 0
      /\ HeaderFilled /\ SumsUp(packet, IpSize) /\ PortsFilled
  <2>1. \A i \in TcpSum..(BufferSize - 1) : packet[i] = 0
    BY DEF RawInv, AddPayload
  <2>2. \A i \in Buffer : i >= 36 => i \in TcpSum..(BufferSize - 1)
    BY DEF Buffer, TcpSum, IpSize
  <2>3. QED  BY <2>1, <2>2 DEF RawInv, AddPayload, Buffer
<1>2. packet' = StoreWord(filled, TcpSum, c) /\ stage' = "ready" /\ UNCHANGED <<data, arrived, printed>>
  BY DEF AddPayload
<1>3. data \in Seq(Byte) /\ Len(data) \in Nat
  BY <1>1, DataFits
<1>4. /\ filled \in [Buffer -> Byte]
      /\ \A i \in Buffer : i < 40 \/ i >= 40 + Len(data) => filled[i] = packet[i]
  <2>1. Text \in Int /\ Text = 40
    BY DEF Text, IpSize, TcpSize
  <2>2. filled \in [Buffer -> Byte]
    BY <1>1, <1>3, <2>1, StoredAt
  <2>3. \A i \in Buffer : filled[i] =
          IF i - Text \in 0..(Len(data) - 1) THEN data[i - Text + 1] ELSE packet[i]
    BY <1>1 DEF Stored
  <2> HIDE DEF filled
  <2>4. \A i \in Buffer : i < 40 \/ i >= 40 + Len(data) => ~(i - Text \in 0..(Len(data) - 1))
    BY <1>3, <2>1, BufferFacts
  <2>5. QED  BY <2>2, <2>3, <2>4
<1> HIDE DEF filled
<1>5. IsWord(c)
  <2>1. AreBytes(Pseudogram(filled, Covered), 0, 12 + Covered)
    BY <1>1, <1>4, SegmentBytes, TakenLengths DEF IsMemory
  <2>2. QED  BY <1>1, <2>1, DataFits, ChecksumTypes
<1>6. TcpSum \in Int /\ TcpSum = 36
  BY DEF TcpSum, IpSize
<1>7. /\ packet' \in [Buffer -> Byte]
      /\ \A i \in Buffer : packet'[i] = IF i = 36 THEN c % 256
                                        ELSE IF i = 37 THEN c \div 256 ELSE filled[i]
  <2>1. /\ packet' \in [Buffer -> Byte]
        /\ \A i \in Buffer : packet'[i] = IF i = TcpSum THEN c % 256
                                          ELSE IF i = TcpSum + 1 THEN c \div 256 ELSE filled[i]
    <3>1. filled \in [Buffer -> Byte] /\ Buffer \in SUBSET Int
      BY <1>4, BufferFacts
    <3>2. QED  BY <1>2, <1>5, <1>6, <3>1, WordStoredAt
  <2>2. QED  BY <1>6, <2>1
<1>8. \A i \in Int : 0 <= i /\ i < 36 => i \in Buffer /\ packet'[i] = packet[i]
  BY <1>4, <1>7, BufferFacts
<1>9. HeaderFilled' /\ SumsUp(packet, IpSize)'
  <2>1. \A i \in Buffer : i < IpSize => packet'[i] = packet[i]
    BY <1>8, BufferFacts DEF IpSize
  <2>2. QED  BY <1>1, <1>7, <2>1, HeaderStays
<1>10. PortsFilled'
  <2>1. /\ packet'[20] = packet[20] /\ packet'[21] = packet[21]
        /\ packet'[22] = packet[22] /\ packet'[23] = packet[23]
    BY <1>8
  <2>2. QED  BY <1>1, <2>1 DEF PortsFilled, IpSize
<1>11. StoreWord(packet', TcpSum, 0) = filled
  <2> DEFINE blank == StoreWord(packet', TcpSum, 0)
  <2>1. /\ blank \in [Buffer -> Byte]
        /\ \A i \in Buffer : blank[i] = IF i = TcpSum THEN 0 % 256
                                        ELSE IF i = TcpSum + 1 THEN 0 \div 256 ELSE packet'[i]
    BY <1>6, <1>7, BufferFacts, Ports, WordStoredAt
  <2> HIDE DEF blank
  <2>2. filled[36] = 0 /\ filled[37] = 0
    BY <1>1, <1>4, BufferFacts
  <2>3. \A i \in Buffer : blank[i] = filled[i]
    BY <1>6, <1>7, <2>1, <2>2, Ports
  <2>4. blank = filled
    BY <1>4, <2>1, <2>3
  <2>5. QED  BY <2>4 DEF blank
<1>12. Covered' = Covered
  BY <1>2 DEF Covered
<1>13. TcpSummed'
  <2>1. packet'[36] = c % 256 /\ packet'[37] = c \div 256
    BY <1>7, BufferFacts
  <2>2. Word(packet', TcpSum) = (c % 256) + 256 * (c \div 256)
    BY <1>6, <2>1 DEF Word
  <2>3. c = (c % 256) + 256 * (c \div 256)
    BY <1>5, BytesOfWord
  <2>4. TcpSummed' <=> Word(packet', TcpSum) =
          calculate_checksum(Pseudogram(StoreWord(packet', TcpSum, 0), Covered), 0, 12 + Covered)
    BY <1>2 DEF TcpSummed, Pseudogram, Covered
  <2>5. QED  BY <1>11, <2>2, <2>3, <2>4
<1>14. Padded'
  <2>1. \A i \in (IpSize + Covered)..(BufferSize - 1) :
          i \in Buffer /\ i >= 40 + Len(data) /\ i >= 40
    <3>1. IpSize + Covered = 40 + Len(data)
      BY <1>1, <1>3, DataFits DEF IpSize
    <3>2. QED  BY <1>3, <3>1, BufferFacts DEF BufferSize
  <2>2. \A i \in (IpSize + Covered)..(BufferSize - 1) : packet'[i] = 0
    <3> SUFFICES ASSUME NEW i \in (IpSize + Covered)..(BufferSize - 1) PROVE packet'[i] = 0
      OBVIOUS
    <3>1. i \in Buffer /\ i >= 40 + Len(data) /\ i >= 40 /\ i # 36 /\ i # 37 /\ i >= 36
      BY <2>1, BufferFacts
    <3>2. packet'[i] = filled[i]
      BY <1>7, <3>1
    <3>3. QED  BY <1>1, <1>4, <3>1, <3>2
  <2>3. QED  BY <1>12, <2>2 DEF Padded
<1>15. QED  BY <1>1, <1>2, <1>7, <1>9, <1>10, <1>13, <1>14 DEF RawInv, Stage, Buffer, SumsUp

\* What is sent is the packet, but for the length and the sum of the IP header.
LEMMA OnWireAt ==
  ASSUME packet \in [Buffer -> Byte]
  PROVE  /\ OnWire \in [Wire -> Byte]
         /\ \A i \in Wire : i \notin {2, 3, 10, 11} => OnWire[i] = packet[i]
         /\ OnWire[2] = htons(packet_length) % 256 /\ OnWire[3] = htons(packet_length) \div 256
<1> DEFINE b1 == StoreWord(packet, 2, htons(packet_length))
           blank == StoreWord(b1, 10, 0)
           c == calculate_checksum(blank, 0, IpSize)
           b3 == StoreWord(blank, 10, c)
<1>1. /\ b1 \in [Buffer -> Byte]
      /\ \A i \in Buffer : b1[i] = IF i = 2 THEN htons(packet_length) % 256
                                   ELSE IF i = 2 + 1 THEN htons(packet_length) \div 256
                                   ELSE packet[i]
  BY BufferFacts, Ports, WordStoredAt
<1> HIDE DEF b1
<1>2. blank \in [Buffer -> Byte] /\ \A i \in Buffer : i # 10 /\ i # 11 => blank[i] = b1[i]
  BY <1>1, BufferFacts, Ports, WordStoredAt
<1>3. OnWire = [i \in Wire |-> b3[i]]
  BY DEF OnWire, Wire, b3, c, blank, b1
<1> HIDE DEF blank
<1>4. IsWord(c)
  <2>1. AreBytes(blank, 0, IpSize) /\ IsWord(IpSize)
    BY <1>2, BufferBytes DEF BufferSize, IpSize, IsWord
  <2>2. QED  BY <2>1, ChecksumTypes
<1> HIDE DEF c
<1>5. b3 \in [Buffer -> Byte] /\ \A i \in Buffer : i # 10 /\ i # 11 => b3[i] = blank[i]
  BY <1>2, <1>4, BufferFacts, WordStoredAt
<1> HIDE DEF b3
<1>6. \A i \in Wire : i \in Buffer
  BY BufferFacts, Sizes
<1>7. OnWire \in [Wire -> Byte]
  BY <1>3, <1>5, <1>6
<1>8. ASSUME NEW i \in Wire, i # 10, i # 11
      PROVE  OnWire[i] = b1[i]
  <2>1. OnWire[i] = b3[i] /\ i \in Buffer
    BY <1>3, <1>6, <1>8
  <2>2. QED  BY <1>2, <1>5, <1>8, <2>1
<1>9. ASSUME NEW i \in Wire, i \notin {2, 3, 10, 11}
      PROVE  OnWire[i] = packet[i]
  <2>1. i \in Buffer /\ i # 2 /\ i # 2 + 1 /\ i # 10 /\ i # 11
    BY <1>6, <1>9
  <2>2. QED  BY <1>1, <1>8, <2>1
<1>10. OnWire[2] = htons(packet_length) % 256 /\ OnWire[3] = htons(packet_length) \div 256
  <2>1. 2 \in Wire /\ 3 \in Wire /\ 2 \in Buffer /\ 3 \in Buffer /\ 3 = 2 + 1
    BY BufferFacts, Sizes
  <2>2. OnWire[2] = b1[2] /\ OnWire[3] = b1[3]
    BY <1>8, <2>1
  <2>3. b1[3] = htons(packet_length) \div 256
    BY <1>1, <2>1
  <2>4. QED  BY <1>1, <2>1, <2>2, <2>3
<1>11. QED  BY <1>7, <1>9, <1>10

\* What is said of the packet stays true of a packet that stays.
LEMMA PacketStays ==
  ASSUME UNCHANGED <<packet, data>>
  PROVE  /\ HeaderFilled' <=> HeaderFilled
         /\ PortsFilled' <=> PortsFilled
         /\ SumsUp(packet, IpSize)' <=> SumsUp(packet, IpSize)
         /\ TcpSummed' <=> TcpSummed
         /\ Padded' <=> Padded
         /\ OnWire' = OnWire
<1>1. HeaderFilled' <=> HeaderFilled
  BY DEF HeaderFilled
<1>2. PortsFilled' <=> PortsFilled
  BY DEF PortsFilled
<1>3. SumsUp(packet, IpSize)' <=> SumsUp(packet, IpSize)
  BY DEF SumsUp
<1>4. TcpSummed' <=> TcpSummed
  <2>1. TcpSummed' <=> Word(packet', TcpSum) =
          calculate_checksum(Pseudogram(StoreWord(packet', TcpSum, 0), Covered), 0, 12 + Covered)
    BY DEF TcpSummed, Pseudogram, Covered
  <2>2. QED  BY <2>1 DEF TcpSummed
<1>5. Padded' <=> Padded
  BY DEF Padded, Covered
<1>6. OnWire' = OnWire
  BY DEF OnWire
<1>7. QED  BY <1>1, <1>2, <1>3, <1>4, <1>5, <1>6

\* The packet is sent, and arrives, or not.
LEMMA SendKeeps ==
  ASSUME RawInv, SendPacket
  PROVE  RawInv'
<1>1. /\ stage = "ready" /\ data \in Payloads /\ packet \in [Buffer -> Byte]
      /\ HeaderFilled /\ SumsUp(packet, IpSize) /\ PortsFilled /\ TcpSummed /\ Padded
  BY DEF RawInv, SendPacket, Buffer
<1>2. UNCHANGED <<packet, data, printed>> /\ stage' \in {"failed", "lost", "arrived"}
  BY DEF SendPacket
<1>3. /\ HeaderFilled' /\ SumsUp(packet, IpSize)' /\ PortsFilled' /\ TcpSummed' /\ Padded'
      /\ OnWire' = OnWire
  BY <1>1, <1>2, PacketStays
<1>4. stage' = "arrived" => ArrivedInv'
  <2> SUFFICES ASSUME stage' = "arrived" PROVE ArrivedInv'
    OBVIOUS
  <2>1. OnWire \in [Wire -> Byte]
    BY <1>1, OnWireAt
  <2>2. ASSUME NEW k, k \in {IpSize} \cup {d.at : d \in Damage},
               arrived' \in [Wire -> Byte], \A i \in Wire \ {k} : arrived'[i] = OnWire[i]
        PROVE  ArrivedInv'
    BY <1>3, <2>2 DEF ArrivedInv, Wire
  <2>3. CASE arrived' = OnWire
    BY <2>1, <2>2, <2>3
  <2>4. CASE \E d \in Damage : arrived' = Stored(OnWire, d.at, <<d.by>>)
    <3>1. PICK d \in Damage : arrived' = Stored(OnWire, d.at, <<d.by>>)
      BY <2>4
    <3>2. d.at \in IpSize..(packet_length - 1) /\ d.by \in Byte
      BY RawPacketAssumption
    <3> DEFINE at == d.at
    <3>3. at \in Int /\ at \in {x.at : x \in Damage}
      <4>1. at \in {x.at : x \in Damage}
        OBVIOUS
      <4> HIDE DEF at
      <4>2. at \in IpSize..(packet_length - 1)
        BY <3>2 DEF at
      <4>3. QED  BY <4>1, <4>2, Sizes DEF IpSize
    <3>4. /\ arrived' \in [Wire -> Byte]
          /\ \A i \in Wire : arrived'[i] = IF i = at THEN d.by ELSE OnWire[i]
      BY <2>1, <3>1, <3>2, <3>3, BufferFacts, ByteStoredAt
    <3> HIDE DEF at
    <3>5. \A i \in Wire \ {at} : arrived'[i] = OnWire[i]
      BY <3>4
    <3>6. QED  BY <2>2, <3>3, <3>4, <3>5
  <2>5. QED  BY <2>3, <2>4 DEF SendPacket
<1>5. QED  BY <1>1, <1>2, <1>3, <1>4 DEF RawInv, Stage, Buffer

\* The receiver prints what has arrived.
LEMMA ReceiveKeeps ==
  ASSUME RawInv, ReceivePacket
  PROVE  RawInv'
<1>1. /\ stage = "arrived" /\ data \in Payloads /\ packet \in [Buffer -> Byte]
      /\ HeaderFilled /\ SumsUp(packet, IpSize) /\ PortsFilled /\ TcpSummed /\ Padded
      /\ ArrivedInv
  BY DEF RawInv, ReceivePacket, Buffer
<1>2. /\ UNCHANGED <<packet, data, arrived>> /\ stage' = "printed"
      /\ printed' = print_packet(arrived)
  BY DEF ReceivePacket
<1>3. /\ HeaderFilled' /\ PortsFilled' /\ SumsUp(packet, IpSize)' /\ TcpSummed' /\ Padded'
      /\ OnWire' = OnWire
  BY <1>1, <1>2, PacketStays
<1>4. ArrivedInv'
  BY <1>1, <1>2, <1>3 DEF ArrivedInv
<1>5. (printed = print_packet(arrived))'
  BY <1>2 DEF print_packet
<1>6. QED  BY <1>1, <1>2, <1>3, <1>4, <1>5 DEF RawInv, Stage, Buffer

\* A step that changes nothing.
LEMMA StutterKeeps ==
  ASSUME RawInv, UNCHANGED vars
  PROVE  RawInv'
<1>1. UNCHANGED <<stage, packet, data, arrived, printed>>
  BY DEF vars
<1>2. /\ HeaderFilled' <=> HeaderFilled
      /\ PortsFilled' <=> PortsFilled
      /\ SumsUp(packet, IpSize)' <=> SumsUp(packet, IpSize)
      /\ TcpSummed' <=> TcpSummed
      /\ Padded' <=> Padded
      /\ OnWire' = OnWire
  BY <1>1, PacketStays
<1>3. ArrivedInv' <=> ArrivedInv
  BY <1>1, <1>2 DEF ArrivedInv
<1>4. (printed = print_packet(arrived))' <=> printed = print_packet(arrived)
  BY <1>1 DEF print_packet
<1>5. QED  BY <1>1, <1>2, <1>3, <1>4 DEF RawInv

(***************************************************************************)
(* In every reachable state both sums are those of the bytes they were     *)
(* taken of, what follows the payload is zero, and what has arrived        *)
(* differs from what was sent in one byte at most: the invariant that the  *)
(* other theorems follow from.                                             *)
(***************************************************************************)
THEOREM RawCorrect == Spec => []RawInv
<1>1. Init => RawInv
  <2> SUFFICES ASSUME Init PROVE RawInv
    OBVIOUS
  <2>1. stage = "ip_header" /\ data \in Payloads /\ packet = Zeroed(BufferSize)
    BY DEF Init
  <2>2. packet \in [0..(BufferSize - 1) -> Byte] /\ \A i \in 0..(BufferSize - 1) : packet[i] = 0
    BY <2>1 DEF Zeroed, Byte
  <2>3. QED  BY <2>1, <2>2 DEF RawInv, Stage
<1>2. RawInv /\ [Next]_vars => RawInv'
  <2> SUFFICES ASSUME RawInv, [Next]_vars PROVE RawInv'
    OBVIOUS
  <2>1. CASE FillIpHeader
    BY <2>1, IpHeaderKeeps
  <2>2. CASE FillTcpHeader
    BY <2>2, TcpHeaderKeeps
  <2>3. CASE AddPayload
    BY <2>3, PayloadKeeps
  <2>4. CASE SendPacket
    BY <2>4, SendKeeps
  <2>5. CASE ReceivePacket
    BY <2>5, ReceiveKeeps
  <2>6. CASE Done
    BY <2>6, StutterKeeps DEF Done
  <2>7. CASE UNCHANGED vars
    BY <2>7, StutterKeeps
  <2>8. QED  BY <2>1, <2>2, <2>3, <2>4, <2>5, <2>6, <2>7 DEF Next
<1>3. QED  BY <1>1, <1>2, PTL DEF Spec


-----------------------------------------------------------------------------
(***************************************************************************)
(* What the sums say of what has arrived: the sum of the words of a        *)
(* segment and its pseudo header, and how it depends on the segment.       *)
(***************************************************************************)
SegmentSum(m, len) == (CHOOSE sum : IsLittleSum(sum, Pseudogram(m, len), 0, 12 + len))[12 + len]

\* It is a sum, and the checksum is minus it.
LEMMA SumOfSegment ==
  ASSUME NEW m, IsMemory(m), NEW len, IsLength(len)
  PROVE  /\ SegmentSum(m, len) \in Nat
         /\ Congruent(calculate_checksum(Pseudogram(m, len), 0, 12 + len) + SegmentSum(m, len), 0)
         /\ \E sum : IsLittleSum(sum, Pseudogram(m, len), 0, 12 + len)
                     /\ sum[12 + len] = SegmentSum(m, len)
<1> DEFINE p == Pseudogram(m, len)
           c == 12 + len
<1>1. AreBytes(p, 0, c)
  BY SegmentBytes
<1>2. IsWord(c)
  BY Lengths
<1>3. SegmentSum(m, len) = (CHOOSE sum : IsLittleSum(sum, p, 0, c))[c]
  BY DEF SegmentSum
<1> HIDE DEF p, c
<1> DEFINE s == CHOOSE sum : IsLittleSum(sum, p, 0, c)
<1>4. IsLittleSum(s, p, 0, c)
  <2>1. \E sum : IsLittleSum(sum, p, 0, c)
    BY <1>2, LittleSum
  <2>2. QED  BY <2>1
<1>5. SegmentSum(m, len) = s[c]
  BY <1>3
<1> HIDE DEF s
<1>6. s[c] \in Nat /\ Congruent(calculate_checksum(p, 0, c) + s[c], 0)
  BY <1>1, <1>2, <1>4, CalculateCongruent
<1>7. QED  BY <1>4, <1>5, <1>6 DEF p, c

\* Buffers that agree from the addresses on have the same sum.
LEMMA SameSegmentSum ==
  ASSUME NEW m, IsMemory(m), NEW n, IsMemory(n), NEW len, IsLength(len),
         \A i \in Int : 12 <= i /\ i < 20 + len => m[i] = n[i]
  PROVE  SegmentSum(m, len) = SegmentSum(n, len)
<1> DEFINE p == Pseudogram(m, len)
           q == Pseudogram(n, len)
           c == 12 + len
<1>1. Same(p, q, 0, c)
  BY SameSegment
<1>2. PICK sum : IsLittleSum(sum, p, 0, c) /\ sum[c] = SegmentSum(m, len)
  BY SumOfSegment
<1>3. PICK other : IsLittleSum(other, q, 0, c) /\ other[c] = SegmentSum(n, len)
  BY SumOfSegment
<1> HIDE DEF p, q, c
<1>4. sum[c] = other[c]
  BY <1>1, <1>2, <1>3, SameBytesSameSum DEF IsLittleSum
<1>5. QED  BY <1>2, <1>3, <1>4

\* One byte of the segment that is another changes the sum by its difference,
\* once or 256 times.
LEMMA OtherByte ==
  ASSUME NEW m, IsMemory(m), NEW n, IsMemory(n), NEW len, IsLength(len),
         NEW k \in Int, 20 <= k, k < 20 + len,
         \A i \in Int : 12 <= i /\ i < 20 + len /\ i # k => m[i] = n[i]
  PROVE  \E w \in {1, 256} : SegmentSum(n, len) = SegmentSum(m, len) + (n[k] - m[k]) * w
<1> DEFINE p == Pseudogram(m, len)
           q == Pseudogram(n, len)
           c == 12 + len
           at == k - 7
<1>1. PICK sum : IsLittleSum(sum, p, 0, c) /\ sum[c] = SegmentSum(m, len)
  BY SumOfSegment
<1>2. PICK other : IsLittleSum(other, q, 0, c) /\ other[c] = SegmentSum(n, len)
  BY SumOfSegment
<1>3. AreBytes(p, 0, c) /\ AreBytes(q, 0, c) /\ IsWord(c)
  BY SegmentBytes, Lengths
<1>4. \A i \in 1..c : i + 7 # k => p[0 + i - 1] = q[0 + i - 1]
  <2> DEFINE one == {k}
  <2>1. /\ \A j \in one : j \in Int /\ 20 <= j
        /\ \A i \in Int : 12 <= i /\ i < 20 + len /\ i \notin one => m[i] = n[i]
    OBVIOUS
  <2>2. \A i : i + 7 \notin one <=> i + 7 # k
    OBVIOUS
  <2> HIDE DEF one
  <2>3. \A i \in 1..c : i + 7 \notin one => p[0 + i - 1] = q[0 + i - 1]
    BY <2>1, AlikeSegments
  <2>4. QED  BY <2>2, <2>3
<1>5. at \in 1..c /\ at + 7 = k /\ at + 7 <= 19 + len
  BY Lengths
<1>6. p[0 + at - 1] = m[k] /\ q[0 + at - 1] = n[k]
  <2> DEFINE j == 0 + at - 1
  <2>1. \A i \in Int : 12 <= i /\ i <= 11 + len => p[i] = m[i + 8] /\ q[i] = n[i + 8]
    BY SegmentBytes
  <2>2. j \in Int /\ 12 <= j /\ j <= 11 + len /\ j + 8 = k
    BY Lengths
  <2> HIDE DEF p, q, j
  <2>3. p[j] = m[k] /\ q[j] = n[k]
    BY <2>1, <2>2
  <2>4. QED  BY <2>3 DEF j
<1> HIDE DEF p, q, c
<1>7. \A i \in (1..c) \ {at} : p[0 + i - 1] = q[0 + i - 1]
  <2> SUFFICES ASSUME NEW i \in 1..c, i # at PROVE p[0 + i - 1] = q[0 + i - 1]
    OBVIOUS
  <2>1. i + 7 # k
    BY <1>3 DEF IsWord
  <2>2. QED  BY <1>4, <2>1
<1> HIDE DEF at
<1>8. DifferAt(p, q, 0, c, at)
  BY <1>3, <1>5, <1>7 DEF DifferAt
<1>9. other[c] = sum[c] + Change(p, q, 0, at)
  BY <1>1, <1>2, <1>8, SumOfChanged
<1> DEFINE w == IF at % 2 = 1 THEN 1 ELSE 256
<1>10. Change(p, q, 0, at) = (n[k] - m[k]) * w
  BY <1>6 DEF Change
<1>11. w \in {1, 256}
  OBVIOUS
<1> HIDE DEF w
<1>12. SegmentSum(n, len) = SegmentSum(m, len) + (n[k] - m[k]) * w
  BY <1>1, <1>2, <1>9, <1>10
<1>13. QED  BY <1>11, <1>12

(***************************************************************************)
(* A receiver that counts zeroes behind the segment adds nothing by them,  *)
(* but by the length in the pseudo header: 256 for each, modulo 65535.     *)
(***************************************************************************)
LEMMA OtherLength ==
  ASSUME NEW m, IsMemory(m), NEW short, IsLength(short), NEW len, IsLength(len), short <= len,
         \A i \in Int : 20 + short <= i /\ i < 20 + len => m[i] = 0
  PROVE  Congruent(SegmentSum(m, len), SegmentSum(m, short) + 256 * (len - short))
<1> DEFINE p == Pseudogram(m, short)
           q == Pseudogram(m, len)
           b == 12 + short
           c == 12 + len
<1>1. /\ short \in Int /\ 20 <= short /\ short <= 1004
      /\ len \in Int /\ 20 <= len /\ len <= 1004
  BY Lengths
<1>2. IsWord(b) /\ IsWord(c) /\ b <= c /\ b \in Int /\ c \in Int
  BY Lengths, <1>1
<1>3. AreBytes(p, 0, b) /\ AreBytes(q, 0, c)
  BY SegmentBytes
<1>4. AreBytes(q, 0, b)
  <2>1. \A i \in 1..b : i \in 1..c
    BY <1>1
  <2> HIDE DEF q, b, c
  <2>2. QED  BY <1>3, <2>1 DEF AreBytes
<1>5. /\ \A i \in Int : 12 <= i /\ i <= 11 + short => p[i] = m[i + 8]
      /\ \A i \in Int : 0 <= i /\ i < 8 => p[i] = m[i + 12]
      /\ \A i \in Int : 8 <= i /\ i < 12 => p[i] = Middle(short)[i - 7]
  BY SegmentBytes
<1>6. /\ \A i \in Int : 12 <= i /\ i <= 11 + len => q[i] = m[i + 8]
      /\ \A i \in Int : 0 <= i /\ i < 8 => q[i] = m[i + 12]
      /\ \A i \in Int : 8 <= i /\ i < 12 => q[i] = Middle(len)[i - 7]
  BY SegmentBytes
<1>7. PICK part : IsLittleSum(part, q, 0, b)
  BY <1>2, LittleSum
<1>8. PICK sum : IsLittleSum(sum, q, 0, c) /\ sum[c] = SegmentSum(m, len)
  BY SumOfSegment
<1>9. PICK other : IsLittleSum(other, p, 0, b) /\ other[b] = SegmentSum(m, short)
  BY SumOfSegment
<1> HIDE DEF p, q
<1>10. \A i \in (b + 1)..c : q[0 + i - 1] = 0
  <2> SUFFICES ASSUME NEW i \in (b + 1)..c PROVE q[0 + i - 1] = 0
    OBVIOUS
  <2> DEFINE j == 0 + i - 1
  <2>1. /\ j \in Int /\ 12 <= j /\ j <= 11 + len
        /\ j + 8 \in Int /\ 20 + short <= j + 8 /\ j + 8 < 20 + len
    BY <1>1
  <2> HIDE DEF j
  <2>2. q[j] = m[j + 8] /\ m[j + 8] = 0
    BY <1>6, <2>1
  <2>3. QED  BY <2>2 DEF j
<1> HIDE DEF b, c
<1>11. sum[c] = part[b]
  <2> DEFINE at == 0
  <2>1. /\ at \in Int /\ AreBytes(q, at, c) /\ \A i \in (b + 1)..c : q[at + i - 1] = 0
        /\ IsLittleSum(sum, q, at, c) /\ IsLittleSum(part, q, at, b)
    BY <1>3, <1>7, <1>8, <1>10
  <2>2. IsWord(b) /\ IsWord(c) /\ b <= c
    BY <1>2
  <2> HIDE DEF at
  <2>3. QED  BY <2>1, <2>2, ZeroesInSum
<1>12. /\ p[10] = short \div 256 /\ p[11] = short % 256
       /\ q[10] = len \div 256 /\ q[11] = len % 256
  <2>1. /\ p[10] = Middle(short)[10 - 7] /\ p[11] = Middle(short)[11 - 7]
        /\ q[10] = Middle(len)[10 - 7] /\ q[11] = Middle(len)[11 - 7]
    BY <1>5, <1>6
  <2>2. 10 - 7 = 3 /\ 11 - 7 = 4
    OBVIOUS
  <2>3. /\ Middle(short)[3] = short \div 256 /\ Middle(short)[4] = short % 256
        /\ Middle(len)[3] = len \div 256 /\ Middle(len)[4] = len % 256
    BY DEF Middle
  <2>4. QED  BY <2>1, <2>2, <2>3
<1>13. \A i \in (1..b) \ {11, 11 + 1} : p[0 + i - 1] = q[0 + i - 1]
  <2> SUFFICES ASSUME NEW i \in 1..b, i # 11, i # 12 PROVE p[0 + i - 1] = q[0 + i - 1]
    OBVIOUS
  <2> DEFINE j == 0 + i - 1
  <2>1. j \in Int /\ 0 <= j /\ j <= 11 + short /\ j <= 11 + len /\ j # 10 /\ j # 11
    BY <1>1 DEF b
  <2> HIDE DEF j
  <2>2. CASE j < 8
    <3>1. p[j] = q[j]
      BY <1>5, <1>6, <2>1, <2>2
    <3>2. QED  BY <3>1 DEF j
  <2>3. CASE 8 <= j /\ j < 12
    <3>1. j = 8 \/ j = 9
      BY <2>1, <2>3
    <3>2. \A l : Middle(l)[1] = 0 /\ Middle(l)[2] = tcp
      BY DEF Middle
    <3>3. 8 - 7 = 1 /\ 9 - 7 = 2
      OBVIOUS
    <3>4. p[j] = Middle(short)[j - 7] /\ q[j] = Middle(len)[j - 7]
      BY <1>5, <1>6, <2>1, <2>3
    <3>5. p[j] = q[j]
      BY <3>1, <3>2, <3>3, <3>4
    <3>6. QED  BY <3>5 DEF j
  <2>4. CASE 12 <= j
    <3>1. p[j] = q[j]
      BY <1>5, <1>6, <2>1, <2>4
    <3>2. QED  BY <3>1 DEF j
  <2>5. QED  BY <2>1, <2>2, <2>3, <2>4
<1>14. part[b] = other[b] + (q[10] - p[10]) + 256 * (q[11] - p[11])
  <2> DEFINE k == 11
  <2>1. k \in 1..b /\ k + 1 \in 1..b /\ k % 2 = 1 /\ k = 11 /\ 0 + k - 1 = 10 /\ 0 + k = 11
    BY <1>1 DEF b
  <2>2. \A i \in (1..b) \ {k, k + 1} : p[0 + i - 1] = q[0 + i - 1]
    BY <1>13
  <2> HIDE DEF k
  <2>3. part[b] = other[b] + (q[0 + k - 1] - p[0 + k - 1]) + 256 * (q[0 + k] - p[0 + k])
    BY <1>2, <1>3, <1>4, <1>7, <1>9, <2>1, <2>2, SumOfWordChanged
  <2>4. QED  BY <2>1, <2>3
<1> DEFINE s == SegmentSum(m, short)
           t == SegmentSum(m, len)
           h == len \div 256 - short \div 256
<1>15. s \in Int /\ t \in Int
  BY SumOfSegment
<1> DEFINE x == len \div 256
           y == short \div 256
           u == len % 256
           v == short % 256
<1>16. t = s + (x - y) + 256 * (u - v)
  BY <1>8, <1>9, <1>11, <1>12, <1>14
<1> HIDE DEF s, t
<1>17. h \in Int /\ t = (s + 256 * (len - short)) + 65535 * (-h)
  <2>1. x \in Int /\ u \in Int /\ len = 256 * x + u
    BY <1>1
  <2>2. y \in Int /\ v \in Int /\ short = 256 * y + v
    BY <1>1
  <2>3. h = x - y
    OBVIOUS
  <2> HIDE DEF x, y, u, v, h
  <2>4. QED  BY <1>15, <1>16, <2>1, <2>2, <2>3
<1> HIDE DEF h
<1>18. -h \in Int
  BY <1>17
<1>19. Congruent(t, s + 256 * (len - short))
  <2> DEFINE g == -h
             z == s + 256 * (len - short)
  <2>1. g \in Int /\ t = z + 65535 * g
    BY <1>17, <1>18
  <2> HIDE DEF g, z
  <2>2. Congruent(t, z)
    BY <2>1 DEF Congruent
  <2>3. QED  BY <2>2 DEF z
<1>20. QED  BY <1>19 DEF s, t

\* verify_checksum() says that old is the sum, when both are the same modulo 65535.
LEMMA VerifiedSum ==
  ASSUME NEW m, NEW len, IsWord(len), AreBytes(m, 0, len), NEW old, IsWord(old)
  PROVE  verify_checksum(m, 0, len, IF old = 0 THEN 65535 ELSE old) = 0
           <=> Congruent(calculate_checksum(m, 0, len), old)
<1> DEFINE c == calculate_checksum(m, 0, len)
           d == cksum(m, 0, len)
<1>1. IsWord(c) /\ IsWord(d) /\ d # 0
  BY ChecksumTypes
<1>2. c = d \/ (c = 0 /\ d = 65535)
  BY SumsOfBothOrders
<1>3. verify_checksum(m, 0, len, IF old = 0 THEN 65535 ELSE old) = 0
        <=> d = (IF old = 0 THEN 65535 ELSE old)
  BY DEF verify_checksum
<1> HIDE DEF c, d
<1>4. Congruent(c, old) <=> c = old \/ (c = 0 /\ old = 65535) \/ (c = 65535 /\ old = 0)
  <2>1. c = old => Congruent(c, old)
    BY <1>1, Congruence DEF IsWord
  <2>2. c = 0 /\ old = 65535 => Congruent(c, old)
    <3>1. 0 = 65535 + 65535 * (-1)
      OBVIOUS
    <3>2. QED  BY <3>1 DEF Congruent
  <2>3. c = 65535 /\ old = 0 => Congruent(c, old)
    <3>1. 65535 = 0 + 65535 * 1
      OBVIOUS
    <3>2. QED  BY <3>1 DEF Congruent
  <2>4. Congruent(c, old) => c = old \/ (c = 0 /\ old = 65535) \/ (c = 65535 /\ old = 0)
    BY <1>1, CongruentWords
  <2>5. QED  BY <2>1, <2>2, <2>3, <2>4
<1>5. d = (IF old = 0 THEN 65535 ELSE old)
        <=> c = old \/ (c = 0 /\ old = 65535) \/ (c = 65535 /\ old = 0)
  BY <1>1, <1>2 DEF IsWord
<1>6. QED  BY <1>3, <1>4, <1>5 DEF c

(***************************************************************************)
(* With the sum in its place, verify_checksum() accepts a segment if and   *)
(* only if the words of all of it add up to 0 modulo 65535.                *)
(***************************************************************************)
LEMMA VerifiedBySum ==
  ASSUME arrived \in [Wire -> Byte], IsLength(SegmentLength(arrived))
  PROVE  Verified <=> Congruent(SegmentSum(arrived, SegmentLength(arrived)), 0)
<1> DEFINE len == SegmentLength(arrived)
           c == 12 + len
           old == Word(arrived, TcpSum)
           blank == StoreWord(arrived, TcpSum, 0)
           p == Pseudogram(blank, len)
           q == Pseudogram(arrived, len)
<1>1. Verified <=> verify_checksum(p, 0, c, IF old = 0 THEN 65535 ELSE old) = 0
  BY DEF Verified
<1>2. IsMemory(arrived) /\ IsLength(len)
  BY DEF IsMemory
<1>3. old = arrived[36] + 256 * arrived[37] /\ IsWord(old) /\ IsMemory(blank)
  BY <1>2, Blanked
<1>4. arrived[36] \in Int /\ arrived[37] \in Int
  <2>1. 36 \in Wire /\ 37 \in Wire
    BY Sizes DEF Wire
  <2>2. arrived[36] \in Byte /\ arrived[37] \in Byte
    BY <2>1
  <2>3. QED  BY <2>2 DEF Byte
<1> HIDE DEF len, old, blank
<1>5. IsWord(c)
  BY <1>2, Lengths
<1>6. /\ AreBytes(p, 0, c) /\ AreBytes(q, 0, c)
      /\ 29 \in 1..c /\ 29 + 1 \in 1..c /\ 29 % 2 = 1
      /\ \A i \in (1..c) \ {29, 29 + 1} : p[0 + i - 1] = q[0 + i - 1]
      /\ p[0 + 29 - 1] = 0 /\ p[0 + 29] = 0
      /\ q[0 + 29 - 1] = arrived[36] /\ q[0 + 29] = arrived[37]
  BY <1>2, BlankedSegment DEF blank
<1>7. PICK other : IsLittleSum(other, q, 0, c) /\ other[c] = SegmentSum(arrived, len)
  BY <1>2, SumOfSegment
<1>8. SegmentSum(arrived, len) \in Nat
  BY <1>2, SumOfSegment
<1> HIDE DEF p, q, c
<1>9. PICK sum : IsLittleSum(sum, p, 0, c)
  BY <1>5, LittleSum
<1>10. other[c] = sum[c] + (q[0 + 29 - 1] - p[0 + 29 - 1]) + 256 * (q[0 + 29] - p[0 + 29])
  <2> DEFINE k == 29
  <2>1. /\ k \in 1..c /\ k + 1 \in 1..c /\ k % 2 = 1
        /\ \A i \in (1..c) \ {k, k + 1} : p[0 + i - 1] = q[0 + i - 1]
    BY <1>6
  <2> HIDE DEF k
  <2>2. other[c] = sum[c] + (q[0 + k - 1] - p[0 + k - 1]) + 256 * (q[0 + k] - p[0 + k])
    BY <1>5, <1>6, <1>7, <1>9, <2>1, SumOfWordChanged
  <2>3. QED  BY <2>2 DEF k
<1> DEFINE all == SegmentSum(arrived, len)
           rest == sum[c]
           check == calculate_checksum(p, 0, c)
<1>11. /\ rest \in Nat /\ Congruent(check + rest, 0) /\ IsWord(check)
  BY <1>5, <1>6, <1>9, CalculateCongruent, ChecksumTypes
<1>12. all = rest + old
  <2>1. other[c] = sum[c] + arrived[36] + 256 * arrived[37]
    <3> DEFINE x == q[0 + 29 - 1]
               y == q[0 + 29]
               u == p[0 + 29 - 1]
               v == p[0 + 29]
    <3>1. other[c] = sum[c] + (x - u) + 256 * (y - v) /\ u = 0 /\ v = 0
          /\ x = arrived[36] /\ y = arrived[37]
      BY <1>6, <1>10
    <3> HIDE DEF x, y, u, v
    <3>2. QED  BY <1>4, <1>11, <3>1
  <2>2. QED  BY <1>3, <1>4, <1>7, <1>11, <2>1
<1>13. Verified <=> Congruent(check, old)
  BY <1>1, <1>3, <1>5, <1>6, VerifiedSum
<1> HIDE DEF all, rest, check
<1>14. check \in Int /\ old \in Int /\ rest \in Int
  BY <1>3, <1>11 DEF IsWord
<1>15. PICK i \in Int : check + rest = 65535 * i
  BY <1>11 DEF Congruent
<1>16. ASSUME Congruent(check, old) PROVE Congruent(all, 0)
  <2>1. PICK j \in Int : check = old + 65535 * j
    BY <1>16 DEF Congruent
  <2> DEFINE n == i - j
  <2>2. all = 0 + 65535 * n /\ n \in Int
    BY <1>12, <1>14, <1>15, <2>1
  <2> HIDE DEF n
  <2>3. QED  BY <2>2 DEF Congruent
<1>17. ASSUME Congruent(all, 0) PROVE Congruent(check, old)
  <2>1. PICK j \in Int : all = 65535 * j
    BY <1>17 DEF Congruent
  <2> DEFINE n == i - j
  <2>2. check = old + 65535 * n /\ n \in Int
    BY <1>12, <1>14, <1>15, <2>1
  <2> HIDE DEF n
  <2>3. QED  BY <2>2 DEF Congruent
<1>18. QED  BY <1>13, <1>16, <1>17 DEF all, len

\* The length that a receiver finds is that of all that was sent.
LEMMA ReceivedLength ==
  ASSUME packet \in [Buffer -> Byte], HeaderFilled,
         NEW m, \A i \in Wire : i < IpSize => m[i] = OnWire[i]
  PROVE  /\ SegmentLength(m) = packet_length - 20 /\ HeaderLength(m) = 20
         /\ IsLength(SegmentLength(m))
<1> DEFINE w == htons(packet_length)
<1>1. 0 \in Wire /\ 2 \in Wire /\ 3 \in Wire /\ 0 < IpSize /\ 2 < IpSize /\ 3 < IpSize
  BY Sizes DEF Wire, IpSize
<1>2. m[0] = OnWire[0] /\ m[2] = OnWire[2] /\ m[3] = OnWire[3]
  BY <1>1
<1>3. OnWire[0] = packet[0]
  BY <1>1, OnWireAt
<1>4. m[0] = 69
  BY <1>2, <1>3 DEF HeaderFilled
<1>5. HeaderLength(m) = 20
  BY <1>4 DEF HeaderLength
<1>6. m[2] = w % 256 /\ m[3] = w \div 256
  BY <1>2, OnWireAt
<1>7. IsWord(w) /\ htons(w) = packet_length
  BY Sizes, SwappedTwice
<1>8. Word(m, 2) = m[2] + 256 * m[3]
  <2>1. 2 + 1 = 3
    OBVIOUS
  <2>2. QED  BY <2>1 DEF Word
<1> HIDE DEF w
<1>9. w = (w % 256) + 256 * (w \div 256)
  BY <1>7 DEF IsWord
<1>10. Word(m, 2) = w
  BY <1>6, <1>8, <1>9
<1>11. SegmentLength(m) = packet_length - 20
  BY <1>5, <1>7, <1>10 DEF SegmentLength
<1>12. QED  BY <1>5, <1>11, TakenLengths

(***************************************************************************)
(* Taken over all that was sent, the words do not add up to 0: the padding *)
(* adds its length to the pseudo header, 256 for each byte.                *)
(***************************************************************************)
LEMMA SumOnWire ==
  ASSUME data \in Payloads, packet \in [Buffer -> Byte], TcpSummed, Padded
  PROVE  Congruent(SegmentSum(OnWire, packet_length - 20), 256 * Padding)
<1> DEFINE len == packet_length - 20
           c == Covered
           s == SegmentSum(packet, c)
           t == SegmentSum(packet, len)
           d == 256 * Padding
<1>1. IsMemory(packet) /\ IsMemory(OnWire)
  BY OnWireAt DEF IsMemory
<1>2. IsLength(len) /\ IsLength(c)
  BY TakenLengths
<1>3. c \in Int /\ 20 + c <= packet_length /\ Padding = len - c /\ d \in Int
  BY DataFits, Sizes
<1>4. SegmentSum(OnWire, len) = t
  <2>1. \A i \in Int : 12 <= i /\ i < 20 + len => OnWire[i] = packet[i]
    <3>1. \A i \in Int : 12 <= i /\ i < 20 + len => i \in Wire /\ i \notin {2, 3, 10, 11}
      BY Sizes DEF Wire
    <3>2. QED  BY <3>1, OnWireAt
  <2> HIDE DEF len
  <2>2. QED  BY <1>1, <1>2, <2>1, SameSegmentSum
<1>5. s \in Int /\ t \in Int
  BY <1>1, <1>2, SumOfSegment
<1>6. Congruent(s, 0)
  <2>1. calculate_checksum(Pseudogram(packet, c), 0, 12 + c) = 0
    BY TcpVerifies DEF SumsUp
  <2>2. Congruent(calculate_checksum(Pseudogram(packet, c), 0, 12 + c) + s, 0)
    BY <1>1, <1>2, SumOfSegment
  <2> HIDE DEF s
  <2>3. QED  BY <1>5, <2>1, <2>2
<1>7. Congruent(t, s + d)
  <2>1. \A i \in Int : 20 + c <= i /\ i < 20 + len => packet[i] = 0
    <3>1. \A i \in Int : 20 + c <= i /\ i < 20 + len => i \in (IpSize + c)..(BufferSize - 1)
      BY <1>3, Sizes DEF IpSize, BufferSize
    <3>2. QED  BY <3>1 DEF Padded
  <2>2. c <= len
    BY <1>3, Sizes
  <2>3. d = 256 * (len - c)
    BY <1>3
  <2> HIDE DEF c, len, d
  <2>4. Congruent(SegmentSum(packet, len), SegmentSum(packet, c) + 256 * (len - c))
    BY <1>1, <1>2, <2>1, <2>2, OtherLength
  <2>5. QED  BY <2>3, <2>4 DEF s, t
<1> HIDE DEF s, t, d
<1>8. PICK i \in Int : s = 65535 * i
  BY <1>6 DEF Congruent
<1>9. PICK j \in Int : t = s + d + 65535 * j
  BY <1>7 DEF Congruent
<1> DEFINE n == i + j
<1>10. t = d + 65535 * n /\ n \in Int /\ d \in Int
  BY <1>3, <1>5, <1>8, <1>9 DEF d
<1> HIDE DEF n
<1>11. Congruent(t, d)
  BY <1>10 DEF Congruent
<1>12. QED  BY <1>4, <1>11 DEF d, len

\* Not next to a multiple of 256.
FarFromMultiple(pad) == pad > 255 /\ pad % 256 \notin {0, 255}

\* What a padding adds is made up for by another byte only if it is short, or
\* about a multiple of 256.
LEMMA WrongByPadding ==
  ASSUME NEW pad \in Int, 0 <= pad, pad <= 984,
         NEW change \in Int, -255 <= change, change <= 255,
         NEW s \in Int, s = 256 * pad + change \/ s = 256 * pad + 256 * change,
         Congruent(s, 0)
  PROVE  /\ pad = 0 => change = 0
         /\ ~FarFromMultiple(pad)
<1>1. PICK j \in Int : s = 65535 * j
  BY DEF Congruent
<1>2. CASE s = 256 * pad + change
  <2>1. 256 * pad + change = 65535 * j
    BY <1>1, <1>2
  <2>2. j \in 0..3
    BY <2>1
  <2>3. change + j = 256 * (256 * j - pad)
    BY <2>1
  <2>4. 256 * j - pad = 0 \/ 256 * j - pad = 1
    BY <2>2, <2>3
  <2>5. CASE pad = 256 * j
    BY <2>1, <2>2, <2>5 DEF FarFromMultiple
  <2>6. CASE pad = 256 * j - 1
    BY <2>1, <2>2, <2>6 DEF FarFromMultiple
  <2>7. QED  BY <2>4, <2>5, <2>6
<1>3. CASE s = 256 * pad + 256 * change
  <2>1. 256 * (pad + change) = 65535 * j
    BY <1>1, <1>3
  <2>2. j = 256 * (256 * j - pad - change)
    BY <2>1
  <2>3. j \in -1..4
    BY <2>1
  <2>4. j = 0
    BY <2>2, <2>3
  <2>5. pad + change = 0
    BY <2>1, <2>4
  <2>6. QED  BY <2>5 DEF FarFromMultiple
<1>4. QED  BY <1>2, <1>3

\* So a receiver's sum is right just for a packet without padding.
LEMMA OnlyWithoutPadding ==
  ASSUME NEW s \in Int, data \in Payloads, Congruent(s, 256 * Padding)
  PROVE  Congruent(s, 0) <=> Padding = 0
<1>1. Padding \in Int /\ 0 <= Padding /\ Padding <= 984
  BY DataFits
<1> DEFINE pad == Padding
<1> HIDE DEF pad
<1>2. pad \in Int /\ 0 <= pad /\ pad <= 984
  BY <1>1 DEF pad
<1>3. PICK i \in Int : s = 256 * pad + 65535 * i
  BY DEF Congruent, pad
<1>4. ASSUME Congruent(s, 0) PROVE pad = 0
  <2>1. PICK j \in Int : s = 65535 * j
    BY <1>4 DEF Congruent
  <2> DEFINE n == j - i
  <2>2. 256 * pad = 65535 * n /\ n \in Int
    BY <1>2, <1>3, <2>1
  <2> HIDE DEF n
  <2>3. n \in 0..3
    BY <1>2, <2>2
  <2>4. QED  BY <1>2, <2>2, <2>3
<1>5. ASSUME pad = 0 PROVE Congruent(s, 0)
  BY <1>2, <1>3, <1>5 DEF Congruent
<1>6. QED  BY <1>4, <1>5 DEF pad

-----------------------------------------------------------------------------
(***************************************************************************)
(* The header's sum, though taken over tot_len bytes of which only the     *)
(* header is there, is that of the header, and the TCP sum verifies over   *)
(* what it was taken of, for every payload that fits.  By the length in    *)
(* the packet, which is the kernel's and counts the padding, the same sum  *)
(* verifies for no payload but one that leaves no padding.                 *)
(***************************************************************************)
THEOREM SumsAlwaysVerify == Spec => []SumsVerify
<1>1. RawInv => SumsVerify
  <2> SUFFICES ASSUME RawInv PROVE SumsVerify
    OBVIOUS
  <2>1. stage \in {"tcp_header", "payload", "ready"} => SumsUp(packet, IpSize)
    BY DEF RawInv
  <2>2. ASSUME stage = "ready"
        PROVE  /\ SumsUp(Pseudogram(packet, Covered), 12 + Covered)
               /\ SumsUp(Pseudogram(OnWire, SegmentLength(OnWire)), 12 + SegmentLength(OnWire))
                    <=> Padding = 0
    <3> DEFINE len == packet_length - 20
    <3>1. /\ data \in Payloads /\ packet \in [Buffer -> Byte] /\ HeaderFilled
          /\ TcpSummed /\ Padded
      BY <2>2 DEF RawInv, Buffer
    <3>2. SumsUp(Pseudogram(packet, Covered), 12 + Covered)
      BY <3>1, TcpVerifies
    <3>3. SegmentLength(OnWire) = len /\ IsLength(len)
      <4>1. SegmentLength(OnWire) = packet_length - 20
        BY <3>1, ReceivedLength
      <4>2. QED  BY <4>1, TakenLengths
    <3>4. IsMemory(OnWire) /\ IsMemory(packet)
      BY <3>1, OnWireAt DEF IsMemory
    <3>5. ASSUME SumsUp(Pseudogram(OnWire, len), 12 + len) PROVE Padding = 0
      <4> DEFINE s == SegmentSum(OnWire, len)
      <4>1. /\ calculate_checksum(Pseudogram(OnWire, len), 0, 12 + len) = 0
            /\ Congruent(calculate_checksum(Pseudogram(OnWire, len), 0, 12 + len) + s, 0)
            /\ s \in Int
        BY <3>3, <3>4, <3>5, SumOfSegment DEF SumsUp
      <4>2. Congruent(s, 256 * Padding)
        BY <3>1, SumOnWire
      <4> HIDE DEF s
      <4>3. Congruent(s, 0)
        BY <4>1
      <4>4. QED  BY <3>1, <4>1, <4>2, <4>3, OnlyWithoutPadding
    <3>6. ASSUME Padding = 0 PROVE SumsUp(Pseudogram(OnWire, len), 12 + len)
      <4>1. len = Covered
        BY <3>1, <3>6, DataFits, Sizes
      <4>2. \A i \in Int : 12 <= i /\ i < 20 + len => packet[i] = OnWire[i]
        <5>1. \A i \in Int : 12 <= i /\ i < 20 + len => i \in Wire /\ i \notin {2, 3, 10, 11}
          BY Sizes DEF Wire
        <5>2. QED  BY <3>1, <5>1, OnWireAt
      <4> HIDE DEF len
      <4>3. /\ Same(Pseudogram(packet, len), Pseudogram(OnWire, len), 0, 12 + len)
            /\ AreBytes(Pseudogram(packet, len), 0, 12 + len)
        BY <3>3, <3>4, <4>2, SameSegment, SegmentBytes
      <4>4. calculate_checksum(Pseudogram(packet, len), 0, 12 + len)
              = calculate_checksum(Pseudogram(OnWire, len), 0, 12 + len)
        BY <4>3, SameChecksum
      <4>5. QED  BY <3>2, <4>1, <4>4 DEF SumsUp
    <3>7. QED  BY <3>2, <3>3, <3>5, <3>6
  <2>3. QED  BY <2>1, <2>2 DEF SumsVerify
<1>2. QED  BY <1>1, RawCorrect, PTL

(***************************************************************************)
(* The checksums of utils.c and of the exercise agree on every beginning   *)
(* of every segment that the sender builds.                                *)
(***************************************************************************)
THEOREM ChecksumsAlwaysAgree == Spec => []ChecksumsAgree
<1>1. RawInv => ChecksumsAgree
  <2> SUFFICES ASSUME RawInv, stage = "ready", NEW len \in 0..(12 + Covered)
               PROVE  SameSum(calculate_checksum(Pseudogram(packet, Covered), 0, len),
                              cksum(Pseudogram(packet, Covered), 0, len))
    BY DEF ChecksumsAgree
  <2>1. data \in Payloads /\ IsMemory(packet)
    BY DEF RawInv, IsMemory, Buffer
  <2>2. IsLength(Covered)
    BY <2>1, TakenLengths
  <2>3. AreBytes(Pseudogram(packet, Covered), 0, 12 + Covered)
    BY <2>1, <2>2, SegmentBytes
  <2>4. IsWord(12 + Covered)
    BY <2>1, DataFits
  <2>5. len \in Nat /\ IsWord(len) /\ \A i \in 1..len : i \in 1..(12 + Covered)
    BY <2>4 DEF IsWord
  <2>6. AreBytes(Pseudogram(packet, Covered), 0, len)
    BY <2>3, <2>5 DEF AreBytes
  <2>7. QED  BY <2>5, <2>6, SumsOfBothOrders DEF SameSum
<1>2. QED  BY <1>1, RawCorrect, PTL

\* What was sent is printed as it was sent.
LEMMA PrintedAsSent ==
  ASSUME RawInv, stage = "printed", arrived = OnWire
  PROVE  printed = Sent
<1>1. /\ packet \in [Buffer -> Byte] /\ HeaderFilled /\ PortsFilled
      /\ printed = print_packet(arrived)
  BY DEF RawInv, Buffer
<1>2. \A i \in Int : 0 <= i /\ i < 40 /\ i \notin {2, 3, 10, 11} => arrived[i] = packet[i]
  <2>1. \A i \in Int : 0 <= i /\ i < 40 => i \in Wire
    BY Sizes DEF Wire
  <2>2. QED  BY <1>1, <2>1, OnWireAt
<1>3. arrived[0] = 69 /\ arrived[9] = tcp
  BY <1>1, <1>2 DEF HeaderFilled
<1>4. \A i \in 1..4 : arrived[11 + i] = source[i] /\ arrived[15 + i] = destination[i]
  <2> SUFFICES ASSUME NEW i \in 1..4
               PROVE  arrived[11 + i] = source[i] /\ arrived[15 + i] = destination[i]
    OBVIOUS
  <2> DEFINE a == 11 + i
             b == 15 + i
  <2>1. /\ a \in Int /\ 0 <= a /\ a < 40 /\ a \notin {2, 3, 10, 11}
        /\ b \in Int /\ 0 <= b /\ b < 40 /\ b \notin {2, 3, 10, 11}
    OBVIOUS
  <2>2. packet[a] = source[i] /\ packet[b] = destination[i]
    BY <1>1 DEF HeaderFilled
  <2> HIDE DEF a, b
  <2>3. arrived[a] = source[i] /\ arrived[b] = destination[i]
    BY <1>2, <2>1, <2>2
  <2>4. QED  BY <2>3 DEF a, b
<1>5. arrived[20] = 4 /\ arrived[21] = 210 /\ arrived[22] = 21 /\ arrived[23] = 56
  <2>1. packet[20] = 4 /\ packet[21] = 210 /\ packet[22] = 21 /\ packet[23] = 56
    <3>1. IpSize = 20 /\ IpSize + 1 = 21 /\ IpSize + 2 = 22 /\ IpSize + 3 = 23
      BY DEF IpSize
    <3>2. QED  BY <1>1, <3>1 DEF PortsFilled
  <2>2. QED  BY <1>2, <2>1
<1>6. HeaderLength(arrived) = 20
  BY <1>3 DEF HeaderLength
<1>7. Bytes(arrived, 12, 4) = source
  <2>1. \A i \in 1..4 : 12 + i - 1 = 11 + i
    OBVIOUS
  <2>2. Bytes(arrived, 12, 4) = [i \in 1..4 |-> source[i]]
    BY <1>4, <2>1 DEF Bytes
  <2>3. QED  BY <2>2 DEF source
<1>8. Bytes(arrived, 16, 4) = destination
  <2>1. \A i \in 1..4 : 16 + i - 1 = 15 + i
    OBVIOUS
  <2>2. Bytes(arrived, 16, 4) = [i \in 1..4 |-> destination[i]]
    BY <1>4, <2>1 DEF Bytes
  <2>3. QED  BY <2>2 DEF destination
<1>9. htons(Word(arrived, 20)) = 1234 /\ htons(Word(arrived, 20 + 2)) = 5432
  <2>1. Word(arrived, 20) = 53764 /\ Word(arrived, 20 + 2) = 14357
    BY <1>5 DEF Word
  <2>2. htons(53764) = 1234 /\ htons(14357) = 5432
    BY DEF htons
  <2>3. QED  BY <2>1, <2>2
<1>10. print_packet(arrived) = Sent
  <2>1. print_packet(arrived) =
          [src |-> Bytes(arrived, 12, 4), dst |-> Bytes(arrived, 16, 4),
           sport |-> htons(Word(arrived, HeaderLength(arrived))),
           dport |-> htons(Word(arrived, HeaderLength(arrived) + 2))]
    BY <1>3 DEF print_packet
  <2>2. QED  BY <1>6, <1>7, <1>8, <1>9, <2>1 DEF Sent
<1>11. QED  BY <1>1, <1>10

(***************************************************************************)
(* An undamaged packet is printed as it was sent, and a receiver that sums *)
(* it up by the length in the packet accepts it if and only if the payload *)
(* leaves no padding.  Then the sum tells every damage of one byte; with a *)
(* padding as long as that of main()'s packet no such damage makes it      *)
(* verify.                                                                 *)
(***************************************************************************)
THEOREM DamageAlwaysDetectable == Spec => []DamageIsDetectable
<1>1. RawInv => DamageIsDetectable
  <2> SUFFICES ASSUME RawInv, stage = "printed" PROVE DamageIsDetectable
    BY DEF DamageIsDetectable
  <2> DEFINE len == packet_length - 20
             s == SegmentSum(OnWire, len)
             t == SegmentSum(arrived, len)
             pad == Padding
  <2>1. /\ data \in Payloads /\ packet \in [Buffer -> Byte] /\ HeaderFilled
        /\ TcpSummed /\ Padded
        /\ arrived \in [Wire -> Byte]
    BY DEF RawInv, ArrivedInv, Buffer, Wire
  <2>2. PICK k \in Int : /\ 20 <= k /\ k < packet_length
                         /\ \A i \in Wire \ {k} : arrived[i] = OnWire[i]
    <3>1. PICK k \in {IpSize} \cup {d.at : d \in Damage} :
            \A i \in Wire \ {k} : arrived[i] = OnWire[i]
      BY DEF RawInv, ArrivedInv, Wire
    <3>2. \A d \in Damage : d.at \in IpSize..(packet_length - 1)
      BY RawPacketAssumption
    <3>3. k \in Int /\ 20 <= k /\ k < packet_length
      <4>1. IpSize \in IpSize..(packet_length - 1)
        BY Sizes DEF IpSize
      <4>2. k \in IpSize..(packet_length - 1)
        BY <3>2, <4>1
      <4>3. QED  BY <4>2, Sizes DEF IpSize
    <3>4. QED  BY <3>1, <3>3
  <2>3. IsMemory(OnWire) /\ IsMemory(arrived) /\ OnWire \in [Wire -> Byte]
    BY <2>1, OnWireAt DEF IsMemory
  <2>4. IsLength(len) /\ len \in Int /\ 20 + len = packet_length
    BY TakenLengths, Sizes
  <2>5. SegmentLength(arrived) = len
    <3>1. \A i \in Wire : i < IpSize => arrived[i] = OnWire[i]
      BY <2>2 DEF Wire, IpSize
    <3>2. QED  BY <2>1, <3>1, ReceivedLength
  <2>6. Verified <=> Congruent(t, 0)
    <3>1. IsLength(SegmentLength(arrived))
      BY <2>4, <2>5
    <3>2. Verified <=> Congruent(SegmentSum(arrived, SegmentLength(arrived)), 0)
      BY <2>1, <3>1, VerifiedBySum
    <3>3. QED  BY <2>5, <3>2
  <2>7. s \in Int /\ t \in Int
    BY <2>3, <2>4, SumOfSegment
  <2>8. Congruent(s, 256 * pad)
    BY <2>1, SumOnWire
  <2>9. pad \in Int /\ 0 <= pad /\ pad <= 984
    BY <2>1, DataFits
  <2> DEFINE change == arrived[k] - OnWire[k]
  <2>10. /\ change \in Int /\ -255 <= change /\ change <= 255
         /\ arrived # OnWire => change # 0
    <3>1. k \in Wire
      BY <2>2, Sizes DEF Wire
    <3>2. arrived[k] \in Byte /\ OnWire[k] \in Byte
      BY <2>1, <2>3, <3>1
    <3>3. arrived # OnWire => arrived[k] # OnWire[k]
      BY <2>1, <2>2, <2>3
    <3> DEFINE x == arrived[k]
               y == OnWire[k]
    <3>4. x \in 0..255 /\ y \in 0..255 /\ (arrived # OnWire => x # y) /\ change = x - y
      BY <3>2, <3>3 DEF Byte
    <3> HIDE DEF x, y, change
    <3>5. QED  BY <3>4
  <2>11. PICK w \in {1, 256} : t = s + change * w
    <3>1. \A i \in Int : 12 <= i /\ i < 20 + len /\ i # k => OnWire[i] = arrived[i]
      BY <2>2, <2>4 DEF Wire
    <3>2. k < 20 + len
      BY <2>2, <2>4
    <3> HIDE DEF len
    <3>3. \E w \in {1, 256} :
            SegmentSum(arrived, len) = SegmentSum(OnWire, len) + (arrived[k] - OnWire[k]) * w
      BY <2>2, <2>3, <2>4, <3>1, <3>2, OtherByte
    <3>4. QED  BY <3>3
  <2>12. ASSUME Undamaged PROVE printed = Sent /\ (Verified <=> Padding = 0)
    <3>1. arrived = OnWire
      BY <2>12 DEF Undamaged
    <3>2. printed = Sent
      BY <3>1, PrintedAsSent
    <3>3. t = s
      BY <3>1
    <3> HIDE DEF s, t
    <3>4. Congruent(s, 0) <=> Padding = 0
      BY <2>1, <2>7, <2>8, OnlyWithoutPadding
    <3>5. QED  BY <2>6, <3>2, <3>3, <3>4
  <2> HIDE DEF s, t, pad, change
  <2>13. ASSUME Verified
         PROVE  /\ pad = 0 => change = 0
                /\ ~FarFromMultiple(pad)
    <3>1. PICK i \in Int : s = 256 * pad + 65535 * i
      BY <2>8 DEF Congruent
    <3>2. PICK j \in Int : t = 65535 * j
      BY <2>6, <2>13 DEF Congruent
    <3> DEFINE c == change * w
               n == j - i
               z == 256 * pad + c
    <3>3. c \in Int
      BY <2>10
    <3>4. t = s + c
      BY <2>11
    <3> HIDE DEF c
    <3>5. z = 0 + 65535 * n /\ n \in Int
      BY <2>7, <2>9, <3>1, <3>2, <3>3, <3>4
    <3> HIDE DEF z, n
    <3>6. Congruent(z, 0)
      BY <3>5 DEF Congruent
    <3>7. z \in Int
      BY <2>9, <3>3 DEF z
    <3>8. z = 256 * pad + change \/ z = 256 * pad + 256 * change
      <4>1. CASE w = 1
        BY <2>10, <4>1 DEF z, c
      <4>2. CASE w = 256
        BY <2>10, <4>2 DEF z, c
      <4>3. QED  BY <4>1, <4>2
    <3>9. pad \in Int /\ 0 <= pad /\ pad <= 984
      BY <2>9
    <3>10. change \in Int /\ -255 <= change /\ change <= 255
      BY <2>10
    <3>11. QED  BY <3>5, <3>6, <3>7, <3>8, <3>9, <3>10, WrongByPadding
  <2>14. Padding = 0 /\ ~Undamaged => ~Verified
    BY <2>10, <2>13 DEF Undamaged, pad
  <2>15. BeyondOneByte => ~Verified
    BY <2>13 DEF BeyondOneByte, FarFromMultiple, pad
  <2>16. QED  BY <2>12, <2>14, <2>15 DEF DamageIsDetectable
<1>2. QED  BY <1>1, RawCorrect, PTL
=============================================================================
