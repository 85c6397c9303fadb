-------------------------- MODULE PacketLifeProofs --------------------------
(***************************************************************************)
(* Theorems about the bytes of a packet, for every text, every host and    *)
(* every cut of a recv(): what the server's rewriting touches, what the    *)
(* tunnel keeps of a text, that a text ends inside its buffer, and that    *)
(* the bytes are those of the packet in module Packets.                    *)
(***************************************************************************)
EXTENDS PacketLife, ChecksumProofs, SequenceTheorems

Tunnel == 0..(TunnelSize - 1)
Plain == 0..(PlainSize - 1)
IsAddress(a) == a \in [1..4 -> Byte]

\* The places of both buffers.
LEMMA Places ==
  /\ TunnelSize = 174 /\ PlainSize = 168 /\ TextOf(GreSize) = 46 /\ TextOf(0) = 40
  /\ GreSize = 6 /\ IpAt("tunnel") = 6 /\ IpAt("plain") = 0
  /\ Tunnel \in SUBSET Int /\ \A i \in Int : i \in Tunnel <=> 0 <= i /\ i <= 173
  /\ Plain \in SUBSET Int /\ \A i \in Int : i \in Plain <=> 0 <= i /\ i <= 167
<1>1. TunnelSize = 174 /\ PlainSize = 168 /\ GreSize = 6
  BY DEF TunnelSize, PlainSize, GreSize, IpSize, TcpSize, MaxPayload
<1>2. TextOf(GreSize) = 46 /\ TextOf(0) = 40
  BY DEF TextOf, GreSize, IpSize, TcpSize
<1>3. IpAt("tunnel") = 6 /\ IpAt("plain") = 0
  BY DEF IpAt, GreSize
<1>4. Tunnel \in SUBSET Int /\ \A i \in Int : i \in Tunnel <=> 0 <= i /\ i <= 173
  BY <1>1 DEF Tunnel
<1>5. Plain \in SUBSET Int /\ \A i \in Int : i \in Plain <=> 0 <= i /\ i <= 167
  BY <1>1 DEF Plain
<1>6. QED  BY <1>1, <1>2, <1>3, <1>4, <1>5

\* Words that the program stores, and the byte of the key at a place.
LEMMA StoredWords ==
  /\ IsWord(0) /\ IsWord(htons(1)) /\ IsWord(htons(2048)) /\ IsWord(htons(17350))
  /\ \A i \in Nat : KeyAt(i) \in Byte
<1>1. IsWord(0) /\ IsWord(1) /\ IsWord(2048) /\ IsWord(17350)
  BY DEF IsWord
<1>2. IsWord(htons(1)) /\ IsWord(htons(2048)) /\ IsWord(htons(17350))
  BY <1>1, SwappedBytes
<1>3. ASSUME NEW i \in Nat
      PROVE  KeyAt(i) \in Byte
  <2>1. i % 4 = 0 \/ i % 4 = 1 \/ i % 4 = 2 \/ i % 4 = 3
    OBVIOUS
  <2>2. key[1] \in Byte /\ key[2] \in Byte /\ key[3] \in Byte /\ key[4] \in Byte
    BY DEF key, Byte
  <2>3. CASE i % 4 = 0
    BY <2>2, <2>3 DEF KeyAt
  <2>4. CASE i % 4 = 1
    BY <2>2, <2>4 DEF KeyAt
  <2>5. CASE i % 4 = 2
    BY <2>2, <2>5 DEF KeyAt
  <2>6. CASE i % 4 = 3
    BY <2>2, <2>6 DEF KeyAt
  <2>7. QED  BY <2>1, <2>3, <2>4, <2>5, <2>6
<1>4. QED  BY <1>1, <1>2, <1>3

\* An address, stored in the other order of its bytes.
LEMMA Swapped ==
  ASSUME NEW a, IsAddress(a)
  PROVE  /\ IsAddress(ntohl(a)) /\ ntohl(a) \in Seq(Byte) /\ Len(ntohl(a)) = 4
         /\ \A j \in 1..4 : ntohl(a)[j] = a[5 - j]
<1>1. a[1] \in Byte /\ a[2] \in Byte /\ a[3] \in Byte /\ a[4] \in Byte
  BY DEF IsAddress
<1> DEFINE b == ntohl(a)
<1>2. b = <<a[4], a[3], a[2], a[1]>>
  BY DEF ntohl
<1>3. b \in Seq(Byte) /\ Len(b) = 4
  BY <1>1, <1>2
<1>4. b[1] = a[4] /\ b[2] = a[3] /\ b[3] = a[2] /\ b[4] = a[1]
  BY <1>2
<1>5. b \in [1..4 -> Byte]
  BY <1>1, <1>2
<1> HIDE DEF b
<1>6. ASSUME NEW j \in 1..4
      PROVE  b[j] = a[5 - j]
  <2>1. CASE j = 1
    BY <1>4, <2>1
  <2>2. CASE j = 2
    BY <1>4, <2>2
  <2>3. CASE j = 3
    BY <1>4, <2>3
  <2>4. CASE j = 4
    BY <1>4, <2>4
  <2>5. QED  BY <2>1, <2>2, <2>3, <2>4
<1>7. QED  BY <1>3, <1>5, <1>6 DEF b, IsAddress

\* The address that is read at a place.
LEMMA AddrAt ==
  ASSUME NEW m, NEW at \in Int, \A i \in Int : at <= i /\ i <= at + 3 => m[i] \in Byte
  PROVE  IsAddress(Addr(m, at)) /\ \A j \in 1..4 : Addr(m, at)[j] = m[at + 4 - j]
<1> DEFINE b == Bytes(m, at, 4)
<1>1. b = [j \in 1..4 |-> m[at + j - 1]]
  BY DEF Bytes
<1>2. \A j \in 1..4 : m[at + j - 1] \in Byte
  OBVIOUS
<1>3. IsAddress(b)
  BY <1>1, <1>2 DEF IsAddress
<1>4. \A j \in 1..4 : b[5 - j] = m[at + 4 - j]
  <2> SUFFICES ASSUME NEW j \in 1..4 PROVE b[5 - j] = m[at + 4 - j]
    OBVIOUS
  <2>1. 5 - j \in 1..4 /\ at + (5 - j) - 1 = at + 4 - j
    OBVIOUS
  <2> HIDE DEF b
  <2>2. b[5 - j] = m[at + (5 - j) - 1]
    BY <1>1, <2>1
  <2>3. QED  BY <2>1, <2>2
<1>5. Addr(m, at) = ntohl(b)
  BY DEF Addr
<1> HIDE DEF b
<1>6. QED  BY <1>3, <1>4, <1>5, Swapped

\* What StoreAddr() writes.
LEMMA StoreAddrAt ==
  ASSUME NEW D \in SUBSET Int, NEW m \in [D -> Byte], NEW at \in Int, NEW a, IsAddress(a)
  PROVE  /\ StoreAddr(m, at, a) \in [D -> Byte]
         /\ \A i \in D : StoreAddr(m, at, a)[i] =
              IF at <= i /\ i <= at + 3 THEN a[4 - (i - at)] ELSE m[i]
<1> DEFINE b == ntohl(a)
           s == StoreAddr(m, at, a)
<1>1. b \in Seq(Byte) /\ Len(b) = 4 /\ \A j \in 1..4 : b[j] = a[5 - j]
  BY Swapped
<1>2. s = Stored(m, at, b)
  BY DEF StoreAddr
<1> HIDE DEF b, s
<1>3. s \in [D -> Byte]
  BY <1>1, <1>2, StoredAt
<1>4. \A i \in D : s[i] = IF i - at \in 0..(Len(b) - 1) THEN b[i - at + 1] ELSE m[i]
  BY <1>2 DEF Stored
<1>5. ASSUME NEW i \in D
      PROVE  s[i] = IF at <= i /\ i <= at + 3 THEN a[4 - (i - at)] ELSE m[i]
  <2>1. i \in Int
    OBVIOUS
  <2>2. CASE at <= i /\ i <= at + 3
    <3>1. i - at \in 0..(Len(b) - 1) /\ i - at + 1 \in 1..4 /\ 5 - (i - at + 1) = 4 - (i - at)
      BY <1>1, <2>1, <2>2
    <3>2. s[i] = b[i - at + 1]
      BY <1>4, <3>1
    <3>3. b[i - at + 1] = a[5 - (i - at + 1)]
      BY <1>1, <3>1
    <3>4. QED  BY <2>2, <3>1, <3>2, <3>3
  <2>3. CASE ~(at <= i /\ i <= at + 3)
    <3>1. ~(i - at \in 0..(Len(b) - 1))
      BY <1>1, <2>1, <2>3
    <3>2. QED  BY <1>4, <2>3, <3>1
  <2>4. QED  BY <2>2, <2>3
<1>6. QED  BY <1>3, <1>5 DEF s

\* Taking the checksum changes nothing but the checksum.
LEMMA SummedAt ==
  ASSUME NEW D \in SUBSET Int, NEW m \in [D -> Byte], NEW ip \in Int,
         \A i \in Int : ip <= i /\ i <= ip + 19 => i \in D
  PROVE  /\ Summed(m, ip) \in [D -> Byte]
         /\ \A i \in D : i # ip + 10 /\ i # ip + 11 => Summed(m, ip)[i] = m[i]
<1> DEFINE at == ip + IpSum
           blank == StoreWord(m, at, 0)
           sum == htons(cksum(blank, ip, IpSize))
<1>1. at \in Int /\ at = ip + 10 /\ at + 1 = ip + 11
  BY DEF IpSum
<1>2. /\ blank \in [D -> Byte]
      /\ \A i \in D : blank[i] = IF i = at THEN 0 % 256 ELSE IF i = at + 1 THEN 0 \div 256 ELSE m[i]
  BY <1>1, StoredWords, WordStoredAt
<1>3. Summed(m, ip) = StoreWord(blank, at, sum)
  BY DEF Summed
<1> HIDE DEF at, blank
<1>4. AreBytes(blank, ip, IpSize) /\ IsWord(IpSize)
  <2>1. IsWord(IpSize)
    BY DEF IsWord, IpSize
  <2>2. ASSUME NEW i \in 1..IpSize
        PROVE  blank[ip + i - 1] \in Byte
    <3>1. ip + i - 1 \in D
      BY DEF IpSize
    <3>2. QED  BY <1>2, <3>1
  <2>3. QED  BY <2>1, <2>2 DEF AreBytes
<1>5. IsWord(sum)
  BY <1>4, ChecksumTypes, SwappedBytes
<1> HIDE DEF sum
<1> DEFINE s == StoreWord(blank, at, sum)
<1>6. /\ s \in [D -> Byte]
      /\ \A i \in D : s[i] = IF i = at THEN sum % 256
                             ELSE IF i = at + 1 THEN sum \div 256 ELSE blank[i]
  BY <1>1, <1>2, <1>5, WordStoredAt
<1> HIDE DEF s
<1>7. \A i \in D : i # ip + 10 /\ i # ip + 11 => s[i] = m[i]
  BY <1>1, <1>2, <1>6
<1>8. QED  BY <1>3, <1>6, <1>7 DEF s

-----------------------------------------------------------------------------
(***************************************************************************)
(* The rewriting of a packet in place.                                     *)
(***************************************************************************)
LEMMA RewrittenAt ==
  ASSUME NEW m \in [Tunnel -> Byte], NEW src, IsAddress(src), NEW dst, IsAddress(dst)
  PROVE  /\ Rewritten(m, GreSize, src, dst) \in [Tunnel -> Byte]
         /\ \A i \in Tunnel :
              i < 16 \/ i > 25 => Rewritten(m, GreSize, src, dst)[i] = m[i]
         /\ \A i \in Tunnel :
              18 <= i /\ i <= 21 => Rewritten(m, GreSize, src, dst)[i] = src[22 - i]
         /\ \A i \in Tunnel :
              22 <= i /\ i <= 25 => Rewritten(m, GreSize, src, dst)[i] = dst[26 - i]
<1> DEFINE m1 == StoreAddr(m, 18, ntohl(src))
           m2 == StoreAddr(m1, 22, ntohl(dst))
           m3 == StoreWord(m2, 8, htons(Word(m, 8)))
           m4 == Summed(m3, 6)
           m5 == StoreAddr(m4, 18, src)
           m6 == StoreAddr(m5, 22, dst)
           m7 == StoreWord(m6, 8, Word(m, 8))
<1>1. Rewritten(m, GreSize, src, dst) = m7
  BY DEF Rewritten, GreSize, IpSrc, IpDst, IpLen
<1>2. Tunnel \in SUBSET Int /\ \A i \in Int : i \in Tunnel <=> 0 <= i /\ i <= 173
  BY Places
<1>3. IsAddress(ntohl(src)) /\ IsAddress(ntohl(dst))
  BY Swapped
<1>4. m[8] \in Byte /\ m[9] \in Byte
  BY <1>2
<1>5. /\ IsWord(Word(m, 8)) /\ Word(m, 8) % 256 = m[8] /\ Word(m, 8) \div 256 = m[9]
      /\ IsWord(htons(Word(m, 8)))
  <2>1. \A l \in Byte, h \in Byte :
          /\ l + 256 * h \in Nat /\ l + 256 * h <= 65535
          /\ (l + 256 * h) % 256 = l /\ (l + 256 * h) \div 256 = h
    BY DEF Byte
  <2>2. Word(m, 8) = m[8] + 256 * m[9]
    BY DEF Word
  <2>3. QED  BY <1>4, <2>1, <2>2, SwappedBytes DEF IsWord
<1>6. m1 \in [Tunnel -> Byte] /\ \A i \in Tunnel : i < 18 \/ i > 21 => m1[i] = m[i]
  BY <1>2, <1>3, StoreAddrAt
<1> HIDE DEF m1
<1>7. m2 \in [Tunnel -> Byte] /\ \A i \in Tunnel : i < 22 \/ i > 25 => m2[i] = m1[i]
  BY <1>2, <1>3, <1>6, StoreAddrAt
<1> HIDE DEF m2
<1>8. m3 \in [Tunnel -> Byte] /\ \A i \in Tunnel : i # 8 /\ i # 9 => m3[i] = m2[i]
  BY <1>2, <1>5, <1>7, WordStoredAt
<1> HIDE DEF m3
<1>9. m4 \in [Tunnel -> Byte] /\ \A i \in Tunnel : i # 16 /\ i # 17 => m4[i] = m3[i]
  <2>1. \A i \in Int : 6 <= i /\ i <= 6 + 19 => i \in Tunnel
    BY <1>2
  <2>2. m4 \in [Tunnel -> Byte] /\ \A i \in Tunnel : i # 6 + 10 /\ i # 6 + 11 => m4[i] = m3[i]
    BY <1>2, <1>8, <2>1, SummedAt
  <2> HIDE DEF m4
  <2>3. QED  BY <2>2
<1> HIDE DEF m4
<1>10. /\ m5 \in [Tunnel -> Byte]
       /\ \A i \in Tunnel : m5[i] = IF 18 <= i /\ i <= 18 + 3 THEN src[4 - (i - 18)] ELSE m4[i]
  BY <1>2, <1>9, StoreAddrAt
<1> HIDE DEF m5
<1>11. /\ m6 \in [Tunnel -> Byte]
       /\ \A i \in Tunnel : m6[i] = IF 22 <= i /\ i <= 22 + 3 THEN dst[4 - (i - 22)] ELSE m5[i]
  BY <1>2, <1>10, StoreAddrAt
<1> HIDE DEF m6
<1>12. /\ m7 \in [Tunnel -> Byte]
       /\ \A i \in Tunnel : m7[i] = IF i = 8 THEN m[8] ELSE IF i = 9 THEN m[9] ELSE m6[i]
  <2>1. /\ m7 \in [Tunnel -> Byte]
        /\ \A i \in Tunnel : m7[i] = IF i = 8 THEN Word(m, 8) % 256
                                     ELSE IF i = 8 + 1 THEN Word(m, 8) \div 256 ELSE m6[i]
    BY <1>2, <1>5, <1>11, WordStoredAt
  <2> HIDE DEF m7
  <2>2. QED  BY <1>5, <2>1
<1> HIDE DEF m7
<1>13. \A i \in Tunnel : i < 16 \/ i > 25 => m7[i] = m[i]
  BY <1>2, <1>6, <1>7, <1>8, <1>9, <1>10, <1>11, <1>12
<1>14. ASSUME NEW i \in Tunnel, 18 <= i, i <= 21
       PROVE  m7[i] = src[22 - i]
  <2>1. i \in Int /\ 4 - (i - 18) = 22 - i /\ i # 8 /\ i # 9 /\ ~(22 <= i)
    BY <1>2, <1>14
  <2>2. m7[i] = m6[i] /\ m6[i] = m5[i]
    BY <1>11, <1>12, <2>1
  <2>3. m5[i] = src[4 - (i - 18)]
    BY <1>10, <1>14, <2>1
  <2>4. QED  BY <2>1, <2>2, <2>3
<1>15. ASSUME NEW i \in Tunnel, 22 <= i, i <= 25
       PROVE  m7[i] = dst[26 - i]
  <2>1. i \in Int /\ 4 - (i - 22) = 26 - i /\ i # 8 /\ i # 9
    BY <1>2, <1>15
  <2>2. m7[i] = m6[i]
    BY <1>12, <2>1
  <2>3. m6[i] = dst[4 - (i - 22)]
    BY <1>11, <1>15, <2>1
  <2>4. QED  BY <2>1, <2>2, <2>3
<1>16. QED  BY <1>1, <1>12, <1>13, <1>14, <1>15

-----------------------------------------------------------------------------
(***************************************************************************)
(* Buffers that have been encrypted, decrypted or received.                *)
(***************************************************************************)
LEMMA EncryptedAt ==
  ASSUME NEW m, NEW n \in Nat, \A i \in 0..(n - 1) : m[i] \in Byte
  PROVE  /\ xor_encrypt_decrypt(m, n) \in [0..(n - 1) -> Byte]
         /\ \A i \in 0..(n - 1) : xor_encrypt_decrypt(m, n)[i] = BitXor(m[i], KeyAt(i))
<1>1. xor_encrypt_decrypt(m, n) = [i \in 0..(n - 1) |-> BitXor(m[i], KeyAt(i))]
  BY DEF xor_encrypt_decrypt
<1>2. \A i \in 0..(n - 1) : BitXor(m[i], KeyAt(i)) \in Byte
  <2> SUFFICES ASSUME NEW i \in 0..(n - 1) PROVE BitXor(m[i], KeyAt(i)) \in Byte
    OBVIOUS
  <2>1. i \in Nat
    OBVIOUS
  <2>2. m[i] \in Byte /\ KeyAt(i) \in Byte
    BY <2>1, StoredWords
  <2>3. QED  BY <2>2, BitXorAssumption
<1>3. QED  BY <1>1, <1>2

\* The first k bytes of m, received into a zeroed buffer of n bytes.
LEMMA FilledAt ==
  ASSUME NEW m, NEW k \in Nat, \A i \in 0..(k - 1) : m[i] \in Byte, NEW n \in Nat
  PROVE  /\ Filled(n, Bytes(m, 0, k)) \in [0..(n - 1) -> Byte]
         /\ \A i \in 0..(n - 1) :
              Filled(n, Bytes(m, 0, k))[i] = IF i < k THEN m[i] ELSE 0
<1> DEFINE D == 0..(n - 1)
           zeroes == Zeroed(n)
           b == Bytes(m, 0, k)
           f == Filled(n, b)
<1>1. zeroes \in [D -> Byte] /\ \A i \in D : zeroes[i] = 0
  BY DEF Zeroed, Byte
<1>2. b = [i \in 1..k |-> m[0 + i - 1]]
  BY DEF Bytes
<1>3. \A i \in 1..k : m[0 + i - 1] \in Byte
  OBVIOUS
<1>4. b \in Seq(Byte) /\ Len(b) = k /\ \A i \in 1..k : b[i] = m[0 + i - 1]
  <2> HIDE DEF b
  <2>1. QED  BY <1>2, <1>3
<1>5. f = Stored(zeroes, 0, b)
  BY DEF Filled
<1> HIDE DEF zeroes, b, f
<1>6. f \in [D -> Byte]
  BY <1>1, <1>4, <1>5, StoredAt
<1>7. \A i \in D : f[i] = IF i - 0 \in 0..(Len(b) - 1) THEN b[i - 0 + 1] ELSE zeroes[i]
  BY <1>1, <1>5 DEF Stored
<1>8. ASSUME NEW i \in D
      PROVE  f[i] = IF i < k THEN m[i] ELSE 0
  <2>1. i \in Int /\ 0 <= i
    OBVIOUS
  <2>2. CASE i < k
    <3>1. i - 0 \in 0..(Len(b) - 1) /\ i - 0 + 1 \in 1..k /\ 0 + (i - 0 + 1) - 1 = i
      BY <1>4, <2>1, <2>2
    <3>2. f[i] = b[i - 0 + 1]
      BY <1>7, <3>1
    <3>3. b[i - 0 + 1] = m[0 + (i - 0 + 1) - 1]
      BY <1>4, <3>1
    <3>4. QED  BY <2>2, <3>1, <3>2, <3>3
  <2>3. CASE ~(i < k)
    <3>1. ~(i - 0 \in 0..(Len(b) - 1))
      BY <1>4, <2>1, <2>3
    <3>2. QED  BY <1>1, <1>7, <2>3, <3>1
  <2>4. QED  BY <2>2, <2>3
<1>9. QED  BY <1>6, <1>8 DEF D, f, b

\* Where the text at an offset ends.
EndsAt(m, at, n) ==
  /\ n \in 0..TunnelSize
  /\ at + n \notin DOMAIN m \/ m[at + n] = 0
  /\ \A k \in 0..(n - 1) : at + k \in DOMAIN m /\ m[at + k] # 0

\* A text ends at one place only.
LEMMA TextIs ==
  ASSUME NEW m, NEW at \in Int, NEW n, EndsAt(m, at, n)
  PROVE  Text(m, at) = Bytes(m, at, n)
<1> DEFINE E == {l \in 0..TunnelSize : EndsAt(m, at, l)}
           len == CHOOSE l \in 0..TunnelSize :
                    /\ at + l \notin DOMAIN m \/ m[at + l] = 0
                    /\ \A k \in 0..(l - 1) : at + k \in DOMAIN m /\ m[at + k] # 0
<1>1. EndsAt(m, at, len)
  BY DEF EndsAt
<1> HIDE DEF len
<1>2. len \in Nat /\ n \in Nat
  BY <1>1, Places DEF EndsAt
<1>3. ~(len < n)
  <2> SUFFICES ASSUME len < n PROVE FALSE
    OBVIOUS
  <2>1. len \in 0..(n - 1)
    BY <1>2
  <2>2. QED  BY <1>1, <2>1 DEF EndsAt
<1>4. ~(n < len)
  <2> SUFFICES ASSUME n < len PROVE FALSE
    OBVIOUS
  <2>1. n \in 0..(len - 1)
    BY <1>2
  <2>2. QED  BY <1>1, <2>1 DEF EndsAt
<1>5. len = n
  BY <1>2, <1>3, <1>4
<1>6. Text(m, at) = Bytes(m, at, len)
  BY DEF Text, len
<1>7. QED  BY <1>5, <1>6

\* The text in a packet of the tunnel has an end.
LEMMA TextHasEnd ==
  ASSUME NEW m \in [Tunnel -> Byte]
  PROVE  \E n : n \in Nat /\ n <= 128 /\ EndsAt(m, TextOf(GreSize), n)
<1> DEFINE at == TextOf(GreSize)
           I == {n \in Nat : at + n \notin Tunnel \/ m[at + n] = 0}
<1>1. at = 46 /\ at \in Int /\ TunnelSize = 174 /\ \A i \in Int : i \in Tunnel <=> 0 <= i /\ i <= 173
  BY Places
<1> HIDE DEF at
<1>2. 128 \in I
  BY <1>1
<1>3. PICK n \in I : \A j \in I : n <= j
  BY <1>2, SmallestNumber
<1>4. n \in Nat /\ n <= 128 /\ (at + n \notin Tunnel \/ m[at + n] = 0)
  BY <1>2, <1>3
<1>5. ASSUME NEW k \in 0..(n - 1)
      PROVE  at + k \in Tunnel /\ m[at + k] # 0
  <2>1. k \in Nat /\ k < n
    BY <1>4
  <2>2. k \notin I
    BY <1>3, <1>4, <2>1
  <2>3. QED  BY <2>1, <2>2
<1>6. n \in 0..TunnelSize
  BY <1>1, <1>4
<1>7. DOMAIN m = Tunnel
  OBVIOUS
<1>8. EndsAt(m, at, n)
  BY <1>4, <1>5, <1>6, <1>7 DEF EndsAt
<1>9. QED  BY <1>4, <1>8 DEF at

\* Bytes that are read from a buffer are as many as are asked for.
LEMMA BytesOf ==
  ASSUME NEW m, NEW at \in Int, NEW n \in Nat, \A i \in 1..n : m[at + i - 1] \in Byte
  PROVE  /\ Bytes(m, at, n) \in Seq(Byte) /\ Len(Bytes(m, at, n)) = n
         /\ \A i \in 1..n : Bytes(m, at, n)[i] = m[at + i - 1]
<1> DEFINE b == Bytes(m, at, n)
<1>1. b = [i \in 1..n |-> m[at + i - 1]]
  BY DEF Bytes
<1> HIDE DEF b
<1>2. b \in Seq(Byte) /\ Len(b) = n /\ \A i \in 1..n : b[i] = m[at + i - 1]
  BY <1>1
<1>3. QED  BY <1>2 DEF b

\* A packet that is read through the tunnel: decrypted, and ended where the
\* encrypted bytes have a zero.
LEMMA TunnelRead ==
  ASSUME NEW m, NEW k \in Nat, \A i \in 0..(k - 1) : m[i] \in Byte, NEW n,
         EndsAt(Filled(TunnelSize, Bytes(m, 0, k)), TextOf(GreSize), n)
  PROVE  /\ n \in Nat /\ n <= 128
         /\ serv_rec_from_cli(Bytes(m, 0, k)) \in [Tunnel -> Byte]
         /\ \A i \in Tunnel : serv_rec_from_cli(Bytes(m, 0, k))[i] =
              IF i = 46 + Clamped(n) THEN 0
              ELSE BitXor(IF i < k THEN m[i] ELSE 0, KeyAt(i))
<1> DEFINE received == Filled(TunnelSize, Bytes(m, 0, k))
           out == serv_rec_from_cli(Bytes(m, 0, k))
           open == xor_encrypt_decrypt(received, TunnelSize)
<1>1. TunnelSize \in Nat /\ TextOf(GreSize) = 46 /\ TunnelSize = 174
  BY Places
<1>2. /\ received \in [Tunnel -> Byte]
      /\ \A i \in Tunnel : received[i] = IF i < k THEN m[i] ELSE 0
  <2>1. /\ received \in [0..(TunnelSize - 1) -> Byte]
        /\ \A i \in 0..(TunnelSize - 1) : received[i] = IF i < k THEN m[i] ELSE 0
    <3>1. TunnelSize \in Nat
      BY <1>1
    <3>2. QED  BY <3>1, FilledAt
  <2>2. QED  BY <2>1 DEF Tunnel
<1>3. EndsAt(received, 46, n)
  BY <1>1
<1>4. out = Stored(open, 46 + Clamped(Len(Text(received, 46))), <<0>>)
  BY <1>1 DEF serv_rec_from_cli
<1> HIDE DEF received, out
<1>5. n \in Nat /\ n <= 128
  <2>1. n \in 0..TunnelSize
    BY <1>3 DEF EndsAt
  <2>2. n \in Nat
    BY <1>1, <2>1
  <2>3. ASSUME n > 128 PROVE FALSE
    <3>1. 128 \in 0..(n - 1)
      BY <2>2, <2>3
    <3>2. 46 + 128 \in DOMAIN received
      BY <1>3, <3>1 DEF EndsAt
    <3>3. DOMAIN received = Tunnel
      BY <1>2
    <3>4. QED  BY <3>2, <3>3, Places
  <2>4. QED  BY <2>2, <2>3
<1>6. Len(Text(received, 46)) = n
  <2>1. Text(received, 46) = Bytes(received, 46, n)
    BY <1>3, TextIs
  <2>2. ASSUME NEW i \in 1..n
        PROVE  received[46 + i - 1] \in Byte
    <3>1. i - 1 \in 0..(n - 1) /\ 46 + (i - 1) = 46 + i - 1
      BY <1>5
    <3>2. 46 + (i - 1) \in DOMAIN received
      BY <1>3, <3>1 DEF EndsAt
    <3>3. QED  BY <1>2, <3>1, <3>2
  <2>3. QED  BY <1>5, <2>1, <2>2, BytesOf
<1>7. open \in [Tunnel -> Byte] /\ \A i \in Tunnel : open[i] = BitXor(received[i], KeyAt(i))
  <2>1. \A i \in 0..(TunnelSize - 1) : received[i] \in Byte
    BY <1>2 DEF Tunnel
  <2>2. TunnelSize \in Nat
    BY <1>1
  <2>3. /\ xor_encrypt_decrypt(received, TunnelSize) \in [0..(TunnelSize - 1) -> Byte]
        /\ \A i \in 0..(TunnelSize - 1) :
             xor_encrypt_decrypt(received, TunnelSize)[i] = BitXor(received[i], KeyAt(i))
    BY <2>1, <2>2, EncryptedAt
  <2>4. QED  BY <2>3 DEF Tunnel
<1> HIDE DEF open
<1>8. Clamped(n) \in Nat
  BY <1>5 DEF Clamped, MaxPayload
<1>9. 0 \in Byte
  BY DEF Byte
<1>10. out \in [Tunnel -> Byte] /\ \A i \in Tunnel : out[i] = IF i = 46 + Clamped(n) THEN 0 ELSE open[i]
  <2> DEFINE at == 46 + Clamped(n)
  <2>1. at \in Int /\ out = Stored(open, at, <<0>>)
    BY <1>4, <1>6, <1>8
  <2> HIDE DEF at
  <2>2. out \in [Tunnel -> Byte] /\ \A i \in Tunnel : out[i] = IF i = at THEN 0 ELSE open[i]
    BY <1>7, <1>9, <2>1, ByteStoredAt, Places
  <2>3. QED  BY <2>2 DEF at
<1>11. QED  BY <1>2, <1>5, <1>7, <1>10 DEF out

\* Whatever is read through the tunnel, its text ends in the buffer.
LEMMA TunnelReadEnds ==
  ASSUME NEW m, NEW k \in Nat, \A i \in 0..(k - 1) : m[i] \in Byte
  PROVE  /\ serv_rec_from_cli(Bytes(m, 0, k)) \in [Tunnel -> Byte]
         /\ \E i \in Tunnel : i >= 46 /\ serv_rec_from_cli(Bytes(m, 0, k))[i] = 0
<1> DEFINE received == Filled(TunnelSize, Bytes(m, 0, k))
           out == serv_rec_from_cli(Bytes(m, 0, k))
<1>1. received \in [Tunnel -> Byte]
  <2>1. TunnelSize \in Nat
    BY Places
  <2>2. received \in [0..(TunnelSize - 1) -> Byte]
    BY <2>1, FilledAt
  <2>3. QED  BY <2>2 DEF Tunnel
<1>2. PICK n : n \in Nat /\ n <= 128 /\ EndsAt(received, TextOf(GreSize), n)
  BY <1>1, TextHasEnd
<1>3. out \in [Tunnel -> Byte] /\ \A i \in Tunnel : i = 46 + Clamped(n) => out[i] = 0
  BY <1>2, TunnelRead
<1> HIDE DEF out
<1>4. Clamped(n) \in Nat /\ Clamped(n) <= 127
  BY <1>2 DEF Clamped, MaxPayload
<1>5. 46 + Clamped(n) \in Tunnel /\ 46 + Clamped(n) >= 46
  BY <1>4, Places
<1>6. QED  BY <1>3, <1>5 DEF out

\* What is read in clear ends with zeroes, unless it fills the buffer.
LEMMA ClearRead ==
  ASSUME NEW m, NEW k \in Nat, \A i \in 0..(k - 1) : m[i] \in Byte
  PROVE  /\ dest_rec_pkt(Bytes(m, 0, k)) \in [Plain -> Byte]
         /\ \A i \in Plain : dest_rec_pkt(Bytes(m, 0, k))[i] = IF i < k THEN m[i] ELSE 0
         /\ serv_rec_from_des(Bytes(m, 0, k)) \in [Tunnel -> Byte]
         /\ \A i \in Tunnel : serv_rec_from_des(Bytes(m, 0, k))[i] = IF i < k THEN m[i] ELSE 0
<1>1. PlainSize \in Nat /\ TunnelSize \in Nat
  BY Places
<1>2. QED  BY <1>1, FilledAt DEF dest_rec_pkt, serv_rec_from_des, Plain, Tunnel

-----------------------------------------------------------------------------
(***************************************************************************)
(* The packets that are created.                                           *)
(***************************************************************************)

\* The GRE header, before a buffer of zeroes.
LEMMA EncapsulatedAt ==
  /\ packet_encapsulate(Zeroed(TunnelSize)) \in [Tunnel -> Byte]
  /\ \A i \in Tunnel : i >= 6 => packet_encapsulate(Zeroed(TunnelSize))[i] = 0
<1> DEFINE m0 == Zeroed(TunnelSize)
           m1 == StoreWord(m0, 0, htons(1))
           m2 == StoreWord(m1, 2, htons(2048))
           set == StoreWord(m2, 4, 0)
           sum == htons(cksum(set, 0, GreSize))
           m4 == StoreWord(set, 4, sum)
<1>1. packet_encapsulate(m0) = m4
  BY DEF packet_encapsulate
<1>2. m0 \in [Tunnel -> Byte] /\ \A i \in Tunnel : m0[i] = 0
  BY DEF Zeroed, Tunnel, Byte
<1> HIDE DEF m0
<1>3. m1 \in [Tunnel -> Byte] /\ \A i \in Tunnel : i >= 6 => m1[i] = 0
  BY <1>2, Places, StoredWords, WordStoredAt
<1> HIDE DEF m1
<1>4. m2 \in [Tunnel -> Byte] /\ \A i \in Tunnel : i >= 6 => m2[i] = 0
  BY <1>3, Places, StoredWords, WordStoredAt
<1> HIDE DEF m2
<1>5. set \in [Tunnel -> Byte] /\ \A i \in Tunnel : i >= 6 => set[i] = 0
  BY <1>4, Places, StoredWords, WordStoredAt
<1> HIDE DEF set
<1>6. IsWord(sum)
  <2>1. IsWord(GreSize) /\ GreSize = 6
    BY DEF GreSize, IsWord
  <2>2. AreBytes(set, 0, GreSize)
    BY <1>5, <2>1, Places DEF AreBytes
  <2>3. QED  BY <2>1, <2>2, ChecksumTypes, SwappedBytes
<1> HIDE DEF sum
<1>7. m4 \in [Tunnel -> Byte] /\ \A i \in Tunnel : i >= 6 => m4[i] = 0
  BY <1>5, <1>6, Places, WordStoredAt
<1>8. QED  BY <1>1, <1>7 DEF m0

\* The IP header behind it.
LEMMA IpSetAt ==
  ASSUME NEW m \in [Tunnel -> Byte], NEW src, IsAddress(src), NEW dst, IsAddress(dst)
  PROVE  /\ set_ip(m, GreSize, dst, src, tcp, MaxPayload) \in [Tunnel -> Byte]
         /\ \A i \in Tunnel : i >= 26 => set_ip(m, GreSize, dst, src, tcp, MaxPayload)[i] = m[i]
         /\ set_ip(m, GreSize, dst, src, tcp, MaxPayload)[15] = 6
         /\ \A i \in Tunnel : 18 <= i /\ i <= 21 =>
              set_ip(m, GreSize, dst, src, tcp, MaxPayload)[i] = src[22 - i]
         /\ \A i \in Tunnel : 22 <= i /\ i <= 25 =>
              set_ip(m, GreSize, dst, src, tcp, MaxPayload)[i] = dst[26 - i]
<1> DEFINE m1 == Stored(m, 6, <<64>>)
           m2 == StoreWord(m1, 8, htons(148))
           m3 == Stored(m2, 15, <<6>>)
           m4 == StoreAddr(m3, 18, src)
           m5 == StoreAddr(m4, 22, dst)
           m6 == Summed(m5, 6)
<1>1. set_ip(m, GreSize, dst, src, tcp, MaxPayload) = m6
  BY DEF set_ip, GreSize, IpLen, IpSrc, IpDst, IpSize, MaxPayload, tcp
<1>2. Tunnel \in SUBSET Int /\ \A i \in Int : i \in Tunnel <=> 0 <= i /\ i <= 173
  BY Places
<1>3. 64 \in Byte /\ 6 \in Byte /\ IsWord(htons(148))
  <2>1. IsWord(148)
    BY DEF IsWord
  <2>2. QED  BY <2>1, SwappedBytes DEF Byte
<1>4. m1 \in [Tunnel -> Byte] /\ \A i \in Tunnel : i >= 26 => m1[i] = m[i]
  BY <1>2, <1>3, ByteStoredAt
<1> HIDE DEF m1
<1>5. m2 \in [Tunnel -> Byte] /\ \A i \in Tunnel : i >= 26 => m2[i] = m1[i]
  BY <1>2, <1>3, <1>4, WordStoredAt
<1> HIDE DEF m2
<1>6. m3 \in [Tunnel -> Byte] /\ m3[15] = 6 /\ \A i \in Tunnel : i >= 26 => m3[i] = m2[i]
  <2>1. m3 \in [Tunnel -> Byte] /\ \A i \in Tunnel : m3[i] = IF i = 15 THEN 6 ELSE m2[i]
    BY <1>2, <1>3, <1>5, ByteStoredAt
  <2> HIDE DEF m3
  <2>2. QED  BY <1>2, <2>1
<1> HIDE DEF m3
<1>7. /\ m4 \in [Tunnel -> Byte]
      /\ \A i \in Tunnel : m4[i] = IF 18 <= i /\ i <= 18 + 3 THEN src[4 - (i - 18)] ELSE m3[i]
  BY <1>2, <1>6, StoreAddrAt
<1> HIDE DEF m4
<1>8. /\ m5 \in [Tunnel -> Byte]
      /\ \A i \in Tunnel : m5[i] = IF 22 <= i /\ i <= 22 + 3 THEN dst[4 - (i - 22)] ELSE m4[i]
  BY <1>2, <1>7, StoreAddrAt
<1> HIDE DEF m5
<1>9. m6 \in [Tunnel -> Byte] /\ \A i \in Tunnel : i # 16 /\ i # 17 => m6[i] = m5[i]
  <2>1. \A i \in Int : 6 <= i /\ i <= 6 + 19 => i \in Tunnel
    BY <1>2
  <2>2. m6 \in [Tunnel -> Byte] /\ \A i \in Tunnel : i # 6 + 10 /\ i # 6 + 11 => m6[i] = m5[i]
    BY <1>2, <1>8, <2>1, SummedAt
  <2> HIDE DEF m6
  <2>3. QED  BY <1>2, <2>2
<1> HIDE DEF m6
<1>10. \A i \in Tunnel : i >= 26 => m6[i] = m[i]
  BY <1>2, <1>4, <1>5, <1>6, <1>7, <1>8, <1>9
<1>11. m6[15] = 6
  <2>1. 15 \in Tunnel
    BY <1>2
  <2>2. m6[15] = m5[15] /\ m5[15] = m4[15] /\ m4[15] = m3[15]
    BY <1>7, <1>8, <1>9, <2>1
  <2>3. QED  BY <1>6, <2>2
<1>12. ASSUME NEW i \in Tunnel, 18 <= i, i <= 21
       PROVE  m6[i] = src[22 - i]
  <2>1. i \in Int /\ 4 - (i - 18) = 22 - i /\ i # 16 /\ i # 17 /\ ~(22 <= i)
    BY <1>2, <1>12
  <2>2. m6[i] = m5[i] /\ m5[i] = m4[i]
    BY <1>8, <1>9, <2>1
  <2>3. m4[i] = src[4 - (i - 18)]
    BY <1>7, <1>12, <2>1
  <2>4. QED  BY <2>1, <2>2, <2>3
<1>13. ASSUME NEW i \in Tunnel, 22 <= i, i <= 25
       PROVE  m6[i] = dst[26 - i]
  <2>1. i \in Int /\ 4 - (i - 22) = 26 - i /\ i # 16 /\ i # 17
    BY <1>2, <1>13
  <2>2. m6[i] = m5[i]
    BY <1>9, <2>1
  <2>3. m5[i] = dst[4 - (i - 22)]
    BY <1>8, <1>13, <2>1
  <2>4. QED  BY <2>1, <2>2, <2>3
<1>14. QED  BY <1>1, <1>9, <1>10, <1>11, <1>12, <1>13

\* The words of a TCP header that are not zero, and their sum.
LEMMA TcpSum ==
  ASSUME NEW m \in [Tunnel -> Byte],
         m[26] = 67, m[27] = 198, m[28] = 67, m[29] = 198, m[39] = 2,
         \A i \in Int : 30 <= i /\ i <= 45 /\ i # 39 => m[i] = 0
  PROVE  htons(cksum(m, 26, TcpSize)) \div 256 = 120
<1>1. TcpSize = 20 /\ IsWord(20) /\ 20 \in Nat
  BY DEF TcpSize, IsWord
<1>2. AreBytes(m, 26, 20)
  BY Places DEF AreBytes
<1>3. PICK sum : /\ IsSum(sum, m, 26, 20, 256, 1)
                 /\ LET result == htons(65535 - Folded(Folded(sum[20])))
                    IN  cksum(m, 26, 20) = IF result = 0 THEN 65535 ELSE result
  BY <1>1, <1>2, CksumOfSum
<1>4. /\ sum[0] = 0
      /\ \A i \in 1..20 : sum[i] = sum[i - 1] + m[26 + i - 1] * (IF i % 2 = 1 THEN 256 ELSE 1)
  <2>1. sum = [i \in 0..20 |->
                IF i = 0 THEN 0
                ELSE sum[i - 1] + m[26 + i - 1] * (IF i % 2 = 1 THEN 256 ELSE 1)]
    BY <1>3 DEF IsSum
  <2>2. QED  BY <2>1
<1>5. sum[1] = 17152 /\ sum[2] = 17350 /\ sum[3] = 34502 /\ sum[4] = 34700
  <2>1. sum[1] = 0 + 67 * 256
    BY <1>4
  <2>2. sum[2] = sum[1] + 198 * 1
    BY <1>4
  <2>3. sum[3] = sum[2] + 67 * 256
    BY <1>4
  <2>4. sum[4] = sum[3] + 198 * 1
    BY <1>4
  <2>5. QED  BY <2>1, <2>2, <2>3, <2>4
<1>6. ASSUME NEW i \in 1..20, i > 4, i # 14, sum[i - 1] \in Nat
      PROVE  sum[i] = sum[i - 1]
  <2>1. 26 + i - 1 \in Int /\ 30 <= 26 + i - 1 /\ 26 + i - 1 <= 45 /\ 26 + i - 1 # 39
    BY <1>6
  <2>2. m[26 + i - 1] = 0
    BY <2>1
  <2>3. sum[i] = sum[i - 1] + 0 * (IF i % 2 = 1 THEN 256 ELSE 1)
    BY <1>4, <2>2
  <2>4. QED  BY <1>6, <2>3
<1>7. sum[13] = 34700
  <2>1. sum[5] = 34700
    BY <1>5, <1>6
  <2>2. sum[6] = 34700
    BY <1>6, <2>1
  <2>3. sum[7] = 34700
    BY <1>6, <2>2
  <2>4. sum[8] = 34700
    BY <1>6, <2>3
  <2>5. sum[9] = 34700
    BY <1>6, <2>4
  <2>6. sum[10] = 34700
    BY <1>6, <2>5
  <2>7. sum[11] = 34700
    BY <1>6, <2>6
  <2>8. sum[12] = 34700
    BY <1>6, <2>7
  <2>9. QED  BY <1>6, <2>8
<1>8. sum[14] = 34702
  <2>1. sum[14] = sum[13] + 2 * 1
    BY <1>4
  <2>2. QED  BY <1>7, <2>1
<1>9. sum[20] = 34702
  <2>1. sum[15] = 34702
    BY <1>6, <1>8
  <2>2. sum[16] = 34702
    BY <1>6, <2>1
  <2>3. sum[17] = 34702
    BY <1>6, <2>2
  <2>4. sum[18] = 34702
    BY <1>6, <2>3
  <2>5. sum[19] = 34702
    BY <1>6, <2>4
  <2>6. QED  BY <1>6, <2>5
<1>10. Folded(Folded(34702)) = 34702
  BY DEF Folded
<1>11. htons(30833) = 29048 /\ htons(29048) = 30833
  BY DEF htons
<1>12. htons(65535 - Folded(Folded(sum[20]))) = 29048
  <2>1. 65535 - Folded(Folded(sum[20])) = 30833
    BY <1>9, <1>10
  <2>2. QED  BY <1>11, <2>1
<1>13. cksum(m, 26, TcpSize) = 29048
  BY <1>1, <1>3, <1>12
<1>14. QED  BY <1>11, <1>13

\* The TCP header that is set where there are zeroes: with SYN alone, its sum
\* has a byte of the key at the place of that byte.
LEMMA TcpSetAt ==
  ASSUME NEW m \in [Tunnel -> Byte], \A i \in Tunnel : i >= 26 => m[i] = 0, NEW flags \in Byte
  PROVE  /\ set_tcp(m, GreSize + IpSize, flags) \in [Tunnel -> Byte]
         /\ \A i \in Tunnel : i >= 46 => set_tcp(m, GreSize + IpSize, flags)[i] = 0
         /\ flags = 2 => set_tcp(m, GreSize + IpSize, flags)[43] = 120
         /\ \A i \in Tunnel : i < 26 => set_tcp(m, GreSize + IpSize, flags)[i] = m[i]
         /\ set_tcp(m, GreSize + IpSize, flags)[27] = 198
         /\ set_tcp(m, GreSize + IpSize, flags)[31] = 0
         /\ set_tcp(m, GreSize + IpSize, flags)[40] = 0
<1> DEFINE port == htons(17350)
           m1 == StoreWord(m, 26, port)
           m2 == StoreWord(m1, 28, port)
           set == Stored(m2, 39, <<flags>>)
           sum == htons(cksum(set, 26, TcpSize))
           m4 == StoreWord(set, 42, sum)
<1>1. set_tcp(m, GreSize + IpSize, flags) = m4
  BY DEF set_tcp, GreSize, IpSize
<1>2. IsWord(port) /\ port % 256 = 67 /\ port \div 256 = 198
  <2>1. port = 50755
    BY DEF htons
  <2>2. QED  BY <2>1, StoredWords
<1>3. Tunnel \in SUBSET Int /\ \A i \in Int : i \in Tunnel <=> 0 <= i /\ i <= 173
  BY Places
<1> HIDE DEF port
<1>4. /\ m1 \in [Tunnel -> Byte]
      /\ \A i \in Tunnel : m1[i] = IF i = 26 THEN 67 ELSE IF i = 27 THEN 198 ELSE m[i]
  <2>1. /\ m1 \in [Tunnel -> Byte]
        /\ \A i \in Tunnel : m1[i] = IF i = 26 THEN port % 256
                                     ELSE IF i = 26 + 1 THEN port \div 256 ELSE m[i]
    BY <1>2, <1>3, WordStoredAt
  <2> HIDE DEF m1
  <2>2. QED  BY <1>2, <2>1
<1> HIDE DEF m1
<1>5. /\ m2 \in [Tunnel -> Byte]
      /\ \A i \in Tunnel : m2[i] = IF i = 28 THEN 67 ELSE IF i = 29 THEN 198 ELSE m1[i]
  <2>1. /\ m2 \in [Tunnel -> Byte]
        /\ \A i \in Tunnel : m2[i] = IF i = 28 THEN port % 256
                                     ELSE IF i = 28 + 1 THEN port \div 256 ELSE m1[i]
    BY <1>2, <1>3, <1>4, WordStoredAt
  <2> HIDE DEF m2
  <2>2. QED  BY <1>2, <2>1
<1> HIDE DEF m2
<1>6. /\ set \in [Tunnel -> Byte]
      /\ \A i \in Tunnel : set[i] = IF i = 39 THEN flags ELSE m2[i]
  BY <1>3, <1>5, ByteStoredAt
<1> HIDE DEF set
<1>7. IsWord(sum)
  <2>1. IsWord(TcpSize) /\ TcpSize = 20
    BY DEF TcpSize, IsWord
  <2>2. AreBytes(set, 26, TcpSize)
    BY <1>3, <1>6, <2>1 DEF AreBytes
  <2>3. QED  BY <2>1, <2>2, ChecksumTypes, SwappedBytes
<1>8. /\ m4 \in [Tunnel -> Byte]
      /\ \A i \in Tunnel : m4[i] = IF i = 42 THEN sum % 256
                                   ELSE IF i = 42 + 1 THEN sum \div 256 ELSE set[i]
  <2> HIDE DEF sum
  <2>1. QED  BY <1>3, <1>6, <1>7, WordStoredAt
<1>9. ASSUME NEW i \in Tunnel, i >= 46
      PROVE  m4[i] = 0
  <2> HIDE DEF sum, m4
  <2>1. i \in Int
    BY <1>3
  <2>2. m4[i] = set[i] /\ set[i] = m2[i] /\ m2[i] = m1[i] /\ m1[i] = m[i]
    BY <1>4, <1>5, <1>6, <1>8, <1>9, <2>1
  <2>3. m[i] = 0
    BY <1>9, <2>1
  <2>4. QED  BY <2>2, <2>3
<1>10. ASSUME flags = 2
       PROVE  m4[43] = 120
  <2> HIDE DEF m4
  <2>1. \A i \in Int : 26 <= i /\ i <= 45 => i \in Tunnel /\ m[i] = 0
    BY <1>3
  <2>2. set[26] = 67 /\ set[27] = 198 /\ set[28] = 67 /\ set[29] = 198 /\ set[39] = 2
    BY <1>4, <1>5, <1>6, <1>10, <2>1
  <2>3. \A i \in Int : 30 <= i /\ i <= 45 /\ i # 39 => set[i] = 0
    BY <1>4, <1>5, <1>6, <2>1
  <2>4. sum \div 256 = 120
    BY <1>6, <2>2, <2>3, TcpSum
  <2> HIDE DEF sum
  <2>5. 43 \in Tunnel /\ 42 + 1 = 43
    BY <1>3
  <2>6. QED  BY <1>8, <2>4, <2>5
<1>11. \A i \in Tunnel : i < 26 => m4[i] = m[i]
  <2> HIDE DEF sum, m4
  <2> SUFFICES ASSUME NEW i \in Tunnel, i < 26 PROVE m4[i] = m[i]
    OBVIOUS
  <2>1. i \in Int
    BY <1>3
  <2>2. m4[i] = set[i] /\ set[i] = m2[i] /\ m2[i] = m1[i] /\ m1[i] = m[i]
    BY <1>4, <1>5, <1>6, <1>8, <2>1
  <2>3. QED  BY <2>2
<1>12. m4[27] = 198 /\ m4[31] = 0 /\ m4[40] = 0
  <2> HIDE DEF sum, m4
  <2>1. /\ 27 \in Tunnel /\ 31 \in Tunnel /\ 40 \in Tunnel
        /\ m[31] = 0 /\ m[40] = 0
    BY <1>3
  <2>2. m4[27] = set[27] /\ set[27] = m2[27] /\ m2[27] = m1[27] /\ m1[27] = 198
    BY <1>4, <1>5, <1>6, <1>8, <2>1
  <2>3. m4[31] = set[31] /\ set[31] = m2[31] /\ m2[31] = m1[31] /\ m1[31] = m[31]
    BY <1>4, <1>5, <1>6, <1>8, <2>1
  <2>4. m4[40] = set[40] /\ set[40] = m2[40] /\ m2[40] = m1[40] /\ m1[40] = m[40]
    BY <1>4, <1>5, <1>6, <1>8, <2>1
  <2>5. QED  BY <2>1, <2>2, <2>3, <2>4
<1> HIDE DEF sum, m4
<1>13. QED  BY <1>1, <1>8, <1>9, <1>10, <1>11, <1>12

\* A packet before it is encrypted.
LEMMA CreatedInClear ==
  ASSUME NEW src, IsAddress(src), NEW dst, IsAddress(dst), NEW flags \in Byte,
         NEW text \in Seq(Byte), Len(text) <= MaxPayload
  PROVE  LET c == create_packets_des(src, dst, tcp, text, flags)
         IN  /\ c \in [Tunnel -> Byte]
             /\ flags = 2 => c[43] = 120
             /\ c[15] = 6 /\ c[27] = 198 /\ c[31] = 0 /\ c[40] = 0
             /\ \A i \in Tunnel : 18 <= i /\ i <= 21 => c[i] = src[22 - i]
             /\ \A i \in Tunnel : 22 <= i /\ i <= 25 => c[i] = dst[26 - i]
             /\ \A i \in Tunnel : i >= 46 =>
                  c[i] = IF i = 46 + Clamped(Len(text)) THEN 0
                         ELSE IF i - 46 < Len(text) THEN text[i - 45] ELSE 0
<1> DEFINE gre == packet_encapsulate(Zeroed(TunnelSize))
           ip == set_ip(gre, GreSize, dst, src, tcp, MaxPayload)
           headers == set_tcp(ip, GreSize + IpSize, flags)
           filled == Stored(headers, TextOf(GreSize), text)
           c == Stored(filled, TextOf(GreSize) + Clamped(Len(text)), <<0>>)
<1>1. create_packets_des(src, dst, tcp, text, flags) = c
  BY DEF create_packets_des
<1>2. gre \in [Tunnel -> Byte] /\ \A i \in Tunnel : i >= 6 => gre[i] = 0
  BY EncapsulatedAt
<1> HIDE DEF gre
<1>3. /\ ip \in [Tunnel -> Byte] /\ \A i \in Tunnel : i >= 26 => ip[i] = 0
      /\ ip[15] = 6
      /\ \A i \in Tunnel : 18 <= i /\ i <= 21 => ip[i] = src[22 - i]
      /\ \A i \in Tunnel : 22 <= i /\ i <= 25 => ip[i] = dst[26 - i]
  <2>1. /\ ip \in [Tunnel -> Byte] /\ \A i \in Tunnel : i >= 26 => ip[i] = gre[i]
        /\ ip[15] = 6
        /\ \A i \in Tunnel : 18 <= i /\ i <= 21 => ip[i] = src[22 - i]
        /\ \A i \in Tunnel : 22 <= i /\ i <= 25 => ip[i] = dst[26 - i]
    BY <1>2, IpSetAt
  <2> HIDE DEF ip
  <2>2. QED  BY <1>2, <2>1, Places
<1> HIDE DEF ip
<1>4. /\ headers \in [Tunnel -> Byte]
      /\ \A i \in Tunnel : i >= 46 => headers[i] = 0
      /\ flags = 2 => headers[43] = 120
      /\ \A i \in Tunnel : i < 26 => headers[i] = ip[i]
      /\ headers[27] = 198 /\ headers[31] = 0 /\ headers[40] = 0
  BY <1>3, TcpSetAt
<1> HIDE DEF headers
<1>5. /\ TextOf(GreSize) = 46 /\ Tunnel \in SUBSET Int
      /\ \A i \in Int : i \in Tunnel <=> 0 <= i /\ i <= 173
  BY Places
<1>6. Len(text) \in Nat /\ Len(text) <= 128
  BY DEF MaxPayload
<1> DEFINE len == Len(text)
           end == 46 + Clamped(len)
<1>7. end \in Int /\ 46 <= end /\ end <= 173 /\ 0 \in Byte
  BY <1>6 DEF Clamped, MaxPayload, Byte
<1>8. filled \in [Tunnel -> Byte]
  <2>1. filled = Stored(headers, 46, text)
    BY <1>5
  <2>2. headers \in [Tunnel -> Byte] /\ text \in Seq(Byte) /\ 46 \in Int
    BY <1>4
  <2> HIDE DEF filled
  <2>3. QED  BY <2>1, <2>2, StoredAt
<1>9. \A i \in Tunnel : filled[i] =
        IF i - 46 \in 0..(len - 1) THEN text[i - 46 + 1] ELSE headers[i]
  <2>1. DOMAIN headers = Tunnel /\ TextOf(GreSize) = 46
    BY <1>4, <1>5
  <2>2. QED  BY <2>1 DEF Stored
<1> HIDE DEF filled
<1>10. c \in [Tunnel -> Byte] /\ \A i \in Tunnel : c[i] = IF i = end THEN 0 ELSE filled[i]
  <2> HIDE DEF end, len
  <2>1. c = Stored(filled, end, <<0>>)
    BY <1>5 DEF end, len
  <2> HIDE DEF c
  <2>2. QED  BY <1>5, <1>7, <1>8, <2>1, ByteStoredAt
<1> HIDE DEF c, end
<1>11. ASSUME NEW i \in Tunnel, i >= 46
       PROVE  c[i] = IF i = end THEN 0 ELSE IF i - 46 < len THEN text[i - 45] ELSE 0
  <2>1. i \in Int /\ i - 46 + 1 = i - 45
    BY <1>5
  <2>2. i - 46 \in 0..(len - 1) <=> i - 46 < len
    BY <1>6, <1>11, <2>1
  <2>3. headers[i] = 0
    BY <1>4, <1>11
  <2> HIDE DEF len
  <2>4. QED  BY <1>9, <1>10, <2>1, <2>2, <2>3
<1>12. ASSUME flags = 2
       PROVE  c[43] = 120
  <2>1. 43 \in Tunnel /\ 43 # end /\ ~(43 - 46 \in 0..(len - 1))
    BY <1>5, <1>6, <1>7
  <2>2. c[43] = headers[43]
    BY <1>9, <1>10, <2>1
  <2>3. QED  BY <1>4, <1>12, <2>2
<1>13. ASSUME NEW i \in Tunnel, i < 46
       PROVE  c[i] = headers[i]
  <2>1. i \in Int /\ i # end /\ ~(i - 46 \in 0..(len - 1))
    BY <1>5, <1>6, <1>7, <1>13
  <2>2. QED  BY <1>9, <1>10, <2>1
<1>14. c[15] = 6 /\ c[27] = 198 /\ c[31] = 0 /\ c[40] = 0
  <2>1. 15 \in Tunnel /\ 27 \in Tunnel /\ 31 \in Tunnel /\ 40 \in Tunnel
    BY <1>5
  <2>2. /\ c[15] = headers[15] /\ c[27] = headers[27]
        /\ c[31] = headers[31] /\ c[40] = headers[40] /\ headers[15] = ip[15]
    BY <1>4, <1>13, <2>1
  <2>3. QED  BY <1>3, <1>4, <2>2
<1>15. \A i \in Tunnel : 18 <= i /\ i <= 21 => c[i] = src[22 - i]
  <2> SUFFICES ASSUME NEW i \in Tunnel, 18 <= i, i <= 21 PROVE c[i] = src[22 - i]
    OBVIOUS
  <2>1. i < 46 /\ i < 26
    BY <1>5
  <2>2. c[i] = headers[i] /\ headers[i] = ip[i]
    BY <1>4, <1>13, <2>1
  <2>3. QED  BY <1>3, <2>2
<1>16. \A i \in Tunnel : 22 <= i /\ i <= 25 => c[i] = dst[26 - i]
  <2> SUFFICES ASSUME NEW i \in Tunnel, 22 <= i, i <= 25 PROVE c[i] = dst[26 - i]
    OBVIOUS
  <2>1. i < 46 /\ i < 26
    BY <1>5
  <2>2. c[i] = headers[i] /\ headers[i] = ip[i]
    BY <1>4, <1>13, <2>1
  <2>3. QED  BY <1>3, <2>2
<1>17. QED  BY <1>1, <1>10, <1>11, <1>12, <1>14, <1>15, <1>16 DEF end, len

\* A text that a caller may pass.
IsText(text) == text \in Seq(Byte \ {0}) /\ Len(text) <= MaxPayload

\* Its bytes.
LEMMA TextBytes ==
  ASSUME NEW text, IsText(text)
  PROVE  /\ text \in Seq(Byte) /\ Len(text) \in Nat /\ Len(text) <= 128
         /\ \A j \in 1..Len(text) : text[j] \in Byte /\ text[j] # 0
         /\ Clamped(Len(text)) \in Nat /\ Clamped(Len(text)) <= Len(text)
         /\ Clamped(Len(text)) <= 127
<1>1. text \in Seq(Byte \ {0}) /\ Len(text) <= 128
  BY DEF IsText, MaxPayload
<1>2. Len(text) \in Nat /\ \A j \in 1..Len(text) : text[j] \in Byte /\ text[j] # 0
  BY <1>1
<1>3. text \in Seq(Byte)
  BY <1>1
<1>4. /\ Clamped(Len(text)) \in Nat /\ Clamped(Len(text)) <= Len(text)
      /\ Clamped(Len(text)) <= 127
  BY <1>1, <1>2 DEF Clamped, MaxPayload
<1>5. QED  BY <1>1, <1>2, <1>3, <1>4

\* A request: the text encrypted up to its end, which stays a zero.
LEMMA CreatedAt ==
  ASSUME NEW src, IsAddress(src), NEW dst, IsAddress(dst), NEW text, IsText(text)
  PROVE  LET q == create_packets(src, dst, tcp, text, 2)
             c == create_packets_des(src, dst, tcp, text, 2)
             end == 46 + Clamped(Len(text))
         IN  /\ q \in [Tunnel -> Byte] /\ q[43] = 0 /\ q[end] = 0
             /\ \A i \in Tunnel :
                  46 <= i /\ i < end => q[i] = BitXor(text[i - 45], KeyAt(i))
             /\ \A i \in Tunnel :
                  i # end => q[i] = BitXor(c[i], KeyAt(i))
<1> DEFINE c == create_packets_des(src, dst, tcp, text, 2)
           x == xor_encrypt_decrypt(c, TunnelSize)
           q == create_packets(src, dst, tcp, text, 2)
           end == 46 + Clamped(Len(text))
<1>1. /\ text \in Seq(Byte) /\ Len(text) \in Nat /\ Len(text) <= 128
      /\ Clamped(Len(text)) \in Nat /\ Clamped(Len(text)) <= Len(text)
      /\ Clamped(Len(text)) <= 127
  BY TextBytes
<1>2. /\ c \in [Tunnel -> Byte] /\ c[43] = 120
      /\ \A i \in Tunnel : i >= 46 =>
           c[i] = IF i = 46 + Clamped(Len(text)) THEN 0
                  ELSE IF i - 46 < Len(text) THEN text[i - 45] ELSE 0
  <2>1. 2 \in Byte /\ Len(text) <= MaxPayload
    BY <1>1 DEF Byte, MaxPayload
  <2>2. QED  BY <1>1, <2>1, CreatedInClear
<1> HIDE DEF c
<1>3. x \in [Tunnel -> Byte] /\ \A i \in Tunnel : x[i] = BitXor(c[i], KeyAt(i))
  <2>1. TunnelSize \in Nat
    BY Places
  <2>2. \A i \in 0..(TunnelSize - 1) : c[i] \in Byte
    BY <1>2 DEF Tunnel
  <2>3. /\ x \in [0..(TunnelSize - 1) -> Byte]
        /\ \A i \in 0..(TunnelSize - 1) : x[i] = BitXor(c[i], KeyAt(i))
    BY <2>1, <2>2, EncryptedAt
  <2>4. QED  BY <2>3 DEF Tunnel
<1>4. q = Stored(x, TextOf(GreSize) + Clamped(Len(text)), <<0>>)
  BY DEF create_packets, x, c
<1> HIDE DEF x, q
<1>5. q = Stored(x, end, <<0>>) /\ end \in Int /\ end \in Tunnel /\ end >= 46
  BY <1>1, <1>4, Places
<1> HIDE DEF end
<1>6. q \in [Tunnel -> Byte] /\ \A i \in Tunnel : q[i] = IF i = end THEN 0 ELSE x[i]
  <2>1. 0 \in Byte
    BY DEF Byte
  <2>2. QED  BY <1>3, <1>5, <2>1, Places, ByteStoredAt
<1>7. q[end] = 0
  BY <1>5, <1>6
<1>8. q[43] = 0
  <2>1. 43 \in Tunnel /\ 43 # end
    BY <1>5, Places
  <2>2. q[43] = BitXor(120, KeyAt(43))
    BY <1>2, <1>3, <1>6, <2>1
  <2>3. KeyAt(43) = 120 /\ 120 \in Byte
    BY DEF KeyAt, key, Byte
  <2>4. QED  BY <2>2, <2>3, BitXorAssumption
<1>9. ASSUME NEW i \in Tunnel, 46 <= i, i < end
      PROVE  q[i] = BitXor(text[i - 45], KeyAt(i))
  <2>1. i \in Int /\ i # end /\ i >= 46
    BY <1>9, <1>5, Places
  <2>2. i - 46 < Len(text) /\ i # 46 + Clamped(Len(text))
    BY <1>1, <1>9, <2>1 DEF end
  <2>3. c[i] = text[i - 45]
    BY <1>2, <2>1, <2>2
  <2>4. QED  BY <1>3, <1>6, <2>1, <2>3
<1>10. \A i \in Tunnel : i # end => q[i] = BitXor(c[i], KeyAt(i))
  BY <1>3, <1>6
<1>11. QED  BY <1>6, <1>7, <1>8, <1>9, <1>10 DEF q, end, c

\* The number of bytes of a packet does not overflow.
LEMMA PacketSize ==
  ASSUME NEW len \in Nat, len <= 128
  PROVE  get_packet_size(tcp, len) = len + 46
  BY DEF get_packet_size, tcp, TcpSize, GreSize, IpSize

\* What is left of a text: as much as comes before the first byte of the key.
LEMMA KeptIs ==
  ASSUME NEW text, IsText(text)
  PROVE  \E n \in Nat : /\ n <= Clamped(Len(text)) /\ Kept(text) = SubSeq(text, 1, n)
                        /\ \A j \in 1..n : text[j] # KeyAt(46 + j - 1)
                        /\ \/ n = Clamped(Len(text))
                           \/ n + 1 \in 1..Len(text) /\ text[n + 1] = KeyAt(46 + n)
<1> DEFINE hits == Collisions(text)
           last == Clamped(Len(text)) + 1
           ends == hits \cup {last}
           first == CHOOSE i \in ends : \A j \in ends : i <= j
<1>1. Len(text) \in Nat /\ Clamped(Len(text)) \in Nat /\ Clamped(Len(text)) <= Len(text)
  BY TextBytes
<1>2. \A i : i \in hits <=> i \in 1..Len(text) /\ text[i] = KeyAt(46 + i - 1)
  <2>1. DOMAIN text = 1..Len(text)
    BY DEF IsText
  <2>2. QED  BY <2>1, Places DEF Collisions
<1> HIDE DEF hits
<1>3. ends \in SUBSET Nat /\ ends # {}
  BY <1>1, <1>2
<1>4. \E i \in ends : \A j \in ends : i <= j
  BY <1>3, SmallestNumber
<1>5. first \in ends /\ \A j \in ends : first <= j
  BY <1>4
<1>6. Kept(text) = SubSeq(text, 1, first - 1)
  BY DEF Kept, hits
<1> HIDE DEF first
<1> DEFINE n == first - 1
<1>7. first \in Nat /\ first >= 1 /\ first <= last
  BY <1>1, <1>2, <1>3, <1>5
<1>8. n \in Nat /\ n <= Clamped(Len(text)) /\ n + 1 = first
  BY <1>1, <1>7
<1>9. ASSUME NEW j \in 1..n
      PROVE  text[j] # KeyAt(46 + j - 1)
  <2>1. j \in 1..Len(text) /\ ~(first <= j)
    BY <1>1, <1>8
  <2>2. j \notin hits
    BY <1>5, <2>1
  <2>3. QED  BY <1>2, <2>1, <2>2
<1>10. n = Clamped(Len(text)) \/ (n + 1 \in 1..Len(text) /\ text[n + 1] = KeyAt(46 + n))
  <2>1. CASE first = last
    BY <1>1, <2>1
  <2>2. CASE first \in hits
    <3>1. 46 + first - 1 = 46 + n
      BY <1>7
    <3>2. QED  BY <1>2, <1>8, <2>2, <3>1
  <2>3. QED  BY <1>5, <2>1, <2>2
<1>11. QED  BY <1>6, <1>8, <1>9, <1>10

\* A request that is read whole through the tunnel shows what is left of its text.
LEMMA RequestRead ==
  ASSUME NEW src, IsAddress(src), NEW dst, IsAddress(dst), NEW text, IsText(text)
  PROVE  Text(serv_rec_from_cli(Bytes(create_packets(src, dst, tcp, text, 2), 0,
                                      get_packet_size(tcp, Len(text)))), TextOf(GreSize))
           = Kept(text)
<1> DEFINE q == create_packets(src, dst, tcp, text, 2)
           k == get_packet_size(tcp, Len(text))
           clamped == Clamped(Len(text))
           end == 46 + clamped
           received == Filled(TunnelSize, Bytes(q, 0, k))
           out == serv_rec_from_cli(Bytes(q, 0, k))
<1>1. /\ text \in Seq(Byte) /\ Len(text) \in Nat /\ Len(text) <= 128
      /\ \A j \in 1..Len(text) : text[j] \in Byte /\ text[j] # 0
      /\ clamped \in Nat /\ clamped <= Len(text) /\ clamped <= 127
  BY TextBytes
<1>2. k = Len(text) + 46 /\ k \in Nat /\ k <= 174
  BY <1>1, PacketSize
<1>3. /\ q \in [Tunnel -> Byte] /\ q[end] = 0
      /\ \A i \in Tunnel : 46 <= i /\ i < end => q[i] = BitXor(text[i - 45], KeyAt(i))
  BY CreatedAt
<1>4. PICK n \in Nat : /\ n <= clamped /\ Kept(text) = SubSeq(text, 1, n)
                       /\ \A j \in 1..n : text[j] # KeyAt(46 + j - 1)
                       /\ \/ n = clamped
                          \/ n + 1 \in 1..Len(text) /\ text[n + 1] = KeyAt(46 + n)
  BY KeptIs
<1>5. Tunnel \in SUBSET Int /\ \A i \in Int : i \in Tunnel <=> 0 <= i /\ i <= 173
  BY Places
<1> HIDE DEF q, k, clamped
<1>6. \A i \in 0..(k - 1) : q[i] \in Byte
  BY <1>2, <1>3, <1>5
<1>7. received \in [Tunnel -> Byte] /\ \A i \in Tunnel : received[i] = IF i < k THEN q[i] ELSE 0
  <2>1. TunnelSize \in Nat
    BY Places
  <2>2. /\ received \in [0..(TunnelSize - 1) -> Byte]
        /\ \A i \in 0..(TunnelSize - 1) : received[i] = IF i < k THEN q[i] ELSE 0
    BY <1>2, <1>6, <2>1, FilledAt
  <2>3. QED  BY <2>2 DEF Tunnel
<1> HIDE DEF received
<1>8. ASSUME NEW j \in 0..(n - 1)
      PROVE  /\ 46 + j \in Tunnel /\ q[46 + j] = BitXor(text[j + 1], KeyAt(46 + j)) /\ 46 + j < k
             /\ text[j + 1] \in Byte /\ text[j + 1] # 0 /\ text[j + 1] # KeyAt(46 + j)
             /\ KeyAt(46 + j) \in Byte /\ j \in Nat
  <2>1. j \in Nat /\ j < n /\ j + 1 \in 1..n /\ j + 1 \in 1..Len(text)
    BY <1>1, <1>4
  <2>2. 46 + j \in Int /\ 46 <= 46 + j /\ 46 + j < end /\ 46 + j < k /\ 46 + j \in Tunnel
    BY <1>1, <1>2, <1>4, <1>5, <2>1
  <2>3. 46 + j - 45 = j + 1 /\ 46 + (j + 1) - 1 = 46 + j /\ 46 + j \in Nat
    BY <2>1
  <2>4. text[j + 1] # KeyAt(46 + j)
    BY <1>4, <2>1, <2>3
  <2>5. KeyAt(46 + j) \in Byte
    BY <2>3, StoredWords
  <2>6. q[46 + j] = BitXor(text[j + 1], KeyAt(46 + j))
    BY <1>3, <2>2, <2>3
  <2>7. QED  BY <1>1, <2>1, <2>2, <2>4, <2>5, <2>6
<1>9. EndsAt(received, 46, n)
  <2>1. n \in 0..TunnelSize
    BY <1>1, <1>4, Places
  <2>2. ASSUME NEW j \in 0..(n - 1)
        PROVE  46 + j \in DOMAIN received /\ received[46 + j] # 0
    <3>1. received[46 + j] = BitXor(text[j + 1], KeyAt(46 + j))
      BY <1>7, <1>8
    <3>2. BitXor(text[j + 1], KeyAt(46 + j)) # 0
      BY <1>8, BitXorAssumption
    <3>3. QED  BY <1>7, <1>8, <3>1, <3>2
  <2>3. received[46 + n] = 0
    <3>1. 46 + n \in Tunnel /\ 46 + n \in Nat
      BY <1>1, <1>4, <1>5
    <3>2. CASE n = clamped
      BY <1>3, <1>7, <3>1, <3>2
    <3>3. CASE n # clamped
      <4>1. n + 1 \in 1..Len(text) /\ text[n + 1] = KeyAt(46 + n) /\ n < clamped
        BY <1>1, <1>4, <3>3
      <4>2. 46 <= 46 + n /\ 46 + n < end /\ 46 + n - 45 = n + 1
        BY <1>1, <4>1
      <4>3. q[46 + n] = BitXor(text[n + 1], KeyAt(46 + n))
        BY <1>3, <3>1, <4>2
      <4>4. q[46 + n] = 0
        BY <1>1, <4>1, <4>3, BitXorAssumption
      <4>5. QED  BY <1>7, <3>1, <4>4
    <3>4. QED  BY <3>2, <3>3
  <2>4. QED  BY <2>1, <2>2, <2>3 DEF EndsAt
<1>10. /\ out \in [Tunnel -> Byte]
       /\ \A i \in Tunnel : out[i] =
            IF i = 46 + n THEN 0 ELSE BitXor(IF i < k THEN q[i] ELSE 0, KeyAt(i))
  <2>1. EndsAt(Filled(TunnelSize, Bytes(q, 0, k)), TextOf(GreSize), n)
    BY <1>9, Places DEF received
  <2>2. Clamped(n) = n
    BY <1>1, <1>4 DEF Clamped, MaxPayload
  <2>3. /\ out \in [Tunnel -> Byte]
        /\ \A i \in Tunnel : out[i] =
             IF i = 46 + Clamped(n) THEN 0 ELSE BitXor(IF i < k THEN q[i] ELSE 0, KeyAt(i))
    BY <1>2, <1>6, <2>1, TunnelRead
  <2>4. QED  BY <2>2, <2>3
<1> HIDE DEF out
<1>11. ASSUME NEW j \in 0..(n - 1)
       PROVE  out[46 + j] = text[j + 1]
  <2>1. 46 + j # 46 + n
    BY <1>8
  <2>2. out[46 + j] = BitXor(q[46 + j], KeyAt(46 + j))
    BY <1>8, <1>10, <2>1
  <2>3. out[46 + j] = BitXor(BitXor(text[j + 1], KeyAt(46 + j)), KeyAt(46 + j))
    BY <1>8, <2>2
  <2>4. QED  BY <1>8, <2>3, BitXorAssumption
<1>12. EndsAt(out, 46, n)
  <2>1. n \in 0..TunnelSize
    BY <1>1, <1>4, Places
  <2>2. 46 + n \in Tunnel
    BY <1>1, <1>4, <1>5
  <2>3. out[46 + n] = 0
    BY <1>10, <2>2
  <2>4. \A j \in 0..(n - 1) : 46 + j \in DOMAIN out /\ out[46 + j] # 0
    BY <1>8, <1>10, <1>11
  <2>5. QED  BY <2>1, <2>3, <2>4 DEF EndsAt
<1>13. Bytes(out, 46, n) = SubSeq(text, 1, n)
  <2> DEFINE b == Bytes(out, 46, n)
             s == SubSeq(text, 1, n)
  <2>1. \A i \in 1..n : i - 1 \in 0..(n - 1) /\ 46 + (i - 1) = 46 + i - 1 /\ i - 1 + 1 = i
    OBVIOUS
  <2>2. \A i \in 1..n : out[46 + i - 1] = text[i] /\ text[i] \in Byte
    <3> SUFFICES ASSUME NEW i \in 1..n PROVE out[46 + i - 1] = text[i] /\ text[i] \in Byte
      OBVIOUS
    <3>1. out[46 + (i - 1)] = text[i - 1 + 1] /\ text[i - 1 + 1] \in Byte
      BY <1>8, <1>11, <2>1
    <3>2. QED  BY <2>1, <3>1
  <2>3. b \in Seq(Byte) /\ Len(b) = n /\ \A i \in 1..n : b[i] = out[46 + i - 1]
    <3>1. 46 \in Int /\ \A i \in 1..n : out[46 + i - 1] \in Byte
      BY <2>2
    <3>2. QED  BY <3>1, BytesOf
  <2>4. s \in Seq(Byte) /\ Len(s) = n /\ \A i \in 1..n : s[i] = text[i]
    <3>1. 1 \in Int /\ n \in Int /\ \A i \in 1..n : text[i] \in Byte
      BY <2>2
    <3>2. /\ s \in Seq(Byte) /\ Len(s) = (IF 1 <= n THEN n - 1 + 1 ELSE 0)
          /\ \A i \in 1..(n - 1 + 1) : s[i] = text[1 + i - 1]
      BY <3>1, SubSeqProperties
    <3>3. n - 1 + 1 = n /\ (n = 0 \/ 1 <= n) /\ \A i \in 1..n : 1 + i - 1 = i
      OBVIOUS
    <3> HIDE DEF s
    <3>4. QED  BY <3>2, <3>3
  <2> HIDE DEF b, s
  <2>5. \A i \in 1..Len(b) : b[i] = s[i]
    BY <2>2, <2>3, <2>4
  <2>6. b = s
    BY <2>3, <2>4, <2>5, SeqEqual
  <2>7. QED  BY <2>6 DEF b, s
<1>14. Text(out, 46) = Bytes(out, 46, n)
  BY <1>12, TextIs
<1>15. Text(out, TextOf(GreSize)) = Kept(text)
  BY <1>4, <1>13, <1>14, Places
<1>16. QED  BY <1>15 DEF out, k, q

-----------------------------------------------------------------------------
(***************************************************************************)
(* The invariant.                                                          *)
(***************************************************************************)

\* The addresses and the text of a conversation.
LEMMA RouteFacts ==
  ASSUME route \in Routes
  PROVE  /\ route.client \in Host /\ route.server \in Host /\ route.dest \in Host
         /\ IsText(route.text)
         /\ \A a \in Host : IsAddress(a)
<1>1. RouteHosts \subseteq Host /\ \A t \in Texts \cup Probes : IsText(t)
  BY PacketLifeAssumption DEF IsText
<1>2. /\ route.client \in RouteHosts /\ route.server \in RouteHosts /\ route.dest \in RouteHosts
      /\ route.text \in Texts \cup Probes
  <2>1. CASE route \in {[client |-> c, server |-> s, dest |-> d, text |-> t] :
                          c \in RouteHosts, s \in RouteHosts, d \in RouteHosts, t \in Texts}
    BY <2>1
  <2>2. CASE route \in {[client |-> h, server |-> h, dest |-> h, text |-> t] :
                          h \in RouteHosts, t \in Probes}
    BY <2>2
  <2>3. QED  BY <2>1, <2>2 DEF Routes
<1>3. \A a \in Host : IsAddress(a)
  <2> SUFFICES ASSUME NEW k \in 1..7 PROVE IsAddress(<<10, 0, 0, k>>)
    BY DEF Host
  <2>1. 10 \in Byte /\ 0 \in Byte /\ k \in Byte
    BY DEF Byte
  <2>2. QED  BY <2>1 DEF IsAddress
<1>4. QED  BY <1>1, <1>2, <1>3

\* The packets of the conversation have the form that is asked for.
LEMMA Forms ==
  /\ \A src \in Host, dst \in Host :
       P!create_packets(src, dst) \in P!Packet /\ P!create_packets(src, dst).form = "tunnel"
  /\ \A src \in Host, dst \in P!Address :
       P!create_packets_des(src, dst) \in P!Packet /\ P!create_packets_des(src, dst).form = "plain"
  /\ \A p \in P!Packet, a \in P!Address :
       /\ P!serv_handle_pkt(p, a) \in P!Packet /\ P!serv_handle_pkt(p, a).form = "plain"
       /\ P!serv_handle_pkt_dest(p, a) \in P!Packet /\ P!serv_handle_pkt_dest(p, a).form = "tunnel"
  /\ \A p \in P!Packet : p.src \in P!Address
<1>1. \A src \in Host, dst \in Host :
        P!create_packets(src, dst) \in P!Packet /\ P!create_packets(src, dst).form = "tunnel"
  BY DEF P!create_packets, P!Packet, P!Form, P!Address, P!Body
<1>2. \A src \in Host, dst \in P!Address :
        P!create_packets_des(src, dst) \in P!Packet /\ P!create_packets_des(src, dst).form = "plain"
  BY DEF P!create_packets_des, P!Packet, P!Form, P!Address, P!Body
<1>3. ASSUME NEW p \in P!Packet, NEW a \in P!Address
      PROVE  /\ P!serv_handle_pkt(p, a) \in P!Packet /\ P!serv_handle_pkt(p, a).form = "plain"
             /\ P!serv_handle_pkt_dest(p, a) \in P!Packet
             /\ P!serv_handle_pkt_dest(p, a).form = "tunnel"
  BY DEF P!serv_handle_pkt, P!serv_handle_pkt_dest, P!Packet, P!Form
<1>4. \A p \in P!Packet : p.src \in P!Address
  BY DEF P!Packet
<1>5. QED  BY <1>1, <1>2, <1>3, <1>4

\* A packet that has been read has the form it was read in.
LEMMA ArrivedForm ==
  ASSUME pkt \in P!Packet, NEW f \in P!Form, NEW n, NEW end, NEW all
  PROVE  Arrived(f, n, end, all) \in P!Packet /\ Arrived(f, n, end, all).form = f
<1>1. NoHost \in P!Address /\ {"noise", "cut", "none"} \subseteq P!Body
  BY DEF P!Address, P!Body
<1>2. pkt.src \in P!Address /\ pkt.dst \in P!Address /\ pkt.body \in P!Body
  BY DEF P!Packet
<1>3. P!NothingReceived(f) \in P!Packet /\ P!NothingReceived(f).form = f
  BY <1>1 DEF P!NothingReceived, P!Packet
<1>4. ASSUME NEW k
      PROVE  P!Received(f, pkt, k) \in P!Packet /\ P!Received(f, pkt, k).form = f
  <2>1. CASE pkt.form # f
    BY <1>1, <2>1 DEF P!Received, P!Packet
  <2>2. CASE pkt.form = f
    <3> DEFINE src == IF k >= 1 THEN pkt.src ELSE NoHost
               dst == IF k >= 2 THEN pkt.dst ELSE NoHost
               body == IF k >= P!TextRead THEN pkt.body ELSE "cut"
    <3>1. src \in P!Address /\ dst \in P!Address /\ body \in P!Body
      BY <1>1, <1>2
    <3>2. P!Received(f, pkt, k) = [form |-> f, src |-> src, dst |-> dst, body |-> body]
      BY <2>2 DEF P!Received
    <3> HIDE DEF src, dst, body
    <3>3. QED  BY <3>1, <3>2 DEF P!Packet
  <2>3. QED  BY <2>1, <2>2
<1>5. QED  BY <1>3, <1>4 DEF Arrived

\* recv() returns at most what was sent.
LEMMA Reads ==
  ASSUME NEW all \in Nat, NEW n \in ReadSizes(all)
  PROVE  n \in Nat /\ n <= all
  BY PacketLifeAssumption DEF ReadSizes

\* The text of a packet in the tunnel is no longer than its buffer, nor than
\* what comes before a zero.
LEMMA TextLength ==
  ASSUME NEW m \in [Tunnel -> Byte]
  PROVE  /\ Len(Text(m, TextOf(GreSize))) \in Nat /\ Len(Text(m, TextOf(GreSize))) <= 128
         /\ \A z \in Nat : 46 + z \in Tunnel /\ m[46 + z] = 0 =>
                             Len(Text(m, TextOf(GreSize))) <= z
<1>1. PICK n : n \in Nat /\ n <= 128 /\ EndsAt(m, TextOf(GreSize), n)
  BY TextHasEnd
<1>2. EndsAt(m, 46, n) /\ TextOf(GreSize) = 46
  BY <1>1, Places
<1>3. Text(m, 46) = Bytes(m, 46, n)
  BY <1>2, TextIs
<1>4. \A j \in 0..(n - 1) : 46 + j \in Tunnel /\ m[46 + j] # 0
  BY <1>2 DEF EndsAt
<1>5. ASSUME NEW i \in 1..n
      PROVE  m[46 + i - 1] \in Byte
  <2>1. i - 1 \in 0..(n - 1) /\ 46 + (i - 1) = 46 + i - 1
    BY <1>1
  <2>2. 46 + (i - 1) \in Tunnel
    BY <1>4, <2>1
  <2>3. QED  BY <2>1, <2>2
<1>6. Len(Text(m, 46)) = n
  BY <1>1, <1>3, <1>5, BytesOf
<1>7. ASSUME NEW z \in Nat, 46 + z \in Tunnel, m[46 + z] = 0
      PROVE  n <= z
  <2> SUFFICES ASSUME z < n PROVE FALSE
    BY <1>1
  <2>1. z \in 0..(n - 1)
    BY <1>1
  <2>2. QED  BY <1>4, <1>7, <2>1
<1>8. QED  BY <1>1, <1>2, <1>6, <1>7

\* What MemoryInv says of each stage.
LEMMA Memory ==
  ASSUME MemoryInv
  PROVE  /\ stage \notin InClear \cup {"misread"} => mem \in [Tunnel -> Byte]
         /\ stage \in InClear => mem \in [Plain -> Byte]
  BY DEF MemoryInv, Tunnel, Plain

\* A text's end, said of the next state.
LEMMA EndsNext ==
  /\ pkt'.form = "tunnel" /\ mem' \in [Tunnel -> Byte]
       /\ (\E i \in Tunnel : i >= 46 /\ mem'[i] = 0) => TextsEnd'
  /\ pkt'.form = "plain" /\ mem' \in [Plain -> Byte]
       /\ (\E i \in Plain : i >= 40 /\ mem'[i] = 0) => TextsEnd'
  /\ pkt'.form = "plain" /\ mem' \in [Tunnel -> Byte]
       /\ (\E i \in Tunnel : i >= 40 /\ mem'[i] = 0) => TextsEnd'
<1>1. TextOf(IpAt("tunnel")) = 46 /\ TextOf(IpAt("plain")) = 40
  BY DEF TextOf, IpAt, GreSize, IpSize, TcpSize
<1>2. QED  BY <1>1 DEF TextsEnd

\* The client makes its request.
LEMMA MakeRequestKeeps ==
  ASSUME LifeInv, MakeRequest
  PROVE  LifeInv'
<1> DEFINE q == create_packets(route.client, route.dest, tcp, route.text, 2)
           end == 46 + Clamped(Len(route.text))
<1>1. /\ stage = "start" /\ stage' = "request" /\ route \in Routes
      /\ mem' = q /\ pkt' = P!create_packets(route.client, route.dest)
      /\ UNCHANGED <<route, client_ip>>
  BY DEF MakeRequest, LifeInv
<1>2. /\ route.client \in Host /\ route.dest \in Host /\ IsText(route.text)
      /\ IsAddress(route.client) /\ IsAddress(route.dest)
  BY <1>1, RouteFacts
<1>3. q \in [Tunnel -> Byte] /\ q[end] = 0
  BY <1>2, CreatedAt
<1>4. end \in Tunnel /\ end >= 46
  <2>1. Clamped(Len(route.text)) \in Nat /\ Clamped(Len(route.text)) <= 127
    BY <1>2, TextBytes
  <2>2. QED  BY <2>1, Places
<1>5. pkt' \in P!Packet /\ pkt'.form = "tunnel"
  BY <1>1, <1>2, Forms
<1>6. (mem = q)'
  BY <1>1
<1> HIDE DEF q, end
<1>7. FormInv'
  BY <1>1, <1>5 DEF FormInv, OutOfTunnel, InClear, P!Packet, P!Form, P!Address, P!Body
<1>8. MemoryInv'
  BY <1>1, <1>3 DEF MemoryInv, InClear, Tunnel
<1>9. TextsEnd'
  BY <1>1, <1>3, <1>4, <1>5, EndsNext
<1>10. ZeroesInv' /\ TunnelKeepsPrefix'
  BY <1>1 DEF ZeroesInv, TunnelKeepsPrefix
<1>11. stage' \notin InClear \cup {"returned", "wrapped"}
  BY <1>1 DEF InClear
<1>12. (route \in Routes)'
  BY <1>1 DEF Routes
<1>13. QED  BY <1>1, <1>6, <1>7, <1>8, <1>9, <1>10, <1>11, <1>12 DEF LifeInv, q

\* The server receives it, whole or cut.
LEMMA ServerReceivesKeeps ==
  ASSUME LifeInv, ServerReceives
  PROVE  LifeInv'
<1>1. /\ stage = "request" /\ route \in Routes /\ UNCHANGED <<route, client_ip>>
      /\ MemoryInv /\ FormInv
      /\ mem = create_packets(route.client, route.dest, tcp, route.text, 2)
  BY DEF LifeInv, ServerReceives
<1> DEFINE all == get_packet_size(tcp, Len(route.text))
<1>2. PICK n \in ReadSizes(all) :
        /\ mem' = serv_rec_from_cli(Bytes(mem, 0, n))
        /\ pkt' = Arrived("tunnel", n, all, all)
        /\ stage' = IF n = all THEN "arrived" ELSE "cut"
  BY DEF ServerReceives
<1>3. IsAddress(route.client) /\ IsAddress(route.dest) /\ IsText(route.text)
  BY <1>1, RouteFacts
<1>4. all \in Nat /\ all <= 174
  BY <1>3, TextBytes, PacketSize
<1> HIDE DEF all
<1>5. n \in Nat /\ n <= all
  BY <1>4, Reads
<1>6. mem \in [Tunnel -> Byte] /\ \A i \in 0..(n - 1) : mem[i] \in Byte
  <2>1. mem \in [Tunnel -> Byte]
    BY <1>1, Memory DEF InClear
  <2>2. QED  BY <1>4, <1>5, <2>1, Places
<1>7. mem' \in [Tunnel -> Byte] /\ \E i \in Tunnel : i >= 46 /\ mem'[i] = 0
  BY <1>2, <1>5, <1>6, TunnelReadEnds
<1>8. pkt' \in P!Packet /\ pkt'.form = "tunnel"
  <2>1. pkt \in P!Packet /\ "tunnel" \in P!Form
    BY <1>1 DEF FormInv, P!Form
  <2>2. QED  BY <1>2, <2>1, ArrivedForm
<1>9. stage' \in {"arrived", "cut"}
  BY <1>2
<1>10. FormInv'
  BY <1>8, <1>9 DEF FormInv, OutOfTunnel, InClear, P!Packet, P!Form, P!Address, P!Body
<1>11. MemoryInv'
  BY <1>7, <1>9 DEF MemoryInv, InClear, Tunnel
<1>12. TextsEnd'
  BY <1>7, <1>8, EndsNext
<1>13. ZeroesInv'
  BY <1>9 DEF ZeroesInv
<1>14. TunnelKeepsPrefix'
  <2> SUFFICES ASSUME stage' = "arrived" PROVE Shown.text' = Kept(route.text)
    BY <1>1 DEF TunnelKeepsPrefix
  <2>1. n = all
    BY <1>2
  <2>2. Text(mem', TextOf(GreSize)) = Kept(route.text)
    BY <1>1, <1>2, <1>3, <2>1, RequestRead DEF all
  <2>3. Shown.text' = Text(mem', TextOf(GreSize))
    BY <1>8 DEF Shown, print_packet, Printed
  <2>4. QED  BY <2>2, <2>3
<1>15. /\ stage' \notin InClear \cup {"returned", "wrapped"}
       /\ stage' # "request"
  BY <1>9 DEF InClear
<1>16. (route \in Routes)'
  BY <1>1 DEF Routes
<1>17. QED  BY <1>10, <1>11, <1>12, <1>13, <1>14, <1>15, <1>16 DEF LifeInv

\* What serv_handle_pkt() leaves as it was.
LEMMA ServHandlePktAt ==
  ASSUME NEW m \in [Tunnel -> Byte], NEW a, IsAddress(a)
  PROVE  /\ serv_handle_pkt(m, a) \in [Plain -> Byte]
         /\ \A i \in Plain : i < 10 \/ i = 16 \/ i = 17 \/ i = 18 \/ i = 19 \/ i > 19 =>
              serv_handle_pkt(m, a)[i] = m[i + 6]
         /\ \A i \in Plain : 12 <= i /\ i <= 15 => serv_handle_pkt(m, a)[i] = a[16 - i]
<1> DEFINE dst == Addr(m, 22)
           r == Rewritten(m, GreSize, a, dst)
           out == serv_handle_pkt(m, a)
<1>1. IsAddress(dst) /\ \A j \in 1..4 : dst[j] = m[22 + 4 - j]
  <2>1. \A i \in Int : 22 <= i /\ i <= 22 + 3 => m[i] \in Byte
    BY Places
  <2>2. QED  BY <2>1, AddrAt
<1>2. out = packet_decapsulate(r)
  BY DEF serv_handle_pkt, GreSize, IpDst
<1> HIDE DEF dst
<1>3. /\ r \in [Tunnel -> Byte]
      /\ \A i \in Tunnel : i < 16 \/ i > 25 => r[i] = m[i]
      /\ \A i \in Tunnel : 18 <= i /\ i <= 21 => r[i] = a[22 - i]
      /\ \A i \in Tunnel : 22 <= i /\ i <= 25 => r[i] = dst[26 - i]
  BY <1>1, RewrittenAt
<1> HIDE DEF r, out
<1>4. \A i \in Tunnel : 22 <= i /\ i <= 25 => r[i] = m[i]
  <2> SUFFICES ASSUME NEW i \in Tunnel, 22 <= i, i <= 25 PROVE r[i] = m[i]
    OBVIOUS
  <2>1. i \in Int
    BY Places
  <2>2. 26 - i \in 1..4 /\ 22 + 4 - (26 - i) = i
    BY <2>1
  <2>3. dst[26 - i] = m[22 + 4 - (26 - i)]
    BY <1>1, <2>2
  <2>4. QED  BY <1>3, <2>2, <2>3
<1>5. \A i \in Plain : i \in Int /\ i + 6 \in Tunnel
  BY Places
<1>6. out = [i \in Plain |-> r[i + 6]]
  BY <1>2 DEF packet_decapsulate, Plain, GreSize
<1>7. out \in [Plain -> Byte]
  BY <1>3, <1>5, <1>6
<1>8. ASSUME NEW i \in Plain, i < 10 \/ i = 16 \/ i = 17 \/ i = 18 \/ i = 19 \/ i > 19
      PROVE  out[i] = m[i + 6]
  <2>1. out[i] = r[i + 6] /\ i + 6 \in Tunnel /\ i \in Int
    BY <1>5, <1>6
  <2>2. i + 6 < 16 \/ i + 6 > 25 \/ (22 <= i + 6 /\ i + 6 <= 25)
    BY <1>8, <2>1
  <2>3. QED  BY <1>3, <1>4, <2>1, <2>2
<1>9. ASSUME NEW i \in Plain, 12 <= i, i <= 15
      PROVE  out[i] = a[16 - i]
  <2>1. out[i] = r[i + 6] /\ i + 6 \in Tunnel /\ i \in Int
    BY <1>5, <1>6
  <2>2. 18 <= i + 6 /\ i + 6 <= 21 /\ 22 - (i + 6) = 16 - i
    BY <1>9, <2>1
  <2>3. r[i + 6] = a[22 - (i + 6)]
    BY <1>3, <2>1, <2>2
  <2>4. QED  BY <2>1, <2>2, <2>3
<1>10. QED  BY <1>7, <1>8, <1>9 DEF out

\* The server takes it out of the tunnel and puts its own address into it.
LEMMA ServerRewritesKeeps ==
  ASSUME LifeInv, ServerRewrites
  PROVE  LifeInv'
<1>1. /\ stage \in {"arrived", "cut"} /\ stage' = "proxied" /\ route \in Routes
      /\ client_ip' = save_client_ip(mem) /\ mem' = serv_handle_pkt(mem, route.server)
      /\ pkt' = P!serv_handle_pkt(pkt, route.server) /\ UNCHANGED route
      /\ MemoryInv /\ FormInv /\ TextsEnd
  BY DEF LifeInv, ServerRewrites
<1>2. mem \in [Tunnel -> Byte] /\ pkt \in P!Packet /\ pkt.form = "tunnel"
  BY <1>1, Memory DEF InClear, FormInv, OutOfTunnel
<1>3. IsAddress(route.server) /\ route.server \in P!Address
  BY <1>1, RouteFacts DEF P!Address
<1>4. /\ mem' \in [Plain -> Byte]
      /\ \A i \in Plain : i > 19 => mem'[i] = mem[i + 6]
  BY <1>1, <1>2, <1>3, ServHandlePktAt
<1>5. PICK z \in Tunnel : z >= 46 /\ mem[z] = 0
  <2>1. TextOf(IpAt("tunnel")) = 46
    BY DEF TextOf, IpAt, GreSize, IpSize, TcpSize
  <2>2. QED  BY <1>1, <1>2, <2>1 DEF TextsEnd
<1>6. \E i \in Plain : i >= 40 /\ mem'[i] = 0
  <2>1. z - 6 \in Plain /\ z - 6 >= 40 /\ z - 6 > 19 /\ z - 6 + 6 = z
    BY <1>5, Places
  <2>2. mem'[z - 6] = 0
    BY <1>4, <1>5, <2>1
  <2>3. QED  BY <2>1, <2>2
<1>7. pkt' \in P!Packet /\ pkt'.form = "plain"
  BY <1>1, <1>2, <1>3, Forms
<1>8. IsAddress(client_ip')
  <2>1. \A i \in Int : 18 <= i /\ i <= 18 + 3 => mem[i] \in Byte
    BY <1>2, Places
  <2>2. client_ip' = Addr(mem, 18)
    BY <1>1 DEF save_client_ip, GreSize, IpSrc
  <2>3. QED  BY <2>1, <2>2, AddrAt
<1>9. FormInv'
  BY <1>1, <1>7 DEF FormInv, OutOfTunnel, InClear, P!Packet, P!Form, P!Address, P!Body
<1>10. MemoryInv'
  BY <1>1, <1>4 DEF MemoryInv, InClear, Plain
<1>11. TextsEnd'
  BY <1>4, <1>6, <1>7, EndsNext
<1>12. ZeroesInv' /\ TunnelKeepsPrefix'
  BY <1>1 DEF ZeroesInv, TunnelKeepsPrefix
<1>13. (route \in Routes)'
  BY <1>1 DEF Routes
<1>14. QED  BY <1>1, <1>8, <1>9, <1>10, <1>11, <1>12, <1>13 DEF LifeInv, IsAddress

\* A destination receives what a server sends.
LEMMA DestinationReceivesKeeps ==
  ASSUME LifeInv, DestinationReceives
  PROVE  LifeInv'
<1>1. /\ stage = "proxied" /\ stage' = "delivered" /\ route \in Routes
      /\ UNCHANGED <<route, client_ip>> /\ MemoryInv /\ FormInv /\ TextsEnd
      /\ client_ip \in [1..4 -> Byte]
  BY DEF LifeInv, DestinationReceives, InClear
<1>2. PICK n \in ReadSizes(PlainSize) :
        /\ mem' = dest_rec_pkt(Bytes(mem, 0, n))
        /\ pkt' = Arrived("plain", n, TextOf(0) + Len(route.text), PlainSize)
  BY DEF DestinationReceives
<1>3. n \in Nat /\ n <= 168
  <2>1. PlainSize \in Nat /\ PlainSize = 168
    BY Places
  <2>2. QED  BY <2>1, Reads
<1>4. mem \in [Plain -> Byte] /\ pkt \in P!Packet /\ pkt.form = "plain"
  BY <1>1, Memory DEF InClear, FormInv, OutOfTunnel
<1>5. \A i \in 0..(n - 1) : mem[i] \in Byte
  BY <1>3, <1>4, Places
<1>6. /\ mem' \in [Plain -> Byte]
      /\ \A i \in Plain : mem'[i] = IF i < n THEN mem[i] ELSE 0
  BY <1>2, <1>3, <1>5, ClearRead
<1>7. \E i \in Plain : i >= 40 /\ mem'[i] = 0
  <2>1. PICK z \in Plain : z >= 40 /\ mem[z] = 0
    <3>1. TextOf(IpAt("plain")) = 40
      BY DEF TextOf, IpAt, GreSize, IpSize, TcpSize
    <3>2. QED  BY <1>1, <1>4, <3>1 DEF TextsEnd
  <2>2. QED  BY <1>6, <2>1
<1>8. pkt' \in P!Packet /\ pkt'.form = "plain"
  <2>1. "plain" \in P!Form
    BY DEF P!Form
  <2>2. QED  BY <1>2, <1>4, <2>1, ArrivedForm
<1>9. FormInv'
  BY <1>1, <1>8 DEF FormInv, OutOfTunnel, InClear, P!Packet, P!Form, P!Address, P!Body
<1>10. MemoryInv'
  BY <1>1, <1>6 DEF MemoryInv, InClear, Plain
<1>11. TextsEnd'
  BY <1>6, <1>7, <1>8, EndsNext
<1>12. ZeroesInv' /\ TunnelKeepsPrefix'
  BY <1>1 DEF ZeroesInv, TunnelKeepsPrefix
<1>13. (route \in Routes)' /\ (client_ip \in [1..4 -> Byte])'
  BY <1>1 DEF Routes
<1>14. QED  BY <1>1, <1>9, <1>10, <1>11, <1>12, <1>13 DEF LifeInv

\* The text of the response.
LEMMA HelloIs == Hello \in Seq(Byte) /\ Len(Hello) = 26
<1>1. /\ 32 \in Byte /\ 33 \in Byte /\ 72 \in Byte /\ 100 \in Byte /\ 101 \in Byte
      /\ 102 \in Byte /\ 104 \in Byte /\ 105 \in Byte /\ 108 \in Byte /\ 109 \in Byte
      /\ 111 \in Byte /\ 114 \in Byte /\ 115 \in Byte /\ 116 \in Byte
  BY DEF Byte
<1>2. Len(Hello) = 26
  BY DEF Hello
<1>3. Hello \in Seq(Byte)
  <2>1. \A i \in 1..26 : Hello[i] \in Byte
    BY <1>1 DEF Hello
  <2>2. Hello \in [1..26 -> Byte]
    BY <2>1 DEF Hello
  <2>3. QED  BY <2>2, SeqDef, 26 \in Nat
<1>4. QED  BY <1>2, <1>3

\* The destination answers.
LEMMA MakeResponseKeeps ==
  ASSUME LifeInv, MakeResponse
  PROVE  LifeInv'
<1> DEFINE to == Addr(mem, IpSrc)
           c == create_packets_des(route.dest, to, tcp, Hello, 22)
<1>1. /\ stage = "delivered" /\ stage' = "response" /\ route \in Routes
      /\ UNCHANGED <<route, client_ip>> /\ MemoryInv /\ FormInv
      /\ client_ip \in [1..4 -> Byte]
      /\ mem' = packet_decapsulate(c) /\ pkt' = P!create_packets_des(route.dest, pkt.src)
  BY DEF LifeInv, MakeResponse, InClear
<1>2. mem \in [Plain -> Byte] /\ pkt \in P!Packet
  BY <1>1, Memory DEF InClear, FormInv
<1>3. IsAddress(to)
  <2>1. \A i \in Int : 12 <= i /\ i <= 12 + 3 => mem[i] \in Byte
    BY <1>2, Places
  <2>2. to = Addr(mem, 12)
    BY DEF IpSrc
  <2>3. QED  BY <2>1, <2>2, AddrAt
<1>4. route.dest \in Host /\ IsAddress(route.dest)
  BY <1>1, RouteFacts
<1>5. /\ c \in [Tunnel -> Byte]
      /\ \A i \in Tunnel : i = 46 + Clamped(Len(Hello)) => c[i] = 0
  <2>1. 22 \in Byte /\ Len(Hello) <= MaxPayload
    BY HelloIs DEF Byte, MaxPayload
  <2> HIDE DEF to
  <2>2. /\ c \in [Tunnel -> Byte]
        /\ \A i \in Tunnel : i >= 46 =>
             c[i] = IF i = 46 + Clamped(Len(Hello)) THEN 0
                    ELSE IF i - 46 < Len(Hello) THEN Hello[i - 45] ELSE 0
    <3> DEFINE flags == 22
    <3>1. flags \in Byte
      BY <2>1
    <3> HIDE DEF flags
    <3>2. Hello \in Seq(Byte)
      BY HelloIs
    <3>3. Len(Hello) <= MaxPayload
      BY <2>1
    <3> DEFINE d == create_packets_des(route.dest, to, tcp, Hello, flags)
    <3>4. /\ d \in [Tunnel -> Byte]
          /\ \A i \in Tunnel : i >= 46 =>
               d[i] = IF i = 46 + Clamped(Len(Hello)) THEN 0
                      ELSE IF i - 46 < Len(Hello) THEN Hello[i - 45] ELSE 0
      BY <1>3, <1>4, <3>1, <3>2, <3>3, CreatedInClear
    <3>5. c = d
      BY DEF flags
    <3> HIDE DEF c, d
    <3>6. QED  BY <3>4, <3>5
  <2> HIDE DEF c
  <2>3. 46 + Clamped(Len(Hello)) >= 46
    BY HelloIs DEF Clamped, MaxPayload
  <2>4. QED  BY <2>2, <2>3
<1>6. Clamped(Len(Hello)) = 26
  BY HelloIs DEF Clamped, MaxPayload
<1> HIDE DEF c
<1>7. mem' = [i \in Plain |-> c[i + 6]] /\ \A i \in Plain : i + 6 \in Tunnel
  BY <1>1, Places DEF packet_decapsulate, Plain, GreSize
<1>8. mem' \in [Plain -> Byte]
  BY <1>5, <1>7
<1>9. \E i \in Plain : i >= 40 /\ mem'[i] = 0
  <2>1. 66 \in Plain /\ 66 + 6 = 46 + 26 /\ 66 >= 40
    BY Places
  <2>2. mem'[66] = c[66 + 6] /\ 66 + 6 \in Tunnel
    BY <1>7, <2>1
  <2>3. mem'[66] = 0
    BY <1>5, <1>6, <2>1, <2>2
  <2>4. QED  BY <2>1, <2>3
<1>10. pkt' \in P!Packet /\ pkt'.form = "plain"
  BY <1>1, <1>2, <1>4, Forms
<1>11. FormInv'
  BY <1>1, <1>10 DEF FormInv, OutOfTunnel, InClear, P!Packet, P!Form, P!Address, P!Body
<1>12. MemoryInv'
  BY <1>1, <1>8 DEF MemoryInv, InClear, Plain
<1>13. TextsEnd'
  BY <1>8, <1>9, <1>10, EndsNext
<1>14. ZeroesInv' /\ TunnelKeepsPrefix'
  BY <1>1 DEF ZeroesInv, TunnelKeepsPrefix
<1>15. (route \in Routes)' /\ (client_ip \in [1..4 -> Byte])'
  BY <1>1 DEF Routes
<1>16. QED  BY <1>1, <1>11, <1>12, <1>13, <1>14, <1>15 DEF LifeInv

\* The server receives the response, shorter than its buffer.
LEMMA ServerReceivesResponseKeeps ==
  ASSUME LifeInv, ServerReceivesResponse
  PROVE  LifeInv'
<1> DEFINE all == get_packet_size(tcp, Len(Hello))
<1>1. /\ stage = "response" /\ stage' = "returned" /\ route \in Routes
      /\ UNCHANGED <<route, client_ip>> /\ MemoryInv /\ FormInv
      /\ client_ip \in [1..4 -> Byte]
  BY DEF LifeInv, ServerReceivesResponse, InClear
<1>2. PICK n \in ReadSizes(all) :
        /\ mem' = serv_rec_from_des(Bytes(mem, 0, n))
        /\ pkt' = Arrived("plain", n, TextOf(0) + Len(Hello), all)
  BY DEF ServerReceivesResponse
<1>3. all = 72 /\ all \in Nat
  BY HelloIs, PacketSize
<1> HIDE DEF all
<1>4. n \in Nat /\ n <= 72
  BY <1>3, Reads
<1>5. mem \in [Plain -> Byte] /\ pkt \in P!Packet
  BY <1>1, Memory DEF InClear, FormInv
<1>6. \A i \in 0..(n - 1) : mem[i] \in Byte
  BY <1>4, <1>5, Places
<1>7. /\ mem' \in [Tunnel -> Byte]
      /\ \A i \in Tunnel : mem'[i] = IF i < n THEN mem[i] ELSE 0
  BY <1>2, <1>4, <1>6, ClearRead
<1>8. \A i \in Tunnel : i >= 72 => mem'[i] = 0
  BY <1>4, <1>7, Places
<1>9. \E i \in Tunnel : i >= 40 /\ mem'[i] = 0
  <2>1. 72 \in Tunnel /\ 72 >= 40 /\ 72 >= 72
    BY Places
  <2>2. QED  BY <1>8, <2>1
<1>10. pkt' \in P!Packet /\ pkt'.form = "plain"
  <2>1. "plain" \in P!Form
    BY DEF P!Form
  <2>2. QED  BY <1>2, <1>5, <2>1, ArrivedForm
<1>11. FormInv'
  BY <1>1, <1>10 DEF FormInv, OutOfTunnel, InClear, P!Packet, P!Form, P!Address, P!Body
<1>12. MemoryInv'
  BY <1>1, <1>7 DEF MemoryInv, InClear, Tunnel
<1>13. TextsEnd'
  BY <1>7, <1>9, <1>10, EndsNext
<1>14. ZeroesInv'
  <2>1. ASSUME NEW i \in (TextOf(GreSize) + Len(Hello))..(TunnelSize - 1)
        PROVE  mem'[i] = 0
    <3>1. i \in Int /\ i >= 72 /\ i <= 173
      BY HelloIs, Places
    <3>2. i \in Tunnel
      BY <3>1, Places
    <3>3. QED  BY <1>8, <3>1, <3>2
  <2>2. QED  BY <1>1, <2>1 DEF ZeroesInv
<1>15. TunnelKeepsPrefix'
  BY <1>1 DEF TunnelKeepsPrefix
<1>16. (route \in Routes)' /\ (client_ip \in [1..4 -> Byte])'
  BY <1>1 DEF Routes
<1>17. stage' # "request"
  BY <1>1
<1>18. QED  BY <1>11, <1>12, <1>13, <1>14, <1>15, <1>16, <1>17 DEF LifeInv

\* What wrapping and serv_handle_pkt_dest() leave as it was.
LEMMA WrapAt ==
  ASSUME NEW m, \A i \in Plain : m[i] \in Byte, NEW a, IsAddress(a)
  PROVE  /\ serv_handle_pkt_dest(Wrapped(m), a) \in [Tunnel -> Byte]
         /\ \A i \in Plain :
              i < 10 \/ (12 <= i /\ i <= 15) \/ i > 19 =>
                serv_handle_pkt_dest(Wrapped(m), a)[i + 6] = m[i]
         /\ \A i \in Tunnel :
              22 <= i /\ i <= 25 => serv_handle_pkt_dest(Wrapped(m), a)[i] = a[26 - i]
<1> DEFINE gre == packet_encapsulate(Zeroed(TunnelSize))
           b == Bytes(m, 0, PlainSize)
           w == Wrapped(m)
           src == Addr(w, 18)
           r == Rewritten(w, GreSize, src, a)
<1>1. w = Stored(gre, 6, b)
  BY DEF Wrapped, GreSize
<1>2. serv_handle_pkt_dest(w, a) = r
  BY DEF serv_handle_pkt_dest, GreSize, IpSrc
<1>3. PlainSize = 168 /\ PlainSize \in Nat
  BY Places
<1>4. b \in Seq(Byte) /\ Len(b) = 168 /\ \A i \in 1..168 : b[i] = m[i - 1]
  <2>1. ASSUME NEW i \in 1..PlainSize
        PROVE  m[0 + i - 1] \in Byte /\ 0 + i - 1 = i - 1
    <3>1. 0 + i - 1 = i - 1 /\ i - 1 \in Int /\ 0 <= i - 1 /\ i - 1 <= 167
      BY <1>3
    <3>2. i - 1 \in Plain
      BY <3>1, Places
    <3>3. QED  BY <3>1, <3>2
  <2>2. /\ b \in Seq(Byte) /\ Len(b) = PlainSize
        /\ \A i \in 1..PlainSize : b[i] = m[0 + i - 1]
    <3> DEFINE at == 0
    <3>1. at \in Int /\ \A i \in 1..PlainSize : m[at + i - 1] \in Byte
      BY <2>1
    <3> HIDE DEF at
    <3>2. /\ Bytes(m, at, PlainSize) \in Seq(Byte) /\ Len(Bytes(m, at, PlainSize)) = PlainSize
          /\ \A i \in 1..PlainSize : Bytes(m, at, PlainSize)[i] = m[at + i - 1]
      <4>1. PlainSize \in Nat
        BY <1>3
      <4>2. QED  BY <3>1, <4>1, BytesOf
    <3>3. QED  BY <3>2 DEF at
  <2> HIDE DEF b
  <2>3. QED  BY <1>3, <2>1, <2>2
<1>5. gre \in [Tunnel -> Byte]
  BY EncapsulatedAt
<1> HIDE DEF gre, b, w
<1>6. w \in [Tunnel -> Byte]
  <2>1. b \in Seq(Byte) /\ 6 \in Int
    BY <1>4
  <2>2. QED  BY <1>1, <1>5, <2>1, StoredAt
<1>7. \A i \in Tunnel : w[i] = IF i - 6 \in 0..(Len(b) - 1) THEN b[i - 6 + 1] ELSE gre[i]
  BY <1>1, <1>5 DEF Stored
<1>8. ASSUME NEW i \in Plain
      PROVE  i + 6 \in Tunnel /\ w[i + 6] = m[i] /\ i \in Int /\ 0 <= i /\ i <= 167
  <2>1. i \in Int /\ 0 <= i /\ i <= 167 /\ i + 6 \in Tunnel
    BY Places
  <2>2. i + 6 - 6 \in 0..(Len(b) - 1) /\ i + 6 - 6 + 1 = i + 1 /\ i + 1 \in 1..168 /\ i + 1 - 1 = i
    BY <1>4, <2>1
  <2>3. w[i + 6] = b[i + 1]
    BY <1>7, <2>1, <2>2
  <2>4. b[i + 1] = m[i]
    <3> DEFINE j == i + 1
    <3>1. j \in 1..168 /\ j - 1 = i
      BY <2>2
    <3> HIDE DEF j
    <3>2. b[j] = m[j - 1]
      BY <1>4, <3>1
    <3>3. QED  BY <3>1, <3>2 DEF j
  <2>5. QED  BY <2>1, <2>3, <2>4
<1>9. IsAddress(src) /\ \A j \in 1..4 : src[j] = w[18 + 4 - j]
  <2>1. \A i \in Int : 18 <= i /\ i <= 18 + 3 => w[i] \in Byte
    BY <1>6, Places
  <2>2. QED  BY <2>1, AddrAt
<1> HIDE DEF src
<1>10. /\ r \in [Tunnel -> Byte]
       /\ \A i \in Tunnel : i < 16 \/ i > 25 => r[i] = w[i]
       /\ \A i \in Tunnel : 18 <= i /\ i <= 21 => r[i] = src[22 - i]
       /\ \A i \in Tunnel : 22 <= i /\ i <= 25 => r[i] = a[26 - i]
  BY <1>6, <1>9, RewrittenAt
<1> HIDE DEF r
<1>11. ASSUME NEW i \in Plain, i < 10 \/ (12 <= i /\ i <= 15) \/ i > 19
       PROVE  r[i + 6] = m[i]
  <2>1. i \in Int /\ i + 6 \in Tunnel /\ w[i + 6] = m[i]
    BY <1>8
  <2>2. CASE i < 10 \/ i > 19
    <3>1. i + 6 < 16 \/ i + 6 > 25
      BY <2>1, <2>2
    <3>2. QED  BY <1>10, <2>1, <3>1
  <2>3. CASE 12 <= i /\ i <= 15
    <3>1. 18 <= i + 6 /\ i + 6 <= 21 /\ 22 - (i + 6) \in 1..4 /\ 18 + 4 - (22 - (i + 6)) = i + 6
      BY <2>1, <2>3
    <3>2. r[i + 6] = src[22 - (i + 6)]
      BY <1>10, <2>1, <3>1
    <3>3. src[22 - (i + 6)] = w[18 + 4 - (22 - (i + 6))]
      BY <1>9, <3>1
    <3>4. QED  BY <2>1, <3>1, <3>2, <3>3
  <2>4. QED  BY <1>11, <2>2, <2>3
<1>12. QED  BY <1>2, <1>10, <1>11 DEF w

\* The server wraps the response for the client.
LEMMA ServerWrapsKeeps ==
  ASSUME LifeInv, ServerWraps
  PROVE  LifeInv'
<1>1. /\ stage = "returned" /\ stage' = "wrapped" /\ route \in Routes
      /\ UNCHANGED <<route, client_ip>> /\ MemoryInv /\ FormInv /\ ZeroesInv
      /\ client_ip \in [1..4 -> Byte]
      /\ mem' = serv_handle_pkt_dest(Wrapped(mem), client_ip)
      /\ pkt' = P!serv_handle_pkt_dest(pkt, IF client_ip \in Host THEN client_ip ELSE NoHost)
  BY DEF LifeInv, ServerWraps
<1>2. mem \in [Tunnel -> Byte] /\ pkt \in P!Packet
  BY <1>1, Memory DEF InClear, FormInv
<1>3. \A i \in Plain : mem[i] \in Byte
  BY <1>2, Places
<1>4. /\ mem' \in [Tunnel -> Byte]
      /\ \A i \in Plain : i > 19 => mem'[i + 6] = mem[i]
  BY <1>1, <1>3, WrapAt DEF IsAddress
<1>5. mem[72] = 0
  <2>1. 72 \in (TextOf(GreSize) + Len(Hello))..(TunnelSize - 1)
    BY HelloIs, Places
  <2>2. QED  BY <1>1, <2>1 DEF ZeroesInv
<1>6. mem'[78] = 0 /\ 78 \in Tunnel
  <2>1. 72 \in Plain /\ 72 > 19 /\ 72 + 6 = 78 /\ 78 \in Tunnel
    BY Places
  <2>2. QED  BY <1>4, <1>5, <2>1
<1>7. \E i \in Tunnel : i >= 46 /\ mem'[i] = 0
  BY <1>6
<1>8. pkt' \in P!Packet /\ pkt'.form = "tunnel"
  <2>1. (IF client_ip \in Host THEN client_ip ELSE NoHost) \in P!Address
    BY DEF P!Address
  <2>2. QED  BY <1>1, <1>2, <2>1, Forms
<1>9. FormInv'
  BY <1>1, <1>8 DEF FormInv, OutOfTunnel, InClear, P!Packet, P!Form, P!Address, P!Body
<1>10. MemoryInv'
  BY <1>1, <1>4 DEF MemoryInv, InClear, Tunnel
<1>11. TextsEnd'
  BY <1>4, <1>7, <1>8, EndsNext
<1>12. ZeroesInv'
  <2>1. TextOf(2 * GreSize) + Len(Hello) = 78
    BY HelloIs DEF TextOf, GreSize, IpSize, TcpSize
  <2>2. QED  BY <1>1, <1>6, <2>1 DEF ZeroesInv
<1>13. TunnelKeepsPrefix'
  BY <1>1 DEF TunnelKeepsPrefix
<1>14. (route \in Routes)' /\ (client_ip \in [1..4 -> Byte])'
  BY <1>1 DEF Routes
<1>15. stage' # "request"
  BY <1>1
<1>16. QED  BY <1>9, <1>10, <1>11, <1>12, <1>13, <1>14, <1>15 DEF LifeInv

\* What a server sends to its client: no more than the text of the response.
LEMMA SentBack ==
  ASSUME LifeInv, stage = "wrapped"
  PROVE  LET len == Len(Text(mem, TextOf(GreSize)))
             all == get_packet_size(tcp, len)
         IN  /\ all \in Nat /\ all <= 78
             /\ \A i \in 0..(all - 1) : serv_cli_encrypt_free(mem, tcp, len)[i] \in Byte
<1> DEFINE len == Len(Text(mem, TextOf(GreSize)))
           all == get_packet_size(tcp, len)
           sent == serv_cli_encrypt_free(mem, tcp, len)
<1>1. mem \in [Tunnel -> Byte] /\ mem[78] = 0
  <2>1. TextOf(2 * GreSize) + Len(Hello) = 78
    BY HelloIs DEF TextOf, GreSize, IpSize, TcpSize
  <2>2. MemoryInv /\ ZeroesInv
    BY DEF LifeInv
  <2>3. mem \in [Tunnel -> Byte]
    BY <2>2, Memory DEF InClear
  <2>4. QED  BY <2>1, <2>2, <2>3 DEF ZeroesInv
<1>2. len \in Nat /\ len <= 32
  <2>1. /\ len \in Nat
        /\ \A z \in Nat : 46 + z \in Tunnel /\ mem[46 + z] = 0 => len <= z
    BY <1>1, TextLength
  <2> HIDE DEF len
  <2>2. 32 \in Nat /\ 46 + 32 = 78 /\ 46 + 32 \in Tunnel
    BY Places
  <2>3. QED  BY <1>1, <2>1, <2>2
<1> HIDE DEF len
<1>3. all = len + 46
  BY <1>2, PacketSize
<1>4. sent = xor_encrypt_decrypt(mem, all)
  BY DEF serv_cli_encrypt_free
<1> HIDE DEF all, sent
<1>5. all \in Nat /\ all <= 78
  BY <1>2, <1>3
<1>6. \A i \in 0..(all - 1) : mem[i] \in Byte
  BY <1>1, <1>5, Places
<1>7. sent \in [0..(all - 1) -> Byte]
  <2>1. all \in Nat
    BY <1>5
  <2>2. QED  BY <1>4, <1>6, <2>1, EncryptedAt
<1>8. QED  BY <1>5, <1>7 DEF all, sent, len

\* The client receives the response.
LEMMA ClientReceivesKeeps ==
  ASSUME LifeInv, ClientReceives
  PROVE  LifeInv'
<1> DEFINE len == Len(Text(mem, TextOf(GreSize)))
           all == get_packet_size(tcp, len)
           sent == serv_cli_encrypt_free(mem, tcp, len)
<1>1. /\ stage = "wrapped" /\ stage' = "shown" /\ route \in Routes
      /\ UNCHANGED <<route, client_ip>> /\ FormInv
  BY DEF LifeInv, ClientReceives
<1>2. PICK n \in ReadSizes(all) :
        /\ mem' = serv_rec_from_cli(Bytes(sent, 0, n))
        /\ pkt' = Arrived("tunnel", n, all, all)
  BY DEF ClientReceives
<1>3. all \in Nat /\ \A i \in 0..(all - 1) : sent[i] \in Byte
  BY <1>1, SentBack
<1> HIDE DEF all, sent
<1>4. n \in Nat /\ n <= all
  BY <1>3, Reads
<1>5. \A i \in 0..(n - 1) : sent[i] \in Byte
  BY <1>3, <1>4
<1>6. mem' \in [Tunnel -> Byte] /\ \E i \in Tunnel : i >= 46 /\ mem'[i] = 0
  BY <1>2, <1>4, <1>5, TunnelReadEnds
<1>7. pkt' \in P!Packet /\ pkt'.form = "tunnel"
  <2>1. pkt \in P!Packet /\ "tunnel" \in P!Form
    BY <1>1 DEF FormInv, P!Form
  <2>2. QED  BY <1>2, <2>1, ArrivedForm
<1>8. FormInv'
  BY <1>1, <1>7 DEF FormInv, OutOfTunnel, InClear, P!Packet, P!Form, P!Address, P!Body
<1>9. MemoryInv'
  BY <1>1, <1>6 DEF MemoryInv, InClear, Tunnel
<1>10. TextsEnd'
  BY <1>6, <1>7, EndsNext
<1>11. ZeroesInv' /\ TunnelKeepsPrefix'
  BY <1>1 DEF ZeroesInv, TunnelKeepsPrefix
<1>12. (route \in Routes)'
  BY <1>1 DEF Routes
<1>13. stage' \notin InClear \cup {"returned", "wrapped"} /\ stage' # "request"
  BY <1>1 DEF InClear
<1>14. QED  BY <1>8, <1>9, <1>10, <1>11, <1>12, <1>13 DEF LifeInv

\* After any misreading all there is to show is a packet whose text ends.
LEMMA MisreadKeeps ==
  ASSUME LifeInv, stage' = "misread", UNCHANGED <<route, client_ip>>,
         pkt' \in P!Packet, TextsEnd',
         mem' \in [Tunnel -> Byte] \/ mem' \in [Plain -> Byte]
  PROVE  LifeInv'
<1>1. FormInv' /\ ZeroesInv' /\ TunnelKeepsPrefix'
  BY DEF FormInv, ZeroesInv, TunnelKeepsPrefix, OutOfTunnel, InClear,
         P!Packet, P!Form, P!Address, P!Body
<1>2. MemoryInv'
  BY DEF MemoryInv, InClear, Tunnel, Plain
<1>3. (route \in Routes)'
  BY DEF LifeInv, Routes
<1>4. stage' \notin InClear \cup {"returned", "wrapped"} /\ stage' # "request"
  BY DEF InClear
<1>5. QED  BY <1>1, <1>2, <1>3, <1>4 DEF LifeInv

\* Somebody reads in clear what was sent through the tunnel.
LEMMA ReadInClearKeeps ==
  ASSUME LifeInv, ReadInClear
  PROVE  LifeInv'
<1>1. /\ stage' = "misread" /\ UNCHANGED <<route, client_ip>> /\ route \in Routes
      /\ stage = "request" \/ stage = "wrapped"
  BY DEF LifeInv, ReadInClear
<1>2. pkt \in P!Packet /\ "plain" \in P!Form
  BY <1>1 DEF LifeInv, FormInv, P!Form
<1>3. CASE stage = "request"
  <2> DEFINE all == get_packet_size(tcp, Len(route.text))
  <2>1. PICK n \in ReadSizes(all) :
          mem' = dest_rec_pkt(Bytes(mem, 0, n)) /\ pkt' = Arrived("plain", n, PlainSize, PlainSize)
    BY <1>3 DEF ReadInClear
  <2>2. IsAddress(route.client) /\ IsAddress(route.dest) /\ IsText(route.text)
    BY <1>1, RouteFacts
  <2>3. mem \in [Tunnel -> Byte] /\ mem[43] = 0
    <3>1. mem = create_packets(route.client, route.dest, tcp, route.text, 2)
      BY <1>3 DEF LifeInv
    <3>2. QED  BY <2>2, <3>1, CreatedAt
  <2>4. all \in Nat /\ all <= 174
    BY <2>2, TextBytes, PacketSize
  <2> HIDE DEF all
  <2>5. n \in Nat /\ n <= 174
    BY <2>4, Reads
  <2>6. \A i \in 0..(n - 1) : mem[i] \in Byte
    BY <2>3, <2>5, Places
  <2>7. /\ mem' \in [Plain -> Byte]
        /\ \A i \in Plain : mem'[i] = IF i < n THEN mem[i] ELSE 0
    BY <2>1, <2>5, <2>6, ClearRead
  <2>8. \E i \in Plain : i >= 40 /\ mem'[i] = 0
    <3>1. 43 \in Plain /\ 43 >= 40
      BY Places
    <3>2. QED  BY <2>3, <2>7, <3>1
  <2>9. pkt' \in P!Packet /\ pkt'.form = "plain"
    BY <1>2, <2>1, ArrivedForm
  <2>10. TextsEnd'
    BY <2>7, <2>8, <2>9, EndsNext
  <2>11. QED  BY <1>1, <2>7, <2>9, <2>10, MisreadKeeps
<1>4. CASE stage = "wrapped"
  <2> DEFINE len == Len(Text(mem, TextOf(GreSize)))
             all == get_packet_size(tcp, len)
             sent == serv_cli_encrypt_free(mem, tcp, len)
  <2>1. PICK n \in ReadSizes(all) :
          /\ mem' = serv_rec_from_des(Bytes(sent, 0, n))
          /\ pkt' = Arrived("plain", n, TunnelSize, TunnelSize)
    BY <1>4 DEF ReadInClear
  <2>2. all \in Nat /\ all <= 78 /\ \A i \in 0..(all - 1) : sent[i] \in Byte
    BY <1>4, SentBack
  <2> HIDE DEF all, sent
  <2>3. n \in Nat /\ n <= all
    BY <2>2, Reads
  <2>4. \A i \in 0..(n - 1) : sent[i] \in Byte
    BY <2>2, <2>3
  <2>5. /\ mem' \in [Tunnel -> Byte]
        /\ \A i \in Tunnel : mem'[i] = IF i < n THEN sent[i] ELSE 0
    BY <2>1, <2>3, <2>4, ClearRead
  <2>6. \E i \in Tunnel : i >= 40 /\ mem'[i] = 0
    <3>1. 78 \in Tunnel /\ 78 >= 40 /\ ~(78 < n)
      BY <2>2, <2>3, Places
    <3>2. QED  BY <2>5, <3>1
  <2>7. pkt' \in P!Packet /\ pkt'.form = "plain"
    BY <1>2, <2>1, ArrivedForm
  <2>8. TextsEnd'
    BY <2>5, <2>6, <2>7, EndsNext
  <2>9. QED  BY <1>1, <2>5, <2>7, <2>8, MisreadKeeps
<1>5. QED  BY <1>1, <1>3, <1>4

\* Somebody decrypts what was sent in clear.
LEMMA ReadThroughTunnelKeeps ==
  ASSUME LifeInv, ReadThroughTunnel
  PROVE  LifeInv'
<1> DEFINE all == IF stage = "proxied" THEN PlainSize ELSE get_packet_size(tcp, Len(Hello))
<1>1. /\ stage' = "misread" /\ UNCHANGED <<route, client_ip>>
      /\ stage = "proxied" \/ stage = "response"
      /\ FormInv /\ MemoryInv
  BY DEF LifeInv, ReadThroughTunnel
<1>2. PICK n \in ReadSizes(all) :
        mem' = serv_rec_from_cli(Bytes(mem, 0, n)) /\ pkt' = Arrived("tunnel", n, all, all)
  BY DEF ReadThroughTunnel
<1>3. all \in Nat /\ all <= 168
  <2>1. PlainSize = 168 /\ get_packet_size(tcp, Len(Hello)) = 72
    BY HelloIs, PacketSize, Places
  <2>2. QED  BY <2>1
<1> HIDE DEF all
<1>4. n \in Nat /\ n <= 168
  BY <1>3, Reads
<1>5. mem \in [Plain -> Byte] /\ pkt \in P!Packet /\ "tunnel" \in P!Form
  BY <1>1, Memory DEF InClear, FormInv, P!Form
<1>6. \A i \in 0..(n - 1) : mem[i] \in Byte
  BY <1>4, <1>5, Places
<1>7. mem' \in [Tunnel -> Byte] /\ \E i \in Tunnel : i >= 46 /\ mem'[i] = 0
  BY <1>2, <1>4, <1>6, TunnelReadEnds
<1>8. pkt' \in P!Packet /\ pkt'.form = "tunnel"
  BY <1>2, <1>5, ArrivedForm
<1>9. TextsEnd'
  BY <1>7, <1>8, EndsNext
<1>10. QED  BY <1>1, <1>7, <1>8, <1>9, MisreadKeeps

-----------------------------------------------------------------------------
(***************************************************************************)
(* What XOR with the key makes of the bytes that a reader in the wrong     *)
(* form takes for the first octet of an address or of a text.              *)
(***************************************************************************)

\* Two bytes whose lowest bits add up to another bit than a third one's.
LEMMA LowBitsDiffer ==
  ASSUME NEW a \in Byte, NEW b \in Byte, NEW c, (a + b) % 2 # c % 2
  PROVE  BitXor(a, b) # c
<1>1. BitXor(a, b) % 2 = (a + b) % 2
  BY BitsAssumption
<1>2. QED  BY <1>1

\* Or whose halves do.
LEMMA HalvesDiffer ==
  ASSUME NEW a \in Byte, NEW b \in Byte, NEW c, BitXor(a \div 2, b \div 2) # c \div 2
  PROVE  BitXor(a, b) # c
<1>1. BitXor(a, b) \div 2 = BitXor(a \div 2, b \div 2)
  BY BitsAssumption
<1>2. QED  BY <1>1

\* Zero is encrypted to the key's byte.
LEMMA ZeroEncrypted ==
  ASSUME NEW b \in Byte
  PROVE  BitXor(0, b) = b
<1>1. BitXor(b, b) = 0
  BY BitXorAssumption
<1>2. BitXor(BitXor(b, b), b) = b
  BY BitXorAssumption
<1>3. QED  BY <1>1, <1>2

\* The results of XOR that would begin a host's address or a text, and do not.
LEMMA NoTens ==
  /\ BitXor(6, 120) # 10 /\ BitXor(198, 52) # 10 /\ BitXor(120, 52) # 10
  /\ BitXor(18, 86) # 72 /\ BitXor(18, 86) # 0 /\ BitXor(102, 86) # 0
<1>1. BitXor(6, 120) # 10
  <2>1. BitXor(1, 30) # 2
    <3>1. 1 \in Byte /\ 30 \in Byte /\ (1 + 30) % 2 # 2 % 2
      BY DEF Byte
    <3>2. QED  BY <3>1, LowBitsDiffer
  <2>2. BitXor(3, 60) # 5
    <3>1. 3 \in Byte /\ 60 \in Byte /\ 3 \div 2 = 1 /\ 60 \div 2 = 30 /\ 5 \div 2 = 2
      BY DEF Byte
    <3>2. QED  BY <2>1, <3>1, HalvesDiffer
  <2>3. 6 \in Byte /\ 120 \in Byte /\ 6 \div 2 = 3 /\ 120 \div 2 = 60 /\ 10 \div 2 = 5
    BY DEF Byte
  <2>4. QED  BY <2>2, <2>3, HalvesDiffer
<1>2. BitXor(198, 52) # 10
  <2>1. BitXor(24, 6) # 1
    <3>1. 24 \in Byte /\ 6 \in Byte /\ (24 + 6) % 2 # 1 % 2
      BY DEF Byte
    <3>2. QED  BY <3>1, LowBitsDiffer
  <2>2. BitXor(49, 13) # 2
    <3>1. 49 \in Byte /\ 13 \in Byte /\ 49 \div 2 = 24 /\ 13 \div 2 = 6 /\ 2 \div 2 = 1
      BY DEF Byte
    <3>2. QED  BY <2>1, <3>1, HalvesDiffer
  <2>3. BitXor(99, 26) # 5
    <3>1. 99 \in Byte /\ 26 \in Byte /\ 99 \div 2 = 49 /\ 26 \div 2 = 13 /\ 5 \div 2 = 2
      BY DEF Byte
    <3>2. QED  BY <2>2, <3>1, HalvesDiffer
  <2>4. 198 \in Byte /\ 52 \in Byte /\ 198 \div 2 = 99 /\ 52 \div 2 = 26 /\ 10 \div 2 = 5
    BY DEF Byte
  <2>5. QED  BY <2>3, <2>4, HalvesDiffer
<1>3. BitXor(120, 52) # 10
  <2>1. BitXor(60, 26) # 5
    <3>1. 60 \in Byte /\ 26 \in Byte /\ (60 + 26) % 2 # 5 % 2
      BY DEF Byte
    <3>2. QED  BY <3>1, LowBitsDiffer
  <2>2. 120 \in Byte /\ 52 \in Byte /\ 120 \div 2 = 60 /\ 52 \div 2 = 26 /\ 10 \div 2 = 5
    BY DEF Byte
  <2>3. QED  BY <2>1, <2>2, HalvesDiffer
<1>4. BitXor(18, 86) # 72
  <2>1. BitXor(4, 21) # 18
    <3>1. 4 \in Byte /\ 21 \in Byte /\ (4 + 21) % 2 # 18 % 2
      BY DEF Byte
    <3>2. QED  BY <3>1, LowBitsDiffer
  <2>2. BitXor(9, 43) # 36
    <3>1. 9 \in Byte /\ 43 \in Byte /\ 9 \div 2 = 4 /\ 43 \div 2 = 21 /\ 36 \div 2 = 18
      BY DEF Byte
    <3>2. QED  BY <2>1, <3>1, HalvesDiffer
  <2>3. 18 \in Byte /\ 86 \in Byte /\ 18 \div 2 = 9 /\ 86 \div 2 = 43 /\ 72 \div 2 = 36
    BY DEF Byte
  <2>4. QED  BY <2>2, <2>3, HalvesDiffer
<1>5. BitXor(18, 86) # 0 /\ BitXor(102, 86) # 0
  <2>1. 18 \in Byte /\ 86 \in Byte /\ 102 \in Byte /\ 18 # 86 /\ 102 # 86
    BY DEF Byte
  <2>2. QED  BY <2>1, BitXorAssumption
<1>6. QED  BY <1>1, <1>2, <1>3, <1>4, <1>5

\* The bytes of the key at the places where a form shows through another.
LEMMA KeyPlaces ==
  /\ key[1] = 18 /\ key[2] = 52 /\ key[3] = 86 /\ key[4] = 120
  /\ KeyAt(15) = 120 /\ KeyAt(19) = 120 /\ KeyAt(27) = 120 /\ KeyAt(31) = 120
  /\ KeyAt(21) = 52 /\ KeyAt(25) = 52
  /\ KeyAt(40) = 18 /\ KeyAt(52) = 18 /\ KeyAt(46) = 86
  /\ \A i \in Nat : KeyAt(i) \in {18, 52, 86, 120}
<1>1. key[1] = 18 /\ key[2] = 52 /\ key[3] = 86 /\ key[4] = 120
  BY DEF key
<1>2. KeyAt(15) = 120 /\ KeyAt(19) = 120 /\ KeyAt(27) = 120 /\ KeyAt(31) = 120
  BY <1>1 DEF KeyAt
<1>3. KeyAt(21) = 52 /\ KeyAt(25) = 52 /\ KeyAt(40) = 18 /\ KeyAt(52) = 18 /\ KeyAt(46) = 86
  BY <1>1 DEF KeyAt
<1>4. ASSUME NEW i \in Nat
      PROVE  KeyAt(i) \in {18, 52, 86, 120}
  <2>1. i % 4 = 0 \/ i % 4 = 1 \/ i % 4 = 2 \/ i % 4 = 3
    OBVIOUS
  <2>2. (i % 4) + 1 = 1 \/ (i % 4) + 1 = 2 \/ (i % 4) + 1 = 3 \/ (i % 4) + 1 = 4
    BY <2>1
  <2>3. QED  BY <1>1, <2>2 DEF KeyAt
<1>5. QED  BY <1>1, <1>2, <1>3, <1>4

-----------------------------------------------------------------------------
(***************************************************************************)
(* Addresses and texts that are read from a buffer.                        *)
(***************************************************************************)

\* The octets of an address that is read.
LEMMA Octets ==
  ASSUME NEW m, NEW at \in Int
  PROVE  Addr(m, at) = <<m[at + 3], m[at + 2], m[at + 1], m[at]>>
<1> DEFINE b == Bytes(m, at, 4)
<1>1. b = [j \in 1..4 |-> m[at + j - 1]]
  BY DEF Bytes
<1>2. at + 4 - 1 = at + 3 /\ at + 3 - 1 = at + 2 /\ at + 2 - 1 = at + 1 /\ at + 1 - 1 = at
  OBVIOUS
<1>3. 1 \in 1..4 /\ 2 \in 1..4 /\ 3 \in 1..4 /\ 4 \in 1..4
  OBVIOUS
<1>4. /\ b[4] = m[at + 4 - 1] /\ b[3] = m[at + 3 - 1]
      /\ b[2] = m[at + 2 - 1] /\ b[1] = m[at + 1 - 1]
  BY <1>1, <1>3
<1> HIDE DEF b
<1>5. b[4] = m[at + 3] /\ b[3] = m[at + 2] /\ b[2] = m[at + 1] /\ b[1] = m[at]
  BY <1>2, <1>4
<1>6. Addr(m, at) = <<b[4], b[3], b[2], b[1]>>
  BY DEF Addr, ntohl, b
<1>7. QED  BY <1>5, <1>6

\* No host's address starts with another octet than 10.
LEMMA NoHostAt ==
  ASSUME NEW m, NEW at \in Int, m[at + 3] # 10
  PROVE  HostOf(Addr(m, at)) = NoHost
<1>1. Addr(m, at)[1] = m[at + 3]
  BY Octets
<1>2. ASSUME Addr(m, at) \in Host PROVE FALSE
  <2>1. PICK n \in 1..7 : Addr(m, at) = <<10, 0, 0, n>>
    BY <1>2 DEF Host
  <2>2. QED  BY <1>1, <2>1
<1>3. QED  BY <1>2 DEF HostOf

\* The same bytes are the same address.
LEMMA SameAddr ==
  ASSUME NEW m, NEW n, NEW at \in Int, NEW from \in Int,
         n[at] = m[from], n[at + 1] = m[from + 1], n[at + 2] = m[from + 2],
         n[at + 3] = m[from + 3]
  PROVE  Addr(n, at) = Addr(m, from)
  BY Octets

\* An address is read as it was stored.
LEMMA StoredAddr ==
  ASSUME NEW n, NEW at \in Int, NEW a, IsAddress(a),
         n[at] = a[4], n[at + 1] = a[3], n[at + 2] = a[2], n[at + 3] = a[1]
  PROVE  Addr(n, at) = a
<1>1. Addr(n, at) = <<a[1], a[2], a[3], a[4]>>
  BY Octets
<1>2. a = <<a[1], a[2], a[3], a[4]>>
  <2> DEFINE b == <<a[1], a[2], a[3], a[4]>>
  <2>1. b \in [1..4 -> Byte] /\ a \in [1..4 -> Byte]
    BY DEF IsAddress
  <2>2. b[1] = a[1] /\ b[2] = a[2] /\ b[3] = a[3] /\ b[4] = a[4]
    OBVIOUS
  <2> HIDE DEF b
  <2>3. \A j \in 1..4 : b[j] = a[j]
    <3> SUFFICES ASSUME NEW j \in 1..4 PROVE b[j] = a[j]
      OBVIOUS
    <3>1. j = 1 \/ j = 2 \/ j = 3 \/ j = 4
      OBVIOUS
    <3>2. QED  BY <2>2, <3>1
  <2>4. a = b
    BY <2>1, <2>3
  <2>5. QED  BY <2>4 DEF b
<1>3. QED  BY <1>1, <1>2

\* A host's address.
LEMMA HostOctets ==
  ASSUME NEW a \in Host
  PROVE  IsAddress(a) /\ a[1] = 10 /\ a[2] = 0 /\ a[3] = 0 /\ HostOf(a) = a
<1>1. PICK n \in 1..7 : a = <<10, 0, 0, n>>
  BY DEF Host
<1>2. 10 \in Byte /\ 0 \in Byte /\ n \in Byte
  BY DEF Byte
<1>3. QED  BY <1>1, <1>2 DEF IsAddress, HostOf

\* At an offset of the buffer m, the first k bytes of t and a zero.
BeginsIn(m, at, t, k) ==
  k \in Nat /\ (\A j \in 1..k : m[at + j - 1] = t[j]) /\ m[at + k] = 0

\* A text that is read has the bytes of the buffer.
LEMMA TextDiffers ==
  ASSUME NEW m, NEW at, NEW t \in Seq(Byte), NEW j \in 1..Len(t), m[at + j - 1] # t[j]
  PROVE  Text(m, at) # t
<1> SUFFICES ASSUME Text(m, at) = t PROVE FALSE
  OBVIOUS
<1> DEFINE len == CHOOSE n \in 0..TunnelSize :
                    /\ at + n \notin DOMAIN m \/ m[at + n] = 0
                    /\ \A k \in 0..(n - 1) : at + k \in DOMAIN m /\ m[at + k] # 0
<1>1. t = [i \in 1..len |-> m[at + i - 1]]
  BY DEF Text, Bytes
<1> HIDE DEF len
<1>2. DOMAIN t = 1..len /\ DOMAIN t = 1..Len(t)
  <2>1. DOMAIN t = 1..len
    BY <1>1
  <2>2. QED  BY <2>1
<1>3. j \in 1..len
  BY <1>2
<1>4. t[j] = m[at + j - 1]
  BY <1>1, <1>3
<1>5. QED  BY <1>4

\* Two texts that differ where both have a byte.
Differ(t, u) == \E i \in 1..Len(t) : i <= Len(u) /\ t[i] # u[i]

\* The bytes of a text that start at an offset, with the zero behind them.
Room(D, at, k) == \A i \in 0..k : at + i \in D
Rooms(D, at) == \A k \in Nat : k <= 127 => Room(D, at, k)

\* What is read where there is the beginning of a text: that text only if it
\* is all there.
LEMMA TextRead ==
  ASSUME NEW D, NEW m \in [D -> Byte], NEW at \in Int, NEW t, IsText(t), NEW k,
         BeginsIn(m, at, t, k), k <= Len(t), Room(D, at, k)
  PROVE  /\ Text(m, at) = t <=> k = Len(t)
         /\ EndsAt(m, at, k) /\ Len(Text(m, at)) = k
<1>1. /\ t \in Seq(Byte) /\ Len(t) \in Nat /\ Len(t) <= 128
      /\ \A j \in 1..Len(t) : t[j] \in Byte /\ t[j] # 0
  BY TextBytes
<1>2. k \in Nat /\ (\A j \in 1..k : m[at + j - 1] = t[j]) /\ m[at + k] = 0
  BY DEF BeginsIn
<1>3. EndsAt(m, at, k)
  <2>1. k \in 0..TunnelSize
    BY <1>1, <1>2, Places
  <2>2. ASSUME NEW j \in 0..(k - 1)
        PROVE  at + j \in DOMAIN m /\ m[at + j] # 0
    <3>1. j + 1 \in 1..k /\ at + (j + 1) - 1 = at + j /\ j + 1 \in 1..Len(t) /\ j \in 0..k
      BY <1>1, <1>2
    <3>2. m[at + (j + 1) - 1] = t[j + 1]
      BY <1>2, <3>1
    <3>3. at + j \in D
      BY <3>1 DEF Room
    <3>4. QED  BY <1>1, <3>1, <3>2, <3>3
  <2>3. QED  BY <1>2, <2>1, <2>2 DEF EndsAt
<1>4. Text(m, at) = Bytes(m, at, k)
  BY <1>3, TextIs
<1>5. ASSUME NEW i \in 1..k
      PROVE  m[at + i - 1] \in Byte
  <2>1. i \in 1..Len(t) /\ m[at + i - 1] = t[i]
    BY <1>1, <1>2
  <2>2. QED  BY <1>1, <2>1
<1> DEFINE b == Bytes(m, at, k)
<1>6. b \in Seq(Byte) /\ Len(b) = k /\ \A i \in 1..k : b[i] = m[at + i - 1]
  <2>1. k \in Nat
    BY <1>2
  <2>2. QED  BY <1>5, <2>1, BytesOf
<1> HIDE DEF b
<1>7. b = t <=> k = Len(t)
  <2>1. b = t => k = Len(t)
    BY <1>6
  <2>2. ASSUME k = Len(t) PROVE b = t
    <3>1. \A i \in 1..Len(b) : b[i] = t[i]
      BY <1>2, <1>6
    <3>2. Len(b) = Len(t)
      BY <1>6, <2>2
    <3>3. QED  BY <1>1, <1>6, <3>1, <3>2, SeqEqual
  <2>3. QED  BY <2>1, <2>2
<1>8. QED  BY <1>3, <1>4, <1>6, <1>7 DEF b

\* And no text that differs from it.
LEMMA OtherText ==
  ASSUME NEW m, NEW at \in Int, NEW t, IsText(t), NEW k, BeginsIn(m, at, t, k),
         NEW u, IsText(u), Differ(t, u)
  PROVE  Text(m, at) # u
<1>1. Len(t) \in Nat
  BY TextBytes
<1>2. k \in Nat /\ (\A j \in 1..k : m[at + j - 1] = t[j]) /\ m[at + k] = 0
  BY DEF BeginsIn
<1>3. PICK i \in 1..Len(t) : i <= Len(u) /\ t[i] # u[i]
  BY DEF Differ
<1>4. Text(m, at) # u
  <2>1. u \in Seq(Byte) /\ Len(u) \in Nat /\ \A j \in 1..Len(u) : u[j] # 0
    BY <1>3, TextBytes
  <2>2. CASE i <= k
    <3>1. i \in 1..Len(u) /\ m[at + i - 1] # u[i]
      BY <1>1, <1>2, <1>3, <2>1, <2>2
    <3>2. QED  BY <2>1, <3>1, TextDiffers
  <2>3. CASE ~(i <= k)
    <3>1. k + 1 \in 1..Len(u) /\ at + (k + 1) - 1 = at + k
      BY <1>1, <1>2, <1>3, <2>1, <2>3
    <3>2. m[at + (k + 1) - 1] # u[k + 1]
      BY <1>2, <2>1, <3>1
    <3>3. QED  BY <2>1, <3>1, <3>2, TextDiffers
  <2>4. QED  BY <2>2, <2>3
<1>5. QED  BY <1>4

-----------------------------------------------------------------------------
(***************************************************************************)
(* Bytes and packets that agree, before and after a recv().                *)
(***************************************************************************)

\* The addresses in the buffer m are those of the packet p.
Shows(m, p, ip) ==
  HostOf(Addr(m, ip + 12)) = p.src /\ HostOf(Addr(m, ip + 16)) = p.dst

\* And there is as much of the text as its body says.
Fits(m, p, at, t, body) ==
  /\ p.body \in {body, "cut", "none"}
  /\ \E k \in Nat : k <= Len(t) /\ BeginsIn(m, at, t, k) /\ (p.body = body <=> k = Len(t))

\* What module Packets makes of n bytes.
LEMMA FieldsRead ==
  ASSUME pkt \in P!Packet, NEW ip, ip = IpAt(pkt.form),
         NEW n \in Nat, NEW end \in Nat, NEW all \in Nat, ip + 20 <= end, end <= all
  PROVE  LET p == Arrived(pkt.form, n, end, all)
         IN  /\ p.form = pkt.form
             /\ n >= ip + 16 => p.src = pkt.src
             /\ n < ip + 16 => p.src = NoHost
             /\ n >= ip + 20 => p.dst = pkt.dst
             /\ n < ip + 20 => p.dst = NoHost
             /\ n >= end => p.body = pkt.body
             /\ n < end => p.body \in {"cut", "none"}
<1> DEFINE f == pkt.form
           fields == FieldsIn(f, n, end, all)
<1>1. ip \in {0, 6}
  BY DEF P!Packet, P!Form, IpAt, GreSize
<1>2. fields = IF n = all THEN 4 ELSE IF n >= end THEN 3
               ELSE IF n >= ip + 20 THEN 2 ELSE IF n >= ip + 16 THEN 1 ELSE 0
  <2>1. ip + 12 + 4 = ip + 16 /\ ip + 16 + 4 = ip + 20
    BY <1>1
  <2>2. QED  BY <2>1 DEF FieldsIn, P!Whole, P!TextRead, IpDst, IpSrc
<1> HIDE DEF fields
<1>3. CASE n = 0
  <2>1. Arrived(f, n, end, all) = [form |-> f, src |-> NoHost, dst |-> NoHost, body |-> "none"]
    BY <1>3 DEF Arrived, P!NothingReceived
  <2>2. ~(n >= ip + 16) /\ ~(n >= ip + 20) /\ ~(n >= end)
    BY <1>1, <1>3
  <2>3. QED  BY <2>1, <2>2
<1>4. CASE n # 0
  <2>1. Arrived(f, n, end, all) =
          [form |-> f, src  |-> IF fields >= 1 THEN pkt.src ELSE NoHost,
           dst  |-> IF fields >= 2 THEN pkt.dst ELSE NoHost,
           body |-> IF fields >= 3 THEN pkt.body ELSE "cut"]
    BY <1>4 DEF Arrived, P!Received, P!TextRead, fields
  <2>2. /\ fields \in Nat /\ (fields >= 1 <=> n >= ip + 16)
        /\ (fields >= 2 <=> n >= ip + 20) /\ (fields >= 3 <=> n >= end)
    BY <1>1, <1>2
  <2>3. QED  BY <1>1, <2>1, <2>2
<1>5. QED  BY <1>3, <1>4

\* Of a packet in the other form.
LEMMA FieldsMisread ==
  ASSUME NEW f, pkt.form # f, NEW n, NEW end, NEW all
  PROVE  LET p == Arrived(f, n, end, all)
         IN  p.form = f /\ p.src = NoHost /\ p.dst = NoHost /\ p.body \in {"noise", "none"}
<1>1. CASE n = 0
  BY <1>1 DEF Arrived, P!NothingReceived
<1>2. CASE n # 0
  BY <1>2 DEF Arrived, P!Received
<1>3. QED  BY <1>1, <1>2

\* The addresses in the first n bytes of m, followed by what is none of a host.
HasAddrs(out, m, ip, n) ==
  /\ \A i \in Int : 0 <= i /\ i < ip + 20 /\ i < n => out[i] = m[i]
  /\ n <= ip + 15 => out[ip + 15] # 10
  /\ n <= ip + 19 => out[ip + 19] # 10

\* They are those that module Packets says.
LEMMA ShownAfter ==
  ASSUME pkt \in P!Packet, NEW ip, ip = IpAt(pkt.form), NEW m, Shows(m, pkt, ip),
         NEW n \in Nat, NEW out, HasAddrs(out, m, ip, n),
         NEW end \in Nat, NEW all \in Nat, ip + 20 <= end, end <= all
  PROVE  Shows(out, Arrived(pkt.form, n, end, all), ip)
<1> DEFINE p == Arrived(pkt.form, n, end, all)
<1>1. /\ n >= ip + 16 => p.src = pkt.src
      /\ n < ip + 16 => p.src = NoHost
      /\ n >= ip + 20 => p.dst = pkt.dst
      /\ n < ip + 20 => p.dst = NoHost
  BY FieldsRead
<1> HIDE DEF p
<1>2. ip \in {0, 6}
  BY DEF P!Packet, P!Form, IpAt, GreSize
<1>3. ip + 12 \in Int /\ ip + 16 \in Int /\ ip + 12 + 3 = ip + 15 /\ ip + 16 + 3 = ip + 19
  BY <1>2
<1>4. HostOf(Addr(out, ip + 12)) = p.src
  <2>1. CASE n < ip + 16
    <3>1. out[ip + 12 + 3] # 10
      BY <1>2, <1>3, <2>1 DEF HasAddrs
    <3>2. QED  BY <1>1, <1>3, <2>1, <3>1, NoHostAt
  <2>2. CASE n >= ip + 16
    <3>1. Addr(out, ip + 12) = Addr(m, ip + 12)
      <4>1. /\ out[ip + 12] = m[ip + 12] /\ out[ip + 12 + 1] = m[ip + 12 + 1]
            /\ out[ip + 12 + 2] = m[ip + 12 + 2] /\ out[ip + 12 + 3] = m[ip + 12 + 3]
        BY <1>2, <2>2 DEF HasAddrs
      <4>2. QED  BY <1>3, <4>1, SameAddr
    <3>2. QED  BY <1>1, <2>2, <3>1 DEF Shows
  <2>3. QED  BY <1>2, <2>1, <2>2
<1>5. HostOf(Addr(out, ip + 16)) = p.dst
  <2>1. CASE n < ip + 20
    <3>1. out[ip + 16 + 3] # 10
      BY <1>2, <1>3, <2>1 DEF HasAddrs
    <3>2. QED  BY <1>1, <1>3, <2>1, <3>1, NoHostAt
  <2>2. CASE n >= ip + 20
    <3>1. Addr(out, ip + 16) = Addr(m, ip + 16)
      <4>1. /\ out[ip + 16] = m[ip + 16] /\ out[ip + 16 + 1] = m[ip + 16 + 1]
            /\ out[ip + 16 + 2] = m[ip + 16 + 2] /\ out[ip + 16 + 3] = m[ip + 16 + 3]
        BY <1>2, <2>2 DEF HasAddrs
      <4>2. QED  BY <1>3, <4>1, SameAddr
    <3>2. QED  BY <1>1, <2>2, <3>1 DEF Shows
  <2>3. QED  BY <1>2, <2>1, <2>2
<1>6. QED  BY <1>4, <1>5 DEF Shows, p

\* A plain packet that is received in clear.
LEMMA ClearFits ==
  ASSUME pkt \in P!Packet, pkt.form = "plain", NEW m, Shows(m, pkt, 0),
         NEW t, IsText(t), 1 <= Len(t), Len(t) <= 127,
         NEW body, body \notin {"cut", "none"}, Fits(m, pkt, 40, t, body),
         NEW n \in Nat, NEW out,
         \A i \in Int : 0 <= i /\ i <= 167 => out[i] = IF i < n THEN m[i] ELSE 0,
         NEW end, end = 40 + Len(t), NEW all \in Nat, end <= all
  PROVE  LET p == Arrived("plain", n, end, all)
         IN  Shows(out, p, 0) /\ Fits(out, p, 40, t, body)
<1> DEFINE p == Arrived("plain", n, end, all)
<1>1. IpAt(pkt.form) = 0 /\ Len(t) \in Nat /\ end \in Nat /\ 20 <= end
  BY TextBytes, Places
<1>2. Shows(out, p, 0)
  <2> DEFINE ip == 0
  <2>1. /\ ip = IpAt(pkt.form) /\ Shows(m, pkt, ip) /\ ip + 20 <= end
        /\ HasAddrs(out, m, ip, n)
    BY <1>1 DEF HasAddrs
  <2> HIDE DEF ip
  <2>2. Shows(out, p, ip)
    BY <1>1, <2>1, ShownAfter
  <2>3. QED  BY <2>2 DEF ip
<1>3. (n >= end => p.body = pkt.body) /\ (n < end => p.body \in {"cut", "none"})
  <2> DEFINE ip == 0
  <2>1. ip = IpAt(pkt.form) /\ ip + 20 <= end
    BY <1>1
  <2> HIDE DEF ip
  <2>2. QED  BY <1>1, <2>1, FieldsRead
<1> HIDE DEF p
<1>4. PICK k \in Nat : k <= Len(t) /\ BeginsIn(m, 40, t, k) /\ (pkt.body = body <=> k = Len(t))
  BY DEF Fits
<1>5. (\A j \in 1..k : m[40 + j - 1] = t[j]) /\ m[40 + k] = 0
  BY <1>4 DEF BeginsIn
<1>6. CASE n >= end
  <2>1. \A j \in 1..k : out[40 + j - 1] = t[j]
    <3> SUFFICES ASSUME NEW j \in 1..k PROVE out[40 + j - 1] = t[j]
      OBVIOUS
    <3>1. 40 + j - 1 \in Int /\ 0 <= 40 + j - 1 /\ 40 + j - 1 <= 167 /\ 40 + j - 1 < n
      BY <1>1, <1>4, <1>6
    <3>2. QED  BY <1>5, <3>1
  <2>2. out[40 + k] = 0
    <3>1. 40 + k \in Int /\ 0 <= 40 + k /\ 40 + k <= 167
      BY <1>1, <1>4
    <3>2. QED  BY <1>5, <3>1
  <2>3. BeginsIn(out, 40, t, k)
    BY <2>1, <2>2 DEF BeginsIn
  <2>4. QED  BY <1>2, <1>3, <1>4, <1>6, <2>3 DEF Fits, p
<1>7. CASE n < end
  <2> DEFINE e == IF n <= 40 THEN 0 ELSE IF k <= n - 40 THEN k ELSE n - 40
  <2>1. e \in Nat /\ e <= k /\ 40 + e <= 167 /\ (e = 0 \/ 40 + e <= n) /\ (e = k \/ 40 + e >= n)
    BY <1>1, <1>4, <1>7
  <2>2. e < Len(t)
    BY <1>1, <1>4, <1>7
  <2> HIDE DEF e
  <2>3. \A j \in 1..e : out[40 + j - 1] = t[j]
    <3> SUFFICES ASSUME NEW j \in 1..e PROVE out[40 + j - 1] = t[j]
      OBVIOUS
    <3>1. /\ 40 + j - 1 \in Int /\ 0 <= 40 + j - 1 /\ 40 + j - 1 <= 167 /\ 40 + j - 1 < n
          /\ j \in 1..k
      BY <1>1, <1>4, <2>1
    <3>2. QED  BY <1>5, <3>1
  <2>4. out[40 + e] = 0
    <3>1. 40 + e \in Int /\ 0 <= 40 + e /\ 40 + e <= 167
      BY <2>1
    <3>2. out[40 + e] = IF 40 + e < n THEN m[40 + e] ELSE 0
      BY <3>1
    <3>3. 40 + e < n => e = k
      BY <2>1
    <3>4. QED  BY <1>5, <3>2, <3>3
  <2>5. BeginsIn(out, 40, t, e)
    BY <2>1, <2>3, <2>4 DEF BeginsIn
  <2>6. p.body \in {"cut", "none"} /\ p.body # body
    BY <1>3, <1>7
  <2>7. e <= Len(t) /\ e # Len(t)
    BY <1>1, <2>1, <2>2
  <2>8. Fits(out, p, 40, t, body)
    BY <2>1, <2>5, <2>6, <2>7 DEF Fits
  <2>9. QED  BY <1>2, <2>8 DEF p
<1>8. n >= end \/ n < end
  BY <1>1
<1>9. QED  BY <1>6, <1>7, <1>8

\* Bytes that are not sent are zeroes, which decrypt to the key.
LEMMA KeyDecrypted ==
  ASSUME NEW i \in Nat
  PROVE  BitXor(0, KeyAt(i)) = KeyAt(i) /\ KeyAt(i) # 10
<1>1. KeyAt(i) \in Byte
  BY StoredWords
<1>2. KeyAt(i) # 10
  BY KeyPlaces
<1>3. QED  BY <1>1, <1>2, ZeroEncrypted

\* The first n bytes of q are those of c, encrypted.
Encrypts(q, c, n) == \A i \in 0..(n - 1) : c[i] \in Byte /\ q[i] = BitXor(c[i], KeyAt(i))

\* The first k bytes of t are in c, none of which the key encrypts to zero.
Survives(c, t, k) == \A j \in 1..k : c[46 + j - 1] = t[j] /\ t[j] # KeyAt(46 + j - 1)

\* Where strlen() stops in n bytes of an encrypted packet with k bytes of text.
TextIn(n) == IF n <= 46 THEN 0 ELSE n - 46

\* The first n bytes of the encryption of c, decrypted.
LEMMA TunnelOpened ==
  ASSUME NEW c, NEW q, NEW n \in Nat, Encrypts(q, c, n),
         NEW t, NEW k \in Nat, k <= 127, n <= 46 + k, Survives(c, t, k)
  PROVE  LET out == serv_rec_from_cli(Bytes(q, 0, n))
         IN  /\ out \in [Tunnel -> Byte]
             /\ \A i \in Tunnel : i < n => out[i] = c[i]
             /\ \A i \in Tunnel : i >= n /\ i # 46 + TextIn(n) => out[i] = KeyAt(i)
             /\ BeginsIn(out, 46, t, TextIn(n))
<1> DEFINE out == serv_rec_from_cli(Bytes(q, 0, n))
           received == Filled(TunnelSize, Bytes(q, 0, n))
           e == TextIn(n)
<1>1. e \in Nat /\ e <= k /\ (e = 0 \/ 46 + e = n) /\ 46 + e >= n /\ Clamped(e) = e
  BY DEF TextIn, Clamped, MaxPayload
<1> HIDE DEF e
<1>2. Tunnel \in SUBSET Int /\ \A i \in Int : i \in Tunnel <=> 0 <= i /\ i <= 173
  BY Places
<1>3. \A i \in 0..(n - 1) : /\ q[i] \in Byte /\ c[i] \in Byte /\ KeyAt(i) \in Byte
                             /\ q[i] = BitXor(c[i], KeyAt(i))
  <2> SUFFICES ASSUME NEW i \in 0..(n - 1)
               PROVE  /\ q[i] \in Byte /\ c[i] \in Byte /\ KeyAt(i) \in Byte
                      /\ q[i] = BitXor(c[i], KeyAt(i))
    OBVIOUS
  <2>1. i \in Nat /\ c[i] \in Byte /\ q[i] = BitXor(c[i], KeyAt(i))
    BY DEF Encrypts
  <2>2. KeyAt(i) \in Byte
    BY <2>1, StoredWords
  <2>3. QED  BY <2>1, <2>2, BitXorAssumption
<1>4. received \in [Tunnel -> Byte] /\ \A i \in Tunnel : received[i] = IF i < n THEN q[i] ELSE 0
  <2>1. TunnelSize \in Nat
    BY Places
  <2>2. /\ received \in [0..(TunnelSize - 1) -> Byte]
        /\ \A i \in 0..(TunnelSize - 1) : received[i] = IF i < n THEN q[i] ELSE 0
    BY <1>3, <2>1, FilledAt
  <2>3. QED  BY <2>2 DEF Tunnel
<1> HIDE DEF received
<1>5. EndsAt(received, 46, e)
  <2>1. e \in 0..TunnelSize
    BY <1>1, Places
  <2>2. received[46 + e] = 0
    <3>1. 46 + e \in Tunnel /\ ~(46 + e < n)
      BY <1>1, <1>2
    <3>2. QED  BY <1>4, <3>1
  <2>3. ASSUME NEW j \in 0..(e - 1)
        PROVE  46 + j \in DOMAIN received /\ received[46 + j] # 0
    <3>1. j \in Nat /\ j + 1 \in 1..k /\ 46 + (j + 1) - 1 = 46 + j /\ 46 + j < n
      BY <1>1
    <3>2. 46 + j \in Tunnel /\ 46 + j \in 0..(n - 1)
      BY <1>1, <1>2, <3>1
    <3>3. c[46 + (j + 1) - 1] # KeyAt(46 + (j + 1) - 1)
      BY <3>1 DEF Survives
    <3>4. BitXor(c[46 + j], KeyAt(46 + j)) # 0
      BY <1>3, <3>1, <3>2, <3>3, BitXorAssumption
    <3>5. received[46 + j] = BitXor(c[46 + j], KeyAt(46 + j))
      BY <1>3, <1>4, <3>1, <3>2
    <3>6. QED  BY <1>4, <3>2, <3>4, <3>5
  <2>4. QED  BY <2>1, <2>2, <2>3 DEF EndsAt
<1>6. /\ out \in [Tunnel -> Byte]
      /\ \A i \in Tunnel : out[i] =
           IF i = 46 + e THEN 0 ELSE BitXor(IF i < n THEN q[i] ELSE 0, KeyAt(i))
  <2>1. EndsAt(Filled(TunnelSize, Bytes(q, 0, n)), TextOf(GreSize), e)
    BY <1>5, Places DEF received
  <2>2. /\ out \in [Tunnel -> Byte]
        /\ \A i \in Tunnel : out[i] =
             IF i = 46 + Clamped(e) THEN 0 ELSE BitXor(IF i < n THEN q[i] ELSE 0, KeyAt(i))
    BY <1>3, <2>1, TunnelRead
  <2>3. QED  BY <1>1, <2>2
<1> HIDE DEF out
<1>7. ASSUME NEW i \in Tunnel, i < n
      PROVE  out[i] = c[i]
  <2>1. i \in 0..(n - 1) /\ i # 46 + e
    BY <1>1, <1>2, <1>7
  <2>2. out[i] = BitXor(BitXor(c[i], KeyAt(i)), KeyAt(i))
    BY <1>3, <1>6, <1>7, <2>1
  <2>3. QED  BY <1>3, <2>1, <2>2, BitXorAssumption
<1>8. ASSUME NEW i \in Tunnel, i >= n, i # 46 + e
      PROVE  out[i] = KeyAt(i)
  <2>1. i \in Nat /\ ~(i < n)
    BY <1>2, <1>8
  <2>2. out[i] = BitXor(0, KeyAt(i))
    BY <1>6, <1>8, <2>1
  <2>3. QED  BY <2>1, <2>2, KeyDecrypted
<1>9. BeginsIn(out, 46, t, e)
  <2>1. 46 + e \in Tunnel
    BY <1>1, <1>2
  <2>2. out[46 + e] = 0
    BY <1>6, <2>1
  <2>3. ASSUME NEW j \in 1..e
        PROVE  out[46 + j - 1] = t[j]
    <3>1. j \in 1..k /\ 46 + j - 1 \in Tunnel /\ 46 + j - 1 < n
      BY <1>1, <1>2
    <3>2. QED  BY <1>7, <3>1 DEF Survives
  <2>4. QED  BY <1>1, <2>2, <2>3 DEF BeginsIn
<1>10. QED  BY <1>6, <1>7, <1>8, <1>9 DEF out, e

\* A packet that is received through the tunnel.
LEMMA TunnelFits ==
  ASSUME pkt \in P!Packet, pkt.form = "tunnel", NEW c, Shows(c, pkt, 6), NEW q, NEW n \in Nat,
         Encrypts(q, c, n),
         NEW t, IsText(t), 1 <= Len(t), NEW k \in Nat, k <= 127, k <= Len(t), n <= 46 + k,
         Survives(c, t, k),
         NEW body, body \notin {"cut", "none"}, pkt.body \in {body, "cut", "none"},
         pkt.body = body <=> k = Len(t)
  PROVE  LET out == serv_rec_from_cli(Bytes(q, 0, n))
             p == Arrived("tunnel", n, 46 + k, 46 + k)
         IN  Shows(out, p, 6) /\ Fits(out, p, 46, t, body)
<1> DEFINE out == serv_rec_from_cli(Bytes(q, 0, n))
           all == 46 + k
           p == Arrived("tunnel", n, all, all)
           e == TextIn(n)
<1>1. IpAt(pkt.form) = 6 /\ Len(t) \in Nat /\ all \in Nat /\ 26 <= all
  BY TextBytes, Places
<1>2. /\ \A i \in Tunnel : i < n => out[i] = c[i]
      /\ \A i \in Tunnel : i >= n /\ i # 46 + e => out[i] = KeyAt(i)
      /\ BeginsIn(out, 46, t, e)
  BY TunnelOpened
<1>3. e \in Nat /\ e <= k /\ (n >= all => e = k) /\ (n < all => e < k \/ e = 0)
  BY DEF TextIn
<1>4. \A i \in Int : i \in Tunnel <=> 0 <= i /\ i <= 173
  BY Places
<1> HIDE DEF out, e
<1>5. Shows(out, p, 6)
  <2> DEFINE ip == 6
  <2>1. ip = IpAt(pkt.form) /\ Shows(c, pkt, ip) /\ ip + 20 <= all
    BY <1>1
  <2>2. \A i \in Int : 0 <= i /\ i < ip + 20 /\ i < n => out[i] = c[i]
    BY <1>2, <1>4
  <2>3. n <= ip + 15 => out[ip + 15] # 10
    <3>1. 21 \in Tunnel /\ 21 # 46 + e /\ 21 \in Nat
      BY <1>3, <1>4
    <3>2. n <= 21 => out[21] = KeyAt(21)
      BY <1>2, <3>1
    <3>3. QED  BY <3>1, <3>2, KeyDecrypted
  <2>4. n <= ip + 19 => out[ip + 19] # 10
    <3>1. 25 \in Tunnel /\ 25 # 46 + e /\ 25 \in Nat
      BY <1>3, <1>4
    <3>2. n <= 25 => out[25] = KeyAt(25)
      BY <1>2, <3>1
    <3>3. QED  BY <3>1, <3>2, KeyDecrypted
  <2>5. HasAddrs(out, c, ip, n) /\ all <= all
    BY <1>1, <2>2, <2>3, <2>4 DEF HasAddrs
  <2> HIDE DEF ip, all, p
  <2>6. Shows(out, Arrived(pkt.form, n, all, all), ip)
    BY <1>1, <2>1, <2>5, ShownAfter
  <2>7. QED  BY <2>6 DEF ip, p
<1>6. (n >= all => p.body = pkt.body) /\ (n < all => p.body \in {"cut", "none"})
  <2> DEFINE ip == 6
  <2>1. ip = IpAt(pkt.form) /\ ip + 20 <= all
    BY <1>1
  <2> HIDE DEF ip, all, p
  <2>2. /\ n >= all => Arrived(pkt.form, n, all, all).body = pkt.body
        /\ n < all => Arrived(pkt.form, n, all, all).body \in {"cut", "none"}
    <3>1. all \in Nat /\ all <= all
      BY <1>1
    <3>2. QED  BY <2>1, <3>1, FieldsRead
  <2>3. QED  BY <2>2 DEF p
<1> HIDE DEF p
<1>7. CASE n >= all
  BY <1>2, <1>3, <1>5, <1>6, <1>7 DEF Fits, p, out
<1>8. CASE n < all
  <2>1. e <= Len(t) /\ e # Len(t)
    BY <1>1, <1>3, <1>8
  <2>2. p.body \in {"cut", "none"} /\ p.body # body
    BY <1>6, <1>8
  <2>3. Fits(out, p, 46, t, body)
    BY <1>2, <1>3, <2>1, <2>2 DEF Fits
  <2>4. QED  BY <1>5, <2>3 DEF p, out
<1>9. n >= all \/ n < all
  BY <1>1
<1>10. QED  BY <1>7, <1>8, <1>9

-----------------------------------------------------------------------------
(***************************************************************************)
(* The invariant of the bytes, said of a buffer and a packet.              *)
(***************************************************************************)

\* What a telling text gives away.
LEMMA Tells ==
  ASSUME NEW t, IsText(t), Telling(t)
  PROVE  /\ Len(t) \in Nat /\ 1 <= Len(t) /\ Len(t) <= 127 /\ Clamped(Len(t)) = Len(t)
         /\ \A j \in 1..Len(t) : t[j] # KeyAt(46 + j - 1) /\ t[j] # 0 /\ t[j] \in Byte
         /\ \E i \in 1..Len(t) : i <= 26 /\ t[i] # Hello[i]
         /\ t[1] # 18 /\ t[1] # BitXor(18, 86) /\ t[1] # BitXor(102, 86)
         /\ Len(t) >= 7 => BitXor(t[7], 86) # 72
<1>1. /\ Len(t) \in Nat /\ 1 <= Len(t) /\ Len(t) <= 127
      /\ \A j \in 1..Len(t) : t[j] \in Byte /\ t[j] # 0
  <2>1. Len(t) \in 1..(MaxPayload - 1)
    BY DEF Telling
  <2>2. Len(t) \in Nat /\ \A j \in 1..Len(t) : t[j] \in Byte /\ t[j] # 0
    BY TextBytes
  <2>3. 1 <= Len(t) /\ Len(t) <= 127
    <3> DEFINE l == Len(t)
               last == MaxPayload - 1
    <3>1. l \in 1..last /\ last = 127 /\ last \in Int
      BY <2>1 DEF MaxPayload
    <3> HIDE DEF l, last
    <3>2. 1 <= l /\ l <= last
      BY <3>1
    <3>3. QED  BY <3>1, <3>2 DEF l
  <2>4. QED  BY <2>2, <2>3
<1>2. Clamped(Len(t)) = Len(t)
  BY <1>1 DEF Clamped, MaxPayload
<1>3. Hello[1] = 72 /\ Hello[7] = 102 /\ Len(Hello) = 26
  BY DEF Hello
<1>4. \A j \in 1..Len(t) : t[j] # KeyAt(46 + j - 1)
  <2>1. Collisions(t) = {} /\ DOMAIN t = 1..Len(t)
    BY DEF Telling, IsText
  <2>2. QED  BY <2>1, Places DEF Collisions
<1>5. \E i \in 1..Len(t) : i <= 26 /\ t[i] # Hello[i]
  BY <1>3 DEF Telling
<1>6. t[1] # 18 /\ t[1] # BitXor(18, 86) /\ t[1] # BitXor(102, 86)
  BY <1>3, KeyPlaces DEF Telling
<1>7. Len(t) >= 7 => BitXor(t[7], 86) # 72
  BY <1>3, KeyPlaces DEF Telling
<1>8. QED  BY <1>1, <1>2, <1>4, <1>5, <1>6, <1>7

\* So does that of a conversation, if it is one.
LEMMA RouteTells ==
  ASSUME LifeInv, Telling(route.text)
  PROVE  /\ IsText(route.text) /\ Len(route.text) \in Nat
         /\ 1 <= Len(route.text) /\ Len(route.text) <= 127
         /\ \E i \in 1..Len(route.text) : i <= 26 /\ route.text[i] # Hello[i]
         /\ route.text[1] # 0 /\ route.text[1] # 18
         /\ route.text[1] # BitXor(18, 86) /\ route.text[1] # BitXor(102, 86)
         /\ Len(route.text) >= 7 => BitXor(route.text[7], 86) # 72
<1>1. IsText(route.text)
  BY RouteFacts DEF LifeInv
<1>2. /\ Len(route.text) \in Nat /\ 1 <= Len(route.text) /\ Len(route.text) <= 127
      /\ \A j \in 1..Len(route.text) : route.text[j] # 0
      /\ \E i \in 1..Len(route.text) : i <= 26 /\ route.text[i] # Hello[i]
      /\ route.text[1] # 18
      /\ route.text[1] # BitXor(18, 86) /\ route.text[1] # BitXor(102, 86)
      /\ Len(route.text) >= 7 => BitXor(route.text[7], 86) # 72
  BY <1>1, Tells
<1>3. route.text[1] # 0
  BY <1>2
<1>4. QED  BY <1>1, <1>2, <1>3

\* And Hello itself, of which the tunnel keeps every byte.
LEMMA HelloTells ==
  /\ IsText(Hello) /\ Len(Hello) = 26 /\ Hello[1] = 72 /\ Hello[7] = 102
  /\ \A j \in 1..26 : Hello[j] \in Byte /\ Hello[j] # 0 /\ Hello[j] # KeyAt(46 + j - 1)
<1>1. Len(Hello) = 26 /\ Hello[1] = 72 /\ Hello[7] = 102
  BY DEF Hello
<1>2. ASSUME NEW j \in 1..26
      PROVE  Hello[j] \in Byte \ {0, 18, 52, 86, 120}
  <2> DEFINE S == Byte \ {0, 18, 52, 86, 120}
  <2>1. /\ 32 \in S /\ 33 \in S /\ 72 \in S /\ 100 \in S /\ 101 \in S
        /\ 102 \in S /\ 104 \in S /\ 105 \in S /\ 108 \in S /\ 109 \in S
        /\ 111 \in S /\ 114 \in S /\ 115 \in S /\ 116 \in S
    BY DEF Byte
  <2> HIDE DEF S
  <2>2. \A i \in 1..26 : Hello[i] \in S
    BY <2>1 DEF Hello
  <2>3. QED  BY <2>2 DEF S
<1>3. ASSUME NEW j \in 1..26
      PROVE  Hello[j] # KeyAt(46 + j - 1)
  <2>1. 46 + j - 1 \in Nat
    OBVIOUS
  <2>2. KeyAt(46 + j - 1) \in {18, 52, 86, 120}
    BY <2>1, KeyPlaces
  <2>3. QED  BY <1>2, <2>2
<1>4. IsText(Hello)
  <2>1. \A i \in 1..Len(Hello) : Hello[i] \in Byte \ {0}
    BY <1>1, <1>2
  <2>2. Hello \in Seq(Byte)
    BY HelloIs
  <2>3. Hello \in [1..Len(Hello) -> Byte \ {0}] /\ Len(Hello) \in Nat
    BY <2>1, <2>2
  <2>4. Hello \in Seq(Byte \ {0})
    BY <2>3, SeqDef
  <2>5. QED  BY <1>1, <2>4 DEF IsText, MaxPayload
<1>5. QED  BY <1>1, <1>2, <1>3, <1>4

\* RequestTraces and ResponseTraces, of a buffer.
OfRequest(m, ip, t) ==
  /\ m[ip + 21] \in {198, 120} /\ m[ip + 25] \in {0, 120}
  /\ \A k \in Nat : k <= Len(t) /\ k < 6 /\ BeginsIn(m, ip + 40, t, k) => m[ip + 46] = 18

OfResponse(m, ip) == m[ip + 9] \in {0, 6} /\ m[ip + 13] = 0 /\ m[ip + 34] = 0

\* MatchInv, until a packet is read in the wrong form.
Agree(st, r, m, p) ==
  /\ st = "request" => p = P!create_packets(r.client, r.dest)
  /\ st \in {"arrived", "cut"} =>
       Shows(m, p, 6) /\ Fits(m, p, 46, r.text, "payload") /\ OfRequest(m, 6, r.text)
  /\ st \in {"proxied", "delivered"} => Shows(m, p, 0) /\ Fits(m, p, 40, r.text, "payload")
  /\ st = "proxied" => OfRequest(m, 0, r.text)
  /\ st \in {"response", "returned"} =>
       Shows(m, p, 0) /\ Fits(m, p, 40, Hello, "hello") /\ OfResponse(m, 0)
  /\ st = "response" => m[21] = 198 /\ m[25] = 0 /\ p.body = "hello"
  /\ st \in {"wrapped", "shown"} => Shows(m, p, 6) /\ Fits(m, p, 46, Hello, "hello")
  /\ st = "wrapped" => OfResponse(m, 6)

\* The parts of MatchInv are those of Agree.
LEMMA PartsAgree ==
  ASSUME NEW ip \in {0, 6}, NEW t, IsText(t), NEW body
  PROVE  /\ AddressesMatch(ip) <=> Shows(mem, pkt, ip)
         /\ TextMatches(ip, t, body) <=> Fits(mem, pkt, ip + 40, t, body)
         /\ RequestTraces(ip, t) <=> OfRequest(mem, ip, t)
         /\ ResponseTraces(ip) <=> OfResponse(mem, ip)
<1>1. Len(t) \in Nat
  BY TextBytes
<1>2. TextOf(ip) = ip + 40 /\ \A k : k \in 0..Len(t) <=> k \in Nat /\ k <= Len(t)
  BY <1>1 DEF TextOf, IpSize, TcpSize
<1>3. AddressesMatch(ip) <=> Shows(mem, pkt, ip)
  BY DEF AddressesMatch, Shows, IpSrc, IpDst
<1>4. \A k \in Nat : Begins(TextOf(ip), t, k) <=> BeginsIn(mem, ip + 40, t, k)
  BY <1>2 DEF Begins, BeginsIn
<1>5. TextMatches(ip, t, body) <=> Fits(mem, pkt, ip + 40, t, body)
  BY <1>2, <1>4 DEF TextMatches, Fits
<1>6. RequestTraces(ip, t) <=> OfRequest(mem, ip, t)
  BY <1>2, <1>4, KeyPlaces DEF RequestTraces, OfRequest
<1>7. ResponseTraces(ip) <=> OfResponse(mem, ip)
  BY DEF ResponseTraces, OfResponse, tcp
<1>8. QED  BY <1>3, <1>5, <1>6, <1>7

\* So they are in the next state.
LEMMA NextPartsAgree ==
  ASSUME NEW ip \in {0, 6}, NEW t, IsText(t), NEW body
  PROVE  /\ AddressesMatch(ip)' <=> Shows(mem', pkt', ip)
         /\ TextMatches(ip, t, body)' <=> Fits(mem', pkt', ip + 40, t, body)
         /\ RequestTraces(ip, t)' <=> OfRequest(mem', ip, t)
         /\ ResponseTraces(ip)' <=> OfResponse(mem', ip)
<1>1. Len(t) \in Nat
  BY TextBytes
<1>2. TextOf(ip) = ip + 40 /\ \A k : k \in 0..Len(t) <=> k \in Nat /\ k <= Len(t)
  BY <1>1 DEF TextOf, IpSize, TcpSize
<1>3. AddressesMatch(ip)' <=> Shows(mem', pkt', ip)
  BY DEF AddressesMatch, Shows, IpSrc, IpDst
<1>4. \A k \in Nat : Begins(TextOf(ip), t, k)' <=> BeginsIn(mem', ip + 40, t, k)
  BY <1>2 DEF Begins, BeginsIn
<1>5. TextMatches(ip, t, body)' <=> Fits(mem', pkt', ip + 40, t, body)
  BY <1>2, <1>4 DEF TextMatches, Fits
<1>6. RequestTraces(ip, t)' <=> OfRequest(mem', ip, t)
  BY <1>2, <1>4, KeyPlaces DEF RequestTraces, OfRequest
<1>7. ResponseTraces(ip)' <=> OfResponse(mem', ip)
  BY DEF ResponseTraces, OfResponse, tcp
<1>8. QED  BY <1>3, <1>5, <1>6, <1>7

\* The whole of it.
LEMMA InvAgrees ==
  ASSUME LifeInv, MatchInv, Telling(route.text)
  PROVE  Agree(stage, route, mem, pkt) /\ (stage = "misread" => BytesMatchPackets)
<1>1. /\ stage \in OutOfTunnel => IpAt(pkt.form) = 6
      /\ stage \in InClear \cup {"returned"} => IpAt(pkt.form) = 0
  BY Places DEF LifeInv, FormInv
<1>2. IsText(route.text) /\ IsText(Hello)
  BY RouteTells, HelloTells
<1> DEFINE t == route.text
<1>3. \A ip \in {0, 6} :
        /\ AddressesMatch(ip) <=> Shows(mem, pkt, ip)
        /\ TextMatches(ip, t, "payload") <=> Fits(mem, pkt, ip + 40, t, "payload")
        /\ TextMatches(ip, Hello, "hello") <=> Fits(mem, pkt, ip + 40, Hello, "hello")
        /\ RequestTraces(ip, t) <=> OfRequest(mem, ip, t)
        /\ ResponseTraces(ip) <=> OfResponse(mem, ip)
  BY <1>2, PartsAgree
<1>4. 6 + 40 = 46 /\ 0 + 40 = 40 /\ 0 \in {0, 6} /\ 6 \in {0, 6}
  OBVIOUS
<1>5. stage = "request" => pkt = P!create_packets(route.client, route.dest)
  BY DEF MatchInv
<1>6. ASSUME stage \in {"arrived", "cut"}
      PROVE  Shows(mem, pkt, 6) /\ Fits(mem, pkt, 46, t, "payload") /\ OfRequest(mem, 6, t)
  <2>1. IpAt(pkt.form) = 6
    BY <1>1, <1>6 DEF OutOfTunnel
  <2>2. AddressesMatch(6) /\ TextMatches(6, t, "payload") /\ RequestTraces(6, t)
    BY <1>6, <2>1 DEF MatchInv
  <2>3. QED  BY <1>3, <1>4, <2>2
<1>7. ASSUME stage \in {"proxied", "delivered"}
      PROVE  /\ Shows(mem, pkt, 0) /\ Fits(mem, pkt, 40, t, "payload")
             /\ stage = "proxied" => OfRequest(mem, 0, t)
  <2>1. IpAt(pkt.form) = 0
    BY <1>1, <1>7 DEF InClear
  <2>2. /\ AddressesMatch(0) /\ TextMatches(0, t, "payload")
        /\ stage = "proxied" => RequestTraces(0, t)
    BY <1>7, <2>1 DEF MatchInv
  <2>3. QED  BY <1>3, <1>4, <2>2
<1>8. ASSUME stage \in {"response", "returned"}
      PROVE  /\ Shows(mem, pkt, 0) /\ Fits(mem, pkt, 40, Hello, "hello") /\ OfResponse(mem, 0)
             /\ stage = "response" => mem[21] = 198 /\ mem[25] = 0 /\ pkt.body = "hello"
  <2>1. IpAt(pkt.form) = 0
    BY <1>1, <1>8 DEF InClear
  <2>2. /\ AddressesMatch(0) /\ TextMatches(0, Hello, "hello") /\ ResponseTraces(0)
        /\ stage = "response" => mem[21] = 198 /\ mem[25] = 0 /\ pkt.body = "hello"
    BY <1>8, <2>1 DEF MatchInv
  <2>3. QED  BY <1>3, <1>4, <2>2
<1>9. ASSUME stage \in {"wrapped", "shown"}
      PROVE  /\ Shows(mem, pkt, 6) /\ Fits(mem, pkt, 46, Hello, "hello")
             /\ stage = "wrapped" => OfResponse(mem, 6)
  <2>1. IpAt(pkt.form) = 6
    BY <1>1, <1>9 DEF OutOfTunnel
  <2>2. /\ AddressesMatch(6) /\ TextMatches(6, Hello, "hello")
        /\ stage = "wrapped" => ResponseTraces(6)
    BY <1>9, <2>1 DEF MatchInv
  <2>3. QED  BY <1>3, <1>4, <2>2
<1>10. Agree(stage, route, mem, pkt)
  BY <1>5, <1>6, <1>7, <1>8, <1>9 DEF Agree
<1>11. stage = "misread" => BytesMatchPackets
  BY DEF MatchInv
<1>12. QED  BY <1>10, <1>11

\* And in the next state.
LEMMA AgreeingNext ==
  ASSUME LifeInv', UNCHANGED route,
         Telling(route.text) =>
           /\ Agree(stage', route, mem', pkt')
           /\ stage' = "misread" => BytesMatchPackets'
  PROVE  MatchInv'
<1> SUFFICES ASSUME Telling(route.text)
             PROVE  MatchInv'
  BY DEF MatchInv
<1>1. /\ stage' \in OutOfTunnel => IpAt(pkt'.form) = 6
      /\ stage' \in InClear \cup {"returned"} => IpAt(pkt'.form) = 0
  BY Places DEF LifeInv, FormInv
<1>2. IsText(route.text) /\ IsText(Hello)
  <2>1. route \in Routes
    BY DEF LifeInv, Routes
  <2>2. QED  BY <2>1, RouteFacts, HelloTells
<1> DEFINE t == route.text
<1>3. \A ip \in {0, 6} :
        /\ AddressesMatch(ip)' <=> Shows(mem', pkt', ip)
        /\ TextMatches(ip, t, "payload")' <=> Fits(mem', pkt', ip + 40, t, "payload")
        /\ TextMatches(ip, Hello, "hello")' <=> Fits(mem', pkt', ip + 40, Hello, "hello")
        /\ RequestTraces(ip, t)' <=> OfRequest(mem', ip, t)
        /\ ResponseTraces(ip)' <=> OfResponse(mem', ip)
  BY <1>2, NextPartsAgree
<1>4. 6 + 40 = 46 /\ 0 + 40 = 40 /\ 0 \in {0, 6} /\ 6 \in {0, 6} /\ route'.text = t
  OBVIOUS
<1>5. /\ Agree(stage', route, mem', pkt')
      /\ stage' = "misread" => BytesMatchPackets'
  OBVIOUS
<1>6. stage' = "request" => pkt' = P!create_packets(route'.client, route'.dest)
  BY <1>5 DEF Agree
<1>7. ASSUME stage' \in {"arrived", "cut"}
      PROVE  /\ AddressesMatch(IpAt(pkt.form))'
             /\ TextMatches(IpAt(pkt.form), route.text, "payload")'
             /\ RequestTraces(IpAt(pkt.form), route.text)'
  <2>1. IpAt(pkt'.form) = 6
    BY <1>1, <1>7 DEF OutOfTunnel
  <2>2. Shows(mem', pkt', 6) /\ Fits(mem', pkt', 46, t, "payload") /\ OfRequest(mem', 6, t)
    BY <1>5, <1>7 DEF Agree
  <2>3. AddressesMatch(6)' /\ TextMatches(6, t, "payload")' /\ RequestTraces(6, t)'
    BY <1>3, <1>4, <2>2
  <2>4. QED  BY <1>4, <2>1, <2>3 DEF t
<1>8. ASSUME stage' \in {"proxied", "delivered"}
      PROVE  /\ AddressesMatch(IpAt(pkt.form))'
             /\ TextMatches(IpAt(pkt.form), route.text, "payload")'
             /\ stage' = "proxied" => RequestTraces(IpAt(pkt.form), route.text)'
  <2>1. IpAt(pkt'.form) = 0
    BY <1>1, <1>8 DEF InClear
  <2>2. /\ Shows(mem', pkt', 0) /\ Fits(mem', pkt', 40, t, "payload")
        /\ stage' = "proxied" => OfRequest(mem', 0, t)
    BY <1>5, <1>8 DEF Agree
  <2>3. /\ AddressesMatch(0)' /\ TextMatches(0, t, "payload")'
        /\ stage' = "proxied" => RequestTraces(0, t)'
    BY <1>3, <1>4, <2>2
  <2>4. QED  BY <1>4, <2>1, <2>3 DEF t
<1>9. ASSUME stage' \in {"response", "returned"}
      PROVE  /\ AddressesMatch(IpAt(pkt.form))'
             /\ TextMatches(IpAt(pkt.form), Hello, "hello")'
             /\ ResponseTraces(IpAt(pkt.form))'
             /\ stage' = "response" => mem'[21] = 198 /\ mem'[25] = 0 /\ pkt'.body = "hello"
  <2>1. IpAt(pkt'.form) = 0
    BY <1>1, <1>9 DEF InClear
  <2>2. /\ Shows(mem', pkt', 0) /\ Fits(mem', pkt', 40, Hello, "hello") /\ OfResponse(mem', 0)
        /\ stage' = "response" => mem'[21] = 198 /\ mem'[25] = 0 /\ pkt'.body = "hello"
    BY <1>5, <1>9 DEF Agree
  <2>3. AddressesMatch(0)' /\ TextMatches(0, Hello, "hello")' /\ ResponseTraces(0)'
    BY <1>3, <1>4, <2>2
  <2>4. QED  BY <2>1, <2>2, <2>3
<1>10. ASSUME stage' \in {"wrapped", "shown"}
       PROVE  /\ AddressesMatch(IpAt(pkt.form))'
              /\ TextMatches(IpAt(pkt.form), Hello, "hello")'
              /\ stage' = "wrapped" => ResponseTraces(IpAt(pkt.form))'
  <2>1. IpAt(pkt'.form) = 6
    BY <1>1, <1>10 DEF OutOfTunnel
  <2>2. /\ Shows(mem', pkt', 6) /\ Fits(mem', pkt', 46, Hello, "hello")
        /\ stage' = "wrapped" => OfResponse(mem', 6)
    BY <1>5, <1>10 DEF Agree
  <2>3. /\ AddressesMatch(6)' /\ TextMatches(6, Hello, "hello")'
        /\ stage' = "wrapped" => ResponseTraces(6)'
    BY <1>3, <1>4, <2>2
  <2>4. QED  BY <2>1, <2>3
<1> HIDE DEF t
<1>11. QED  BY <1>5, <1>6, <1>7, <1>8, <1>9, <1>10 DEF MatchInv

\* A text is where it is looked for, in either form and either buffer.
LEMMA TextPlaces == Rooms(Tunnel, 46) /\ Rooms(Plain, 40) /\ Rooms(Tunnel, 40)
<1>1. \A i \in Int : (i \in Tunnel <=> 0 <= i /\ i <= 173) /\ (i \in Plain <=> 0 <= i /\ i <= 167)
  BY Places
<1>2. QED  BY <1>1 DEF Rooms, Room

\* The buffer shows the packet: what that says of the texts.
LEMMA FitsTells ==
  ASSUME NEW D, NEW m \in [D -> Byte], NEW p, NEW at \in Int, NEW t, IsText(t), Len(t) <= 127,
         NEW u, IsText(u), Differ(t, u), Rooms(D, at), NEW body, Fits(m, p, at, t, body)
  PROVE  (p.body = body <=> Text(m, at) = t) /\ Text(m, at) # u
<1>1. PICK k \in Nat : k <= Len(t) /\ BeginsIn(m, at, t, k) /\ (p.body = body <=> k = Len(t))
  BY DEF Fits
<1>2. Len(t) \in Nat
  BY TextBytes
<1>3. Room(D, at, k)
  BY <1>1, <1>2 DEF Rooms
<1>4. Text(m, at) = t <=> k = Len(t)
  BY <1>1, <1>3, TextRead
<1>5. Text(m, at) # u
  BY <1>1, OtherText
<1>6. QED  BY <1>1, <1>4, <1>5

\* BytesMatchPackets is what MatchInv says of the fields that are shown.
LEMMA MatchShows ==
  ASSUME LifeInv, MatchInv
  PROVE  BytesMatchPackets
<1> SUFFICES ASSUME stage \notin {"start", "request"}, Telling(route.text)
             PROVE  /\ HostOf(Shown.src) = pkt.src
                    /\ HostOf(Shown.dst) = pkt.dst
                    /\ (pkt.body = "payload") = (Shown.text = route.text)
                    /\ (pkt.body = "hello") = (Shown.text = Hello)
  BY DEF BytesMatchPackets
<1>1. /\ Agree(stage, route, mem, pkt) /\ (stage = "misread" => BytesMatchPackets)
      /\ FormInv /\ MemoryInv
  BY InvAgrees DEF LifeInv
<1> DEFINE t == route.text
<1>2. /\ IsText(t) /\ Len(t) \in Nat /\ Len(t) <= 127
      /\ \E i \in 1..Len(t) : i <= 26 /\ t[i] # Hello[i]
  BY RouteTells
<1>3. IsText(Hello) /\ Len(Hello) = 26
  BY HelloTells
<1>4. Differ(t, Hello) /\ Differ(Hello, t)
  <2>1. PICK i \in 1..Len(t) : i <= 26 /\ t[i] # Hello[i]
    BY <1>2
  <2>2. i \in 1..Len(Hello) /\ i <= Len(Hello) /\ i <= Len(t)
    BY <1>2, <1>3, <2>1
  <2>3. QED  BY <2>1, <2>2 DEF Differ
<1>5. Rooms(Tunnel, 46) /\ Rooms(Plain, 40) /\ Rooms(Tunnel, 40)
  BY TextPlaces
<1>6. Shown = IF pkt.form = "tunnel"
              THEN [src |-> Addr(mem, 18), dst |-> Addr(mem, 22), text |-> Text(mem, 46)]
              ELSE [src |-> Addr(mem, 12), dst |-> Addr(mem, 16), text |-> Text(mem, 40)]
  BY Places DEF Shown, print_packet, print_packet_unencap, Printed, IpSrc, IpDst, GreSize
<1> HIDE DEF t
<1>7. CASE stage \in {"arrived", "cut"}
  <2>1. /\ Shows(mem, pkt, 6) /\ Fits(mem, pkt, 46, t, "payload") /\ pkt.form = "tunnel"
        /\ mem \in [Tunnel -> Byte]
    BY <1>1, <1>7, Memory DEF Agree, FormInv, OutOfTunnel, InClear, t
  <2>2. (pkt.body = "payload" <=> Text(mem, 46) = t) /\ Text(mem, 46) # Hello
    <3>1. /\ IsText(t) /\ Len(t) <= 127 /\ IsText(Hello) /\ Differ(t, Hello) /\ Rooms(Tunnel, 46)
          /\ 46 \in Int /\ Fits(mem, pkt, 46, t, "payload") /\ mem \in [Tunnel -> Byte]
      BY <1>2, <1>3, <1>4, <1>5, <2>1
    <3>2. QED  BY ONLY <3>1, FitsTells
  <2>3. pkt.body # "hello"
    BY <2>1 DEF Fits
  <2>4. QED  BY <1>6, <2>1, <2>2, <2>3 DEF Shows, t
<1>8. CASE stage \in {"proxied", "delivered"}
  <2>1. /\ Shows(mem, pkt, 0) /\ Fits(mem, pkt, 40, t, "payload") /\ pkt.form = "plain"
        /\ mem \in [Plain -> Byte]
    BY <1>1, <1>8, Memory DEF Agree, FormInv, InClear, t
  <2>2. (pkt.body = "payload" <=> Text(mem, 40) = t) /\ Text(mem, 40) # Hello
    <3>1. /\ IsText(t) /\ Len(t) <= 127 /\ IsText(Hello) /\ Differ(t, Hello) /\ Rooms(Plain, 40)
          /\ 40 \in Int /\ Fits(mem, pkt, 40, t, "payload") /\ mem \in [Plain -> Byte]
      BY <1>2, <1>3, <1>4, <1>5, <2>1
    <3>2. QED  BY ONLY <3>1, FitsTells
  <2>3. pkt.body # "hello"
    BY <2>1 DEF Fits
  <2>4. QED  BY <1>6, <2>1, <2>2, <2>3 DEF Shows, t
<1>9. CASE stage \in {"response", "returned"}
  <2>1. /\ Shows(mem, pkt, 0) /\ Fits(mem, pkt, 40, Hello, "hello") /\ pkt.form = "plain"
        /\ mem \in [Plain -> Byte] \/ mem \in [Tunnel -> Byte]
    BY <1>1, <1>9, Memory DEF Agree, FormInv, InClear
  <2>2. (pkt.body = "hello" <=> Text(mem, 40) = Hello) /\ Text(mem, 40) # t
    <3>1. /\ IsText(Hello) /\ Len(Hello) <= 127 /\ IsText(t) /\ Differ(Hello, t)
          /\ 40 \in Int /\ Fits(mem, pkt, 40, Hello, "hello")
      BY <1>2, <1>3, <1>4, <2>1
    <3>2. \E D : Rooms(D, 40) /\ mem \in [D -> Byte]
      BY <1>5, <2>1
    <3>3. PICK D : Rooms(D, 40) /\ mem \in [D -> Byte]
      BY <3>2
    <3>4. QED  BY ONLY <3>1, <3>3, FitsTells
  <2>3. pkt.body # "payload"
    BY <2>1 DEF Fits
  <2>4. QED  BY <1>6, <2>1, <2>2, <2>3 DEF Shows, t
<1>10. CASE stage \in {"wrapped", "shown"}
  <2>1. /\ Shows(mem, pkt, 6) /\ Fits(mem, pkt, 46, Hello, "hello") /\ pkt.form = "tunnel"
        /\ mem \in [Tunnel -> Byte]
    BY <1>1, <1>10, Memory DEF Agree, FormInv, OutOfTunnel, InClear
  <2>2. (pkt.body = "hello" <=> Text(mem, 46) = Hello) /\ Text(mem, 46) # t
    <3>1. /\ IsText(Hello) /\ Len(Hello) <= 127 /\ IsText(t) /\ Differ(Hello, t)
          /\ 46 \in Int /\ Fits(mem, pkt, 46, Hello, "hello")
          /\ Rooms(Tunnel, 46) /\ mem \in [Tunnel -> Byte]
      BY <1>2, <1>3, <1>4, <1>5, <2>1
    <3>2. QED  BY ONLY <3>1, FitsTells
  <2>3. pkt.body # "payload"
    BY <2>1 DEF Fits
  <2>4. QED  BY <1>6, <2>1, <2>2, <2>3 DEF Shows, t
<1>11. CASE stage = "misread"
  BY <1>1, <1>11 DEF BytesMatchPackets
<1>12. stage \in {"returned", "misread"} \cup InClear \cup OutOfTunnel
  BY <1>1 DEF FormInv
<1>13. QED  BY <1>7, <1>8, <1>9, <1>10, <1>11, <1>12 DEF InClear, OutOfTunnel

\* The same bytes at another place.
LEMMA BeginsShifted ==
  ASSUME NEW m, NEW n, NEW from \in Int, NEW at \in Int, NEW t, NEW k \in Nat,
         \A i \in 0..k : n[at + i] = m[from + i]
  PROVE  BeginsIn(n, at, t, k) <=> BeginsIn(m, from, t, k)
<1>1. n[at + k] = m[from + k]
  OBVIOUS
<1>2. ASSUME NEW j \in 1..k
      PROVE  n[at + j - 1] = m[from + j - 1]
  <2>1. j - 1 \in 0..k /\ at + (j - 1) = at + j - 1 /\ from + (j - 1) = from + j - 1
    OBVIOUS
  <2>2. n[at + (j - 1)] = m[from + (j - 1)]
    BY <2>1
  <2>3. QED  BY <2>1, <2>2
<1>3. QED  BY <1>1, <1>2 DEF BeginsIn

\* A buffer has no two beginnings of a text, which has no zeroes.
LEMMA BeginsOnce ==
  ASSUME NEW m, NEW at \in Int, NEW t, IsText(t), NEW k \in Nat, NEW l \in Nat,
         k <= Len(t), l <= Len(t), BeginsIn(m, at, t, k), BeginsIn(m, at, t, l)
  PROVE  k = l
<1>1. \A j \in 1..Len(t) : t[j] # 0
  BY TextBytes
<1>2. Len(t) \in Nat
  BY TextBytes
<1>3. /\ \A j \in 1..k : m[at + j - 1] = t[j]
      /\ \A j \in 1..l : m[at + j - 1] = t[j]
      /\ m[at + k] = 0 /\ m[at + l] = 0
  BY DEF BeginsIn
<1>4. ~(k < l)
  <2> SUFFICES ASSUME k < l PROVE FALSE
    OBVIOUS
  <2>1. k + 1 \in 1..l /\ k + 1 \in 1..Len(t) /\ at + (k + 1) - 1 = at + k
    BY <1>2
  <2>2. QED  BY <1>1, <1>3, <2>1
<1>5. ~(l < k)
  <2> SUFFICES ASSUME l < k PROVE FALSE
    OBVIOUS
  <2>1. l + 1 \in 1..k /\ l + 1 \in 1..Len(t) /\ at + (l + 1) - 1 = at + l
    BY <1>2
  <2>2. QED  BY <1>1, <1>3, <2>1
<1>6. QED  BY <1>4, <1>5

-----------------------------------------------------------------------------
(***************************************************************************)
(* The steps of a conversation.                                            *)
(***************************************************************************)

\* A request before it is encrypted, and after.
LEMMA RequestIs ==
  ASSUME NEW src \in Host, NEW dst \in Host, NEW t, IsText(t), Telling(t)
  PROVE  LET q == create_packets(src, dst, tcp, t, 2)
             c == create_packets_des(src, dst, tcp, t, 2)
         IN  /\ c \in [Tunnel -> Byte] /\ q \in [Tunnel -> Byte]
             /\ Addr(c, 18) = src /\ Addr(c, 22) = dst
             /\ c[15] = 6 /\ c[19] = 0 /\ c[27] = 198 /\ c[31] = 0 /\ c[40] = 0
             /\ Encrypts(q, c, 46 + Len(t)) /\ Survives(c, t, Len(t))
<1> DEFINE flags == 2
           q == create_packets(src, dst, tcp, t, 2)
           c == create_packets_des(src, dst, tcp, t, 2)
           d == create_packets_des(src, dst, tcp, t, flags)
<1>1. /\ IsText(t) /\ Len(t) \in Nat /\ 1 <= Len(t) /\ Len(t) <= 127 /\ Clamped(Len(t)) = Len(t)
      /\ \A j \in 1..Len(t) : t[j] # KeyAt(46 + j - 1)
  BY Tells
<1>2. IsAddress(src) /\ IsAddress(dst) /\ src[3] = 0
  BY HostOctets
<1>3. flags \in Byte /\ t \in Seq(Byte) /\ Len(t) <= MaxPayload
  BY <1>1, TextBytes DEF Byte, MaxPayload
<1> HIDE DEF flags
<1>4. /\ d \in [Tunnel -> Byte]
      /\ d[15] = 6 /\ d[27] = 198 /\ d[31] = 0 /\ d[40] = 0
      /\ \A i \in Tunnel : 18 <= i /\ i <= 21 => d[i] = src[22 - i]
      /\ \A i \in Tunnel : 22 <= i /\ i <= 25 => d[i] = dst[26 - i]
      /\ \A i \in Tunnel : i >= 46 =>
           d[i] = IF i = 46 + Clamped(Len(t)) THEN 0
                  ELSE IF i - 46 < Len(t) THEN t[i - 45] ELSE 0
  BY <1>2, <1>3, CreatedInClear
<1>5. c = d
  BY DEF flags
<1>6. q \in [Tunnel -> Byte] /\ \A i \in Tunnel : i # 46 + Clamped(Len(t)) => q[i] = BitXor(c[i], KeyAt(i))
  BY <1>1, <1>2, CreatedAt
<1> HIDE DEF c, d, q
<1>7. \A i \in Int : i \in Tunnel <=> 0 <= i /\ i <= 173
  BY Places
<1>8. Addr(c, 18) = src
  <2>1. c[18] = src[4] /\ c[18 + 1] = src[3] /\ c[18 + 2] = src[2] /\ c[18 + 3] = src[1]
    <3>1. 18 \in Tunnel /\ 19 \in Tunnel /\ 20 \in Tunnel /\ 21 \in Tunnel
      BY <1>7
    <3>2. d[18] = src[22 - 18] /\ d[19] = src[22 - 19] /\ d[20] = src[22 - 20] /\ d[21] = src[22 - 21]
      BY <1>4, <3>1
    <3>3. QED  BY <1>5, <3>2
  <2>2. 18 \in Int
    OBVIOUS
  <2>3. QED  BY <1>2, <2>1, <2>2, StoredAddr
<1>9. Addr(c, 22) = dst
  <2>1. c[22] = dst[4] /\ c[22 + 1] = dst[3] /\ c[22 + 2] = dst[2] /\ c[22 + 3] = dst[1]
    <3>1. 22 \in Tunnel /\ 23 \in Tunnel /\ 24 \in Tunnel /\ 25 \in Tunnel
      BY <1>7
    <3>2. d[22] = dst[26 - 22] /\ d[23] = dst[26 - 23] /\ d[24] = dst[26 - 24] /\ d[25] = dst[26 - 25]
      BY <1>4, <3>1
    <3>3. QED  BY <1>5, <3>2
  <2>2. 22 \in Int
    OBVIOUS
  <2>3. QED  BY <1>2, <2>1, <2>2, StoredAddr
<1>10. c[19] = 0
  <2>1. 19 \in Tunnel /\ 22 - 19 = 3
    BY <1>7
  <2>2. d[19] = src[22 - 19]
    BY <1>4, <2>1
  <2>3. QED  BY <1>2, <1>5, <2>1, <2>2
<1>11. Encrypts(q, c, 46 + Len(t))
  <2> SUFFICES ASSUME NEW i \in 0..(46 + Len(t) - 1)
               PROVE  c[i] \in Byte /\ q[i] = BitXor(c[i], KeyAt(i))
    BY DEF Encrypts
  <2>1. i \in Tunnel /\ i # 46 + Clamped(Len(t))
    BY <1>1, <1>7
  <2>2. QED  BY <1>4, <1>5, <1>6, <2>1
<1>12. Survives(c, t, Len(t))
  <2> SUFFICES ASSUME NEW j \in 1..Len(t)
               PROVE  c[46 + j - 1] = t[j] /\ t[j] # KeyAt(46 + j - 1)
    BY DEF Survives
  <2> DEFINE i == 46 + j - 1
  <2>1. i \in Tunnel /\ i >= 46 /\ i # 46 + Clamped(Len(t)) /\ i - 46 < Len(t) /\ i - 45 = j
    BY <1>1, <1>7
  <2> HIDE DEF i
  <2>2. d[i] = t[i - 45]
    BY <1>4, <2>1
  <2>3. QED  BY <1>1, <1>5, <2>1, <2>2 DEF i
<1>13. QED  BY <1>4, <1>5, <1>6, <1>8, <1>9, <1>10, <1>11, <1>12 DEF c, q

\* The client has made its request.
LEMMA MakeRequestMatches ==
  ASSUME LifeInv', MakeRequest
  PROVE  MatchInv'
<1>1. /\ FormInv' /\ UNCHANGED route /\ stage' = "request"
      /\ pkt' = P!create_packets(route.client, route.dest)
  BY DEF LifeInv, MakeRequest
<1>2. Agree(stage', route, mem', pkt')
  BY <1>1 DEF Agree
<1>3. QED  BY <1>1, <1>2, AgreeingNext

\* The server has received it.
LEMMA ServerReceivesMatches ==
  ASSUME LifeInv, MatchInv, LifeInv', ServerReceives
  PROVE  MatchInv'
<1>1. FormInv' /\ UNCHANGED route /\ stage' \in {"arrived", "cut"} /\ stage = "request"
  BY DEF LifeInv, ServerReceives
<1> SUFFICES ASSUME Telling(route.text)
             PROVE  Agree(stage', route, mem', pkt') /\ stage' # "misread"
  BY <1>1, AgreeingNext
<1> DEFINE t == route.text
           q == create_packets(route.client, route.dest, tcp, t, 2)
           c == create_packets_des(route.client, route.dest, tcp, t, 2)
           all == get_packet_size(tcp, Len(t))
<1>2. PICK n \in ReadSizes(all) :
        mem' = serv_rec_from_cli(Bytes(mem, 0, n)) /\ pkt' = Arrived("tunnel", n, all, all)
  BY DEF ServerReceives
<1>3. /\ IsText(t) /\ Len(t) \in Nat /\ 1 <= Len(t) /\ Len(t) <= 127
  BY RouteTells
<1>4. all = 46 + Len(t)
  BY <1>3, PacketSize
<1>5. n \in Nat /\ n <= 46 + Len(t)
  <2>1. all \in Nat
    BY <1>3, <1>4
  <2>2. n \in Nat /\ n <= all
    BY <2>1, Reads
  <2>3. QED  BY <1>4, <2>2
<1> HIDE DEF all
<1>6. /\ route.client \in Host /\ route.dest \in Host /\ mem = q
      /\ pkt = P!create_packets(route.client, route.dest)
  BY <1>1, RouteFacts DEF LifeInv, MatchInv
<1>7. /\ Addr(c, 18) = route.client /\ Addr(c, 22) = route.dest
      /\ c[27] = 198 /\ c[31] = 0
      /\ Encrypts(q, c, 46 + Len(t)) /\ Survives(c, t, Len(t))
  BY <1>3, <1>6, RequestIs
<1>8. /\ pkt \in P!Packet /\ pkt.form = "tunnel" /\ pkt.src = route.client
      /\ pkt.dst = route.dest /\ pkt.body = "payload"
  BY <1>6, Forms DEF P!create_packets
<1>9. Shows(c, pkt, 6)
  <2>1. 6 + 12 = 18 /\ 6 + 16 = 22
    OBVIOUS
  <2>2. HostOf(route.client) = route.client /\ HostOf(route.dest) = route.dest
    BY <1>6, HostOctets
  <2>3. QED  BY <1>7, <1>8, <2>1, <2>2 DEF Shows
<1> HIDE DEF c, q, t
<1>10. Encrypts(q, c, n)
  BY <1>3, <1>5, <1>7 DEF Encrypts
<1> DEFINE k == Len(t)
           out == serv_rec_from_cli(Bytes(q, 0, n))
<1>11. Shows(mem', pkt', 6) /\ Fits(mem', pkt', 46, t, "payload")
  <2> DEFINE body == "payload"
  <2>1. /\ k \in Nat /\ k <= 127 /\ k <= Len(t) /\ n <= 46 + k /\ Survives(c, t, k)
        /\ body \notin {"cut", "none"} /\ pkt.body \in {body, "cut", "none"}
        /\ pkt.body = body <=> k = Len(t)
    BY <1>3, <1>5, <1>7, <1>8
  <2> HIDE DEF body, k
  <2>2. Shows(out, Arrived("tunnel", n, 46 + k, 46 + k), 6)
        /\ Fits(out, Arrived("tunnel", n, 46 + k, 46 + k), 46, t, body)
    BY <1>3, <1>5, <1>8, <1>9, <1>10, <2>1, TunnelFits
  <2>3. QED  BY <1>2, <1>4, <1>6, <2>2 DEF body, k
<1>12. OfRequest(mem', 6, t)
  <2>1. k \in Nat /\ k <= 127 /\ n <= 46 + k /\ Survives(c, t, k)
    BY <1>3, <1>5, <1>7
  <2> DEFINE e == TextIn(n)
  <2>2. /\ \A i \in Tunnel : i < n => out[i] = c[i]
        /\ \A i \in Tunnel : i >= n /\ i # 46 + e => out[i] = KeyAt(i)
        /\ BeginsIn(out, 46, t, e)
    BY <1>5, <1>10, <2>1, TunnelOpened
  <2>3. e \in Nat /\ e <= k /\ (e < 6 => n <= 52)
    BY <1>5, <2>1 DEF TextIn
  <2>4. out = mem'
    BY <1>2, <1>6
  <2> HIDE DEF out, e
  <2>5. 27 \in Tunnel /\ 31 \in Tunnel /\ 52 \in Tunnel
    BY Places
  <2>6. (27 < n \/ 27 >= n) /\ (31 < n \/ 31 >= n) /\ 27 # 46 + e /\ 31 # 46 + e
    BY <1>5, <2>3
  <2>7. out[27] \in {198, 120} /\ out[31] \in {0, 120}
    BY <1>7, <2>2, <2>5, <2>6, KeyPlaces
  <2>8. ASSUME NEW l \in Nat, l <= Len(t), l < 6, BeginsIn(out, 46, t, l)
        PROVE  out[52] = 18
    <3>1. e = l
      <4>1. 46 \in Int /\ e <= Len(t)
        BY <2>3
      <4>2. QED  BY <1>3, <2>2, <2>3, <2>8, <4>1, BeginsOnce
    <3>2. 52 >= n /\ 52 # 46 + e
      BY <1>5, <2>3, <2>8, <3>1
    <3>3. QED  BY <2>2, <2>5, <3>2, KeyPlaces
  <2>9. 6 + 21 = 27 /\ 6 + 25 = 31 /\ 6 + 40 = 46 /\ 6 + 46 = 52
    OBVIOUS
  <2>10. QED  BY <2>4, <2>7, <2>8, <2>9 DEF OfRequest
<1>13. QED  BY <1>1, <1>11, <1>12 DEF Agree, t

\* Where a text is, two buffers have the same bytes.
SameText(m, from, n, at) == \A i \in 0..127 : n[at + i] = m[from + i]

\* As much of a text, at another place of another buffer.
LEMMA FitsShifted ==
  ASSUME NEW m, NEW p, NEW from \in Int, NEW t, IsText(t), Len(t) <= 127, NEW body,
         Fits(m, p, from, t, body),
         NEW n, NEW r, r.body = p.body, NEW at \in Int, SameText(m, from, n, at)
  PROVE  Fits(n, r, at, t, body)
<1>1. PICK k \in Nat : k <= Len(t) /\ BeginsIn(m, from, t, k) /\ (p.body = body <=> k = Len(t))
  BY DEF Fits
<1>2. k <= 127
  <2>1. Len(t) \in Nat
    BY TextBytes
  <2>2. QED  BY <1>1, <2>1
<1>3. ASSUME NEW i \in 0..k
      PROVE  n[at + i] = m[from + i]
  <2>1. i \in 0..127
    BY <1>2
  <2>2. QED  BY <2>1 DEF SameText
<1>4. BeginsIn(n, at, t, k)
  BY <1>1, <1>3, BeginsShifted
<1>5. p.body \in {body, "cut", "none"}
  BY DEF Fits
<1>6. QED  BY <1>1, <1>4, <1>5 DEF Fits

\* The server has taken it out of the tunnel.
LEMMA ServerRewritesMatches ==
  ASSUME LifeInv, MatchInv, LifeInv', ServerRewrites
  PROVE  MatchInv'
<1>1. /\ FormInv' /\ UNCHANGED route /\ stage \in {"arrived", "cut"} /\ stage' = "proxied"
      /\ mem' = serv_handle_pkt(mem, route.server)
      /\ pkt' = P!serv_handle_pkt(pkt, route.server)
      /\ FormInv /\ MemoryInv /\ route \in Routes
  BY DEF LifeInv, ServerRewrites
<1> SUFFICES ASSUME Telling(route.text)
             PROVE  Agree(stage', route, mem', pkt') /\ stage' # "misread"
  BY <1>1, AgreeingNext
<1> DEFINE t == route.text
           a == route.server
<1>2. Shows(mem, pkt, 6) /\ Fits(mem, pkt, 46, t, "payload") /\ OfRequest(mem, 6, t)
  BY <1>1, InvAgrees DEF Agree
<1>3. IsText(t) /\ Len(t) \in Nat /\ Len(t) <= 127
  BY RouteTells
<1>4. mem \in [Tunnel -> Byte] /\ pkt \in P!Packet
  BY <1>1, Memory DEF InClear, FormInv, OutOfTunnel
<1>5. a \in Host /\ IsAddress(a) /\ HostOf(a) = a
  BY <1>1, RouteFacts, HostOctets
<1> HIDE DEF t
<1>6. /\ \A i \in Plain : i > 15 => mem'[i] = mem[i + 6]
      /\ \A i \in Plain : 12 <= i /\ i <= 15 => mem'[i] = a[16 - i]
  <2>1. /\ \A i \in Plain : i < 10 \/ i = 16 \/ i = 17 \/ i = 18 \/ i = 19 \/ i > 19 =>
             serv_handle_pkt(mem, a)[i] = mem[i + 6]
        /\ \A i \in Plain : 12 <= i /\ i <= 15 => serv_handle_pkt(mem, a)[i] = a[16 - i]
    BY <1>4, <1>5, ServHandlePktAt
  <2>2. \A i \in Int : i > 15 => i = 16 \/ i = 17 \/ i = 18 \/ i = 19 \/ i > 19
    OBVIOUS
  <2>3. QED  BY <1>1, <2>1, <2>2, Places
<1>7. \A i \in Int : i \in Plain <=> 0 <= i /\ i <= 167
  BY Places
<1>8. pkt'.src = a /\ pkt'.dst = pkt.dst /\ pkt'.body = pkt.body
  BY <1>1, <1>4 DEF P!serv_handle_pkt, P!Packet
<1> HIDE DEF a
<1>9. Shows(mem', pkt', 0)
  <2>1. Addr(mem', 12) = a
    <3>1. 12 \in Plain /\ 13 \in Plain /\ 14 \in Plain /\ 15 \in Plain
      BY <1>7
    <3>2. mem'[12] = a[16 - 12] /\ mem'[13] = a[16 - 13] /\ mem'[14] = a[16 - 14] /\ mem'[15] = a[16 - 15]
      BY <1>6, <3>1
    <3>3. mem'[12] = a[4] /\ mem'[12 + 1] = a[3] /\ mem'[12 + 2] = a[2] /\ mem'[12 + 3] = a[1]
      BY <3>2
    <3>4. QED  BY <1>5, <3>3, StoredAddr
  <2>2. Addr(mem', 16) = Addr(mem, 22)
    <3>1. 16 \in Plain /\ 17 \in Plain /\ 18 \in Plain /\ 19 \in Plain
      BY <1>7
    <3>2. /\ mem'[16] = mem[16 + 6] /\ mem'[17] = mem[17 + 6]
          /\ mem'[18] = mem[18 + 6] /\ mem'[19] = mem[19 + 6]
      BY <1>6, <3>1
    <3>3. /\ mem'[16] = mem[22] /\ mem'[16 + 1] = mem[22 + 1]
          /\ mem'[16 + 2] = mem[22 + 2] /\ mem'[16 + 3] = mem[22 + 3]
      BY <3>2
    <3>4. QED  BY <3>3, SameAddr
  <2>3. HostOf(Addr(mem, 22)) = pkt.dst
    BY <1>2 DEF Shows
  <2>4. QED  BY <1>5, <1>8, <2>1, <2>2, <2>3 DEF Shows
<1>10. ASSUME NEW i \in 0..127
       PROVE  mem'[40 + i] = mem[46 + i]
  <2>1. 40 + i \in Plain /\ 40 + i > 15 /\ 40 + i + 6 = 46 + i
    BY <1>7
  <2>2. QED  BY <1>6, <2>1
<1>11. Fits(mem', pkt', 40, t, "payload")
  <2>1. SameText(mem, 46, mem', 40)
    BY <1>10 DEF SameText
  <2>2. pkt'.body = pkt.body /\ IsText(t) /\ Len(t) <= 127 /\ Fits(mem, pkt, 46, t, "payload")
    BY <1>2, <1>3, <1>8
  <2>3. QED  BY <2>1, <2>2, FitsShifted
<1>12. OfRequest(mem', 0, t)
  <2>1. mem'[21] = mem[27] /\ mem'[25] = mem[31] /\ mem'[46] = mem[52]
    <3>1. 21 \in Plain /\ 25 \in Plain /\ 46 \in Plain
      BY <1>7
    <3>2. mem'[21] = mem[21 + 6] /\ mem'[25] = mem[25 + 6] /\ mem'[46] = mem[46 + 6]
      BY <1>6, <3>1
    <3>3. QED  BY <3>2
  <2>2. /\ mem[27] \in {198, 120} /\ mem[31] \in {0, 120}
        /\ \A k \in Nat : k <= Len(t) /\ k < 6 /\ BeginsIn(mem, 46, t, k) => mem[52] = 18
    BY <1>2 DEF OfRequest
  <2>3. ASSUME NEW k \in Nat, k <= Len(t), k < 6, BeginsIn(mem', 40, t, k)
        PROVE  mem'[46] = 18
    <3>1. ASSUME NEW i \in 0..k
          PROVE  mem'[40 + i] = mem[46 + i]
      <4>1. i \in 0..127
        BY <2>3
      <4>2. QED  BY <1>10, <4>1
    <3>2. BeginsIn(mem, 46, t, k)
      BY <2>3, <3>1, BeginsShifted
    <3>3. QED  BY <2>1, <2>2, <2>3, <3>2
  <2>4. 0 + 21 = 21 /\ 0 + 25 = 25 /\ 0 + 40 = 40 /\ 0 + 46 = 46
    OBVIOUS
  <2>5. QED  BY <2>1, <2>2, <2>3, <2>4 DEF OfRequest
<1>13. QED  BY <1>1, <1>9, <1>11, <1>12 DEF Agree, t

\* The destination has received it.
LEMMA DestinationReceivesMatches ==
  ASSUME LifeInv, MatchInv, LifeInv', DestinationReceives
  PROVE  MatchInv'
<1>1. /\ FormInv' /\ UNCHANGED route /\ stage = "proxied" /\ stage' = "delivered"
      /\ FormInv /\ MemoryInv /\ route \in Routes
  BY DEF LifeInv, DestinationReceives
<1> SUFFICES ASSUME Telling(route.text)
             PROVE  Agree(stage', route, mem', pkt') /\ stage' # "misread"
  BY <1>1, AgreeingNext
<1> DEFINE t == route.text
<1>2. Shows(mem, pkt, 0) /\ Fits(mem, pkt, 40, t, "payload")
  BY <1>1, InvAgrees DEF Agree
<1>3. IsText(t) /\ Len(t) \in Nat /\ 1 <= Len(t) /\ Len(t) <= 127
  BY RouteTells
<1>4. mem \in [Plain -> Byte] /\ pkt \in P!Packet /\ pkt.form = "plain"
  BY <1>1, Memory DEF InClear, FormInv
<1>5. PICK n \in ReadSizes(PlainSize) :
        /\ mem' = dest_rec_pkt(Bytes(mem, 0, n))
        /\ pkt' = Arrived("plain", n, TextOf(0) + Len(t), PlainSize)
  BY DEF DestinationReceives
<1> HIDE DEF t
<1>6. PlainSize = 168 /\ PlainSize \in Nat /\ TextOf(0) = 40
  BY Places
<1>7. n \in Nat /\ n <= 168
  <2>1. n \in Nat /\ n <= PlainSize
    BY <1>6, Reads
  <2>2. QED  BY <1>6, <2>1
<1>8. \A i \in 0..(n - 1) : mem[i] \in Byte
  BY <1>4, <1>7, Places
<1>9. \A i \in Plain : mem'[i] = IF i < n THEN mem[i] ELSE 0
  BY <1>5, <1>7, <1>8, ClearRead
<1>10. \A i \in Int : 0 <= i /\ i <= 167 => mem'[i] = IF i < n THEN mem[i] ELSE 0
  BY <1>9, Places
<1> DEFINE body == "payload"
           end == 40 + Len(t)
           all == PlainSize
<1>11. /\ body \notin {"cut", "none"} /\ Fits(mem, pkt, 40, t, body)
       /\ end = 40 + Len(t) /\ all \in Nat /\ end <= all
  BY <1>2, <1>3, <1>6
<1>12. pkt' = Arrived("plain", n, end, all)
  BY <1>5, <1>6
<1> HIDE DEF body, end, all
<1>13. LET p == Arrived("plain", n, end, all)
       IN  Shows(mem', p, 0) /\ Fits(mem', p, 40, t, body)
  BY <1>2, <1>3, <1>4, <1>7, <1>10, <1>11, ClearFits
<1>14. Shows(mem', pkt', 0) /\ Fits(mem', pkt', 40, t, "payload")
  BY <1>12, <1>13 DEF body
<1>15. QED  BY <1>1, <1>14 DEF Agree, t

\* The destination has made its answer.
LEMMA MakeResponseMatches ==
  ASSUME LifeInv, MatchInv, LifeInv', MakeResponse
  PROVE  MatchInv'
<1> DEFINE to == Addr(mem, 12)
           flags == 22
           c == create_packets_des(route.dest, to, tcp, Hello, flags)
<1>1. /\ FormInv' /\ UNCHANGED route /\ stage = "delivered" /\ stage' = "response"
      /\ FormInv /\ MemoryInv /\ route \in Routes
      /\ mem' = packet_decapsulate(c) /\ pkt' = P!create_packets_des(route.dest, pkt.src)
  BY DEF LifeInv, MakeResponse, IpSrc
<1> SUFFICES ASSUME Telling(route.text)
             PROVE  Agree(stage', route, mem', pkt') /\ stage' # "misread"
  BY <1>1, AgreeingNext
<1>2. HostOf(to) = pkt.src
  <2>1. Shows(mem, pkt, 0) /\ 0 + 12 = 12
    BY <1>1, InvAgrees DEF Agree
  <2>2. QED  BY <2>1 DEF Shows
<1>3. mem \in [Plain -> Byte]
  BY <1>1, Memory DEF InClear
<1>4. IsAddress(to)
  <2>1. \A i \in Int : 12 <= i /\ i <= 12 + 3 => mem[i] \in Byte
    BY <1>3, Places
  <2>2. QED  BY <2>1, AddrAt
<1>5. /\ route.dest \in Host /\ IsAddress(route.dest) /\ route.dest[3] = 0
      /\ HostOf(route.dest) = route.dest
  BY <1>1, RouteFacts, HostOctets
<1>6. flags \in Byte /\ Hello \in Seq(Byte) /\ Len(Hello) <= MaxPayload
  BY HelloIs DEF Byte, MaxPayload
<1> HIDE DEF to, flags
<1>7. /\ c \in [Tunnel -> Byte]
      /\ c[15] = 6 /\ c[27] = 198 /\ c[31] = 0 /\ c[40] = 0
      /\ \A i \in Tunnel : 18 <= i /\ i <= 21 => c[i] = route.dest[22 - i]
      /\ \A i \in Tunnel : 22 <= i /\ i <= 25 => c[i] = to[26 - i]
      /\ \A i \in Tunnel : i >= 46 =>
           c[i] = IF i = 46 + Clamped(Len(Hello)) THEN 0
                  ELSE IF i - 46 < Len(Hello) THEN Hello[i - 45] ELSE 0
  BY <1>4, <1>5, <1>6, CreatedInClear
<1> HIDE DEF c
<1>8. Len(Hello) = 26 /\ Clamped(Len(Hello)) = 26
  BY HelloIs DEF Clamped, MaxPayload
<1>9. \A i \in Plain : mem'[i] = c[i + 6] /\ i + 6 \in Tunnel
  BY <1>1, Places DEF packet_decapsulate, Plain, GreSize
<1>10. \A i \in Int : i \in Plain <=> 0 <= i /\ i <= 167
  BY Places
<1>11. pkt'.src = route.dest /\ pkt'.dst = pkt.src /\ pkt'.body = "hello"
  BY <1>1 DEF P!create_packets_des
<1>12. ASSUME NEW i \in Int, 12 <= i, i <= 15
       PROVE  mem'[i] = route.dest[16 - i]
  <2> DEFINE l == i + 6
  <2>1. i \in Plain /\ 18 <= l /\ l <= 21 /\ 22 - l = 16 - i
    BY <1>10, <1>12
  <2>2. l \in Tunnel /\ mem'[i] = c[l]
    BY <1>9, <2>1
  <2> HIDE DEF l
  <2>3. c[l] = route.dest[22 - l]
    BY <1>7, <2>1, <2>2
  <2>4. QED  BY <2>1, <2>2, <2>3
<1>13. ASSUME NEW i \in Int, 16 <= i, i <= 19
       PROVE  mem'[i] = to[20 - i]
  <2> DEFINE l == i + 6
  <2>1. i \in Plain /\ 22 <= l /\ l <= 25 /\ 26 - l = 20 - i
    BY <1>10, <1>13
  <2>2. l \in Tunnel /\ mem'[i] = c[l]
    BY <1>9, <2>1
  <2> HIDE DEF l
  <2>3. c[l] = to[26 - l]
    BY <1>7, <2>1, <2>2
  <2>4. QED  BY <2>1, <2>2, <2>3
<1>14. Shows(mem', pkt', 0)
  <2>1. Addr(mem', 12) = route.dest
    <3>1. /\ mem'[12] = route.dest[16 - 12] /\ mem'[13] = route.dest[16 - 13]
          /\ mem'[14] = route.dest[16 - 14] /\ mem'[15] = route.dest[16 - 15]
      BY <1>12
    <3>2. /\ mem'[12] = route.dest[4] /\ mem'[12 + 1] = route.dest[3]
          /\ mem'[12 + 2] = route.dest[2] /\ mem'[12 + 3] = route.dest[1]
      BY <3>1
    <3>3. QED  BY <1>5, <3>2, StoredAddr
  <2>2. Addr(mem', 16) = to
    <3>1. /\ mem'[16] = to[20 - 16] /\ mem'[17] = to[20 - 17]
          /\ mem'[18] = to[20 - 18] /\ mem'[19] = to[20 - 19]
      BY <1>13
    <3>2. mem'[16] = to[4] /\ mem'[16 + 1] = to[3] /\ mem'[16 + 2] = to[2] /\ mem'[16 + 3] = to[1]
      BY <3>1
    <3>3. QED  BY <1>4, <3>2, StoredAddr
  <2>3. QED  BY <1>2, <1>5, <1>11, <2>1, <2>2 DEF Shows
<1>15. Fits(mem', pkt', 40, Hello, "hello")
  <2>1. ASSUME NEW j \in 1..26
        PROVE  mem'[40 + j - 1] = Hello[j]
    <3> DEFINE i == 40 + j - 1
    <3>1. /\ i \in Int /\ i \in Plain /\ i + 6 >= 46 /\ i + 6 # 46 + 26 /\ i + 6 - 46 < 26
          /\ i + 6 - 45 = j
      BY <1>10
    <3> HIDE DEF i
    <3> DEFINE l == i + 6
    <3>2. l \in Tunnel /\ l >= 46 /\ mem'[i] = c[l]
      BY <1>9, <3>1
    <3>3. l # 46 + 26 /\ l - 46 < 26 /\ l - 45 = j
      BY <3>1
    <3> HIDE DEF l
    <3>4. c[l] = Hello[l - 45]
      BY <1>7, <1>8, <3>2, <3>3
    <3>5. QED  BY <3>2, <3>3, <3>4 DEF i
  <2>2. mem'[40 + 26] = 0
    <3>1. 66 \in Plain /\ 66 + 6 = 46 + 26 /\ 66 + 6 >= 46 /\ 40 + 26 = 66
      BY <1>10
    <3>2. QED  BY <1>7, <1>8, <1>9, <3>1
  <2>3. BeginsIn(mem', 40, Hello, 26)
    BY <2>1, <2>2 DEF BeginsIn
  <2>4. QED  BY <1>8, <1>11, <2>3 DEF Fits
<1>16. /\ mem'[9] = 6 /\ mem'[13] = 0 /\ mem'[34] = 0
       /\ mem'[21] = 198 /\ mem'[25] = 0
  <2>1. 9 \in Plain /\ 34 \in Plain /\ 21 \in Plain /\ 25 \in Plain
    BY <1>10
  <2>2. mem'[9] = c[9 + 6] /\ mem'[34] = c[34 + 6] /\ mem'[21] = c[21 + 6] /\ mem'[25] = c[25 + 6]
    BY <1>9, <2>1
  <2>3. mem'[13] = route.dest[16 - 13]
    BY <1>12
  <2>4. QED  BY <1>5, <1>7, <2>2, <2>3
<1>17. OfResponse(mem', 0)
  BY <1>16 DEF OfResponse
<1>18. QED  BY <1>1, <1>11, <1>14, <1>15, <1>16, <1>17 DEF Agree

\* The server has received the answer.
LEMMA ServerReceivesResponseMatches ==
  ASSUME LifeInv, MatchInv, LifeInv', ServerReceivesResponse
  PROVE  MatchInv'
<1> DEFINE all == get_packet_size(tcp, Len(Hello))
<1>1. /\ FormInv' /\ UNCHANGED route /\ stage = "response" /\ stage' = "returned"
      /\ FormInv /\ MemoryInv
  BY DEF LifeInv, ServerReceivesResponse
<1> SUFFICES ASSUME Telling(route.text)
             PROVE  Agree(stage', route, mem', pkt') /\ stage' # "misread"
  BY <1>1, AgreeingNext
<1>2. Shows(mem, pkt, 0) /\ Fits(mem, pkt, 40, Hello, "hello") /\ OfResponse(mem, 0)
  BY <1>1, InvAgrees DEF Agree
<1>3. IsText(Hello) /\ 1 <= Len(Hello) /\ Len(Hello) <= 127
  BY HelloTells
<1>4. mem \in [Plain -> Byte] /\ pkt \in P!Packet /\ pkt.form = "plain"
  BY <1>1, Memory DEF InClear, FormInv
<1> DEFINE end == 40 + Len(Hello)
<1>5. PICK n \in ReadSizes(all) :
        mem' = serv_rec_from_des(Bytes(mem, 0, n)) /\ pkt' = Arrived("plain", n, end, all)
  BY Places DEF ServerReceivesResponse
<1>6. all = 72 /\ all \in Nat /\ end <= all
  BY HelloIs, PacketSize
<1> HIDE DEF all
<1>7. n \in Nat /\ n <= 72
  BY <1>6, Reads
<1>8. \A i \in 0..(n - 1) : mem[i] \in Byte
  BY <1>4, <1>7, Places
<1>9. \A i \in Tunnel : mem'[i] = IF i < n THEN mem[i] ELSE 0
  BY <1>5, <1>7, <1>8, ClearRead
<1>10. \A i \in Int : 0 <= i /\ i <= 167 => mem'[i] = IF i < n THEN mem[i] ELSE 0
  BY <1>9, Places
<1> DEFINE body == "hello"
           t == Hello
<1>11. /\ body \notin {"cut", "none"} /\ Fits(mem, pkt, 40, t, body)
       /\ end = 40 + Len(t) /\ all \in Nat /\ end <= all
       /\ IsText(t) /\ 1 <= Len(t) /\ Len(t) <= 127
  BY <1>2, <1>3, <1>6
<1> HIDE DEF body, end, t
<1>12. LET p == Arrived("plain", n, end, all)
       IN  Shows(mem', p, 0) /\ Fits(mem', p, 40, t, body)
  BY <1>2, <1>4, <1>7, <1>10, <1>11, ClearFits
<1>13. Shows(mem', pkt', 0) /\ Fits(mem', pkt', 40, Hello, "hello")
  BY <1>5, <1>12 DEF body, t
<1>14. OfResponse(mem', 0)
  <2>1. mem[9] \in {0, 6} /\ mem[13] = 0 /\ mem[34] = 0
    BY <1>2 DEF OfResponse
  <2>2. /\ mem'[9] = IF 9 < n THEN mem[9] ELSE 0
        /\ mem'[13] = IF 13 < n THEN mem[13] ELSE 0
        /\ mem'[34] = IF 34 < n THEN mem[34] ELSE 0
    BY <1>10
  <2>3. mem'[9] \in {0, 6} /\ mem'[13] = 0 /\ mem'[34] = 0
    BY <2>1, <2>2
  <2>4. QED  BY <2>3 DEF OfResponse
<1>15. QED  BY <1>1, <1>13, <1>14 DEF Agree

\* The server has wrapped it.
LEMMA ServerWrapsMatches ==
  ASSUME LifeInv, MatchInv, LifeInv', ServerWraps
  PROVE  MatchInv'
<1>1. /\ FormInv' /\ UNCHANGED route /\ stage = "returned" /\ stage' = "wrapped"
      /\ FormInv /\ MemoryInv /\ IsAddress(client_ip)
      /\ mem' = serv_handle_pkt_dest(Wrapped(mem), client_ip)
      /\ pkt' = P!serv_handle_pkt_dest(pkt, IF client_ip \in Host THEN client_ip ELSE NoHost)
  BY DEF LifeInv, ServerWraps, IsAddress
<1> SUFFICES ASSUME Telling(route.text)
             PROVE  Agree(stage', route, mem', pkt') /\ stage' # "misread"
  BY <1>1, AgreeingNext
<1>2. Shows(mem, pkt, 0) /\ Fits(mem, pkt, 40, Hello, "hello") /\ OfResponse(mem, 0)
  BY <1>1, InvAgrees DEF Agree
<1>3. mem \in [Tunnel -> Byte] /\ pkt \in P!Packet
  BY <1>1, Memory DEF InClear, FormInv
<1>4. \A i \in Plain : mem[i] \in Byte
  BY <1>3, Places
<1>5. /\ \A i \in Plain : i < 10 \/ (12 <= i /\ i <= 15) \/ i > 19 => mem'[i + 6] = mem[i]
      /\ \A i \in Tunnel : 22 <= i /\ i <= 25 => mem'[i] = client_ip[26 - i]
  BY <1>1, <1>4, WrapAt
<1>6. /\ \A i \in Int : i \in Plain <=> 0 <= i /\ i <= 167
      /\ \A i \in Int : i \in Tunnel <=> 0 <= i /\ i <= 173
  BY Places
<1>7. pkt'.src = pkt.src /\ pkt'.dst = HostOf(client_ip) /\ pkt'.body = pkt.body
  BY <1>1, <1>3 DEF P!serv_handle_pkt_dest, P!Packet, HostOf
<1>8. Shows(mem', pkt', 6)
  <2>1. Addr(mem', 18) = Addr(mem, 12)
    <3>1. 12 \in Plain /\ 13 \in Plain /\ 14 \in Plain /\ 15 \in Plain
      BY <1>6
    <3>2. /\ mem'[12 + 6] = mem[12] /\ mem'[13 + 6] = mem[13]
          /\ mem'[14 + 6] = mem[14] /\ mem'[15 + 6] = mem[15]
      BY <1>5, <3>1
    <3>3. /\ mem'[18] = mem[12] /\ mem'[18 + 1] = mem[12 + 1]
          /\ mem'[18 + 2] = mem[12 + 2] /\ mem'[18 + 3] = mem[12 + 3]
      BY <3>2
    <3>4. QED  BY <3>3, SameAddr
  <2>2. Addr(mem', 22) = client_ip
    <3>1. 22 \in Tunnel /\ 23 \in Tunnel /\ 24 \in Tunnel /\ 25 \in Tunnel
      BY <1>6
    <3>2. /\ mem'[22] = client_ip[26 - 22] /\ mem'[23] = client_ip[26 - 23]
          /\ mem'[24] = client_ip[26 - 24] /\ mem'[25] = client_ip[26 - 25]
      BY <1>5, <3>1
    <3>3. /\ mem'[22] = client_ip[4] /\ mem'[22 + 1] = client_ip[3]
          /\ mem'[22 + 2] = client_ip[2] /\ mem'[22 + 3] = client_ip[1]
      BY <3>2
    <3>4. QED  BY <1>1, <3>3, StoredAddr
  <2>3. HostOf(Addr(mem, 12)) = pkt.src
    <3>1. 0 + 12 = 12
      OBVIOUS
    <3>2. QED  BY <1>2, <3>1 DEF Shows
  <2>4. 6 + 12 = 18 /\ 6 + 16 = 22
    OBVIOUS
  <2>5. QED  BY <1>7, <2>1, <2>2, <2>3, <2>4 DEF Shows
<1>9. Fits(mem', pkt', 46, Hello, "hello")
  <2>1. SameText(mem, 40, mem', 46)
    <3> SUFFICES ASSUME NEW i \in 0..127 PROVE mem'[46 + i] = mem[40 + i]
      BY DEF SameText
    <3>1. 40 + i \in Plain /\ 40 + i > 19 /\ 40 + i + 6 = 46 + i
      BY <1>6
    <3>2. QED  BY <1>5, <3>1
  <2>2. /\ pkt'.body = pkt.body /\ IsText(Hello) /\ Len(Hello) <= 127
        /\ Fits(mem, pkt, 40, Hello, "hello")
    BY <1>2, <1>7, HelloTells
  <2>3. QED  BY <2>1, <2>2, FitsShifted
<1>10. OfResponse(mem', 6)
  <2>1. mem[9] \in {0, 6} /\ mem[13] = 0 /\ mem[34] = 0
    BY <1>2 DEF OfResponse
  <2>2. 9 \in Plain /\ 13 \in Plain /\ 34 \in Plain
    BY <1>6
  <2>3. mem'[9 + 6] = mem[9] /\ mem'[13 + 6] = mem[13] /\ mem'[34 + 6] = mem[34]
    BY <1>5, <2>2
  <2>4. mem'[6 + 9] \in {0, 6} /\ mem'[6 + 13] = 0 /\ mem'[6 + 34] = 0
    BY <2>1, <2>3
  <2>5. QED  BY <2>4 DEF OfResponse
<1>11. QED  BY <1>1, <1>8, <1>9, <1>10 DEF Agree

\* What the server sends: as many bytes as the text that it finds makes up.
LEMMA AnswerSent ==
  ASSUME NEW m \in [Tunnel -> Byte], NEW k \in Nat, k <= 26, BeginsIn(m, 46, Hello, k)
  PROVE  LET len == Len(Text(m, TextOf(GreSize)))
             all == get_packet_size(tcp, len)
         IN  all = 46 + k /\ Encrypts(serv_cli_encrypt_free(m, tcp, len), m, all)
<1> DEFINE len == Len(Text(m, TextOf(GreSize)))
           all == get_packet_size(tcp, len)
           sent == serv_cli_encrypt_free(m, tcp, len)
<1>1. IsText(Hello) /\ Len(Hello) = 26 /\ TextOf(GreSize) = 46
  BY HelloTells, Places
<1>2. len = k
  <2>1. Room(Tunnel, 46, k)
    BY TextPlaces DEF Rooms
  <2> DEFINE t == Hello
  <2>2. IsText(t) /\ BeginsIn(m, 46, t, k) /\ k <= Len(t) /\ 46 \in Int
    BY <1>1
  <2> HIDE DEF t
  <2>3. Len(Text(m, 46)) = k
    BY <2>1, <2>2, TextRead
  <2>4. QED  BY <1>1, <2>3
<1> HIDE DEF len
<1>3. all = 46 + k
  BY <1>2, PacketSize
<1>4. sent = xor_encrypt_decrypt(m, all)
  BY DEF serv_cli_encrypt_free
<1> HIDE DEF all, sent
<1>5. all \in Nat /\ all <= 174
  BY <1>3
<1>6. \A i \in 0..(all - 1) : m[i] \in Byte
  BY <1>5, Places
<1>7. \A i \in 0..(all - 1) : sent[i] = BitXor(m[i], KeyAt(i))
  BY <1>4, <1>5, <1>6, EncryptedAt
<1>8. Encrypts(sent, m, all)
  BY <1>6, <1>7 DEF Encrypts
<1>9. QED  BY <1>3, <1>8 DEF all, sent, len

\* The client has received the answer.
LEMMA ClientReceivesMatches ==
  ASSUME LifeInv, MatchInv, LifeInv', ClientReceives
  PROVE  MatchInv'
<1> DEFINE len == Len(Text(mem, TextOf(GreSize)))
           all == get_packet_size(tcp, len)
           sent == serv_cli_encrypt_free(mem, tcp, len)
<1>1. /\ FormInv' /\ UNCHANGED route /\ stage = "wrapped" /\ stage' = "shown"
      /\ FormInv /\ MemoryInv
  BY DEF LifeInv, ClientReceives
<1> SUFFICES ASSUME Telling(route.text)
             PROVE  Agree(stage', route, mem', pkt') /\ stage' # "misread"
  BY <1>1, AgreeingNext
<1>2. PICK n \in ReadSizes(all) :
        /\ mem' = serv_rec_from_cli(Bytes(sent, 0, n))
        /\ pkt' = Arrived("tunnel", n, all, all)
  BY DEF ClientReceives
<1>3. Shows(mem, pkt, 6) /\ Fits(mem, pkt, 46, Hello, "hello")
  BY <1>1, InvAgrees DEF Agree
<1>4. mem \in [Tunnel -> Byte] /\ pkt \in P!Packet /\ pkt.form = "tunnel"
  BY <1>1, Memory DEF InClear, FormInv, OutOfTunnel
<1> DEFINE t == Hello
           body == "hello"
<1>5. /\ IsText(t) /\ Len(t) = 26
      /\ \A j \in 1..26 : t[j] # KeyAt(46 + j - 1)
  BY HelloTells
<1>6. PICK k \in Nat : k <= 26 /\ BeginsIn(mem, 46, t, k) /\ (pkt.body = body <=> k = 26)
  BY <1>3, <1>5 DEF Fits
<1>7. all = 46 + k /\ Encrypts(sent, mem, all)
  BY <1>4, <1>6, AnswerSent
<1> HIDE DEF all, sent
<1>8. n \in Nat /\ n <= 46 + k
  <2>1. all \in Nat
    BY <1>7
  <2>2. QED  BY <1>7, <2>1, Reads
<1>9. Encrypts(sent, mem, n)
  BY <1>7, <1>8 DEF Encrypts
<1>10. /\ body \notin {"cut", "none"} /\ pkt.body \in {body, "cut", "none"}
       /\ 1 <= Len(t) /\ k <= 127 /\ k <= Len(t) /\ (pkt.body = body <=> k = Len(t))
  BY <1>3, <1>5, <1>6 DEF Fits
<1> HIDE DEF t, body
<1>11. Survives(mem, t, k)
  BY <1>5, <1>6 DEF Survives, BeginsIn
<1>12. LET out == serv_rec_from_cli(Bytes(sent, 0, n))
           p == Arrived("tunnel", n, 46 + k, 46 + k)
       IN  Shows(out, p, 6) /\ Fits(out, p, 46, t, body)
  BY <1>3, <1>4, <1>5, <1>8, <1>9, <1>10, <1>11, TunnelFits
<1>13. Shows(mem', pkt', 6) /\ Fits(mem', pkt', 46, Hello, "hello")
  BY <1>2, <1>7, <1>12 DEF t, body
<1>14. QED  BY <1>1, <1>13 DEF Agree

-----------------------------------------------------------------------------
(***************************************************************************)
(* Readings in the wrong form.                                             *)
(***************************************************************************)

\* They match module Packets if they show no host and neither text.
LEMMA MisreadMatches ==
  ASSUME stage' = "misread", UNCHANGED route, NEW ip \in {0, 6},
         pkt'.form = IF ip = 6 THEN "tunnel" ELSE "plain",
         pkt'.src = NoHost, pkt'.dst = NoHost, pkt'.body \in {"noise", "none"},
         mem'[ip + 15] # 10, mem'[ip + 19] # 10,
         Text(mem', ip + 40) # route.text, Text(mem', ip + 40) # Hello
  PROVE  BytesMatchPackets'
<1>1. Shown' = [src |-> Addr(mem', ip + 12), dst |-> Addr(mem', ip + 16),
                text |-> Text(mem', ip + 40)]
  <2>1. CASE ip = 6
    <3>1. 6 + 12 = 18 /\ 6 + 16 = 22 /\ 6 + 40 = 46
      OBVIOUS
    <3>2. Shown' = [src |-> Addr(mem', 18), dst |-> Addr(mem', 22), text |-> Text(mem', 46)]
      BY <2>1, Places DEF Shown, print_packet, print_packet_unencap, Printed, IpSrc, IpDst, GreSize
    <3>3. QED  BY <2>1, <3>1, <3>2
  <2>2. CASE ip = 0
    <3>1. 0 + 12 = 12 /\ 0 + 16 = 16 /\ 0 + 40 = 40
      OBVIOUS
    <3>2. Shown' = [src |-> Addr(mem', 12), dst |-> Addr(mem', 16), text |-> Text(mem', 40)]
      BY <2>2, Places DEF Shown, print_packet, print_packet_unencap, Printed, IpSrc, IpDst, GreSize
    <3>3. QED  BY <2>2, <3>1, <3>2
  <2>3. QED  BY <2>1, <2>2
<1>2. HostOf(Addr(mem', ip + 12)) = NoHost /\ HostOf(Addr(mem', ip + 16)) = NoHost
  <2>1. ip + 12 \in Int /\ ip + 16 \in Int /\ ip + 12 + 3 = ip + 15 /\ ip + 16 + 3 = ip + 19
    OBVIOUS
  <2>2. QED  BY <2>1, NoHostAt
<1>3. /\ HostOf(Shown.src)' = pkt'.src /\ HostOf(Shown.dst)' = pkt'.dst
      /\ (Shown.text)' # route'.text /\ (Shown.text)' # Hello
      /\ pkt'.body # "payload" /\ pkt'.body # "hello"
  BY <1>1, <1>2 DEF HostOf
<1>4. QED  BY <1>3 DEF BytesMatchPackets

\* What an address or a text cannot begin with, read in clear.
LEMMA ReadInClearMatches ==
  ASSUME LifeInv, MatchInv, LifeInv', ReadInClear
  PROVE  MatchInv'
<1>1. /\ FormInv' /\ UNCHANGED route /\ stage' = "misread" /\ route \in Routes
      /\ stage = "request" \/ stage = "wrapped"
      /\ FormInv /\ MemoryInv
  BY DEF LifeInv, ReadInClear
<1> SUFFICES ASSUME Telling(route.text)
             PROVE  BytesMatchPackets'
  BY <1>1, AgreeingNext DEF Agree
<1> DEFINE t == route.text
<1>2. /\ IsText(t) /\ Len(t) \in Nat /\ 1 <= Len(t) /\ Len(t) <= 127
      /\ t[1] # 0 /\ t[1] # 18
  BY RouteTells
<1>3. pkt \in P!Packet /\ pkt.form = "tunnel" /\ mem \in [Tunnel -> Byte]
  BY <1>1, Memory DEF FormInv, OutOfTunnel, InClear
<1>4. Hello[1] = 72 /\ IsText(Hello) /\ 1 \in 1..Len(Hello) /\ 1 \in 1..Len(t)
  BY <1>2, HelloTells
<1>5. \E n, sent, all :
        /\ n \in Nat
        /\ pkt' = Arrived("plain", n, all, all)
        /\ \A i \in Int : 0 <= i /\ i <= 167 => mem'[i] = IF i < n THEN sent[i] ELSE 0
        /\ n > 15 => sent[15] \in {BitXor(6, 120), 120}
        /\ n > 19 => sent[19] = 120
        /\ n > 40 => sent[40] = 18
  <2>0. /\ KeyAt(15) = 120 /\ KeyAt(19) = 120 /\ KeyAt(40) = 18
        /\ BitXor(0, 120) = 120 /\ BitXor(0, 18) = 18
    <3>1. 120 \in Byte /\ 18 \in Byte
      BY DEF Byte
    <3>2. QED  BY <3>1, ZeroEncrypted, KeyPlaces
  <2>1. CASE stage = "request"
    <3> DEFINE q == create_packets(route.client, route.dest, tcp, t, 2)
               c == create_packets_des(route.client, route.dest, tcp, t, 2)
               all == get_packet_size(tcp, Len(t))
    <3>1. PICK n \in ReadSizes(all) :
            /\ mem' = dest_rec_pkt(Bytes(mem, 0, n))
            /\ pkt' = Arrived("plain", n, PlainSize, PlainSize)
      BY <2>1 DEF ReadInClear
    <3>2. all = 46 + Len(t)
      BY <1>2, PacketSize
    <3>3. n \in Nat /\ n <= 46 + Len(t)
      <4>1. all \in Nat
        BY <1>2, <3>2
      <4> HIDE DEF all
      <4>2. QED  BY <3>2, <4>1, Reads
    <3>4. route.client \in Host /\ route.dest \in Host /\ mem = q
      BY <1>1, <2>1, RouteFacts DEF LifeInv
    <3>5. c[15] = 6 /\ c[19] = 0 /\ c[40] = 0 /\ Encrypts(q, c, 46 + Len(t))
      BY <1>2, <3>4, RequestIs
    <3> HIDE DEF q, c, all, t
    <3>6. 15 \in 0..(46 + Len(t) - 1) /\ 19 \in 0..(46 + Len(t) - 1) /\ 40 \in 0..(46 + Len(t) - 1)
      BY <1>2
    <3>7. mem[15] = BitXor(6, 120) /\ mem[19] = 120 /\ mem[40] = 18
      BY <2>0, <3>4, <3>5, <3>6 DEF Encrypts
    <3>8. \A i \in 0..(n - 1) : mem[i] \in Byte
      BY <1>2, <1>3, <3>3, Places
    <3>9. \A i \in Plain : mem'[i] = IF i < n THEN mem[i] ELSE 0
      BY <3>1, <3>3, <3>8, ClearRead
    <3>10. \A i \in Int : 0 <= i /\ i <= 167 => mem'[i] = IF i < n THEN mem[i] ELSE 0
      BY <3>9, Places
    <3>11. QED  BY <3>1, <3>3, <3>7, <3>10
  <2>2. CASE stage = "wrapped"
    <3> DEFINE len == Len(Text(mem, TextOf(GreSize)))
               all == get_packet_size(tcp, len)
               sent == serv_cli_encrypt_free(mem, tcp, len)
    <3>1. PICK n \in ReadSizes(all) :
            /\ mem' = serv_rec_from_des(Bytes(sent, 0, n))
            /\ pkt' = Arrived("plain", n, TunnelSize, TunnelSize)
      BY <2>2 DEF ReadInClear
    <3>2. Fits(mem, pkt, 46, Hello, "hello") /\ OfResponse(mem, 6)
      BY <1>1, <2>2, InvAgrees DEF Agree
    <3>3. PICK k \in Nat : k <= 26 /\ BeginsIn(mem, 46, Hello, k)
      BY <3>2, HelloTells DEF Fits
    <3>4. all = 46 + k /\ Encrypts(sent, mem, all)
      BY <1>3, <3>3, AnswerSent
    <3> HIDE DEF all, sent
    <3>5. n \in Nat /\ n <= all
      <4>1. all \in Nat
        BY <3>4
      <4>2. QED  BY <4>1, Reads
    <3>6. mem[15] \in {0, 6} /\ mem[19] = 0 /\ mem[40] = 0
      <4>1. 6 + 9 = 15 /\ 6 + 13 = 19 /\ 6 + 34 = 40
        OBVIOUS
      <4>2. QED  BY <3>2, <4>1 DEF OfResponse
    <3>7. 15 \in 0..(all - 1) /\ 19 \in 0..(all - 1) /\ 40 \in 0..(all - 1)
      BY <3>4
    <3>8. sent[15] \in {BitXor(6, 120), 120} /\ sent[19] = 120 /\ sent[40] = 18
      BY <2>0, <3>4, <3>6, <3>7 DEF Encrypts
    <3>9. \A i \in 0..(n - 1) : sent[i] \in Byte
      <4> SUFFICES ASSUME NEW i \in 0..(n - 1) PROVE sent[i] \in Byte
        OBVIOUS
      <4>1. i \in 0..(all - 1) /\ i \in Nat
        BY <3>4, <3>5
      <4>2. mem[i] \in Byte /\ sent[i] = BitXor(mem[i], KeyAt(i)) /\ KeyAt(i) \in Byte
        BY <3>4, <4>1, StoredWords DEF Encrypts
      <4>3. QED  BY <4>2, BitXorAssumption
    <3>10. \A i \in Tunnel : mem'[i] = IF i < n THEN sent[i] ELSE 0
      BY <3>1, <3>5, <3>9, ClearRead
    <3>11. \A i \in Int : 0 <= i /\ i <= 167 => mem'[i] = IF i < n THEN sent[i] ELSE 0
      BY <3>10, Places
    <3>12. QED  BY <3>1, <3>5, <3>8, <3>11
  <2>3. QED  BY <1>1, <2>1, <2>2
<1>6. PICK n, sent, all :
        /\ n \in Nat
        /\ pkt' = Arrived("plain", n, all, all)
        /\ \A i \in Int : 0 <= i /\ i <= 167 => mem'[i] = IF i < n THEN sent[i] ELSE 0
        /\ n > 15 => sent[15] \in {BitXor(6, 120), 120}
        /\ n > 19 => sent[19] = 120
        /\ n > 40 => sent[40] = 18
  BY <1>5
<1>7. /\ pkt'.form = "plain" /\ pkt'.src = NoHost /\ pkt'.dst = NoHost
      /\ pkt'.body \in {"noise", "none"}
  BY <1>3, <1>6, FieldsMisread
<1>8. mem'[15] # 10 /\ mem'[19] # 10 /\ mem'[40] \in {0, 18}
  <2>1. /\ mem'[15] = IF 15 < n THEN sent[15] ELSE 0
        /\ mem'[19] = IF 19 < n THEN sent[19] ELSE 0
        /\ mem'[40] = IF 40 < n THEN sent[40] ELSE 0
    BY <1>6
  <2>2. QED  BY <1>6, <2>1, NoTens
<1>9. Text(mem', 40) # t /\ Text(mem', 40) # Hello
  <2>1. mem'[40 + 1 - 1] # t[1] /\ mem'[40 + 1 - 1] # Hello[1]
    BY <1>2, <1>4, <1>8
  <2>2. t \in Seq(Byte) /\ Hello \in Seq(Byte)
    BY <1>2, <1>4, TextBytes
  <2> HIDE DEF t
  <2>3. QED  BY <1>4, <2>1, <2>2, TextDiffers
<1>10. BytesMatchPackets'
  <2> DEFINE ip == 0
  <2>1. /\ ip \in {0, 6} /\ pkt'.form = (IF ip = 6 THEN "tunnel" ELSE "plain")
        /\ mem'[ip + 15] # 10 /\ mem'[ip + 19] # 10
        /\ Text(mem', ip + 40) # route.text /\ Text(mem', ip + 40) # Hello
    BY <1>7, <1>8, <1>9
  <2> HIDE DEF ip
  <2>2. QED  BY <1>1, <1>7, <2>1, MisreadMatches
<1>11. QED  BY <1>10

\* Where strlen() stopped in the first n bytes of m, which out are decrypted:
\* before any zero and the end of what was read, and not at once unless the
\* first byte is one.
StopsAt(out, m, n, e) ==
  /\ e <= 127 /\ out[46 + e] = 0
  /\ \A z \in Nat : z < 122 /\ (n <= 46 + z \/ m[46 + z] = 0) => e <= z
  /\ e # 0 => 46 < n /\ m[46] # 0 /\ out[46] = BitXor(m[46], 86)

\* What is decrypted of bytes that were never encrypted: where strlen() stopped,
\* the first byte of the text and the octets that a host's address begins with.
LEMMA DecryptedInClear ==
  ASSUME NEW m \in [Plain -> Byte], NEW n \in Nat, n <= 168
  PROVE  LET out == serv_rec_from_cli(Bytes(m, 0, n))
         IN  /\ out[21] = BitXor(IF 21 < n THEN m[21] ELSE 0, 52)
             /\ out[25] = BitXor(IF 25 < n THEN m[25] ELSE 0, 52)
             /\ \E e \in Nat : StopsAt(out, m, n, e)
<1> DEFINE out == serv_rec_from_cli(Bytes(m, 0, n))
           received == Filled(TunnelSize, Bytes(m, 0, n))
<1>1. \A i \in 0..(n - 1) : m[i] \in Byte
  BY Places
<1>2. received \in [Tunnel -> Byte] /\ \A i \in Tunnel : received[i] = IF i < n THEN m[i] ELSE 0
  <2>1. TunnelSize \in Nat
    BY Places
  <2>2. /\ received \in [0..(TunnelSize - 1) -> Byte]
        /\ \A i \in 0..(TunnelSize - 1) : received[i] = IF i < n THEN m[i] ELSE 0
    BY <1>1, <2>1, FilledAt
  <2>3. QED  BY <2>2 DEF Tunnel
<1>3. PICK l : l \in Nat /\ l <= 128 /\ EndsAt(received, TextOf(GreSize), l)
  BY <1>2, TextHasEnd
<1>4. \A i \in Tunnel : out[i] =
        IF i = 46 + Clamped(l) THEN 0 ELSE BitXor(IF i < n THEN m[i] ELSE 0, KeyAt(i))
  BY <1>1, <1>3, TunnelRead
<1>5. EndsAt(received, 46, l)
  BY <1>3, Places
<1> HIDE DEF out, received
<1> DEFINE e == Clamped(l)
<1>6. e \in Nat /\ e <= 127 /\ e <= l /\ (e = 0 => l = 0)
  BY <1>3 DEF Clamped, MaxPayload
<1>7. \A i \in Int : i \in Tunnel <=> 0 <= i /\ i <= 173
  BY Places
<1> HIDE DEF e
<1>8. \A i \in Tunnel : out[i] =
        IF i = 46 + e THEN 0 ELSE BitXor(IF i < n THEN m[i] ELSE 0, KeyAt(i))
  BY <1>4 DEF e
<1>9. out[21] = BitXor(IF 21 < n THEN m[21] ELSE 0, 52)
  <2>1. 21 \in Tunnel /\ 21 # 46 + e
    BY <1>6, <1>7
  <2>2. out[21] = BitXor(IF 21 < n THEN m[21] ELSE 0, KeyAt(21))
    BY <1>8, <2>1
  <2>3. QED  BY <2>2, KeyPlaces
<1>10. out[25] = BitXor(IF 25 < n THEN m[25] ELSE 0, 52)
  <2>1. 25 \in Tunnel /\ 25 # 46 + e
    BY <1>6, <1>7
  <2>2. out[25] = BitXor(IF 25 < n THEN m[25] ELSE 0, KeyAt(25))
    BY <1>8, <2>1
  <2>3. QED  BY <2>2, KeyPlaces
<1>11. out[46 + e] = 0
  <2>1. 46 + e \in Tunnel
    BY <1>6, <1>7
  <2>2. QED  BY <1>8, <2>1
<1>12. ASSUME NEW z \in Nat, z < 122, n <= 46 + z \/ m[46 + z] = 0
       PROVE  e <= z
  <2> SUFFICES ASSUME z < l PROVE FALSE
    BY <1>3, <1>6
  <2>1. z \in 0..(l - 1)
    BY <1>3
  <2>2. received[46 + z] # 0
    BY <1>5, <2>1 DEF EndsAt
  <2>3. 46 + z \in Tunnel
    BY <1>7, <1>12
  <2>4. received[46 + z] = IF 46 + z < n THEN m[46 + z] ELSE 0
    BY <1>2, <2>3
  <2>5. n <= 46 + z => ~(46 + z < n)
    OBVIOUS
  <2>6. QED  BY <1>12, <2>2, <2>4, <2>5
<1>13. ASSUME e # 0
       PROVE  46 < n /\ m[46] # 0 /\ out[46] = BitXor(m[46], 86)
  <2>1. 46 < n /\ m[46] # 0
    <3>1. ~(e <= 0)
      BY <1>6, <1>13
    <3>2. 0 \in Nat /\ 0 < 122 /\ 46 + 0 = 46
      OBVIOUS
    <3>3. ~(n <= 46) /\ m[46] # 0
      BY <1>12, <3>1, <3>2
    <3>4. QED  BY <3>3
  <2>2. 46 \in Tunnel /\ 46 # 46 + e
    BY <1>6, <1>7, <1>13
  <2>3. out[46] = BitXor(IF 46 < n THEN m[46] ELSE 0, KeyAt(46))
    BY <1>8, <2>2
  <2>4. QED  BY <2>1, <2>3, KeyPlaces
<1>14. StopsAt(out, m, n, e)
  BY <1>6, <1>11, <1>12, <1>13 DEF StopsAt
<1>15. QED  BY <1>6, <1>9, <1>10, <1>14 DEF out

\* A text that is cut off before its end is not the text.
LEMMA CutText ==
  ASSUME NEW m, NEW t, IsText(t), NEW e \in Nat, e < Len(t), m[46 + e] = 0
  PROVE  Text(m, 46) # t
<1>1. t \in Seq(Byte) /\ Len(t) \in Nat /\ \A j \in 1..Len(t) : t[j] # 0
  BY TextBytes
<1>2. e + 1 \in 1..Len(t) /\ 46 + (e + 1) - 1 = 46 + e
  BY <1>1
<1>3. m[46 + (e + 1) - 1] # t[e + 1]
  BY <1>1, <1>2
<1>4. QED  BY <1>1, <1>2, <1>3, TextDiffers

\* What starts with another byte is not the text either.
LEMMA OtherFirst ==
  ASSUME NEW m, NEW t, IsText(t), 1 <= Len(t), m[46] # t[1]
  PROVE  Text(m, 46) # t
<1>1. t \in Seq(Byte) /\ Len(t) \in Nat
  BY TextBytes
<1>2. 1 \in 1..Len(t) /\ 46 + 1 - 1 = 46
  BY <1>1
<1>3. QED  BY <1>1, <1>2, TextDiffers

\* What the text of a request or a response cannot be, decrypted.
LEMMA ReadThroughTunnelMatches ==
  ASSUME LifeInv, MatchInv, LifeInv', ReadThroughTunnel
  PROVE  MatchInv'
<1> DEFINE all == IF stage = "proxied" THEN PlainSize ELSE get_packet_size(tcp, Len(Hello))
           t == route.text
<1>1. /\ FormInv' /\ UNCHANGED route /\ stage' = "misread"
      /\ stage = "proxied" \/ stage = "response"
      /\ FormInv /\ MemoryInv
  BY DEF LifeInv, ReadThroughTunnel
<1> SUFFICES ASSUME Telling(route.text)
             PROVE  BytesMatchPackets'
  BY <1>1, AgreeingNext DEF Agree
<1>2. /\ IsText(t) /\ Len(t) \in Nat /\ 1 <= Len(t) /\ Len(t) <= 127
      /\ t[1] # 0 /\ t[1] # BitXor(18, 86) /\ t[1] # BitXor(102, 86)
      /\ Len(t) >= 7 => BitXor(t[7], 86) # 72
  BY RouteTells
<1>3. /\ IsText(Hello) /\ Len(Hello) = 26 /\ 1 <= Len(Hello) /\ Hello[1] = 72 /\ Hello[7] = 102
  BY HelloTells
<1>4. PICK n \in ReadSizes(all) :
        mem' = serv_rec_from_cli(Bytes(mem, 0, n)) /\ pkt' = Arrived("tunnel", n, all, all)
  BY DEF ReadThroughTunnel
<1>5. all \in Nat /\ all <= 168
  <2>1. PlainSize = 168 /\ get_packet_size(tcp, Len(Hello)) = 72
    BY HelloIs, PacketSize, Places
  <2>2. QED  BY <2>1
<1> HIDE DEF all, t
<1>6. n \in Nat /\ n <= 168
  BY <1>5, Reads
<1>7. mem \in [Plain -> Byte] /\ pkt \in P!Packet /\ pkt.form = "plain"
  BY <1>1, Memory DEF InClear, FormInv
<1>8. /\ pkt'.form = "tunnel" /\ pkt'.src = NoHost /\ pkt'.dst = NoHost
      /\ pkt'.body \in {"noise", "none"}
  BY <1>4, <1>7, FieldsMisread
<1>9. /\ mem'[21] = BitXor(IF 21 < n THEN mem[21] ELSE 0, 52)
      /\ mem'[25] = BitXor(IF 25 < n THEN mem[25] ELSE 0, 52)
      /\ \E e \in Nat : StopsAt(mem', mem, n, e)
  BY <1>4, <1>6, <1>7, DecryptedInClear
<1>10. PICK e \in Nat :
         /\ e <= 127 /\ mem'[46 + e] = 0
         /\ \A z \in Nat : z < 122 /\ (n <= 46 + z \/ mem[46 + z] = 0) => e <= z
         /\ e # 0 => 46 < n /\ mem[46] # 0 /\ mem'[46] = BitXor(mem[46], 86)
  BY <1>9 DEF StopsAt
<1>11. /\ mem[21] \in {198, 120} /\ mem[25] \in {0, 120}
       /\ stage = "proxied" => Fits(mem, pkt, 40, t, "payload") /\ OfRequest(mem, 0, t)
       /\ stage = "response" => Fits(mem, pkt, 40, Hello, "hello") /\ pkt.body = "hello"
  <2>1. Agree(stage, route, mem, pkt)
    BY <1>1, InvAgrees
  <2>2. CASE stage = "proxied"
    <3>1. Fits(mem, pkt, 40, t, "payload") /\ OfRequest(mem, 0, t)
      BY <2>1, <2>2 DEF Agree, t
    <3>2. 0 + 21 = 21 /\ 0 + 25 = 25
      OBVIOUS
    <3>3. mem[21] \in {198, 120} /\ mem[25] \in {0, 120}
      BY <3>1, <3>2 DEF OfRequest
    <3>4. QED  BY <2>2, <3>1, <3>3
  <2>3. CASE stage = "response"
    BY <2>1, <2>3 DEF Agree
  <2>4. QED  BY <1>1, <2>2, <2>3
<1>12. mem'[21] # 10 /\ mem'[25] # 10
  <2>1. BitXor(0, 52) = 52
    <3>1. 52 \in Byte
      BY DEF Byte
    <3>2. QED  BY <3>1, ZeroEncrypted
  <2>2. BitXor(198, 52) # 10 /\ BitXor(120, 52) # 10
    BY NoTens
  <2>3. mem'[21] # 10
    BY <1>9, <1>11, <2>1, <2>2
  <2>4. mem'[25] # 10
    BY <1>9, <1>11, <2>1, <2>2
  <2>5. QED  BY <2>3, <2>4
<1>13. Text(mem', 46) # t /\ Text(mem', 46) # Hello
  <2>1. CASE e = 0
    <3>1. mem'[46 + e] = 0 /\ e < Len(t) /\ e < Len(Hello)
      BY <1>2, <1>3, <1>10, <2>1
    <3>2. Text(mem', 46) # t
      BY <1>2, <3>1, CutText
    <3>3. Text(mem', 46) # Hello
      BY <1>3, <3>1, CutText
    <3>4. QED  BY <3>2, <3>3
  <2>2. CASE e # 0 /\ stage = "proxied"
    <3>1. 46 < n /\ mem[46] # 0 /\ mem'[46] = BitXor(mem[46], 86) /\ mem'[46 + e] = 0
      BY <1>10, <2>2
    <3>2. PICK k \in Nat : k <= Len(t) /\ BeginsIn(mem, 40, t, k)
      BY <1>11, <2>2 DEF Fits
    <3>3. (\A j \in 1..k : mem[40 + j - 1] = t[j]) /\ mem[40 + k] = 0
      BY <3>2 DEF BeginsIn
    <3>4. CASE k >= 7
      <4>1. mem[46] = t[7] /\ Len(t) >= 7
        <5>1. 7 \in 1..k /\ 40 + 7 - 1 = 46
          BY <3>4
        <5>2. QED  BY <1>2, <3>2, <3>3, <3>4, <5>1
      <4>2. e < Len(t)
        <5> DEFINE z == k - 6
        <5>1. z \in Nat /\ z < 122 /\ 46 + z = 40 + k
          BY <1>2, <3>2, <3>4
        <5>2. mem[46 + z] = 0
          BY <3>3, <5>1
        <5> HIDE DEF z
        <5>3. e <= z
          BY <1>10, <5>1, <5>2
        <5>4. QED  BY <1>2, <3>2, <5>3 DEF z
      <4>3. Text(mem', 46) # t
        BY <1>2, <3>1, <4>2, CutText
      <4>4. mem'[46] # Hello[1]
        BY <1>2, <1>3, <3>1, <4>1
      <4>5. Text(mem', 46) # Hello
        BY <1>3, <4>4, OtherFirst
      <4>6. QED  BY <4>3, <4>5
    <3>5. CASE k < 7
      <4>1. k < 6
        <5>1. k # 6
          BY <3>1, <3>3
        <5>2. QED  BY <3>5, <5>1
      <4>2. mem[46] = 18
        <5>1. 0 + 40 = 40 /\ 0 + 46 = 46
          OBVIOUS
        <5>2. OfRequest(mem, 0, t)
          BY <1>11, <2>2
        <5>3. QED  BY <3>2, <4>1, <5>1, <5>2 DEF OfRequest
      <4>3. mem'[46] # t[1] /\ mem'[46] # Hello[1]
        BY <1>2, <1>3, <3>1, <4>2, NoTens
      <4>4. Text(mem', 46) # t
        BY <1>2, <4>3, OtherFirst
      <4>5. Text(mem', 46) # Hello
        <5>1. IsText(Hello) /\ 1 <= Len(Hello) /\ mem'[46] # Hello[1]
          BY <1>3, <4>3
        <5>2. QED  BY ONLY <5>1, OtherFirst
      <4>6. QED  BY <4>4, <4>5
    <3>6. QED  BY <3>4, <3>5
  <2>3. CASE e # 0 /\ stage = "response"
    <3>1. 46 < n /\ mem[46] # 0 /\ mem'[46] = BitXor(mem[46], 86) /\ mem'[46 + e] = 0
      BY <1>10, <2>3
    <3>2. PICK k \in Nat : k <= Len(Hello) /\ BeginsIn(mem, 40, Hello, k) /\ k = Len(Hello)
      BY <1>11, <2>3 DEF Fits
    <3>3. k = 26 /\ (\A j \in 1..26 : mem[40 + j - 1] = Hello[j]) /\ mem[40 + 26] = 0
      BY <1>3, <3>2 DEF BeginsIn
    <3>4. mem[46] = 102
      <4>1. 7 \in 1..26 /\ 40 + 7 - 1 = 46
        OBVIOUS
      <4>2. mem[40 + 7 - 1] = Hello[7]
        BY <3>3, <4>1
      <4>3. QED  BY <1>3, <4>1, <4>2
    <3>5. e < Len(Hello)
      <4> DEFINE z == 20
      <4>1. z \in Nat /\ z < 122 /\ 46 + z = 40 + 26 /\ z < 26
        OBVIOUS
      <4>2. mem[46 + z] = 0
        BY <3>3, <4>1
      <4> HIDE DEF z
      <4>3. e <= z
        BY <1>10, <4>1, <4>2
      <4>4. QED  BY <1>3, <4>1, <4>3
    <3>6. Text(mem', 46) # Hello
      <4>1. IsText(Hello) /\ e \in Nat /\ e < Len(Hello) /\ mem'[46 + e] = 0
        BY <1>3, <3>1, <3>5
      <4>2. QED  BY ONLY <4>1, CutText
    <3>7. mem'[46] # t[1]
      BY <1>2, <3>1, <3>4
    <3>8. Text(mem', 46) # t
      BY <1>2, <3>7, OtherFirst
    <3>9. QED  BY <3>6, <3>8
  <2>4. QED  BY <1>1, <2>1, <2>2, <2>3
<1>14. BytesMatchPackets'
  <2> DEFINE ip == 6
  <2>1. /\ ip \in {0, 6} /\ pkt'.form = (IF ip = 6 THEN "tunnel" ELSE "plain")
        /\ mem'[ip + 15] # 10 /\ mem'[ip + 19] # 10
        /\ Text(mem', ip + 40) # route.text /\ Text(mem', ip + 40) # Hello
    <3>1. 6 + 15 = 21 /\ 6 + 19 = 25 /\ 6 + 40 = 46
      OBVIOUS
    <3>2. QED  BY <1>8, <1>12, <1>13, <3>1 DEF t
  <2> HIDE DEF ip
  <2>2. QED  BY <1>1, <1>8, <2>1, MisreadMatches
<1>15. QED  BY <1>14

-----------------------------------------------------------------------------
(***************************************************************************)
(* The theorems.                                                           *)
(***************************************************************************)

\* Nothing has been made yet.
LEMMA LifeInit == Init => LifeInv
<1> SUFFICES ASSUME Init PROVE LifeInv
  OBVIOUS
<1>1. mem \in [Tunnel -> Byte]
  BY DEF Init, Zeroed, Tunnel, Byte
<1>2. MemoryInv
  BY <1>1 DEF Init, MemoryInv, Tunnel, InClear
<1>3. FormInv /\ ZeroesInv /\ TextsEnd /\ TunnelKeepsPrefix
  BY DEF Init, FormInv, ZeroesInv, TextsEnd, TunnelKeepsPrefix, OutOfTunnel, InClear
<1>4. QED  BY <1>2, <1>3 DEF Init, LifeInv, InClear

\* Every step keeps the invariant.
LEMMA LifeNext == LifeInv /\ [Next]_vars => LifeInv'
<1> SUFFICES ASSUME LifeInv, [Next]_vars PROVE LifeInv'
  OBVIOUS
<1>1. CASE UNCHANGED vars
  BY <1>1 DEF vars, LifeInv, FormInv, MemoryInv, ZeroesInv, TextsEnd, TunnelKeepsPrefix,
              Shown, Routes
<1>2. CASE MakeRequest  BY <1>2, MakeRequestKeeps
<1>3. CASE ServerReceives  BY <1>3, ServerReceivesKeeps
<1>4. CASE ServerRewrites  BY <1>4, ServerRewritesKeeps
<1>5. CASE DestinationReceives  BY <1>5, DestinationReceivesKeeps
<1>6. CASE MakeResponse  BY <1>6, MakeResponseKeeps
<1>7. CASE ServerReceivesResponse  BY <1>7, ServerReceivesResponseKeeps
<1>8. CASE ServerWraps  BY <1>8, ServerWrapsKeeps
<1>9. CASE ClientReceives  BY <1>9, ClientReceivesKeeps
<1>10. CASE ReadInClear  BY <1>10, ReadInClearKeeps
<1>11. CASE ReadThroughTunnel  BY <1>11, ReadThroughTunnelKeeps
<1>12. CASE Done \/ Refused  BY <1>1, <1>12 DEF Done, Refused
<1>13. QED
  BY <1>1, <1>2, <1>3, <1>4, <1>5, <1>6, <1>7, <1>8, <1>9, <1>10, <1>11, <1>12 DEF Next

(***************************************************************************)
(* At every stage of a conversation the program holds the kind of packet   *)
(* it takes it for, and a zero byte behind its text.                       *)
(***************************************************************************)
THEOREM LifeCorrect == Spec => []LifeInv
  BY LifeInit, LifeNext, PTL DEF Spec

(***************************************************************************)
(* print_payload() and strlen() stay in the buffers of serv_rec_from_cli() *)
(* and its like: whatever text was sent, wherever a recv() cut it and      *)
(* whoever reads it.                                                       *)
(***************************************************************************)
THEOREM TextsAlwaysEnd == Spec => []TextsEnd
<1>1. LifeInv => TextsEnd
  BY DEF LifeInv
<1>2. QED  BY <1>1, LifeCorrect, PTL

(***************************************************************************)
(* What comes out of the tunnel is the text up to the first byte that the  *)
(* key encrypts to zero, for every text and every key byte it meets.       *)
(***************************************************************************)
THEOREM TunnelAlwaysKeepsPrefix == Spec => []TunnelKeepsPrefix
<1>1. LifeInv => TunnelKeepsPrefix
  BY DEF LifeInv
<1>2. QED  BY <1>1, LifeCorrect, PTL

(***************************************************************************)
(* serv_handle_pkt() and serv_handle_pkt_dest() swap a packet's fields     *)
(* back: only one address, the checksum and the GRE header differ.         *)
(***************************************************************************)
THEOREM RewritingAlwaysLocal == Spec => RewritingIsLocal
<1> DEFINE Local ==
      /\ ServerRewrites =>
           \A i \in DOMAIN mem' \ Touched(IpSrc) : mem'[i] = mem[i + GreSize]
      /\ ServerWraps =>
           \A i \in 0..(PlainSize - 1) \ Touched(IpDst) : mem'[i + GreSize] = mem[i]
<1>1. ASSUME LifeInv, ServerRewrites, NEW i \in DOMAIN mem' \ Touched(IpSrc)
      PROVE  mem'[i] = mem[i + GreSize]
  <2>1. mem \in [Tunnel -> Byte] /\ mem' = serv_handle_pkt(mem, route.server)
    BY <1>1, Memory DEF LifeInv, ServerRewrites, InClear
  <2>2. IsAddress(route.server)
    BY <1>1, RouteFacts DEF LifeInv
  <2>3. /\ mem' \in [Plain -> Byte]
        /\ \A j \in Plain : j < 10 \/ j = 16 \/ j = 17 \/ j = 18 \/ j = 19 \/ j > 19 =>
             mem'[j] = mem[j + 6]
    BY <2>1, <2>2, ServHandlePktAt
  <2>4. i \in Plain /\ i \notin 12..15 /\ i \notin 10..11
    BY <1>1, <2>3 DEF Touched, IpSrc, IpSum
  <2>5. i \in Int
    BY <2>4, Places
  <2>6. i < 10 \/ i = 16 \/ i = 17 \/ i = 18 \/ i = 19 \/ i > 19
    BY <2>4, <2>5
  <2>7. QED  BY <2>3, <2>4, <2>6 DEF GreSize
<1>2. ASSUME LifeInv, ServerWraps, NEW i \in 0..(PlainSize - 1) \ Touched(IpDst)
      PROVE  mem'[i + GreSize] = mem[i]
  <2>1. /\ mem \in [Tunnel -> Byte]
        /\ mem' = serv_handle_pkt_dest(Wrapped(mem), client_ip)
        /\ IsAddress(client_ip)
    BY <1>2, Memory DEF LifeInv, ServerWraps, InClear, IsAddress
  <2>2. \A j \in Plain : mem[j] \in Byte
    BY <2>1, Places
  <2>3. \A j \in Plain : j < 10 \/ (12 <= j /\ j <= 15) \/ j > 19 => mem'[j + 6] = mem[j]
    BY <2>1, <2>2, WrapAt
  <2>4. i \in Plain /\ i \notin 16..19 /\ i \notin 10..11
    BY <1>2 DEF Touched, IpDst, IpSum, Plain
  <2>5. i \in Int
    BY <2>4, Places
  <2>6. i < 10 \/ (12 <= i /\ i <= 15) \/ i > 19
    BY <2>4, <2>5
  <2>7. QED  BY <2>3, <2>4, <2>6 DEF GreSize
<1>3. LifeInv => Local
  BY <1>1, <1>2
<1>4. LifeInv => [Local]_vars
  BY <1>3
<1>5. QED  BY <1>4, LifeCorrect, PTL DEF RewritingIsLocal, Spec

\* At first there is no packet.
LEMMA MatchInit == Init => MatchInv
  BY DEF Init, MatchInv

\* Every step keeps the packet that module Packets says.
LEMMA MatchNext == LifeInv /\ LifeInv' /\ MatchInv /\ [Next]_vars => MatchInv'
<1> SUFFICES ASSUME LifeInv, LifeInv', MatchInv, [Next]_vars PROVE MatchInv'
  OBVIOUS
<1>1. CASE UNCHANGED vars
  <2>1. /\ stage' = stage /\ route' = route /\ mem' = mem /\ pkt' = pkt
        /\ client_ip' = client_ip
    BY <1>1 DEF vars
  <2>2. /\ stage = "misread" => (BytesMatchPackets <=> BytesMatchPackets')
    BY <2>1 DEF BytesMatchPackets, Shown
  <2>3. CASE Telling(route.text)
    <3>1. Agree(stage, route, mem, pkt) /\ (stage = "misread" => BytesMatchPackets)
      BY <2>3, InvAgrees DEF LifeInv
    <3>2. Agree(stage', route, mem', pkt') /\ (stage' = "misread" => BytesMatchPackets')
      BY <2>1, <2>2, <3>1
    <3>3. FormInv' /\ UNCHANGED route
      BY <2>1 DEF LifeInv
    <3>4. QED  BY <3>2, <3>3, AgreeingNext
  <2>4. CASE ~Telling(route.text)
    BY <2>1, <2>4 DEF MatchInv
  <2>5. QED  BY <2>3, <2>4
<1>2. CASE MakeRequest  BY <1>2, MakeRequestMatches
<1>3. CASE ServerReceives  BY <1>3, ServerReceivesMatches
<1>4. CASE ServerRewrites  BY <1>4, ServerRewritesMatches
<1>5. CASE DestinationReceives  BY <1>5, DestinationReceivesMatches
<1>6. CASE MakeResponse  BY <1>6, MakeResponseMatches
<1>7. CASE ServerReceivesResponse  BY <1>7, ServerReceivesResponseMatches
<1>8. CASE ServerWraps  BY <1>8, ServerWrapsMatches
<1>9. CASE ClientReceives  BY <1>9, ClientReceivesMatches
<1>10. CASE ReadInClear  BY <1>10, ReadInClearMatches
<1>11. CASE ReadThroughTunnel  BY <1>11, ReadThroughTunnelMatches
<1>12. CASE Done \/ Refused  BY <1>1, <1>12 DEF Done, Refused
<1>13. QED
  BY <1>1, <1>2, <1>3, <1>4, <1>5, <1>6, <1>7, <1>8, <1>9, <1>10, <1>11, <1>12 DEF Next

(***************************************************************************)
(* The bytes at every stage are those of the packet in module Packets, for *)
(* all telling texts, whatever the hosts and wherever a recv() cuts: until *)
(* a packet is read in the wrong form, with the header bytes that such a   *)
(* reading meets, and after it.                                            *)
(***************************************************************************)
THEOREM MatchCorrect == Spec => []MatchInv
<1>1. Init => MatchInv
  BY MatchInit
<1>2. LifeInv /\ LifeInv' /\ MatchInv /\ [Next]_vars => MatchInv'
  BY MatchNext
<1>3. Spec => []LifeInv
  BY LifeCorrect
<1>4. QED  BY <1>1, <1>2, <1>3, PTL DEF Spec

(***************************************************************************)
(* What print_packet() and print_packet_unencap() show are the addresses   *)
(* and the text that SimpleVPN's packets have: no cut, no misread form and *)
(* no second round of XOR makes up another host or another text.           *)
(***************************************************************************)
THEOREM BytesAlwaysMatch == Spec => []BytesMatchPackets
<1>1. LifeInv /\ MatchInv => BytesMatchPackets
  BY MatchShows
<1>2. QED  BY <1>1, LifeCorrect, MatchCorrect, PTL
=============================================================================
