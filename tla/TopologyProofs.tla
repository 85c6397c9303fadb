--------------------------- MODULE TopologyProofs ---------------------------
(***************************************************************************)
(* Theorems about the way from a typed name to the host that answers, for  *)
(* every line, every argument and every address of four octets; and about  *)
(* the frames of the network, in whatever order they arrive.               *)
(***************************************************************************)
EXTENDS Topology, SequenceTheorems, WellFoundedInduction, TLAPS

Octet == 0..255
Address == [1..4 -> Octet]

-----------------------------------------------------------------------------
(***************************************************************************)
(* Addresses and their texts.                                              *)
(***************************************************************************)

\* Numbers have a smallest one.
LEMMA SmallestNumber ==
  ASSUME NEW I \in SUBSET Nat, I # {}
  PROVE  \E i \in I : \A j \in I : i <= j
<1> DEFINE less == OpToRel(<, Nat)
<1>1. PICK i \in I : \A j \in I : ~(<<j, i>> \in less)
  <2>1. IsWellFoundedOn(less, Nat)
    BY NatLessThanWellFounded
  <2> HIDE DEF less
  <2>2. QED  BY <2>1, WFMin
<1>2. \A j \in I : j < i => <<j, i>> \in less
  BY DEF OpToRel
<1> HIDE DEF less
<1>3. ASSUME NEW j \in I
      PROVE  i <= j
  <2>1. i \in Nat /\ j \in Nat /\ ~(j < i)
    BY <1>1, <1>2
  <2>2. QED  BY <2>1
<1>4. QED  BY <1>3

\* What holds of 0 and passes on to the next number holds up to any number.
LEMMA UpTo ==
  ASSUME NEW len \in Nat, NEW Holds, 0 \in Holds,
         \A i \in 1..len : (i - 1) \in Holds => i \in Holds
  PROVE  \A i \in 0..len : i \in Holds
<1> DEFINE Fails == {i \in 0..len : i \notin Holds}
<1>1. SUFFICES ASSUME Fails # {} PROVE FALSE
  OBVIOUS
<1>2. PICK i \in Fails : \A j \in Fails : i <= j
  <2>1. Fails \in SUBSET Nat
    OBVIOUS
  <2> HIDE DEF Fails
  <2>2. QED  BY <1>1, <2>1, SmallestNumber
<1>3. i \in 1..len /\ i - 1 \notin Fails
  BY <1>2
<1>4. QED  BY <1>2, <1>3

\* One more character of an address, read after those before it.
Reading(before, c) ==
  IF c = Dot THEN Append(before, 0) ELSE [before EXCEPT ![Len(before)] = 10 * @ + (c - Zero)]

\* What has been read of a text, after each of its characters.
IsReading(octets, text) ==
  octets = [n \in 0..Len(text) |-> IF n = 0 THEN <<0>> ELSE Reading(octets[n - 1], text[n])]

\* The recursive definition defines a function.
LEMMA ReadingExists ==
  ASSUME NEW text, Len(text) \in Nat
  PROVE  \E octets : IsReading(octets, text)
<1> DEFINE len == Len(text)
           Step(f, n) == [i \in 0..n |-> IF i = 0 THEN <<0>> ELSE Reading(f[i - 1], text[i])]
           Holds == {n \in Nat : \E f : f = Step(f, n)}
<1>1. 0 \in Holds
  <2> DEFINE f == [i \in 0..0 |-> <<0>>]
  <2>1. f = Step(f, 0)
    OBVIOUS
  <2>2. QED  BY <2>1
<1>2. ASSUME NEW n \in 1..len, n - 1 \in Holds
      PROVE  n \in Holds
  <2>1. PICK f : f = Step(f, n - 1)
    BY <1>2
  <2> DEFINE g == [i \in 0..n |-> IF i = n THEN Reading(f[n - 1], text[n]) ELSE f[i]]
  <2>2. \A i \in 0..(n - 1) : f[i] = IF i = 0 THEN <<0>> ELSE Reading(f[i - 1], text[i])
    BY <2>1
  <2>3. \A i \in 0..n : g[i] = IF i = 0 THEN <<0>> ELSE Reading(g[i - 1], text[i])
    <3>1. \A i \in 0..n : i # 0 => g[i - 1] = f[i - 1]
      OBVIOUS
    <3>2. QED  BY <2>2, <3>1
  <2> HIDE DEF g
  <2>4. g = [i \in 0..n |-> g[i]]
    BY DEF g
  <2>5. g = Step(g, n)
    BY <2>3, <2>4
  <2>6. QED  BY <2>5
<1>3. len \in Nat
  OBVIOUS
<1> HIDE DEF Holds, len
<1>4. \A i \in 1..len : i - 1 \in Holds => i \in Holds
  BY <1>2
<1>5. \A i \in 0..len : i \in Holds
  BY <1>1, <1>3, <1>4, UpTo
<1>6. len \in Holds
  BY <1>3, <1>5
<1>7. PICK f : f = Step(f, len)
  BY <1>6 DEF Holds
<1>8. QED  BY <1>7 DEF IsReading, len

\* An address is made of the octets that the whole text reads as.
LEMMA ParsedIs ==
  ASSUME NEW text, Len(text) \in Nat
  PROVE  \E octets :
           /\ octets[0] = <<0>>
           /\ \A n \in 1..Len(text) : octets[n] = Reading(octets[n - 1], text[n])
           /\ parse_ip_addr(text) =
                [i \in 1..4 |-> IF i <= Len(octets[Len(text)]) THEN octets[Len(text)][i] ELSE 0]
<1> DEFINE octets == CHOOSE o : IsReading(o, text)
<1>1. IsReading(octets, text)
  BY ReadingExists
<1>2. parse_ip_addr(text) =
        [i \in 1..4 |-> IF i <= Len(octets[Len(text)]) THEN octets[Len(text)][i] ELSE 0]
  BY DEF parse_ip_addr, IsReading, Reading
<1> HIDE DEF octets
<1>3. octets[0] = <<0>> /\ \A n \in 1..Len(text) : octets[n] = Reading(octets[n - 1], text[n])
  BY <1>1 DEF IsReading
<1>4. QED  BY <1>2, <1>3

\* The digits of an octet.
LEMMA Digits ==
  ASSUME NEW o \in Octet
  PROVE  /\ o \in Nat /\ o < 256
         /\ o \div 100 \in 0..9 /\ o \div 10 \in Nat /\ (o \div 10) % 10 \in 0..9 /\ o % 10 \in 0..9
         /\ o = 10 * (o \div 10) + (o % 10)
         /\ o \div 10 = 10 * (o \div 100) + ((o \div 10) % 10)
<1> DEFINE u == o \div 10
           v == o \div 100
           w == u \div 10
           x == o % 10
           y == o % 100
           z == u % 10
<1>1. o \in Nat /\ o < 256
  BY DEF Octet
<1>2. u \in Int /\ x \in Int /\ o = 10 * u + x /\ 0 <= x /\ x <= 9
  BY <1>1
<1>3. v \in Int /\ y \in Int /\ o = 100 * v + y /\ 0 <= y /\ y <= 99
  BY <1>1
<1> HIDE DEF v, x, y
<1>4. w \in Int /\ z \in Int /\ u = 10 * w + z /\ 0 <= z /\ z <= 9
  BY <1>2
<1> HIDE DEF u, w, z
<1>5. w = v
  BY <1>2, <1>3, <1>4
<1>6. u >= 0 /\ 0 <= v /\ v <= 9
  BY <1>1, <1>2, <1>3
<1>7. v \in 0..9 /\ u \in Nat /\ z \in 0..9 /\ x \in 0..9 /\ o = 10 * u + x /\ u = 10 * v + z
  BY <1>2, <1>3, <1>4, <1>5, <1>6
<1>8. QED  BY <1>1, <1>7 DEF u, v, x, z

\* Reading a text takes what has been read from x to y, wherever the text is.
Reads(t, x, y) ==
  \A octets : \A p \in Nat :
    /\ octets[p] = x
    /\ \A k \in 1..Len(t) : octets[p + k] = Reading(octets[p + k - 1], t[k])
    => octets[p + Len(t)] = y

\* Nothing is read of no text.
LEMMA ReadNothing ==
  ASSUME NEW x
  PROVE  Reads(<<>>, x, x)
  BY DEF Reads

\* One character is read.
LEMMA ReadOne ==
  ASSUME NEW x, NEW c \in Nat
  PROVE  Reads(<<c>>, x, Reading(x, c))
<1> DEFINE y == Reading(x, c)
           t == <<c>>
<1>1. Len(t) = 1 /\ t[1] = c
  OBVIOUS
<1>2. SUFFICES ASSUME NEW octets, NEW p \in Nat, octets[p] = x,
                      \A k \in 1..Len(t) : octets[p + k] = Reading(octets[p + k - 1], t[k])
               PROVE  octets[p + Len(t)] = y
  BY DEF Reads
<1> HIDE DEF t
<1>3. octets[p + 1] = Reading(octets[p + 1 - 1], c) /\ p + 1 - 1 = p
  BY <1>1, <1>2
<1>4. QED  BY <1>1, <1>2, <1>3

\* One text is read after another.
LEMMA ReadOn ==
  ASSUME NEW t \in Seq(Nat), NEW u \in Seq(Nat), NEW x, NEW y, NEW z, Reads(t, x, y), Reads(u, y, z)
  PROVE  Reads(t \o u, x, z)
<1> DEFINE l == Len(t)
           m == Len(u)
           v == t \o u
<1>1. /\ l \in Nat /\ m \in Nat /\ Len(v) = l + m
      /\ \A k \in 1..l : v[k] = t[k]
      /\ \A k \in 1..m : v[l + k] = u[k]
  <2>1. /\ Len(v) = l + m
        /\ \A k \in 1..(l + m) : v[k] = IF k <= l THEN t[k] ELSE u[k - l]
    BY ConcatProperties
  <2>2. l \in Nat /\ m \in Nat
    OBVIOUS
  <2> HIDE DEF l, m, v
  <2>3. \A k \in 1..l : v[k] = t[k]
    BY <2>1, <2>2
  <2>4. ASSUME NEW k \in 1..m
        PROVE  v[l + k] = u[k]
    <3> DEFINE j == l + k
    <3>1. j \in 1..(l + m) /\ ~(j <= l) /\ j - l = k
      BY <2>2
    <3> HIDE DEF j
    <3>2. v[j] = u[k]
      BY <2>1, <3>1
    <3>3. QED  BY <3>2 DEF j
  <2>5. QED  BY <2>1, <2>2, <2>3, <2>4
<1>2. SUFFICES ASSUME NEW octets, NEW p \in Nat, octets[p] = x,
                      \A k \in 1..Len(v) : octets[p + k] = Reading(octets[p + k - 1], v[k])
               PROVE  octets[p + Len(v)] = z
  BY DEF Reads
<1> HIDE DEF v
<1>3. \A k \in 1..l : octets[p + k] = Reading(octets[p + k - 1], t[k])
  BY <1>1, <1>2
<1>4. octets[p + l] = y
  BY <1>2, <1>3 DEF Reads
<1>5. ASSUME NEW k \in 1..m
      PROVE  octets[(p + l) + k] = Reading(octets[(p + l) + k - 1], u[k])
  <2>1. l + k \in 1..Len(v) /\ p + (l + k) = (p + l) + k /\ p + (l + k) - 1 = (p + l) + k - 1
    BY <1>1
  <2>2. octets[p + (l + k)] = Reading(octets[p + (l + k) - 1], v[l + k])
    BY <1>2, <2>1
  <2>3. v[l + k] = u[k]
    BY <1>1
  <2>4. QED  BY <2>1, <2>2, <2>3
<1>6. p + l \in Nat /\ octets[(p + l) + m] = z
  <2>1. p + l \in Nat
    BY <1>1
  <2>2. QED  BY <1>4, <1>5, <2>1 DEF Reads
<1>7. p + Len(v) = (p + l) + m
  BY <1>1
<1>8. QED  BY <1>6, <1>7

\* A digit is read into the last octet.
LEMMA ReadDigit ==
  ASSUME NEW before \in Seq(Nat), NEW x \in Nat, NEW d \in 0..9
  PROVE  /\ Zero + d \in Nat
         /\ Reading(Append(before, x), Zero + d) = Append(before, 10 * x + d)
<1> DEFINE c == Zero + d
           read == Append(before, x)
           next == [read EXCEPT ![Len(read)] = 10 * @ + (c - Zero)]
           y == 10 * x + d
<1>1. c # Dot /\ c - Zero = d /\ c \in Nat
  BY DEF Zero, Dot
<1>2. y \in Nat
  OBVIOUS
<1>3. /\ Len(read) = Len(before) + 1 /\ read[Len(before) + 1] = x /\ DOMAIN read = 1..(Len(before) + 1)
      /\ \A i \in 1..Len(before) : read[i] = before[i]
      /\ read \in Seq(Nat) /\ Len(before) \in Nat
  BY AppendProperties
<1>4. next = Append(before, y)
  <2> DEFINE last == Append(before, y)
  <2> HIDE DEF y, c
  <2>1. /\ last \in Seq(Nat) /\ Len(last) = Len(before) + 1 /\ last[Len(before) + 1] = y
        /\ \A i \in 1..Len(before) : last[i] = before[i]
    BY <1>2, AppendProperties
  <2> HIDE DEF read, last
  <2>2. 10 * read[Len(read)] + (c - Zero) = y
    BY <1>1, <1>3 DEF y
  <2>3. next \in Seq(Nat) /\ Len(next) = Len(before) + 1
        /\ \A i \in 1..(Len(before) + 1) : next[i] = IF i = Len(before) + 1 THEN y ELSE read[i]
    BY <1>2, <1>3, <2>2
  <2> HIDE DEF next
  <2>4. ASSUME NEW i \in 1..(Len(before) + 1)
        PROVE  next[i] = last[i]
    <3>1. CASE i = Len(before) + 1
      BY <2>1, <2>3, <3>1
    <3>2. CASE i # Len(before) + 1
      <4>1. i \in 1..Len(before)
        BY <1>3, <3>2
      <4>2. QED  BY <1>3, <2>1, <2>3, <3>2, <4>1
    <3>3. QED  BY <3>1, <3>2
  <2>5. QED  BY <2>1, <2>3, <2>4, SeqEqual
<1>5. QED  BY <1>1, <1>4 DEF Reading

\* The digits of an octet are read as the octet.
LEMMA ReadDecimal ==
  ASSUME NEW before \in Seq(Nat), NEW o \in Octet
  PROVE  /\ Decimal(o) \in Seq(Nat)
         /\ Len(Decimal(o)) \in Nat /\ 1 <= Len(Decimal(o)) /\ Len(Decimal(o)) <= 3
         /\ Reads(Decimal(o), Append(before, 0), Append(before, o))
<1> DEFINE u == o \div 10
           v == o \div 100
           x == o % 10
           z == u % 10
           hundreds == IF o >= 100 THEN <<Zero + v>> ELSE <<>>
           tens == IF o >= 10 THEN <<Zero + z>> ELSE <<>>
           ones == <<Zero + x>>
<1>1. Decimal(o) = hundreds \o tens \o ones
  BY DEF Decimal
<1>2. o \in Nat /\ v \in 0..9 /\ u \in Nat /\ z \in 0..9 /\ x \in 0..9 /\ o = 10 * u + x /\ u = 10 * v + z
  BY Digits
<1> HIDE DEF u, v, x, z
<1>3. Zero + v \in Nat /\ Zero + z \in Nat /\ Zero + x \in Nat
  BY <1>2 DEF Zero
<1>4. /\ hundreds \in Seq(Nat) /\ Len(hundreds) \in Nat /\ Len(hundreds) <= 1
      /\ Reads(hundreds, Append(before, 0), Append(before, v))
  <2>1. CASE o >= 100
    <3>1. Reading(Append(before, 0), Zero + v) = Append(before, 10 * 0 + v) /\ 10 * 0 + v = v
      <4>1. 0 \in Nat /\ v \in 0..9
        BY <1>2
      <4>2. Reading(Append(before, 0), Zero + v) = Append(before, 10 * 0 + v)
        BY <4>1, ReadDigit
      <4>3. QED  BY <1>2, <4>2
    <3>2. Reads(<<Zero + v>>, Append(before, 0), Append(before, v))
      BY <1>3, <3>1, ReadOne
    <3>3. QED  BY <1>3, <2>1, <3>2
  <2>2. CASE ~(o >= 100)
    <3>1. v = 0
      BY <1>2, <2>2
    <3>2. QED  BY <2>2, <3>1, ReadNothing
  <2>3. QED  BY <2>1, <2>2
<1>5. /\ tens \in Seq(Nat) /\ Len(tens) \in Nat /\ Len(tens) <= 1
      /\ Reads(tens, Append(before, v), Append(before, u))
  <2>1. CASE o >= 10
    <3>1. Reading(Append(before, v), Zero + z) = Append(before, u)
      <4>1. v \in Nat /\ z \in 0..9
        BY <1>2
      <4>2. Reading(Append(before, v), Zero + z) = Append(before, 10 * v + z)
        BY <4>1, ReadDigit
      <4>3. QED  BY <1>2, <4>2
    <3>2. Reads(<<Zero + z>>, Append(before, v), Append(before, u))
      BY <1>3, <3>1, ReadOne
    <3>3. QED  BY <1>3, <2>1, <3>2
  <2>2. CASE ~(o >= 10)
    <3>1. v = 0 /\ u = 0
      BY <1>2, <2>2
    <3>2. QED  BY <2>2, <3>1, ReadNothing
  <2>3. QED  BY <2>1, <2>2
<1>6. ones \in Seq(Nat) /\ Len(ones) = 1 /\ Reads(ones, Append(before, u), Append(before, o))
  <2>1. Reading(Append(before, u), Zero + x) = Append(before, o)
    <3>1. u \in Nat /\ x \in 0..9
      BY <1>2
    <3>2. Reading(Append(before, u), Zero + x) = Append(before, 10 * u + x)
      BY <3>1, ReadDigit
    <3>3. QED  BY <1>2, <3>2
  <2>2. Reads(ones, Append(before, u), Append(before, o))
    BY <1>3, <2>1, ReadOne
  <2>3. ones \in Seq(Nat) /\ Len(ones) = 1
    BY <1>3
  <2>4. QED  BY <2>2, <2>3
<1> HIDE DEF hundreds, tens, ones
<1>7. hundreds \o tens \in Seq(Nat) /\ Len(hundreds \o tens) = Len(hundreds) + Len(tens)
      /\ Reads(hundreds \o tens, Append(before, 0), Append(before, u))
  BY <1>4, <1>5, ReadOn, ConcatProperties
<1> DEFINE first == hundreds \o tens
<1>8. /\ first \o ones \in Seq(Nat) /\ Len(first \o ones) = Len(first) + Len(ones)
      /\ Reads(first \o ones, Append(before, 0), Append(before, o))
  <2> HIDE DEF first
  <2>1. first \in Seq(Nat) /\ Reads(first, Append(before, 0), Append(before, u))
    BY <1>7 DEF first
  <2>2. Reads(first \o ones, Append(before, 0), Append(before, o))
    BY <1>6, <2>1, ReadOn
  <2>3. QED  BY <1>6, <2>1, <2>2, ConcatProperties
<1>9. Len(first) \in Nat /\ Len(first) <= 2
  BY <1>4, <1>5, <1>7
<1> DEFINE whole == first \o ones
<1>10. Len(whole) \in Nat /\ 1 <= Len(whole) /\ Len(whole) <= 3
  <2> HIDE DEF first
  <2>1. QED  BY <1>6, <1>8, <1>9
<1>11. QED  BY <1>1, <1>8, <1>10

\* A dot and one more octet are read after a text.
LEMMA ReadNext ==
  ASSUME NEW t \in Seq(Nat), NEW x, NEW before \in Seq(Nat), Reads(t, x, before), NEW o \in Octet
  PROVE  /\ t \o <<Dot>> \o Decimal(o) \in Seq(Nat)
         /\ Len(t \o <<Dot>> \o Decimal(o)) \in Nat
         /\ Len(t \o <<Dot>> \o Decimal(o)) > 0
         /\ Len(t \o <<Dot>> \o Decimal(o)) <= Len(t) + 4
         /\ Reads(t \o <<Dot>> \o Decimal(o), x, Append(before, o))
<1> DEFINE dot == <<Dot>>
           u == t \o dot
           d == Decimal(o)
<1>1. dot \in Seq(Nat) /\ Len(dot) = 1 /\ Reads(dot, before, Append(before, 0))
  <2>1. Dot \in Nat
    BY DEF Dot
  <2>2. Reads(dot, before, Reading(before, Dot))
    BY <2>1, ReadOne
  <2>3. Reading(before, Dot) = Append(before, 0)
    BY DEF Reading
  <2>4. QED  BY <2>1, <2>2, <2>3
<1> HIDE DEF dot
<1>2. u \in Seq(Nat) /\ Len(u) = Len(t) + Len(dot) /\ Reads(u, x, Append(before, 0))
  BY <1>1, ReadOn, ConcatProperties
<1>3. /\ d \in Seq(Nat) /\ Len(d) \in Nat /\ 1 <= Len(d) /\ Len(d) <= 3
      /\ Reads(d, Append(before, 0), Append(before, o))
  BY ReadDecimal
<1> HIDE DEF u, d
<1>4. u \o d \in Seq(Nat) /\ Len(u \o d) = Len(u) + Len(d) /\ Reads(u \o d, x, Append(before, o))
  BY <1>2, <1>3, ReadOn, ConcatProperties
<1>5. Len(t) \in Nat
  OBVIOUS
<1>6. Len(u \o d) \in Nat /\ Len(u \o d) > 0 /\ Len(u \o d) <= Len(t) + 4
  <2>1. Len(u \o d) = Len(t) + 1 + Len(d)
    BY <1>1, <1>2, <1>4
  <2>2. QED  BY <1>3, <1>5, <2>1
<1>7. QED  BY <1>4, <1>6 DEF u, d, dot

\* Every address survives the way through its text, which has room in the buffer.
LEMMA TextOfAddress ==
  ASSUME NEW a \in Address
  PROVE  /\ parse_ip_addr(parse_ip_addr_to_str(a)) = a
         /\ Len(parse_ip_addr_to_str(a)) < StringSize
<1> DEFINE t1 == Decimal(a[1])
           t2 == t1 \o <<Dot>> \o Decimal(a[2])
           t3 == t2 \o <<Dot>> \o Decimal(a[3])
           t4 == t3 \o <<Dot>> \o Decimal(a[4])
           b1 == Append(<<>>, a[1])
           b2 == Append(b1, a[2])
           b3 == Append(b2, a[3])
           b4 == Append(b3, a[4])
<1>1. a[1] \in Octet /\ a[2] \in Octet /\ a[3] \in Octet /\ a[4] \in Octet /\ DOMAIN a = 1..4
  BY DEF Address
<1>2. a[1] \in Nat /\ a[2] \in Nat /\ a[3] \in Nat /\ a[4] \in Nat
  BY <1>1, Digits
<1>3. parse_ip_addr_to_str(a) = t4
  BY DEF parse_ip_addr_to_str
<1>4. b1 \in Seq(Nat) /\ b2 \in Seq(Nat) /\ b3 \in Seq(Nat)
  BY <1>2
<1>5. Len(b4) = 4 /\ b4[1] = a[1] /\ b4[2] = a[2] /\ b4[3] = a[3] /\ b4[4] = a[4]
  BY <1>2
<1>6. t1 \in Seq(Nat) /\ Len(t1) \in Nat /\ Len(t1) <= 3 /\ Reads(t1, <<0>>, b1)
  <2>1. Append(<<>>, 0) = <<0>> /\ <<>> \in Seq(Nat)
    OBVIOUS
  <2>2. t1 \in Seq(Nat) /\ Len(t1) \in Nat /\ Len(t1) <= 3 /\ Reads(t1, Append(<<>>, 0), b1)
    BY <1>1, <2>1, ReadDecimal
  <2>3. QED  BY <2>1, <2>2
<1> HIDE DEF t1, b1
<1>7. t2 \in Seq(Nat) /\ Len(t2) \in Nat /\ Len(t2) <= Len(t1) + 4 /\ Reads(t2, <<0>>, b2)
  BY <1>1, <1>4, <1>6, ReadNext
<1> HIDE DEF t2, b2
<1>8. t3 \in Seq(Nat) /\ Len(t3) \in Nat /\ Len(t3) <= Len(t2) + 4 /\ Reads(t3, <<0>>, b3)
  BY <1>1, <1>4, <1>7, ReadNext
<1> HIDE DEF t3, b3
<1>9. t4 \in Seq(Nat) /\ Len(t4) \in Nat /\ Len(t4) <= Len(t3) + 4 /\ Reads(t4, <<0>>, b4)
  BY <1>1, <1>4, <1>8, ReadNext
<1> HIDE DEF t4
<1>10. Len(t4) < 16
  <2>1. Len(t1) \in Nat /\ Len(t1) <= 3
    BY <1>6
  <2>2. Len(t2) \in Nat /\ Len(t2) <= Len(t1) + 4 /\ Len(t3) \in Nat /\ Len(t3) <= Len(t2) + 4
        /\ Len(t4) \in Nat /\ Len(t4) <= Len(t3) + 4
    BY <1>7, <1>8, <1>9
  <2>3. QED  BY <2>1, <2>2
<1>11. PICK octets :
         /\ octets[0] = <<0>>
         /\ \A n \in 1..Len(t4) : octets[n] = Reading(octets[n - 1], t4[n])
         /\ parse_ip_addr(t4) =
              [i \in 1..4 |-> IF i <= Len(octets[Len(t4)]) THEN octets[Len(t4)][i] ELSE 0]
  BY <1>9, ParsedIs
<1>12. octets[Len(t4)] = b4
  <2> DEFINE p == 0
  <2>1. \A k \in 1..Len(t4) : p + k = k /\ p + k - 1 = k - 1
    BY <1>9
  <2>2. p + Len(t4) = Len(t4) /\ p \in Nat /\ octets[p] = <<0>>
    BY <1>9, <1>11
  <2> HIDE DEF p
  <2>3. \A k \in 1..Len(t4) : octets[p + k] = Reading(octets[p + k - 1], t4[k])
    BY <1>11, <2>1
  <2>4. octets[p + Len(t4)] = b4
    BY <1>9, <2>2, <2>3 DEF Reads
  <2>5. QED  BY <2>2, <2>4
<1> HIDE DEF b4
<1>13. parse_ip_addr(t4) = [i \in 1..4 |-> b4[i]]
  <2>1. parse_ip_addr(t4) = [i \in 1..4 |-> IF i <= Len(b4) THEN b4[i] ELSE 0]
    BY <1>11, <1>12
  <2>2. \A i \in 1..4 : i <= Len(b4)
    BY <1>5
  <2>3. QED  BY <2>1, <2>2
<1>14. \A i \in 1..4 : b4[i] = a[i]
  <2>1. \A i \in 1..4 : i = 1 \/ i = 2 \/ i = 3 \/ i = 4
    OBVIOUS
  <2>2. QED  BY <1>5, <2>1
<1>15. parse_ip_addr(t4) = a
  <2>1. a = [i \in 1..4 |-> a[i]]
    BY DEF Address
  <2>2. QED  BY <1>13, <1>14, <2>1
<1>16. QED  BY <1>3, <1>10, <1>15 DEF StringSize

-----------------------------------------------------------------------------
(***************************************************************************)
(* Lines and names.                                                        *)
(***************************************************************************)

\* The first character of a kind in a text, if it has one.
LEMMA FirstIs ==
  ASSUME NEW text \in Seq(Octet), NEW chars
  PROVE  LET end == FirstOf(text, chars)
         IN  /\ Len(text) \in Nat /\ end \in Nat /\ end <= Len(text)
             /\ end # 0 => text[end] \in chars
             /\ end = 0 => \A i \in 1..Len(text) : text[i] \notin chars
             /\ end # 0 => \A i \in 1..(end - 1) : text[i] \notin chars
<1> DEFINE I == {i \in 1..Len(text) : text[i] \in chars}
           end == FirstOf(text, chars)
<1>1. end = IF I # {} THEN CHOOSE i \in I : \A j \in I : i <= j ELSE 0
  BY DEF FirstOf, SelectInSeq, Min
<1>2. Len(text) \in Nat
  OBVIOUS
<1>3. CASE I = {}
  <2>1. end = 0
    BY <1>1, <1>3
  <2>2. \A i \in 1..Len(text) : text[i] \notin chars
    BY <1>3
  <2> HIDE DEF I, end
  <2>3. end \in Nat /\ end <= Len(text)
    BY <1>2, <2>1
  <2>4. QED  BY <1>2, <2>1, <2>2, <2>3 DEF end
<1>4. CASE I # {}
  <2>1. I \in SUBSET Nat
    BY <1>2
  <2>2. \E i \in I : \A j \in I : i <= j
    BY <1>4, <2>1, SmallestNumber
  <2>3. end \in I /\ \A j \in I : end <= j
    BY <1>1, <1>4, <2>2
  <2> HIDE DEF end
  <2>4. end \in 1..Len(text) /\ text[end] \in chars
    BY <2>3
  <2>5. \A i \in 1..(end - 1) : text[i] \notin chars
    BY <1>2, <2>3, <2>4
  <2>6. end \in Nat /\ end <= Len(text) /\ end # 0
    BY <1>2, <2>4
  <2>7. QED  BY <1>2, <2>4, <2>5, <2>6 DEF end
<1>5. QED  BY <1>3, <1>4

\* There is no other first one.
LEMMA FirstIsAt ==
  ASSUME NEW text \in Seq(Octet), NEW chars, NEW n \in 1..Len(text), text[n] \in chars,
         \A i \in 1..(n - 1) : text[i] \notin chars
  PROVE  FirstOf(text, chars) = n
<1> DEFINE end == FirstOf(text, chars)
<1>1. Len(text) \in Nat /\ end \in Nat /\ end <= Len(text)
  BY FirstIs
<1>2. end # 0
  BY FirstIs
<1>3. text[end] \in chars /\ \A i \in 1..(end - 1) : text[i] \notin chars
  BY <1>2, FirstIs
<1> HIDE DEF end
<1>4. ~(end < n)
  BY <1>1, <1>2, <1>3
<1>5. ~(n < end)
  BY <1>1, <1>2, <1>3
<1>6. QED  BY <1>1, <1>4, <1>5 DEF end

\* A first part of a text.
LEMMA FirstPart ==
  ASSUME NEW text \in Seq(Octet), NEW n \in Nat, n <= Len(text)
  PROVE  /\ SubSeq(text, 1, n) \in Seq(Octet) /\ Len(SubSeq(text, 1, n)) = n
         /\ \A i \in 1..n : SubSeq(text, 1, n)[i] = text[i]
<1>1. Len(text) \in Nat /\ \A i \in 1..Len(text) : text[i] \in Octet
  OBVIOUS
<1>2. 1 \in Int /\ n \in Int /\ \A i \in 1..n : text[i] \in Octet
  BY <1>1
<1> DEFINE part == SubSeq(text, 1, n)
<1>3. /\ part \in Seq(Octet) /\ Len(part) = IF 1 <= n THEN n - 1 + 1 ELSE 0
      /\ \A i \in 1..(n - 1 + 1) : part[i] = text[1 + i - 1]
  BY <1>2, SubSeqProperties
<1> HIDE DEF part
<1>4. n - 1 + 1 = n /\ \A i \in 1..n : 1 + i - 1 = i
  OBVIOUS
<1>5. QED  BY <1>3, <1>4 DEF part

\* A line that leaves a name of two characters was stored as far as it is a string.
LEMMA ShortNamesAreTyped ==
  ASSUME NEW text \in Seq(Octet), Len(Stripped(fgets(MAX_NAME_LENGTH, text))) = 2
  PROVE  Stripped(text) = Stripped(fgets(MAX_NAME_LENGTH, text))
<1> DEFINE enders == {Terminator, Newline}
           e == FirstOf(text, {Newline})
           m == FirstOf(text, enders)
           upto == IF e = 0 THEN Len(text) ELSE e
           k == IF upto < 5 THEN upto ELSE 4
           stored == fgets(MAX_NAME_LENGTH, text)
           f == FirstOf(stored, enders)
<1>1. /\ Len(text) \in Nat /\ e \in Nat /\ e <= Len(text)
      /\ e # 0 => text[e] \in {Newline}
      /\ m \in Nat /\ m <= Len(text)
      /\ m # 0 => text[m] \in enders
      /\ m = 0 => \A i \in 1..Len(text) : text[i] \notin enders
      /\ m # 0 => \A i \in 1..(m - 1) : text[i] \notin enders
  BY FirstIs
<1>2. stored = SubSeq(text, 1, k)
  <2>1. 5 - 1 = 4
    OBVIOUS
  <2>2. QED  BY <2>1 DEF fgets, MAX_NAME_LENGTH
<1>3. Stripped(text) = IF m = 0 THEN text ELSE SubSeq(text, 1, m - 1)
  BY DEF Stripped
<1>4. Stripped(stored) = IF f = 0 THEN stored ELSE SubSeq(stored, 1, f - 1)
  BY DEF Stripped
<1>5. Len(Stripped(stored)) = 2
  OBVIOUS
<1> HIDE DEF e, m, f, stored, enders
<1>6. k \in Nat /\ k <= Len(text)
  BY <1>1
<1>7. stored \in Seq(Octet) /\ Len(stored) = k /\ \A i \in 1..k : stored[i] = text[i]
  <2> HIDE DEF k
  <2>1. QED  BY <1>2, <1>6, FirstPart
<1>8. CASE m # 0 /\ m <= k
  <2>1. m \in 1..Len(stored) /\ stored[m] \in enders /\ \A i \in 1..(m - 1) : stored[i] \notin enders
    <3> HIDE DEF k
    <3>1. m \in 1..k /\ \A i \in 1..(m - 1) : i \in 1..k
      BY <1>1, <1>6, <1>8
    <3>2. QED  BY <1>1, <1>7, <1>8, <3>1
  <2>2. f = m
    BY <1>7, <2>1, FirstIsAt DEF f
  <2>3. SubSeq(stored, 1, m - 1) = SubSeq(text, 1, m - 1)
    <3> DEFINE n == m - 1
    <3> HIDE DEF k
    <3>1. n \in Nat /\ n <= Len(stored) /\ n <= Len(text) /\ \A i \in 1..n : i \in 1..k
      BY <1>1, <1>6, <1>7, <1>8
    <3> HIDE DEF n
    <3>2. /\ SubSeq(stored, 1, n) \in Seq(Octet) /\ Len(SubSeq(stored, 1, n)) = n
          /\ \A i \in 1..n : SubSeq(stored, 1, n)[i] = stored[i]
      BY <1>7, <3>1, FirstPart
    <3>3. /\ SubSeq(text, 1, n) \in Seq(Octet) /\ Len(SubSeq(text, 1, n)) = n
          /\ \A i \in 1..n : SubSeq(text, 1, n)[i] = text[i]
      BY <3>1, FirstPart
    <3>4. \A i \in 1..n : stored[i] = text[i]
      BY <1>7, <3>1
    <3>5. SubSeq(stored, 1, n) = SubSeq(text, 1, n)
      BY <3>2, <3>3, <3>4, SeqEqual
    <3>6. QED  BY <3>5 DEF n
  <2>4. QED  BY <1>3, <1>4, <1>8, <2>2, <2>3 DEF stored
<1>9. CASE m = 0 \/ m > k
  <2>1. \A i \in 1..k : stored[i] \notin enders
    <3> HIDE DEF k
    <3>1. CASE m = 0
      BY <1>1, <1>6, <1>7, <3>1
    <3>2. CASE m # 0 /\ m > k
      <4>1. \A i \in 1..k : i \in 1..(m - 1)
        BY <1>1, <1>6, <3>2
      <4>2. QED  BY <1>1, <1>7, <3>2, <4>1
    <3>3. QED  BY <1>9, <3>1, <3>2
  <2>2. f = 0
    <3>1. f \in Nat /\ f <= k /\ (f # 0 => stored[f] \in enders)
      BY <1>7, FirstIs DEF f
    <3> HIDE DEF k
    <3>2. f # 0 => f \in 1..k
      BY <1>6, <3>1
    <3>3. QED  BY <2>1, <3>1, <3>2
  <2>3. k = 2
    BY <1>4, <1>5, <1>7, <2>2
  <2>4. upto = 2
    BY <1>1, <2>3
  <2>5. e = 0
    <3>1. e # 0 => text[e] \in enders /\ e = 2
      BY <1>1, <2>4 DEF enders
    <3>2. e # 0 => stored[e] \in enders /\ e \in 1..k
      BY <1>7, <2>3, <3>1
    <3>3. QED  BY <2>1, <3>2
  <2>6. m = 0 /\ Len(text) = 2
    BY <1>1, <1>9, <2>3, <2>4, <2>5
  <2>7. stored = text
    BY <1>7, <2>3, <2>6, SeqEqual
  <2>8. QED  BY <1>3, <1>4, <2>2, <2>6, <2>7 DEF stored
<1>10. QED  BY <1>1, <1>6, <1>8, <1>9

\* The names of the table.
LEMMA HostsAre ==
  ASSUME NEW n \in DOMAIN hosts
  PROVE  /\ \E k \in 1..7 : n = <<H, Zero + k>> /\ hosts[n] = <<10, 0, 0, k>>
         /\ Len(n) = 2 /\ hosts[n] \in Address
<1>1. PICK k \in 1..7 : n = <<H, Zero + k>>
  BY DEF hosts
<1>2. n[2] - Zero = k
  BY <1>1 DEF Zero
<1>3. hosts[n] = <<10, 0, 0, k>>
  BY <1>1, <1>2 DEF hosts
<1>4. Len(n) = 2
  BY <1>1
<1>5. <<10, 0, 0, k>> \in Address
  <2>1. 10 \in Octet /\ 0 \in Octet /\ k \in Octet
    BY DEF Octet
  <2> HIDE DEF Octet
  <2>2. QED  BY <2>1 DEF Address
<1>6. QED  BY <1>1, <1>3, <1>4, <1>5

\* The constants, in the words of this module.
LEMMA NamesTypes ==
  /\ Lines \cup Leftovers \subseteq Seq(Octet)
  /\ Cuts \subseteq Address
  /\ \A n \in DOMAIN hosts : n # Null /\ hosts[n] # Null
  BY HostNamesAssumption DEF Octet, Address

-----------------------------------------------------------------------------
(***************************************************************************)
(* What the programs know of names and addresses.                          *)
(***************************************************************************)

\* The parts of NamesInv, with the sets of this module.
LEMMA NamesInvIs ==
  NamesInv <=>
    /\ stage \in {"prompt", "names", "refused", "request", "packet", "cut_packet",
                  "dialled", "formatted"}
    /\ line \in Lines /\ own \in Arguments
    /\ stage # "prompt" =>
         IF line = <<>> THEN name \in Leftovers
         ELSE name = Stripped(fgets(MAX_NAME_LENGTH, line))
    /\ stage \in {"request", "packet", "dialled"} =>
         {own.client, own.server, name} \subseteq DOMAIN hosts /\ sought = hosts[name]
    /\ stage \in {"cut_packet", "formatted"} => sought \in Address
    /\ stage \in {"dialled", "formatted"} => ip = parse_ip_addr_to_str(sought)
  BY DEF NamesInv, Address, Octet

\* It holds initially.
LEMMA NamesInit == Init => NamesInv
  BY DEF Init, NamesInv

\* Typing a name keeps it.
LEMMA NamesReadName == NamesInv /\ ReadName => NamesInv'
  BY DEF NamesInv, ReadName

\* Looking up the names keeps it: all three are in the table when they are used.
LEMMA NamesLookUpNames == NamesInv /\ LookUpNames => NamesInv'
<1> SUFFICES ASSUME NamesInv, LookUpNames
             PROVE  NamesInv'
  OBVIOUS
<1> DEFINE ips == <<get_host_ip(own.client), get_host_ip(own.server), get_host_ip(name)>>
           usable == \A i, j \in 1..3 : ips[i] # Null /\ (i # j => ips[i] # ips[j])
<1>1. CASE usable
  <2>1. sought' = get_host_ip(name) /\ stage' = "request" /\ UNCHANGED <<line, name, own, ip>>
    BY <1>1 DEF LookUpNames
  <2>2. ips[1] # Null /\ ips[2] # Null /\ ips[3] # Null
    BY <1>1
  <2>3. own.client \in DOMAIN hosts /\ own.server \in DOMAIN hosts /\ name \in DOMAIN hosts
    BY <2>2 DEF get_host_ip
  <2>4. sought' = hosts[name]
    BY <2>1, <2>3 DEF get_host_ip
  <2>5. QED  BY <2>1, <2>3, <2>4 DEF NamesInv, LookUpNames
<1>2. CASE ~usable
  <2>1. sought' = Null /\ stage' = "refused" /\ UNCHANGED <<line, name, own, ip>>
    BY <1>2 DEF LookUpNames
  <2>2. QED  BY <2>1 DEF NamesInv, LookUpNames
<1>3. QED  BY <1>1, <1>2

\* The packet carries the address, or it is cut.
LEMMA NamesSendAddress == NamesInv /\ SendAddress => NamesInv'
<1> SUFFICES ASSUME NamesInv, SendAddress
             PROVE  NamesInv'
  OBVIOUS
<1>1. UNCHANGED <<line, name, own, ip>> /\ stage = "request"
  BY DEF SendAddress
<1>2. {own.client, own.server, name} \subseteq DOMAIN hosts /\ sought = hosts[name]
  BY <1>1 DEF NamesInv
<1>3. CASE sought' = parse_ip_addr(parse_ip_addr_to_str(sought)) /\ stage' = "packet"
  <2>1. sought' = sought
    BY <1>2, <1>3, HostsAre, TextOfAddress
  <2>2. QED  BY <1>1, <1>2, <1>3, <2>1 DEF NamesInv
<1>4. CASE sought' \in Cuts /\ stage' = "cut_packet"
  <2>1. sought' \in Address
    BY <1>4, NamesTypes
  <2>2. QED  BY <1>1, <1>4, <2>1 DEF NamesInv, Address, Octet
<1>5. QED  BY <1>3, <1>4 DEF SendAddress

\* The text is that of the address.
LEMMA NamesFormatAddress == NamesInv /\ FormatAddress => NamesInv'
  BY DEF NamesInv, FormatAddress

\* Every step keeps what the programs know.
LEMMA NamesNext == NamesInv /\ [Next]_vars => NamesInv'
<1>1. NamesInv /\ UNCHANGED vars => NamesInv'
  BY DEF NamesInv, vars
<1>2. QED
  BY <1>1, NamesReadName, NamesLookUpNames, NamesSendAddress, NamesFormatAddress DEF Next

\* An address is sent, dialled or answered only if it is one.
LEMMA SoughtIsAddress ==
  ASSUME NamesInv, stage \in {"dialled", "formatted"}
  PROVE  sought \in Address /\ parse_ip_addr(ip) = sought /\ Len(ip) < StringSize
<1>1. CASE stage = "dialled"
  <2>1. sought \in Address
    BY <1>1, HostsAre DEF NamesInv
  <2>2. QED  BY <1>1, <2>1, TextOfAddress DEF NamesInv
<1>2. CASE stage = "formatted"
  <2>1. sought \in Address
    BY <1>2 DEF NamesInv, Address, Octet
  <2>2. QED  BY <1>2, <2>1, TextOfAddress DEF NamesInv
<1>3. QED  BY <1>1, <1>2

\* The name that is dialled was typed.
LEMMA NamesImplyTyped == NamesInv => DialsTypedHost
<1> SUFFICES ASSUME NamesInv, stage = "dialled", line # <<>>
             PROVE  Typed /\ parse_ip_addr(ip) = get_host_ip(name)
  BY DEF DialsTypedHost
<1>1. name \in DOMAIN hosts /\ sought = hosts[name] /\ line \in Lines
      /\ name = Stripped(fgets(MAX_NAME_LENGTH, line))
  BY DEF NamesInv
<1>2. parse_ip_addr(ip) = get_host_ip(name)
  BY <1>1, SoughtIsAddress DEF get_host_ip
<1>3. Stripped(line) = name
  <2>1. line \in Seq(Octet)
    BY <1>1, NamesTypes
  <2>2. Len(name) = 2
    BY <1>1, HostsAre
  <2>3. QED  BY <1>1, <2>1, <2>2, ShortNamesAreTyped
<1>4. QED  BY <1>2, <1>3 DEF Typed

\* Addresses keep through their texts.
LEMMA NamesImplySurvival == NamesInv => AddressesSurviveText
  BY SoughtIsAddress DEF AddressesSurviveText

-----------------------------------------------------------------------------
(***************************************************************************)
(* The links are a tree.                                                   *)
(***************************************************************************)
Node == Switches \cup Hosts

\* The nodes, one by one.
LEMMA NodesAre ==
  /\ Switches = {s(1), s(2), s(3), s(4), s(5), s(6), s(7)}
  /\ Hosts = {h(1), h(2), h(3), h(4), h(5), h(6), h(7)}
<1>1. \A n \in 1..7 : n = 1 \/ n = 2 \/ n = 3 \/ n = 4 \/ n = 5 \/ n = 6 \/ n = 7
  OBVIOUS
<1>2. 1 \in 1..7 /\ 2 \in 1..7 /\ 3 \in 1..7 /\ 4 \in 1..7 /\ 5 \in 1..7 /\ 6 \in 1..7 /\ 7 \in 1..7
  OBVIOUS
<1>3. Switches = {s(1), s(2), s(3), s(4), s(5), s(6), s(7)}
  BY <1>1, <1>2 DEF Switches
<1>4. Hosts = {h(1), h(2), h(3), h(4), h(5), h(6), h(7)}
  BY <1>1, <1>2 DEF Hosts
<1>5. QED  BY <1>3, <1>4

\* No two of them are the same.
LEMMA NodesDiffer ==
  /\ \A m, n \in 1..7 : s(m) # h(n)
  /\ \A m, n \in 1..7 : m # n => s(m) # s(n) /\ h(m) # h(n)
<1>1. \A n : s(n)[1] = 115 /\ h(n)[1] = 104 /\ s(n)[2] = 48 + n /\ h(n)[2] = 48 + n
  BY DEF s, h, S, H, Zero
<1>2. ASSUME NEW m \in 1..7, NEW n \in 1..7
      PROVE  s(m) # h(n)
  BY <1>1
<1>3. ASSUME NEW m \in 1..7, NEW n \in 1..7, m # n
      PROVE  s(m) # s(n) /\ h(m) # h(n)
  <2>1. 48 + m # 48 + n
    BY <1>3
  <2>2. QED  BY <1>1, <2>1
<1>4. QED  BY <1>2, <1>3

\* The same, of fourteen names.
Differ(s1, s2, s3, s4, s5, s6, s7, h1, h2, h3, h4, h5, h6, h7) ==
  /\ s1 \notin {s2, s3, s4, s5, s6, s7, h1, h2, h3, h4, h5, h6, h7}
  /\ s2 \notin {s3, s4, s5, s6, s7, h1, h2, h3, h4, h5, h6, h7}
  /\ s3 \notin {s4, s5, s6, s7, h1, h2, h3, h4, h5, h6, h7}
  /\ s4 \notin {s5, s6, s7, h1, h2, h3, h4, h5, h6, h7}
  /\ s5 \notin {s6, s7, h1, h2, h3, h4, h5, h6, h7}
  /\ s6 \notin {s7, h1, h2, h3, h4, h5, h6, h7}
  /\ s7 \notin {h1, h2, h3, h4, h5, h6, h7}
  /\ h1 \notin {h2, h3, h4, h5, h6, h7}
  /\ h2 \notin {h3, h4, h5, h6, h7}
  /\ h3 \notin {h4, h5, h6, h7}
  /\ h4 \notin {h5, h6, h7}
  /\ h5 \notin {h6, h7}
  /\ h6 # h7

\* The way up from each node, and the links, which are the ways up.
LEMMA UpIs ==
  /\ Up[h(1)] = s(1) /\ Up[h(2)] = s(1) /\ Up[h(3)] = s(2) /\ Up[h(4)] = s(3)
  /\ Up[h(5)] = s(3) /\ Up[h(6)] = s(3) /\ Up[h(7)] = s(4)
  /\ Up[s(1)] = s(5) /\ Up[s(2)] = s(5) /\ Up[s(3)] = s(6) /\ Up[s(4)] = s(6)
  /\ Up[s(5)] = s(7) /\ Up[s(6)] = s(6) /\ Up[s(7)] = s(6)
  /\ Differ(s(1), s(2), s(3), s(4), s(5), s(6), s(7), h(1), h(2), h(3), h(4), h(5), h(6), h(7))
<1>1. 1 \in 1..7 /\ 2 \in 1..7 /\ 3 \in 1..7 /\ 4 \in 1..7 /\ 5 \in 1..7 /\ 6 \in 1..7 /\ 7 \in 1..7
  OBVIOUS
<1>2. /\ s(1) \notin {s(2), s(3), s(4), s(5), s(6), s(7), h(1), h(2), h(3), h(4), h(5), h(6), h(7)}
      /\ s(2) \notin {s(3), s(4), s(5), s(6), s(7), h(1), h(2), h(3), h(4), h(5), h(6), h(7)}
      /\ s(3) \notin {s(4), s(5), s(6), s(7), h(1), h(2), h(3), h(4), h(5), h(6), h(7)}
      /\ s(4) \notin {s(5), s(6), s(7), h(1), h(2), h(3), h(4), h(5), h(6), h(7)}
  BY <1>1, NodesDiffer
<1>3. /\ s(5) \notin {s(6), s(7), h(1), h(2), h(3), h(4), h(5), h(6), h(7)}
      /\ s(6) \notin {s(7), h(1), h(2), h(3), h(4), h(5), h(6), h(7)}
      /\ s(7) \notin {h(1), h(2), h(3), h(4), h(5), h(6), h(7)}
  BY <1>1, NodesDiffer
<1>4. /\ h(1) \notin {h(2), h(3), h(4), h(5), h(6), h(7)}
      /\ h(2) \notin {h(3), h(4), h(5), h(6), h(7)}
      /\ h(3) \notin {h(4), h(5), h(6), h(7)}
      /\ h(4) \notin {h(5), h(6), h(7)}
      /\ h(5) \notin {h(6), h(7)}
      /\ h(6) # h(7)
  BY <1>1, NodesDiffer
<1>5. Differ(s(1), s(2), s(3), s(4), s(5), s(6), s(7), h(1), h(2), h(3), h(4), h(5), h(6), h(7))
  BY <1>2, <1>3, <1>4 DEF Differ
<1>6. QED  BY <1>5, NodesAre DEF Up, Differ

\* Links are the ways up from all nodes but s6.
LEMMA LinksAreUp ==
  Links = {{x, Up[x]} : x \in Node \ {s(6)}}
  BY UpIs, NodesAre DEF Links, Differ, Node

\* The way up from a host comes to no node twice.
LEMMA AboveIs ==
  ASSUME NEW r \in Hosts
  PROVE  /\ r \in Above(r) /\ s(6) \notin Above(r) /\ Above(r) \subseteq Node
         /\ \A x \in Above(r) : Up[x] \in Above(r) \cup {s(6)} /\ Up[x] # r
         /\ \A x, y \in Above(r) : Up[x] = Up[y] => x = y
<1>1. Above(h(1)) = {h(1), s(1), s(5), s(7)} /\ Above(h(2)) = {h(2), s(1), s(5), s(7)}
      /\ Above(h(3)) = {h(3), s(2), s(5), s(7)} /\ Above(h(7)) = {h(7), s(4)}
  BY UpIs DEF Above, Differ
<1>2. Above(h(4)) = {h(4), s(3)} /\ Above(h(5)) = {h(5), s(3)} /\ Above(h(6)) = {h(6), s(3)}
  BY UpIs DEF Above, Differ
<1>3. CASE r = h(1)
  BY <1>1, <1>3, UpIs, NodesAre DEF Differ, Node
<1>4. CASE r = h(2)
  BY <1>1, <1>4, UpIs, NodesAre DEF Differ, Node
<1>5. CASE r = h(3)
  BY <1>1, <1>5, UpIs, NodesAre DEF Differ, Node
<1>6. CASE r \in {h(4), h(5), h(6)}
  BY <1>2, <1>6, UpIs, NodesAre DEF Differ, Node
<1>7. CASE r = h(7)
  BY <1>1, <1>7, UpIs, NodesAre DEF Differ, Node
<1>8. QED  BY <1>3, <1>4, <1>5, <1>6, <1>7, NodesAre

\* Who hangs together with whom.
LEMMA NeighboursAre ==
  ASSUME NEW x \in Node, NEW y \in Neighbours(x)
  PROVE  /\ y \in Node
         /\ (x # s(6) /\ y = Up[x]) \/ (y # s(6) /\ x = Up[y])
<1>1. y \in Node /\ {x, y} \in Links
  BY DEF Neighbours, Node
<1>2. PICK z \in Node \ {s(6)} : {x, y} = {z, Up[z]}
  BY <1>1, LinksAreUp
<1>3. (x = z /\ y = Up[z]) \/ (y = z /\ x = Up[z])
  BY <1>2
<1>4. QED  BY <1>1, <1>2, <1>3

\* A host hangs on one switch.
LEMMA HostsHangOn ==
  ASSUME NEW r \in Hosts
  PROVE  r \in Node /\ r \notin Switches /\ r # s(6)
  BY UpIs, NodesAre DEF Differ, Node

\* A flood goes over every link in one direction, comes to every node from one
\* other, and never comes back to where it starts.
LEMMA FloodIs ==
  ASSUME NEW r \in Hosts
  PROVE  /\ \A x, y : <<x, y>> \in Flood(r) => x \in Node /\ y \in Node
         /\ \A x \in Node : \A y \in Neighbours(x) : <<x, y>> \in Flood(r) \/ <<y, x>> \in Flood(r)
         /\ \A x, y, z : <<x, z>> \in Flood(r) /\ <<y, z>> \in Flood(r) => x = y
         /\ \A x : <<x, r>> \notin Flood(r)
<1>1. \A x, y : <<x, y>> \in Flood(r) <=>
        \/ x \in Above(r) /\ y = Up[x]
        \/ y \in Node /\ y \notin Above(r) /\ y # s(6) /\ x = Up[y]
  BY DEF Flood, Node
<1>2. /\ r \in Above(r) /\ s(6) \notin Above(r) /\ Above(r) \subseteq Node
      /\ \A x \in Above(r) : Up[x] \in Above(r) \cup {s(6)} /\ Up[x] # r
      /\ \A x, y \in Above(r) : Up[x] = Up[y] => x = y
  BY AboveIs
<1>3. \A x \in Node : Up[x] \in Node
  BY UpIs, NodesAre DEF Node
<1>4. \A x, y : <<x, y>> \in Flood(r) => x \in Node /\ y \in Node
  BY <1>1, <1>2, <1>3
<1>5. ASSUME NEW x \in Node, NEW y \in Neighbours(x)
      PROVE  <<x, y>> \in Flood(r) \/ <<y, x>> \in Flood(r)
  BY <1>1, <1>5, NeighboursAre
<1>6. \A x, y, z : <<x, z>> \in Flood(r) /\ <<y, z>> \in Flood(r) => x = y
  BY <1>1, <1>2
<1>7. \A x : <<x, r>> \notin Flood(r)
  BY <1>1, <1>2
<1>8. QED  BY <1>4, <1>5, <1>6, <1>7

-----------------------------------------------------------------------------
(***************************************************************************)
(* One question and its answer.                                            *)
(***************************************************************************)

\* The table of the programs and that of the network agree.
LEMMA TablesAgree ==
  /\ DOMAIN hosts = Hosts
  /\ \A x \in Hosts : ipOf[x] = hosts[x] /\ x # Null
  /\ \A x, y \in Hosts : hosts[x] = hosts[y] => x = y
<1>1. DOMAIN hosts = Hosts
  BY DEF hosts, Hosts, h
<1>2. \A x \in Hosts : ipOf[x] = hosts[x] /\ x # Null
  BY <1>1, NamesTypes DEF hosts, ipOf
<1>3. ASSUME NEW x \in Hosts, NEW y \in Hosts, hosts[x] = hosts[y]
      PROVE  x = y
  <2>1. PICK k \in 1..7 : x = <<H, Zero + k>> /\ hosts[x] = <<10, 0, 0, k>>
    BY <1>1, HostsAre
  <2>2. PICK l \in 1..7 : y = <<H, Zero + l>> /\ hosts[y] = <<10, 0, 0, l>>
    BY <1>1, HostsAre
  <2>3. <<10, 0, 0, k>> = <<10, 0, 0, l>>
    BY <1>3, <2>1, <2>2
  <2>4. k = l
    BY <2>3
  <2>5. QED  BY <2>1, <2>2, <2>4
<1>4. QED  BY <1>1, <1>2, <1>3

\* A server asks for the address of the name that was typed.
LEMMA QuestionIs ==
  ASSUME NamesInv, stage = "dialled"
  PROVE  /\ own.server \in Hosts /\ name \in Hosts
         /\ Asked = [host |-> Null, asker |-> own.server, ip |-> hosts[name]]
         /\ Answered = [host |-> name, asker |-> own.server, ip |-> hosts[name]]
         /\ Question(Asked) /\ ~Question(Answered) /\ Asked # Answered
         /\ \A x \in Hosts : ipOf[x] = Asked.ip => x = name
<1>1. own.server \in Hosts /\ name \in Hosts /\ sought = hosts[name]
  BY TablesAgree DEF NamesInv
<1>2. parse_ip_addr(ip) = hosts[name]
  BY <1>1, SoughtIsAddress
<1>3. Asked = [host |-> Null, asker |-> own.server, ip |-> hosts[name]]
  BY <1>2 DEF Asked, WhoHas
<1>4. Answered = [host |-> name, asker |-> own.server, ip |-> hosts[name]]
  BY <1>3 DEF Answered, IsAt
<1>5. name # Null
  BY <1>1, TablesAgree
<1>6. Question(Asked) /\ ~Question(Answered)
  BY <1>3, <1>4, <1>5 DEF Question
<1>7. \A x \in Hosts : ipOf[x] = Asked.ip => x = name
  BY <1>1, <1>3, TablesAgree
<1>8. QED  BY <1>1, <1>3, <1>4, <1>6, <1>7

\* What does not depend on the network.
LEMMA SameQuestion ==
  ASSUME UNCHANGED vars
  PROVE  /\ Asked' = Asked /\ Answered' = Answered /\ own' = own /\ stage' = stage
         /\ NamesInv => NamesInv'
<1>1. Asked' = Asked
  BY DEF vars, Asked, WhoHas
<1>2. Answered' = Answered
  BY <1>1 DEF vars, Answered, IsAt
<1>3. NamesInv => NamesInv'
  BY DEF vars, NamesInv
<1>4. QED  BY <1>1, <1>2, <1>3 DEF vars

\* The invariant, for a question, an answer and the host that asks.
NetworkInv(asked, answered, server) ==
  /\ DOMAIN learned = Switches
  /\ \A x \in Switches : \A a \in DOMAIN learned[x] : learned[x][a] \in Node
  /\ flight \subseteq [msg : {asked, answered}, from : Node, to : Node]
  /\ answers \subseteq {answered}
  /\ \A f \in flight : f.msg = asked =>
       /\ <<f.from, f.to>> \in Flood(server) /\ <<f.to, asked>> \notin handled
       /\ f.from = server \/ <<f.from, asked>> \in handled
  /\ handled # {} => \A link \in Flood(server) : <<link[2], asked>> \in handled =>
       link[1] = server \/ <<link[1], asked>> \in handled

\* The invariant in these words, before and after a step.
LEMMA TopologyInvIs ==
  TopologyInv <=>
    /\ NamesInv
    /\ ~dialled => flight = {} /\ handled = {} /\ answers = {}
    /\ dialled => stage = "dialled"
    /\ NetworkInv(Asked, Answered, own.server)
  BY DEF TopologyInv, NetworkInv, Node

\* What the invariant says of the next state.
LEMMA TopologyInvNext ==
  TopologyInv' <=>
    /\ NamesInv'
    /\ ~dialled' => flight' = {} /\ handled' = {} /\ answers' = {}
    /\ dialled' => stage' = "dialled"
    /\ NetworkInv(Asked, Answered, own.server)'
  BY DEF TopologyInv, NetworkInv, Node

\* The server's question sets out over every link of the server.
LEMMA DialStep == TopologyInv /\ Dial => TopologyInv'
<1> SUFFICES ASSUME TopologyInv, Dial
             PROVE  TopologyInv'
  OBVIOUS
<1> DEFINE r == own.server
<1>1. NamesInv /\ stage = "dialled" /\ ~dialled /\ flight = {} /\ handled = {} /\ answers = {}
      /\ NetworkInv(Asked, Answered, r)
  BY TopologyInvIs DEF Dial
<1>2. r \in Hosts
  BY <1>1, QuestionIs
<1>3. UNCHANGED vars /\ learned' = learned /\ handled' = {} /\ answers' = {} /\ dialled' = TRUE
      /\ flight' = Frames(Asked, r, Neighbours(r))
  BY <1>1 DEF Dial, Asked
<1>4. ASSUME NEW f \in flight'
      PROVE  /\ f \in [msg : {Asked, Answered}, from : Node, to : Node]
             /\ <<f.from, f.to>> \in Flood(r) /\ f.from = r
  <2>1. PICK y \in Neighbours(r) : f = [msg |-> Asked, from |-> r, to |-> y]
    BY <1>3 DEF Frames
  <2>2. r \in Node /\ y \in Node
    BY <1>2, HostsHangOn, NeighboursAre
  <2>3. <<r, y>> \in Flood(r)
    BY <1>2, <2>2, FloodIs
  <2>4. QED  BY <2>1, <2>2, <2>3
<1>5. NetworkInv(Asked, Answered, r)'
  <2>1. Asked' = Asked /\ Answered' = Answered /\ r' = r
    BY <1>3, SameQuestion
  <2> HIDE DEF r
  <2>2. QED  BY <1>1, <1>3, <1>4, <2>1 DEF NetworkInv
<1>6. NamesInv' /\ stage' = "dialled"
  BY <1>1, <1>3, SameQuestion
<1>7. QED  BY <1>3, <1>5, <1>6, TopologyInvNext

\* What a frame is.
LEMMA FrameIs ==
  ASSUME TopologyInv, NEW f \in flight
  PROVE  /\ dialled /\ NamesInv /\ stage = "dialled"
         /\ NetworkInv(Asked, Answered, own.server)
         /\ f.msg \in {Asked, Answered} /\ f.from \in Node /\ f.to \in Node
         /\ f = [msg |-> f.msg, from |-> f.from, to |-> f.to]
<1>1. dialled
  BY TopologyInvIs
<1>2. NamesInv /\ stage = "dialled" /\ NetworkInv(Asked, Answered, own.server)
  BY <1>1, TopologyInvIs
<1>3. f \in [msg : {Asked, Answered}, from : Node, to : Node]
  BY <1>2 DEF NetworkInv
<1>4. QED  BY <1>1, <1>2, <1>3

\* Where a switch sends a frame, and what it learns.
LEMMA ForwardIs ==
  ASSUME TopologyInv, NEW f \in flight, Forward(f)
  PROVE  /\ \E out \in SUBSET Node :
              /\ flight' = (flight \ {f}) \cup Frames(f.msg, f.to, out)
              /\ f.msg = Asked => out = Neighbours(f.to) \ {f.from}
         /\ DOMAIN learned' = Switches
         /\ \A x \in Switches : \A a \in DOMAIN learned'[x] : learned'[x][a] \in Node
         /\ handled' = handled \cup {<<f.to, f.msg>>}
         /\ UNCHANGED <<vars, dialled, answers>>
         /\ f.to \in Switches
<1> DEFINE ports == learned[f.to]
           others == Neighbours(f.to) \ {f.from}
           out == IF ~Question(f.msg) /\ f.msg.asker \in DOMAIN ports
                  THEN {ports[f.msg.asker]} ELSE others
           seen == [a \in DOMAIN ports \cup {Sender(f.msg)} |->
                      IF a = Sender(f.msg) THEN f.from ELSE ports[a]]
<1>1. /\ f.to \in Switches
      /\ flight' = (flight \ {f}) \cup Frames(f.msg, f.to, out)
      /\ learned' = [learned EXCEPT ![f.to] = seen]
      /\ handled' = handled \cup {<<f.to, f.msg>>}
      /\ UNCHANGED <<vars, dialled, answers>>
  BY DEF Forward
<1>2. /\ NamesInv /\ stage = "dialled" /\ NetworkInv(Asked, Answered, own.server)
      /\ f.from \in Node /\ f.to \in Node
  BY FrameIs
<1>3. /\ DOMAIN learned = Switches
      /\ \A x \in Switches : \A a \in DOMAIN learned[x] : learned[x][a] \in Node
  BY <1>2 DEF NetworkInv
<1>4. \A a \in DOMAIN ports : ports[a] \in Node
  BY <1>1, <1>3
<1>5. \A a \in DOMAIN seen : seen[a] \in Node
  BY <1>2, <1>4
<1>6. out \in SUBSET Node
  <2>1. others \subseteq Node
    BY <1>2, NeighboursAre
  <2>2. QED  BY <1>4, <2>1
<1>7. f.msg = Asked => out = others
  BY <1>2, QuestionIs
<1> HIDE DEF seen, out
<1>8. DOMAIN learned' = Switches
  BY <1>1, <1>3
<1>9. ASSUME NEW x \in Switches, NEW a \in DOMAIN learned'[x]
      PROVE  learned'[x][a] \in Node
  <2>1. learned'[x] = IF x = f.to THEN seen ELSE learned[x]
    BY <1>1, <1>3
  <2>2. QED  BY <1>3, <1>5, <1>9, <2>1
<1>10. QED  BY <1>1, <1>6, <1>7, <1>8, <1>9

\* A switch floods the question to where it has not come from.
LEMMA ForwardQuestion ==
  ASSUME TopologyInv, NEW f \in flight, Forward(f), f.msg = Asked
  PROVE  NetworkInv(Asked, Answered, own.server)'
<1> DEFINE r == own.server
           q == Asked
           x == f.to
<1>1. NamesInv /\ stage = "dialled" /\ f.from \in Node /\ x \in Node
      /\ f = [msg |-> f.msg, from |-> f.from, to |-> f.to]
      /\ NetworkInv(q, Answered, r)
  BY FrameIs
<1>2. r \in Hosts /\ r # x /\ q # Answered
  BY <1>1, QuestionIs, HostsHangOn, ForwardIs
<1>3. PICK out \in SUBSET Node :
        flight' = (flight \ {f}) \cup Frames(q, x, out) /\ out = Neighbours(x) \ {f.from}
  BY ForwardIs
<1>4. /\ DOMAIN learned' = Switches
      /\ \A y \in Switches : \A a \in DOMAIN learned'[y] : learned'[y][a] \in Node
      /\ handled' = handled \cup {<<x, q>>} /\ answers' = answers
  BY ForwardIs
<1>5. q' = q /\ Answered' = Answered /\ r' = r
  BY ForwardIs, SameQuestion
<1>6. /\ flight \subseteq [msg : {q, Answered}, from : Node, to : Node]
      /\ answers \subseteq {Answered}
      /\ \A g \in flight : g.msg = q =>
           /\ <<g.from, g.to>> \in Flood(r) /\ <<g.to, q>> \notin handled
           /\ g.from = r \/ <<g.from, q>> \in handled
      /\ handled # {} => \A link \in Flood(r) : <<link[2], q>> \in handled =>
           link[1] = r \/ <<link[1], q>> \in handled
  BY <1>1 DEF NetworkInv
<1>7. /\ \A y, z : <<y, z>> \in Flood(r) => y \in Node /\ z \in Node
      /\ \A y \in Node : \A z \in Neighbours(y) : <<y, z>> \in Flood(r) \/ <<z, y>> \in Flood(r)
      /\ \A y, z, w : <<y, w>> \in Flood(r) /\ <<z, w>> \in Flood(r) => y = z
  BY <1>2, FloodIs
<1> HIDE DEF r, q
<1>8. <<f.from, x>> \in Flood(r) /\ <<x, q>> \notin handled
      /\ (f.from = r \/ <<f.from, q>> \in handled)
  BY <1>6 DEF q
<1> HIDE DEF x
<1>9. ASSUME NEW g \in flight'
      PROVE  g \in [msg : {q, Answered}, from : Node, to : Node]
  <2>1. CASE g \in flight
    BY <1>6, <2>1
  <2>2. CASE g \in Frames(q, x, out)
    BY <1>1, <1>3, <2>2 DEF Frames
  <2>3. QED  BY <1>3, <2>1, <2>2
<1>10. ASSUME NEW g \in flight', g.msg = q
       PROVE  /\ <<g.from, g.to>> \in Flood(r) /\ <<g.to, q>> \notin handled'
              /\ g.from = r \/ <<g.from, q>> \in handled'
  <2>1. CASE g \in flight \ {f}
    <3>1. <<g.from, g.to>> \in Flood(r) /\ <<g.to, q>> \notin handled
          /\ (g.from = r \/ <<g.from, q>> \in handled)
      BY <1>6, <1>10, <2>1
    <3>2. g.to # x
      <4>1. SUFFICES ASSUME g.to = x PROVE FALSE
        OBVIOUS
      <4>2. g.from = f.from
        BY <1>7, <1>8, <3>1, <4>1
      <4>3. g = [msg |-> g.msg, from |-> g.from, to |-> g.to]
        BY <1>6, <2>1
      <4>4. g = f
        BY <1>1, <1>10, <4>1, <4>2, <4>3 DEF x, q
      <4>5. QED  BY <2>1, <4>4
    <3>3. QED  BY <1>4, <3>1, <3>2
  <2>2. CASE g \in Frames(q, x, out)
    <3>1. PICK y \in out : g = [msg |-> q, from |-> x, to |-> y]
      BY <2>2 DEF Frames
    <3>2. g.from = x /\ g.to = y /\ y \in Neighbours(x) /\ y # f.from
      BY <1>3, <3>1
    <3>3. <<x, y>> \in Flood(r)
      BY <1>1, <1>7, <1>8, <3>2 DEF x
    <3>4. y # x
      BY <1>7, <1>8, <3>2, <3>3
    <3>5. <<y, q>> \notin handled
      BY <1>2, <1>6, <1>8, <3>3 DEF x
    <3>6. <<y, q>> \notin handled' /\ <<x, q>> \in handled'
      BY <1>4, <3>4, <3>5
    <3>7. QED  BY <3>2, <3>3, <3>6
  <2>3. QED  BY <1>3, <2>1, <2>2
<1>11. ASSUME NEW link \in Flood(r), <<link[2], q>> \in handled'
       PROVE  link[1] = r \/ <<link[1], q>> \in handled'
  <2>1. link = <<link[1], link[2]>>
    BY DEF Flood
  <2>2. CASE <<link[2], q>> \in handled
    BY <1>4, <1>6, <2>2
  <2>3. CASE link[2] = x
    <3>1. link[1] = f.from
      BY <1>7, <1>8, <2>1, <2>3
    <3>2. QED  BY <1>4, <1>8, <3>1
  <2>4. QED  BY <1>4, <1>11, <2>2, <2>3
<1>12. flight' \subseteq [msg : {q, Answered}, from : Node, to : Node] /\ answers' \subseteq {Answered}
  BY <1>4, <1>6, <1>9
<1>13. NetworkInv(q, Answered, r)'
  BY <1>4, <1>5, <1>10, <1>11, <1>12 DEF NetworkInv
<1>14. QED  BY <1>13 DEF q, r

\* Passing the answer on leaves the question where it is.
LEMMA ForwardAnswer ==
  ASSUME TopologyInv, NEW f \in flight, Forward(f), f.msg = Answered
  PROVE  NetworkInv(Asked, Answered, own.server)'
<1> DEFINE r == own.server
           q == Asked
           x == f.to
<1>1. NamesInv /\ stage = "dialled" /\ x \in Node /\ NetworkInv(q, Answered, r) /\ q # Answered
  BY FrameIs, QuestionIs
<1>2. PICK out \in SUBSET Node : flight' = (flight \ {f}) \cup Frames(Answered, x, out)
  BY ForwardIs
<1>3. /\ DOMAIN learned' = Switches
      /\ \A y \in Switches : \A a \in DOMAIN learned'[y] : learned'[y][a] \in Node
      /\ handled' = handled \cup {<<x, Answered>>} /\ answers' = answers
  BY ForwardIs
<1>4. q' = q /\ Answered' = Answered /\ r' = r
  BY ForwardIs, SameQuestion
<1>5. \A y : <<y, q>> \in handled' <=> <<y, q>> \in handled
  BY <1>1, <1>3
<1> HIDE DEF r, q, x
<1>6. ASSUME NEW g \in flight'
      PROVE  \/ g \in flight
             \/ g \in [msg : {q, Answered}, from : Node, to : Node] /\ g.msg = Answered
  BY <1>1, <1>2 DEF Frames
<1>7. flight' \subseteq [msg : {q, Answered}, from : Node, to : Node]
  BY <1>1, <1>6 DEF NetworkInv
<1>8. \A g \in flight' : g.msg = q =>
        /\ <<g.from, g.to>> \in Flood(r) /\ <<g.to, q>> \notin handled'
        /\ g.from = r \/ <<g.from, q>> \in handled'
  BY <1>1, <1>5, <1>6 DEF NetworkInv
<1>9. \A link \in Flood(r) : <<link[2], q>> \in handled' =>
        link[1] = r \/ <<link[1], q>> \in handled'
  BY <1>1, <1>5 DEF NetworkInv
<1>10. answers' \subseteq {Answered}
  BY <1>1, <1>3 DEF NetworkInv
<1>11. NetworkInv(q, Answered, r)'
  BY <1>3, <1>4, <1>7, <1>8, <1>9, <1>10 DEF NetworkInv
<1>12. QED  BY <1>11 DEF q, r

\* A switch passes a frame on.
LEMMA ForwardStep ==
  ASSUME TopologyInv, NEW f \in flight, Forward(f)
  PROVE  TopologyInv'
<1>1. NetworkInv(Asked, Answered, own.server)'
  BY FrameIs, ForwardQuestion, ForwardAnswer
<1>2. dialled' /\ NamesInv' /\ stage' = "dialled"
  BY FrameIs, ForwardIs, SameQuestion
<1>3. QED  BY <1>1, <1>2, TopologyInvNext

\* The host with the address answers, and the server's host hears it.
LEMMA ReceiveStep ==
  ASSUME TopologyInv, NEW f \in flight, Receive(f)
  PROVE  TopologyInv'
<1> DEFINE r == own.server
           q == Asked
           x == f.to
           asked == Question(f.msg) /\ ipOf[x] = f.msg.ip
           more == IF asked THEN Frames(IsAt(x, f.msg), x, Neighbours(x)) ELSE {}
<1>1. /\ NamesInv /\ stage = "dialled" /\ dialled /\ x \in Node /\ NetworkInv(q, Answered, r)
      /\ q # Answered /\ Question(q) /\ ~Question(Answered)
      /\ (\A y \in Hosts : ipOf[y] = q.ip => y = name)
      /\ f.msg \in {q, Answered}
  BY FrameIs, QuestionIs
<1>2. /\ x \in Hosts
      /\ flight' = (flight \ {f}) \cup more
      /\ answers' = IF ~Question(f.msg) /\ f.msg.asker = x THEN answers \cup {f.msg} ELSE answers
      /\ UNCHANGED <<vars, learned, handled, dialled>>
  BY DEF Receive
<1>3. q' = q /\ Answered' = Answered /\ r' = r /\ NamesInv' /\ stage' = "dialled" /\ dialled'
  BY <1>1, <1>2, SameQuestion
<1>4. ASSUME NEW g \in more
      PROVE  g \in [msg : {q, Answered}, from : Node, to : Node] /\ g.msg = Answered
  <2>1. asked
    BY <1>4
  <2>2. f.msg = q
    BY <1>1, <2>1
  <2>3. x = name
    BY <1>1, <1>2, <2>1, <2>2
  <2>4. IsAt(x, f.msg) = Answered
    BY <2>2, <2>3 DEF Answered
  <2>5. PICK y \in Neighbours(x) : g = [msg |-> Answered, from |-> x, to |-> y]
    BY <2>1, <2>4 DEF Frames
  <2>6. QED  BY <1>1, <2>5, NeighboursAre
<1>5. answers' \subseteq {Answered}
  BY <1>1, <1>2 DEF NetworkInv
<1> HIDE DEF r, q, more
<1>6. \A g \in flight' : \/ g \in flight
                         \/ g \in [msg : {q, Answered}, from : Node, to : Node] /\ g.msg = Answered
  BY <1>2, <1>4
<1>7. flight' \subseteq [msg : {q, Answered}, from : Node, to : Node]
  BY <1>1, <1>6 DEF NetworkInv
<1>8. \A g \in flight' : g.msg = q =>
        /\ <<g.from, g.to>> \in Flood(r) /\ <<g.to, q>> \notin handled
        /\ g.from = r \/ <<g.from, q>> \in handled
  BY <1>1, <1>6 DEF NetworkInv
<1>9. NetworkInv(q, Answered, r)'
  BY <1>1, <1>2, <1>3, <1>5, <1>7, <1>8 DEF NetworkInv
<1>10. QED  BY <1>3, <1>9, TopologyInvNext DEF q, r

\* The programs are done when the server dials.
LEMMA ProgramStep == TopologyInv /\ Program => TopologyInv'
<1> SUFFICES ASSUME TopologyInv, Program
             PROVE  TopologyInv'
  OBVIOUS
<1>1. NamesInv /\ UNCHANGED network
  BY TopologyInvIs DEF Program
<1>2. UNCHANGED <<flight, learned, handled, dialled, answers>>
  BY <1>1 DEF network
<1>3. NamesInv'
  BY <1>1, NamesNext DEF Program
<1>4. CASE dialled
  <2>1. UNCHANGED vars
    <3>1. stage = "dialled"
      BY <1>4, TopologyInvIs
    <3>2. QED  BY <3>1 DEF Program, Next, ReadName, LookUpNames, SendAddress, FormatAddress
  <2>2. Asked' = Asked /\ Answered' = Answered /\ own' = own /\ stage' = stage
    BY <2>1, SameQuestion
  <2>3. NetworkInv(Asked, Answered, own.server)
    BY TopologyInvIs
  <2>4. NetworkInv(Asked, Answered, own.server)'
    BY <1>2, <2>2, <2>3 DEF NetworkInv
  <2>5. dialled' /\ stage' = "dialled"
    BY <1>2, <1>4, <2>2, TopologyInvIs
  <2>6. QED  BY <1>3, <2>4, <2>5, TopologyInvNext
<1>5. CASE ~dialled
  <2>1. flight = {} /\ handled = {} /\ answers = {} /\ NetworkInv(Asked, Answered, own.server)
    BY <1>5, TopologyInvIs
  <2>2. ~dialled' /\ flight' = {} /\ handled' = {} /\ answers' = {} /\ learned' = learned
    BY <1>2, <1>5, <2>1
  <2>3. NetworkInv(Asked, Answered, own.server)'
    BY <2>1, <2>2 DEF NetworkInv
  <2>4. QED  BY <1>3, <2>2, <2>3, TopologyInvNext
<1>6. QED  BY <1>4, <1>5

\* The invariant is inductive.
LEMMA TopologyNextKeeps == TopologyInv /\ [TopologyNext]_all => TopologyInv'
<1>1. TopologyInv /\ UNCHANGED all => TopologyInv'
  <2> SUFFICES ASSUME TopologyInv, UNCHANGED all
               PROVE  TopologyInv'
    OBVIOUS
  <2>1. UNCHANGED vars /\ UNCHANGED <<flight, learned, handled, dialled, answers>>
    BY DEF all, network
  <2>2. Asked' = Asked /\ Answered' = Answered /\ own' = own /\ stage' = stage
    BY <2>1, SameQuestion
  <2>3. NetworkInv(Asked, Answered, own.server)'
    BY <2>1, <2>2, TopologyInvIs DEF NetworkInv
  <2>4. QED  BY <2>1, <2>2, <2>3, SameQuestion, TopologyInvIs, TopologyInvNext
<1>2. TopologyInv /\ (\E f \in flight : Forward(f) \/ Receive(f)) => TopologyInv'
  BY ForwardStep, ReceiveStep
<1>3. Quiet => UNCHANGED all
  BY DEF Quiet
<1>4. QED  BY <1>1, <1>2, <1>3, ProgramStep, DialStep DEF TopologyNext

\* It holds initially.
LEMMA TopologyStarts == TopologyInit => TopologyInv
<1> SUFFICES ASSUME TopologyInit
             PROVE  TopologyInv
  OBVIOUS
<1>1. Init /\ flight = {} /\ handled = {} /\ dialled = FALSE /\ answers = {}
      /\ learned = [x \in Switches |-> <<>>]
  BY DEF TopologyInit
<1>2. NamesInv
  BY <1>1, NamesInit
<1>3. \A x \in Switches : DOMAIN learned[x] = {}
  BY <1>1
<1>4. NetworkInv(Asked, Answered, own.server)
  BY <1>1, <1>3 DEF NetworkInv
<1>5. QED  BY <1>1, <1>2, <1>4, TopologyInvIs

(***************************************************************************)
(* Theorem: whatever is typed and however the frames are delivered, only   *)
(* the server's question and its answer are on the network, and the        *)
(* question goes over each link in one direction.                          *)
(***************************************************************************)
THEOREM TopologyCorrect == TopologySpec => []TopologyInv
<1>1. QED  BY TopologyStarts, TopologyNextKeeps, PTL DEF TopologySpec

(***************************************************************************)
(* Theorem: a server dials only the host whose name is the line that was   *)
(* typed, up to its newline or to the first byte 0 in it, for lines of any *)
(* length.                                                                 *)
(***************************************************************************)
THEOREM TypedHostDialled == TopologySpec => []DialsTypedHost
<1>1. TopologyInv => DialsTypedHost
  BY TopologyInvIs, NamesImplyTyped
<1>2. QED  BY <1>1, TopologyCorrect, PTL

(***************************************************************************)
(* Theorem: every address of four octets survives the way through its text *)
(* and the text fits the 16 bytes that the code allocates.                 *)
(***************************************************************************)
THEOREM AddressesSurvive == TopologySpec => []AddressesSurviveText
<1>1. TopologyInv => AddressesSurviveText
  BY TopologyInvIs, NamesImplySurvival
<1>2. QED  BY <1>1, TopologyCorrect, PTL

(***************************************************************************)
(* Theorem: no question comes twice to a switch of simple_vpn.py.          *)
(***************************************************************************)
THEOREM FloodsDoEnd == TopologySpec => []FloodsEnd
<1>1. TopologyInv => FloodsEnd
  <2> SUFFICES ASSUME TopologyInv, NEW f \in flight, Question(f.msg)
               PROVE  <<f.to, f.msg>> \notin handled
    BY DEF FloodsEnd
  <2>1. f.msg = Asked /\ NetworkInv(Asked, Answered, own.server)
    BY FrameIs, QuestionIs
  <2>2. QED  BY <2>1 DEF NetworkInv
<1>2. QED  BY <1>1, TopologyCorrect, PTL

(***************************************************************************)
(* Theorem: only the host answers whose name was typed, and only to the    *)
(* server that asked.                                                      *)
(***************************************************************************)
THEOREM OnlyNamedHostAnswers == TopologySpec => []NamedHostAnswers
<1>1. TopologyInv => NamedHostAnswers
  <2> SUFFICES ASSUME TopologyInv, NEW a \in answers
               PROVE  a.asker = own.server /\ a.host = name
    BY DEF NamedHostAnswers
  <2>1. NamesInv /\ stage = "dialled"
    BY TopologyInvIs
  <2>2. a = Answered
    BY TopologyInvIs DEF NetworkInv
  <2>3. Answered = [host |-> name, asker |-> own.server, ip |-> hosts[name]]
    BY <2>1, QuestionIs
  <2>4. QED  BY <2>2, <2>3
<1>2. QED  BY <1>1, TopologyCorrect, PTL
=============================================================================
