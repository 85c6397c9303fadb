--------------------------- MODULE ChecksumProofs ---------------------------
(***************************************************************************)
(* What the two checksums of module Checksums compute, for every memory    *)
(* and every length.  Their sums are recursive functions: induction over a *)
(* buffer is on the first offset at which a claim would fail.              *)
(***************************************************************************)
EXTENDS Checksums, WellFoundedInduction, TLAPS

\* Numbers have a smallest one.
LEMMA SmallestNumber ==
  ASSUME NEW I \in SUBSET Nat, I # {}
  PROVE  \E i \in I : \A j \in I : i <= j
<1> DEFINE less == OpToRel(<, Nat)
<1>1. PICK i \in I : \A j \in I : ~(<<j, i>> \in less)
  <2>1. IsWellFoundedOn(less, Nat)
    BY NatLessThanWellFounded
  <2> HIDE DEF less
  <2>2. QED  BY <2>1, WFMin
<1>2. \A j \in I : j < i => <<j, i>> \in less
  BY DEF OpToRel
<1> HIDE DEF less
<1>3. ASSUME NEW j \in I
      PROVE  i <= j
  <2>1. i \in Nat /\ j \in Nat /\ ~(j < i)
    BY <1>1, <1>2
  <2>2. QED  BY <2>1
<1>4. QED  BY <1>3

\* What holds of 0, and of every number up to len after the one before it,
\* holds up to len: here of the members of a set.
LEMMA UpTo ==
  ASSUME NEW len \in Nat, NEW Holds, 0 \in Holds,
         \A i \in 1..len : (i - 1) \in Holds => i \in Holds
  PROVE  \A i \in 0..len : i \in Holds
<1> DEFINE Fails == {i \in 0..len : i \notin Holds}
<1>1. SUFFICES ASSUME Fails # {} PROVE FALSE
  OBVIOUS
<1>2. PICK i \in Fails : \A j \in Fails : i <= j
  <2>1. Fails \in SUBSET Nat
    OBVIOUS
  <2> HIDE DEF Fails
  <2>2. QED  BY <1>1, <2>1, SmallestNumber
<1>3. i \in 1..len /\ i - 1 \notin Fails
  BY <1>2
<1>4. QED  BY <1>2, <1>3

-----------------------------------------------------------------------------
(***************************************************************************)
(* The sum of len bytes, those at odd places counted odd times and those   *)
(* at even places even times: what both checksums add up.                  *)
(***************************************************************************)
IsSum(sum, m, at, len, odd, even) ==
  sum = [i \in 0..len |->
           IF i = 0 THEN 0
           ELSE sum[i - 1] + m[at + i - 1] * (IF i % 2 = 1 THEN odd ELSE even)]

\* A recursive definition of sums defines a function.
LEMMA SumsExist ==
  ASSUME NEW term, NEW len \in Nat
  PROVE  \E f : f = [i \in 0..len |-> IF i = 0 THEN 0 ELSE f[i - 1] + term[i]]
<1> DEFINE Step(f, n) == [i \in 0..n |-> IF i = 0 THEN 0 ELSE f[i - 1] + term[i]]
           Holds == {n \in Nat : \E f : f = Step(f, n)}
<1>1. 0 \in Holds
  <2> DEFINE f == [i \in 0..0 |-> 0]
  <2>1. f = Step(f, 0)
    OBVIOUS
  <2>2. QED  BY <2>1
<1>2. ASSUME NEW n \in 1..len, n - 1 \in Holds
      PROVE  n \in Holds
  <2>1. PICK f : f = Step(f, n - 1)
    BY <1>2
  <2> DEFINE g == [i \in 0..n |-> IF i = n THEN f[n - 1] + term[n] ELSE f[i]]
  <2>2. \A i \in 0..(n - 1) : f[i] = IF i = 0 THEN 0 ELSE f[i - 1] + term[i]
    BY <2>1
  <2>3. \A i \in 0..n : g[i] = IF i = 0 THEN 0 ELSE g[i - 1] + term[i]
    <3>1. \A i \in 0..n : i # 0 => g[i - 1] = f[i - 1]
      OBVIOUS
    <3>2. QED  BY <2>2, <3>1
  <2> HIDE DEF g
  <2>4. g = [i \in 0..n |-> g[i]]
    BY DEF g
  <2>5. g = Step(g, n)
    BY <2>3, <2>4
  <2>6. QED  BY <2>5
<1>3. len \in Holds
  <2> HIDE DEF Holds
  <2>1. QED  BY <1>1, <1>2, UpTo
<1>4. QED  BY <1>3

\* The same of the sum of bytes.
LEMMA SumExists ==
  ASSUME NEW m, NEW at \in Int, NEW len \in Nat, NEW odd, NEW even
  PROVE  \E sum : IsSum(sum, m, at, len, odd, even)
<1> DEFINE term == [i \in 1..len |-> m[at + i - 1] * (IF i % 2 = 1 THEN odd ELSE even)]
<1>1. PICK f : f = [i \in 0..len |-> IF i = 0 THEN 0 ELSE f[i - 1] + term[i]]
  BY SumsExist
<1>2. \A i \in 0..len : i # 0 =>
        term[i] = m[at + i - 1] * (IF i % 2 = 1 THEN odd ELSE even)
  OBVIOUS
<1> HIDE DEF term
<1>3. IsSum(f, m, at, len, odd, even)
  BY <1>1, <1>2 DEF IsSum
<1>4. QED  BY <1>3

\* The first len bytes at an offset.
AreBytes(m, at, len) == \A i \in 1..len : m[at + i - 1] \in Byte

\* What the recursive definition says of each sum, and how large they grow.
LEMMA SumSteps ==
  ASSUME NEW m, NEW at \in Int, NEW len \in Nat, NEW odd \in {1, 256}, NEW even \in {1, 256},
         AreBytes(m, at, len), NEW sum, IsSum(sum, m, at, len, odd, even)
  PROVE  /\ sum[0] = 0
         /\ \A i \in 1..len :
              sum[i] = sum[i - 1] + m[at + i - 1] * (IF i % 2 = 1 THEN odd ELSE even)
         /\ \A i \in 0..len : sum[i] \in 0..(65280 * i)
<1>1. sum[0] = 0 /\ \A i \in 1..len :
        sum[i] = sum[i - 1] + m[at + i - 1] * (IF i % 2 = 1 THEN odd ELSE even)
  BY DEF IsSum
<1> DEFINE Holds == {i \in 0..len : sum[i] \in 0..(65280 * i)}
<1>2. 0 \in Holds
  BY <1>1
<1>3. ASSUME NEW i \in 1..len, i - 1 \in Holds
      PROVE  i \in Holds
  <2>1. m[at + i - 1] \in 0..255
    BY DEF AreBytes, Byte
  <2> DEFINE byte == m[at + i - 1]
             term == byte * (IF i % 2 = 1 THEN odd ELSE even)
  <2>2. term \in 0..65280
    <3>1. byte \in 0..255
      BY <2>1
    <3> HIDE DEF byte
    <3>2. term = byte * 1 \/ term = byte * 256
      OBVIOUS
    <3> HIDE DEF term
    <3>3. QED  BY <3>1, <3>2
  <2>3. sum[i] = sum[i - 1] + term
    BY <1>1
  <2>4. sum[i - 1] \in 0..(65280 * (i - 1))
    BY <1>3
  <2> DEFINE before == sum[i - 1]
             bound == 65280 * i
  <2>5. before \in Int /\ 0 <= before /\ before <= bound - 65280 /\ bound \in Int
    <3>1. 65280 * (i - 1) = bound - 65280 /\ bound \in Int
      OBVIOUS
    <3>2. QED  BY <2>4, <3>1
  <2>6. sum[i] = before + term
    BY <2>3
  <2>7. sum[i] \in 0..bound
    <3> HIDE DEF before, bound, term
    <3>1. term \in Int /\ 0 <= term /\ term <= 65280
      BY <2>2
    <3> DEFINE now == before + term
    <3>2. now \in Int /\ 0 <= now /\ now <= bound
      BY <2>5, <3>1
    <3>3. QED  BY <2>5, <2>6, <3>2
  <2>8. QED  BY <2>7
<1>4. \A i \in 0..len : i \in Holds
  <2> HIDE DEF Holds
  <2>1. QED  BY <1>2, <1>3, UpTo
<1>5. QED  BY <1>1, <1>4

-----------------------------------------------------------------------------
(***************************************************************************)
(* Folding: the carries of a sum, added to it twice, leave 16 bits that    *)
(* are the same number modulo 65535, and zero only for zero.               *)
(***************************************************************************)
IsWord(w) == w \in Nat /\ w <= 65535
IsLong(s) == s \in Nat /\ s < 65536 * 65536

\* calculate_checksum() folds the second time in another way.
FoldedAgain(once) == (once + (once \div 65536)) % 65536

\* The sum's arithmetic: 65535 counts as 0.
Congruent(s, t) == \E k \in Int : s = t + 65535 * k

\* Two foldings leave a word, and what is left modulo 65535.
LEMMA FoldedTwice ==
  ASSUME NEW s, IsLong(s)
  PROVE  /\ IsWord(Folded(Folded(s)))
         /\ Folded(Folded(s)) = 0 <=> s = 0
         /\ FoldedAgain(Folded(s)) = Folded(Folded(s))
         /\ Congruent(s, Folded(Folded(s)))
<1> DEFINE q == s \div 65536
           r == s % 65536
           once == Folded(s)
           c == once \div 65536
           t == once % 65536
<1>1. s = 65536 * q + r /\ q \in Int /\ r \in Nat /\ r <= 65535
  BY DEF IsLong
<1>2. once = q + r
  BY DEF Folded
<1> HIDE DEF q, r
<1>3. q \in Nat /\ q <= 65535
  BY <1>1 DEF IsLong
<1> HIDE DEF once
<1>4. once \in Nat /\ once <= 131070
  BY <1>1, <1>2, <1>3
<1>5. once = 65536 * c + t /\ c \in Int /\ t \in Nat /\ t <= 65535
  BY <1>4
<1>6. Folded(once) = c + t
  BY DEF Folded
<1> HIDE DEF c, t
<1>7. c = 0 \/ c = 1
  BY <1>4, <1>5
<1>8. IsWord(c + t)
  BY <1>4, <1>5, <1>7 DEF IsWord
<1>9. (once + c) % 65536 = c + t
  <2> DEFINE u == c + t
  <2>1. once + c = u \/ once + c = 65536 + u
    BY <1>5, <1>7
  <2>2. u \in Nat /\ u <= 65535
    BY <1>8 DEF IsWord
  <2> HIDE DEF u
  <2>3. u % 65536 = u /\ (65536 + u) % 65536 = u
    BY <2>2
  <2>4. QED  BY <2>1, <2>3 DEF u
<1>10. q + c \in Nat /\ s = (c + t) + 65535 * (q + c)
  BY <1>1, <1>2, <1>3, <1>5, <1>7
<1>11. c + t = 0 <=> s = 0
  BY <1>1, <1>2, <1>3, <1>5, <1>7
<1>12. Congruent(s, c + t)
  BY <1>10 DEF Congruent
<1>13. QED  BY <1>6, <1>8, <1>9, <1>11, <1>12 DEF c, once, FoldedAgain

\* The two bytes of a word, swapped.
LEMMA SwappedBytes ==
  ASSUME NEW w, IsWord(w)
  PROVE  /\ IsWord(htons(w))
         /\ htons(w) = 256 * w - 65535 * (w \div 256)
         /\ w \div 256 \in Byte /\ w % 256 \in Byte
         /\ htons(w) = 0 <=> w = 0
<1> DEFINE h == w \div 256
           l == w % 256
<1>1. w = 256 * h + l /\ h \in Int /\ l \in Nat /\ l <= 255
  BY DEF IsWord
<1>2. htons(w) = l * 256 + h
  BY DEF htons
<1> HIDE DEF h, l
<1>3. h \in Nat /\ h <= 255
  BY <1>1 DEF IsWord
<1>4. IsWord(htons(w))
  BY <1>1, <1>2, <1>3 DEF IsWord
<1>5. htons(w) = 256 * w - 65535 * h
  BY <1>1, <1>2, <1>3
<1>6. htons(w) = 0 <=> w = 0
  BY <1>1, <1>2, <1>3
<1>7. h \in Byte /\ l \in Byte
  BY <1>1, <1>3 DEF Byte
<1>8. QED  BY <1>4, <1>5, <1>6, <1>7 DEF h, l

-----------------------------------------------------------------------------
(***************************************************************************)
(* The checksums add words: n of them, in either order of their bytes.     *)
(***************************************************************************)
BigWords(sum, m, at, n) ==
  sum = [i \in 0..n |->
           IF i = 0 THEN 0
           ELSE sum[i - 1] + (256 * m[at + 2 * i - 2] + m[at + 2 * i - 1])]

LittleWords(sum, m, at, n) ==
  sum = [i \in 0..n |->
           IF i = 0 THEN 0
           ELSE sum[i - 1] + (m[at + 2 * i - 2] + 256 * m[at + 2 * i - 1])]

\* What is added is a number.
LEMMA BytesAreNumbers ==
  ASSUME NEW m, NEW at \in Int, NEW len, AreBytes(m, at, len), NEW i \in 1..len
  PROVE  m[at + i - 1] \in Int
  BY DEF AreBytes, Byte

\* The bytes of the words are among those that are added.
LEMMA WordsOfBytes ==
  ASSUME NEW m, NEW at \in Int, NEW len \in Nat, AreBytes(m, at, len)
  PROVE  \A i \in 1..(len \div 2) : m[at + 2 * i - 2] \in Int /\ m[at + 2 * i - 1] \in Int
<1> SUFFICES ASSUME NEW i \in 1..(len \div 2)
             PROVE  m[at + 2 * i - 2] \in Int /\ m[at + 2 * i - 1] \in Int
  OBVIOUS
<1> DEFINE first == 2 * i - 1
           second == 2 * i
<1>1. first \in 1..len /\ second \in 1..len
  OBVIOUS
<1>2. at + 2 * i - 2 = at + first - 1 /\ at + 2 * i - 1 = at + second - 1
  OBVIOUS
<1> HIDE DEF first, second
<1>3. m[at + first - 1] \in Int /\ m[at + second - 1] \in Int
  BY <1>1, BytesAreNumbers, Zenon
<1>4. QED  BY <1>2, <1>3

\* These are functions too.
LEMMA WordSumsExist ==
  ASSUME NEW m, NEW at \in Int, NEW n \in Nat
  PROVE  /\ \E sum : BigWords(sum, m, at, n)
         /\ \E sum : LittleWords(sum, m, at, n)
<1>1. \E sum : BigWords(sum, m, at, n)
  <2> DEFINE term == [i \in 1..n |-> 256 * m[at + 2 * i - 2] + m[at + 2 * i - 1]]
  <2>1. PICK f : f = [i \in 0..n |-> IF i = 0 THEN 0 ELSE f[i - 1] + term[i]]
    BY SumsExist
  <2>2. \A i \in 0..n : i # 0 => term[i] = 256 * m[at + 2 * i - 2] + m[at + 2 * i - 1]
    OBVIOUS
  <2> HIDE DEF term
  <2>3. BigWords(f, m, at, n)
    BY <2>1, <2>2 DEF BigWords
  <2>4. QED  BY <2>3
<1>2. \E sum : LittleWords(sum, m, at, n)
  <2> DEFINE term == [i \in 1..n |-> m[at + 2 * i - 2] + 256 * m[at + 2 * i - 1]]
  <2>1. PICK f : f = [i \in 0..n |-> IF i = 0 THEN 0 ELSE f[i - 1] + term[i]]
    BY SumsExist
  <2>2. \A i \in 0..n : i # 0 => term[i] = m[at + 2 * i - 2] + 256 * m[at + 2 * i - 1]
    OBVIOUS
  <2> HIDE DEF term
  <2>3. LittleWords(f, m, at, n)
    BY <2>1, <2>2 DEF LittleWords
  <2>4. QED  BY <2>3
<1>3. QED  BY <1>1, <1>2

(***************************************************************************)
(* Added by words, and a last odd byte by itself, the bytes have the same  *)
(* sum as added one by one.                                                *)
(***************************************************************************)
LEMMA WordsAndBytes ==
  ASSUME NEW m, NEW at \in Int, NEW len \in Nat, NEW odd \in {1, 256}, NEW even \in {1, 256},
         AreBytes(m, at, len), NEW sum, IsSum(sum, m, at, len, odd, even),
         NEW words, words[0] = 0,
         \A i \in 1..(len \div 2) :
           words[i] = words[i - 1] + (m[at + 2 * i - 2] * odd + m[at + 2 * i - 1] * even)
  PROVE  sum[len] = words[len \div 2]
                      + (IF len % 2 = 1 THEN m[at + len - 1] * odd ELSE 0)
<1> DEFINE n == len \div 2
           Holds == {i \in 0..n : words[i] = sum[2 * i]}
<1>1. n \in Nat /\ (len = 2 * n \/ len = 2 * n + 1) /\ len = 2 * n + (len % 2)
  OBVIOUS
<1>2. /\ sum[0] = 0
      /\ \A i \in 1..len :
           sum[i] = sum[i - 1] + m[at + i - 1] * (IF i % 2 = 1 THEN odd ELSE even)
      /\ \A i \in 0..len : sum[i] \in 0..(65280 * i)
  BY SumSteps
<1>3. \A i \in 1..n : words[i] = words[i - 1] + (m[at + 2 * i - 2] * odd + m[at + 2 * i - 1] * even)
  OBVIOUS
<1> HIDE DEF n
<1>4. 0 \in Holds
  BY <1>1, <1>2
<1>5. ASSUME NEW i \in 1..n, i - 1 \in Holds
      PROVE  i \in Holds
  <2> DEFINE first == 2 * i - 1
             second == 2 * i
             low == m[at + first - 1] * odd
             high == m[at + second - 1] * even
  <2>1. /\ first \in 1..len /\ second \in 1..len /\ first - 1 = 2 * (i - 1) /\ second - 1 = first
        /\ first % 2 = 1 /\ second % 2 = 0 /\ first - 1 \in 0..len
    BY <1>1
  <2>2. at + 2 * i - 2 = at + first - 1 /\ at + 2 * i - 1 = at + second - 1
    OBVIOUS
  <2>3. low \in Int /\ high \in Int
    <3>1. m[at + 2 * i - 2] \in Int /\ m[at + 2 * i - 1] \in Int
      BY WordsOfBytes DEF n
    <3>2. m[at + first - 1] \in Int /\ m[at + second - 1] \in Int
      BY <2>2, <3>1
    <3>3. (odd = 1 \/ odd = 256) /\ (even = 1 \/ even = 256)
      OBVIOUS
    <3> HIDE DEF first, second
    <3>4. QED  BY <3>2, <3>3
  <2>4. words[i] = words[i - 1] + (low + high)
    BY <1>3, <2>2
  <2> HIDE DEF first, second
  <2>5. sum[first] = sum[first - 1] + low
    BY <1>2, <2>1
  <2>6. sum[second] = sum[second - 1] + high
    BY <1>2, <2>1
  <2>7. words[i - 1] = sum[first - 1]
    BY <1>5, <2>1
  <2>8. sum[first - 1] \in Int
    BY <1>2, <2>1
  <2> HIDE DEF low, high
  <2>9. words[i] = sum[second]
    BY <2>1, <2>3, <2>4, <2>5, <2>6, <2>7, <2>8
  <2>10. QED  BY <2>9 DEF second
<1>6. n \in Holds
  <2> HIDE DEF Holds
  <2>1. \A i \in 0..n : i \in Holds
    BY <1>1, <1>4, <1>5, UpTo
  <2>2. QED  BY <1>1, <2>1
<1>7. words[n] = sum[2 * n] /\ sum[2 * n] \in Int
  BY <1>1, <1>2, <1>6
<1>8. CASE len = 2 * n
  <2>1. len % 2 # 1
    BY <1>1, <1>8
  <2>2. QED  BY <1>7, <1>8, <2>1 DEF n
<1>9. CASE len = 2 * n + 1
  <2>1. len % 2 = 1 /\ len \in 1..len /\ len - 1 = 2 * n
    BY <1>1, <1>9
  <2>2. sum[len] = sum[len - 1] + m[at + len - 1] * odd
    BY <1>2, <2>1
  <2>3. QED  BY <1>7, <2>1, <2>2 DEF n
<1>10. QED  BY <1>1, <1>8, <1>9

-----------------------------------------------------------------------------
(***************************************************************************)
(* The checksums, from their sums.                                         *)
(***************************************************************************)
LEMMA CksumOfSum ==
  ASSUME NEW m, NEW at \in Int, NEW len, IsWord(len), AreBytes(m, at, len)
  PROVE  \E sum : /\ IsSum(sum, m, at, len, 256, 1)
                  /\ IsLong(sum[len])
                  /\ LET result == htons(65535 - Folded(Folded(sum[len])))
                     IN  cksum(m, at, len) = IF result = 0 THEN 65535 ELSE result
<1> DEFINE n == len \div 2
           words == CHOOSE f : BigWords(f, m, at, n)
           all == words[n] + (IF len % 2 = 1 THEN 256 * m[at + len - 1] ELSE 0)
<1>0. len \in Nat /\ n \in Nat
  BY DEF IsWord
<1>1. PICK sum : IsSum(sum, m, at, len, 256, 1)
  BY <1>0, SumExists
<1>2. LET result == htons(65535 - Folded(Folded(all)))
      IN  cksum(m, at, len) = IF result = 0 THEN 65535 ELSE result
  BY DEF cksum, BigWords
<1>3. BigWords(words, m, at, n)
  <2> HIDE DEF n
  <2>1. QED  BY <1>0, WordSumsExist
<1>4. all = sum[len]
  <2> HIDE DEF words
  <2>1. words[0] = 0 /\ \A i \in 1..n : words[i] = words[i - 1] + (256 * m[at + 2 * i - 2] + m[at + 2 * i - 1])
    BY <1>0, <1>3 DEF BigWords
  <2>2. \A i \in 1..n : m[at + 2 * i - 2] \in Int /\ m[at + 2 * i - 1] \in Int
    BY <1>0, WordsOfBytes
  <2>3. \A i \in 1..n : words[i] = words[i - 1] + (m[at + 2 * i - 2] * 256 + m[at + 2 * i - 1] * 1)
    <3> SUFFICES ASSUME NEW i \in 1..n
                 PROVE  words[i] = words[i - 1]
                          + (m[at + 2 * i - 2] * 256 + m[at + 2 * i - 1] * 1)
      OBVIOUS
    <3> DEFINE x == m[at + 2 * i - 2]
               y == m[at + 2 * i - 1]
    <3>1. x \in Int /\ y \in Int
      BY <2>2
    <3>2. words[i] = words[i - 1] + (256 * x + y)
      BY <2>1
    <3> HIDE DEF x, y
    <3>3. 256 * x + y = x * 256 + y * 1
      BY <3>1
    <3>4. QED  BY <3>2, <3>3 DEF x, y
  <2>4. sum[len] = words[len \div 2] + (IF len % 2 = 1 THEN m[at + len - 1] * 256 ELSE 0)
    BY <1>0, <1>1, <2>1, <2>3, WordsAndBytes
  <2>5. len % 2 = 1 => 256 * m[at + len - 1] = m[at + len - 1] * 256
    <3> SUFFICES ASSUME len % 2 = 1 PROVE 256 * m[at + len - 1] = m[at + len - 1] * 256
      OBVIOUS
    <3>1. len \in 1..len
      BY <1>0
    <3>2. m[at + len - 1] \in Int
      BY <3>1 DEF AreBytes, Byte
    <3>3. QED  BY <3>2
  <2>6. QED  BY <2>4, <2>5
<1> HIDE DEF all
<1>5. sum[len] \in 0..(65280 * len) /\ len \in Nat /\ len <= 65535
  BY <1>0, <1>1, SumSteps DEF IsWord
<1>6. IsLong(sum[len])
  <2>1. 65280 * len <= 65280 * 65535
    BY <1>5
  <2>2. sum[len] \in Int /\ 0 <= sum[len] /\ sum[len] <= 65280 * len
    BY <1>5
  <2>3. QED  BY <1>5, <2>1, <2>2 DEF IsLong
<1>7. QED  BY <1>1, <1>2, <1>4, <1>6

\* The same for the other.
LEMMA CalculateOfSum ==
  ASSUME NEW m, NEW at \in Int, NEW len, IsWord(len), AreBytes(m, at, len)
  PROVE  \E sum : /\ IsSum(sum, m, at, len, 1, 256)
                  /\ IsLong(sum[len])
                  /\ calculate_checksum(m, at, len) = 65535 - Folded(Folded(sum[len]))
<1> DEFINE n == len \div 2
           words == CHOOSE f : LittleWords(f, m, at, n)
           all == words[n] + (IF len % 2 = 1 THEN m[at + len - 1] ELSE 0)
<1>0. len \in Nat /\ n \in Nat
  BY DEF IsWord
<1>1. PICK sum : IsSum(sum, m, at, len, 1, 256)
  BY <1>0, SumExists
<1>2. calculate_checksum(m, at, len) = 65535 - FoldedAgain(Folded(all))
  BY DEF calculate_checksum, LittleWords, FoldedAgain
<1>3. LittleWords(words, m, at, n)
  <2> HIDE DEF n
  <2>1. QED  BY <1>0, WordSumsExist
<1>4. all = sum[len]
  <2> HIDE DEF words
  <2>1. words[0] = 0 /\ \A i \in 1..n : words[i] = words[i - 1] + (m[at + 2 * i - 2] + 256 * m[at + 2 * i - 1])
    BY <1>0, <1>3 DEF LittleWords
  <2>2. \A i \in 1..n : m[at + 2 * i - 2] \in Int /\ m[at + 2 * i - 1] \in Int
    BY <1>0, WordsOfBytes
  <2>3. \A i \in 1..n : words[i] = words[i - 1] + (m[at + 2 * i - 2] * 1 + m[at + 2 * i - 1] * 256)
    <3> SUFFICES ASSUME NEW i \in 1..n
                 PROVE  words[i] = words[i - 1]
                          + (m[at + 2 * i - 2] * 1 + m[at + 2 * i - 1] * 256)
      OBVIOUS
    <3> DEFINE x == m[at + 2 * i - 2]
               y == m[at + 2 * i - 1]
    <3>1. x \in Int /\ y \in Int
      BY <2>2
    <3>2. words[i] = words[i - 1] + (x + 256 * y)
      BY <2>1
    <3> HIDE DEF x, y
    <3>3. x + 256 * y = x * 1 + y * 256
      BY <3>1
    <3>4. QED  BY <3>2, <3>3 DEF x, y
  <2>4. sum[len] = words[len \div 2] + (IF len % 2 = 1 THEN m[at + len - 1] * 1 ELSE 0)
    BY <1>0, <1>1, <2>1, <2>3, WordsAndBytes
  <2>5. len % 2 = 1 => m[at + len - 1] = m[at + len - 1] * 1
    <3> SUFFICES ASSUME len % 2 = 1 PROVE m[at + len - 1] = m[at + len - 1] * 1
      OBVIOUS
    <3>1. len \in 1..len
      BY <1>0
    <3>2. m[at + len - 1] \in Int
      BY <3>1 DEF AreBytes, Byte
    <3>3. QED  BY <3>2
  <2>6. QED  BY <2>4, <2>5
<1> HIDE DEF all
<1>5. sum[len] \in 0..(65280 * len) /\ len \in Nat /\ len <= 65535
  BY <1>0, <1>1, SumSteps DEF IsWord
<1>6. IsLong(sum[len])
  <2>1. 65280 * len <= 65280 * 65535
    BY <1>5
  <2>2. sum[len] \in Int /\ 0 <= sum[len] /\ sum[len] <= 65280 * len
    BY <1>5
  <2>3. QED  BY <1>5, <2>1, <2>2 DEF IsLong
<1>7. calculate_checksum(m, at, len) = 65535 - Folded(Folded(sum[len]))
  BY <1>2, <1>4, <1>6, FoldedTwice
<1>8. QED  BY <1>1, <1>6, <1>7

\* Checksums have 16 bits.
LEMMA ChecksumTypes ==
  ASSUME NEW m, NEW at \in Int, NEW len, IsWord(len), AreBytes(m, at, len)
  PROVE  /\ IsWord(cksum(m, at, len)) /\ cksum(m, at, len) # 0
         /\ IsWord(calculate_checksum(m, at, len))
<1>1. IsWord(cksum(m, at, len)) /\ cksum(m, at, len) # 0
  <2>1. PICK sum :
          /\ IsLong(sum[len])
          /\ LET result == htons(65535 - Folded(Folded(sum[len])))
             IN  cksum(m, at, len) = IF result = 0 THEN 65535 ELSE result
    BY CksumOfSum
  <2>2. IsWord(Folded(Folded(sum[len])))
    BY <2>1, FoldedTwice
  <2>3. IsWord(65535 - Folded(Folded(sum[len])))
    BY <2>2 DEF IsWord
  <2>4. IsWord(htons(65535 - Folded(Folded(sum[len]))))
    BY <2>3, SwappedBytes
  <2>5. QED  BY <2>1, <2>4 DEF IsWord
<1>2. IsWord(calculate_checksum(m, at, len))
  <2>1. PICK sum :
          /\ IsLong(sum[len])
          /\ calculate_checksum(m, at, len) = 65535 - Folded(Folded(sum[len]))
    BY CalculateOfSum
  <2>2. IsWord(Folded(Folded(sum[len])))
    BY <2>1, FoldedTwice
  <2>3. QED  BY <2>1, <2>2 DEF IsWord
<1>3. QED  BY <1>1, <1>2

-----------------------------------------------------------------------------
(***************************************************************************)
(* The sum of big-endian words and that of little-endian words of the same *)
(* bytes: one is 256 times the other modulo 65535, and both or none are 0. *)
(***************************************************************************)
LEMMA SumsAgree ==
  ASSUME NEW m, NEW at \in Int, NEW len \in Nat, AreBytes(m, at, len),
         NEW big, IsSum(big, m, at, len, 256, 1),
         NEW little, IsSum(little, m, at, len, 1, 256)
  PROVE  Congruent(256 * little[len], big[len]) /\ (little[len] = 0 <=> big[len] = 0)
<1> DEFINE Agree(i) == /\ big[i] \in Nat /\ little[i] \in Nat
                       /\ Congruent(256 * little[i], big[i])
                       /\ little[i] = 0 <=> big[i] = 0
           Holds == {i \in 0..len : Agree(i)}
<1>1. 0 \in Holds
  <2>1. big[0] = 0 /\ little[0] = 0
    BY DEF IsSum
  <2>2. Congruent(0, 0)
    <3>1. 0 = 0 + 65535 * 0
      OBVIOUS
    <3>2. QED  BY <3>1 DEF Congruent
  <2>3. 256 * little[0] = 0
    BY <2>1
  <2>4. Agree(0)
    BY <2>1, <2>2, <2>3
  <2>5. QED  BY <2>4
<1>2. ASSUME NEW i \in 1..len, i - 1 \in Holds
      PROVE  i \in Holds
  <2> DEFINE byte == m[at + i - 1]
             b == big[i - 1]
             l == little[i - 1]
  <2>1. byte \in Nat /\ i - 1 \in Nat
    BY DEF AreBytes, Byte
  <2>2. b \in Nat /\ l \in Nat /\ Congruent(256 * l, b) /\ (l = 0 <=> b = 0)
    BY <1>2
  <2>3. PICK k \in Int : 256 * l = b + 65535 * k
    BY <2>2 DEF Congruent
  <2>4. big[i] = IF i % 2 = 1 THEN b + byte * 256 ELSE b + byte * 1
    BY DEF IsSum
  <2>5. little[i] = IF i % 2 = 1 THEN l + byte * 1 ELSE l + byte * 256
    BY DEF IsSum
  <2> HIDE DEF byte, b, l
  <2>6. CASE i % 2 = 1
    <3>1. big[i] = b + 256 * byte /\ little[i] = l + byte
      BY <2>1, <2>2, <2>4, <2>5, <2>6
    <3>2. 256 * little[i] = big[i] + 65535 * k
      BY <2>1, <2>2, <2>3, <3>1
    <3>3. Agree(i)
      BY <2>1, <2>2, <3>1, <3>2 DEF Congruent
    <3>4. QED  BY <3>3
  <2>7. CASE i % 2 # 1
    <3>1. big[i] = b + byte /\ little[i] = l + 256 * byte
      BY <2>1, <2>2, <2>4, <2>5, <2>7
    <3>2. 256 * little[i] = big[i] + 65535 * (k + byte) /\ k + byte \in Int
      <4>1. 256 * little[i] = 256 * l + 65536 * byte
        BY <2>1, <2>2, <3>1
      <4>2. big[i] + 65535 * (k + byte) = b + byte + 65535 * k + 65535 * byte
        <5>1. 65535 * (k + byte) = 65535 * k + 65535 * byte
          BY <2>1
        <5>2. QED  BY <2>1, <2>2, <3>1, <5>1
      <4>3. 65536 * byte = byte + 65535 * byte
        BY <2>1
      <4> DEFINE p == 65535 * k
                 q == 65535 * byte
      <4>4. 256 * l = b + p /\ p \in Int /\ q \in Int /\ 65536 * byte = byte + q
        BY <2>1, <2>3, <4>3
      <4>5. big[i] + 65535 * (k + byte) = b + byte + p + q
        BY <4>2
      <4> HIDE DEF p, q
      <4>6. QED  BY <2>1, <2>2, <4>1, <4>4, <4>5
    <3>3. Congruent(256 * little[i], big[i])
      BY <3>2 DEF Congruent
    <3>4. big[i] \in Nat /\ little[i] \in Nat /\ (little[i] = 0 <=> big[i] = 0)
      BY <2>1, <2>2, <3>1
    <3>5. Agree(i)
      BY <3>3, <3>4
    <3>6. QED  BY <3>5
  <2>8. QED  BY <2>6, <2>7
<1>3. \A i \in 0..len : i \in Holds
  <2> HIDE DEF Holds
  <2>1. QED  BY <1>1, <1>2, UpTo
<1>4. QED  BY <1>3

\* Two words that are the same number modulo 65535 are equal, or are 0 and 65535.
LEMMA CongruentWords ==
  ASSUME NEW v, IsWord(v), NEW w, IsWord(w), Congruent(v, w)
  PROVE  v = w \/ (v = 0 /\ w = 65535) \/ (v = 65535 /\ w = 0)
<1>1. PICK k \in Int : v = w + 65535 * k
  BY DEF Congruent
<1>2. k = 0 \/ k = 1 \/ k = -1
  BY <1>1 DEF IsWord
<1>3. QED  BY <1>1, <1>2 DEF IsWord

(***************************************************************************)
(* cksum() and calculate_checksum() give the same word for the same bytes, *)
(* but that cksum() writes 65535 for 0.                                    *)
(***************************************************************************)
THEOREM SumsOfBothOrders ==
  ASSUME NEW m, NEW at \in Int, NEW len, IsWord(len), AreBytes(m, at, len)
  PROVE  \/ calculate_checksum(m, at, len) = cksum(m, at, len)
         \/ calculate_checksum(m, at, len) = 0 /\ cksum(m, at, len) = 65535
<1>1. PICK big :
        /\ IsSum(big, m, at, len, 256, 1) /\ IsLong(big[len])
        /\ LET result == htons(65535 - Folded(Folded(big[len])))
           IN  cksum(m, at, len) = IF result = 0 THEN 65535 ELSE result
  BY CksumOfSum
<1>2. PICK little :
        /\ IsSum(little, m, at, len, 1, 256) /\ IsLong(little[len])
        /\ calculate_checksum(m, at, len) = 65535 - Folded(Folded(little[len]))
  BY CalculateOfSum
<1> DEFINE b == big[len]
           l == little[len]
           x == Folded(Folded(b))
           y == Folded(Folded(l))
           sum == 65535 - x
           swapped == htons(sum)
           calculated == 65535 - y
<1>3. Congruent(256 * l, b) /\ (l = 0 <=> b = 0)
  BY <1>1, <1>2, SumsAgree DEF IsWord
<1>4. IsWord(x) /\ Congruent(b, x) /\ (x = 0 <=> b = 0)
  BY <1>1, FoldedTwice
<1>5. IsWord(y) /\ Congruent(l, y) /\ (y = 0 <=> l = 0)
  BY <1>2, FoldedTwice
<1>6. b \in Nat /\ l \in Nat
  BY <1>1, <1>2 DEF IsLong
<1> HIDE DEF b, l, x, y
<1>7. IsWord(sum) /\ IsWord(calculated)
  BY <1>4, <1>5 DEF IsWord
<1>8. IsWord(swapped) /\ swapped = 256 * sum - 65535 * (sum \div 256) /\ sum \div 256 \in Nat
  BY <1>7, SwappedBytes DEF Byte
<1>9. Congruent(swapped, calculated)
  <2>1. PICK i \in Int : 256 * l = b + 65535 * i
    BY <1>3 DEF Congruent
  <2>2. PICK j \in Int : b = x + 65535 * j
    BY <1>4 DEF Congruent
  <2>3. PICK k \in Int : l = y + 65535 * k
    BY <1>5 DEF Congruent
  <2> DEFINE q == sum \div 256
             n == 256 * k - i - j
             z == 255 - q - y - 256 * n
  <2>4. x \in Int /\ y \in Int /\ q \in Int /\ n \in Int
    BY <1>4, <1>5, <1>8 DEF IsWord
  <2>5. swapped = 256 * (65535 - x) - 65535 * q
    BY <1>8
  <2>6. x = 256 * y + 65535 * n
    BY <2>1, <2>2, <2>3, <2>4
  <2> HIDE DEF q, n, swapped
  <2>7. 256 * x = 65536 * y + 65535 * (256 * n)
    BY <2>4, <2>6
  <2>8. swapped = (65535 - y) + 65535 * z /\ z \in Int
    BY <2>4, <2>5, <2>7
  <2>9. QED  BY <2>8 DEF Congruent
<1>10. \/ swapped = calculated
       \/ swapped = 0 /\ calculated = 65535
       \/ swapped = 65535 /\ calculated = 0
  BY <1>7, <1>8, <1>9, CongruentWords
<1>11. swapped = 0 <=> x = 65535
  BY <1>4, <1>7, SwappedBytes DEF IsWord
<1>12. calculated = 65535 => y = 0
  BY <1>5 DEF IsWord
<1>13. swapped = 0 => calculated # 65535
  BY <1>3, <1>4, <1>5, <1>11, <1>12
<1>14. cksum(m, at, len) = IF swapped = 0 THEN 65535 ELSE swapped
  BY <1>1 DEF x, b
<1>15. calculate_checksum(m, at, len) = calculated
  BY <1>2 DEF y, l
<1>16. swapped = 0 => calculated = 0
  BY <1>10, <1>13
<1> HIDE DEF swapped, calculated
<1>17. QED  BY <1>10, <1>13, <1>14, <1>15, <1>16

-----------------------------------------------------------------------------
(***************************************************************************)
(* What a change of the bytes does to a checksum.                          *)
(***************************************************************************)

\* Congruence is one, and none of two different small numbers.
LEMMA Congruence ==
  /\ \A s \in Int : Congruent(s, s)
  /\ \A s, t \in Int : Congruent(s, t) => Congruent(t, s)
  /\ \A s, t, u \in Int : Congruent(s, t) /\ Congruent(t, u) => Congruent(s, u)
<1>1. ASSUME NEW s \in Int
      PROVE  Congruent(s, s)
  <2>1. s = s + 65535 * 0
    BY <1>1
  <2>2. QED  BY <2>1 DEF Congruent
<1>2. ASSUME NEW s \in Int, NEW t \in Int, Congruent(s, t)
      PROVE  Congruent(t, s)
  <2>1. PICK k \in Int : s = t + 65535 * k
    BY <1>2 DEF Congruent
  <2>2. t = s + 65535 * (-k) /\ -k \in Int
    BY <2>1
  <2>3. QED  BY <2>2 DEF Congruent
<1>3. ASSUME NEW s \in Int, NEW t \in Int, NEW u \in Int, Congruent(s, t), Congruent(t, u)
      PROVE  Congruent(s, u)
  <2>1. PICK j \in Int : s = t + 65535 * j
    BY <1>3 DEF Congruent
  <2>2. PICK k \in Int : t = u + 65535 * k
    BY <1>3 DEF Congruent
  <2>3. s = u + 65535 * (j + k) /\ j + k \in Int
    BY <2>1, <2>2
  <2>4. QED  BY <2>3 DEF Congruent
<1>4. QED  BY <1>1, <1>2, <1>3

(***************************************************************************)
(* The sum of little-endian words exists, is determined by the bytes, and  *)
(* changes with them.                                                      *)
(***************************************************************************)
IsLittleSum(sum, m, at, len) == IsSum(sum, m, at, len, 1, 256)

\* Two buffers with the same bytes, and two that differ in the k-th at most.
Same(m, n, at, len) ==
  IsWord(len) /\ \A i \in 1..len : m[at + i - 1] = n[at + i - 1]

DifferAt(m, n, at, len, k) ==
  /\ IsWord(len) /\ AreBytes(m, at, len) /\ AreBytes(n, at, len)
  /\ k \in 1..len
  /\ \A i \in (1..len) \ {k} : m[at + i - 1] = n[at + i - 1]

Change(m, n, at, k) ==
  (n[at + k - 1] - m[at + k - 1]) * (IF k % 2 = 1 THEN 1 ELSE 256)

\* The recursive definition has a solution.
LEMMA LittleSum ==
  ASSUME NEW m, NEW at \in Int, NEW len, IsWord(len)
  PROVE  \E sum : IsLittleSum(sum, m, at, len)
<1>1. len \in Nat
  BY DEF IsWord
<1>2. \A odd, even : \E sum : IsSum(sum, m, at, len, odd, even)
  BY <1>1, SumExists
<1>3. QED  BY <1>2 DEF IsLittleSum

\* Two sums of the same bytes are the same: the definition is a definition.
LEMMA SameBytesSameSum ==
  ASSUME NEW m, NEW n, NEW at \in Int, NEW len, Same(m, n, at, len), NEW odd, NEW even,
         NEW sum, IsSum(sum, m, at, len, odd, even),
         NEW other, IsSum(other, n, at, len, odd, even)
  PROVE  sum[len] = other[len]
<1>0. len \in Nat
  BY DEF Same, IsWord
<1> DEFINE Holds == {i \in 0..len : sum[i] = other[i]}
<1>1. 0 \in Holds
  BY <1>0 DEF IsSum
<1>2. ASSUME NEW i \in 1..len, i - 1 \in Holds
      PROVE  i \in Holds
  <2> DEFINE w == IF i % 2 = 1 THEN odd ELSE even
  <2>1. sum[i] = sum[i - 1] + m[at + i - 1] * w
    BY <1>0 DEF IsSum
  <2>2. other[i] = other[i - 1] + n[at + i - 1] * w
    BY <1>0 DEF IsSum
  <2> HIDE DEF w
  <2>3. sum[i] = other[i]
    BY <1>2, <2>1, <2>2 DEF Same
  <2>4. QED  BY <2>3
<1>3. \A i \in 0..len : i \in Holds
  <2> HIDE DEF Holds
  <2>1. QED  BY <1>0, <1>1, <1>2, UpTo
<1>4. QED  BY <1>0, <1>3

\* A sum counts each byte apart: changing one changes it by as much, times its weight.
LEMMA SumOfChanged ==
  ASSUME NEW m, NEW n, NEW at \in Int, NEW len, NEW k, DifferAt(m, n, at, len, k),
         NEW sum, IsLittleSum(sum, m, at, len),
         NEW other, IsLittleSum(other, n, at, len)
  PROVE  other[len] = sum[len] + Change(m, n, at, k)
<1>0. len \in Nat /\ k \in 1..len
  BY DEF DifferAt, IsWord
<1> DEFINE weight == IF k % 2 = 1 THEN 1 ELSE 256
           change == (n[at + k - 1] - m[at + k - 1]) * weight
           Holds == {i \in 0..len : other[i] = IF i < k THEN sum[i] ELSE sum[i] + change}
<1>1. weight \in {1, 256}
  OBVIOUS
<1>2. m[at + k - 1] \in Int /\ n[at + k - 1] \in Int
  BY <1>0 DEF DifferAt, AreBytes, Byte
<1>3. n[at + k - 1] * weight = m[at + k - 1] * weight + change /\ change \in Int
  <2>1. CASE weight = 1
    BY <1>2, <2>1
  <2>2. CASE weight = 256
    BY <1>2, <2>2
  <2>3. QED  BY <1>1, <2>1, <2>2
<1> HIDE DEF change
<1>4. \A i \in 0..len : sum[i] \in Int /\ other[i] \in Int
  <2>1. AreBytes(m, at, len) /\ AreBytes(n, at, len)
    BY DEF DifferAt
  <2>2. ASSUME NEW f, NEW b, AreBytes(b, at, len), IsLittleSum(f, b, at, len),
               NEW i \in 0..len
        PROVE  f[i] \in Int
    BY <1>0, <2>2, SumSteps DEF IsLittleSum
  <2>3. QED  BY <2>1, <2>2
<1>5. 0 \in Holds
  <2>1. sum[0] = 0 /\ other[0] = 0
    BY <1>0 DEF IsLittleSum, IsSum
  <2>2. QED  BY <1>0, <2>1
<1>6. ASSUME NEW i \in 1..len, i - 1 \in Holds
      PROVE  i \in Holds
  <2> DEFINE w == IF i % 2 = 1 THEN 1 ELSE 256
  <2>1. /\ sum[i] = sum[i - 1] + m[at + i - 1] * w
        /\ other[i] = other[i - 1] + n[at + i - 1] * w
    <3>1. sum[i] = sum[i - 1] + m[at + i - 1] * w
      BY <1>0 DEF IsLittleSum, IsSum
    <3>2. other[i] = other[i - 1] + n[at + i - 1] * w
      BY <1>0 DEF IsLittleSum, IsSum
    <3>3. QED  BY <3>1, <3>2
  <2>2. m[at + i - 1] * w \in Int
    BY <1>0 DEF DifferAt, AreBytes, Byte
  <2>3. other[i - 1] = IF i - 1 < k THEN sum[i - 1] ELSE sum[i - 1] + change
    BY <1>6
  <2>4. CASE i = k
    <3>1. n[at + i - 1] * w = m[at + i - 1] * w + change
      BY <1>3, <2>4
    <3>2. other[i - 1] = sum[i - 1]
      BY <2>3, <2>4
    <3> HIDE DEF w
    <3>3. QED  BY <1>0, <1>3, <1>4, <2>1, <2>2, <2>4, <3>1, <3>2
  <2>5. CASE i # k
    <3>1. n[at + i - 1] * w = m[at + i - 1] * w
      BY <1>0, <2>5 DEF DifferAt
    <3> HIDE DEF w
    <3>2. QED  BY <1>0, <1>3, <1>4, <2>1, <2>2, <2>3, <2>5, <3>1
  <2>6. QED  BY <2>4, <2>5
<1>7. \A i \in 0..len : i \in Holds
  <2> HIDE DEF Holds
  <2>1. QED  BY <1>0, <1>5, <1>6, UpTo
<1>8. QED  BY <1>0, <1>7 DEF change, Change

\* The checksum of little-endian words is minus their sum.
LEMMA CalculateCongruent ==
  ASSUME NEW m, NEW at \in Int, NEW len, IsWord(len), AreBytes(m, at, len),
         NEW sum, IsLittleSum(sum, m, at, len)
  PROVE  /\ sum[len] \in Nat
         /\ Congruent(calculate_checksum(m, at, len) + sum[len], 0)
         /\ calculate_checksum(m, at, len) = 65535 <=> sum[len] = 0
<1>1. PICK other : /\ IsLittleSum(other, m, at, len) /\ IsLong(other[len])
                   /\ calculate_checksum(m, at, len) = 65535 - Folded(Folded(other[len]))
  BY CalculateOfSum DEF IsLittleSum
<1>2. sum[len] = other[len]
  <2>1. Same(m, m, at, len)
    BY DEF Same
  <2>2. QED  BY <1>1, <2>1, SameBytesSameSum DEF IsLittleSum
<1> DEFINE s == other[len]
           y == Folded(Folded(s))
<1>4. IsWord(y) /\ Congruent(s, y) /\ (y = 0 <=> s = 0)
  BY <1>1, FoldedTwice
<1>5. s \in Nat /\ calculate_checksum(m, at, len) = 65535 - y
  BY <1>1 DEF IsLong
<1> HIDE DEF s, y
<1>6. PICK k \in Int : s = y + 65535 * k
  BY <1>4 DEF Congruent
<1>7. (65535 - y) + s = 0 + 65535 * (k + 1) /\ k + 1 \in Int
  BY <1>4, <1>5, <1>6 DEF IsWord
<1>8. Congruent((65535 - y) + s, 0)
  <2> DEFINE v == (65535 - y) + s
  <2>1. v = 0 + 65535 * (k + 1) /\ k + 1 \in Int
    BY <1>7
  <2> HIDE DEF v
  <2>2. Congruent(v, 0)
    BY <2>1 DEF Congruent
  <2>3. QED  BY <2>2 DEF v
<1>9. 65535 - y = 65535 <=> s = 0
  BY <1>4 DEF IsWord
<1>10. QED  BY <1>2, <1>5, <1>8, <1>9 DEF s

\* The same of the two bytes of a word.
LEMMA SumOfWordChanged ==
  ASSUME NEW m, NEW n, NEW at \in Int, NEW len, IsWord(len),
         AreBytes(m, at, len), AreBytes(n, at, len),
         NEW k \in 1..len, k % 2 = 1, k + 1 \in 1..len,
         \A i \in (1..len) \ {k, k + 1} : m[at + i - 1] = n[at + i - 1],
         NEW sum, IsLittleSum(sum, m, at, len),
         NEW other, IsLittleSum(other, n, at, len)
  PROVE  other[len] = sum[len] + (n[at + k - 1] - m[at + k - 1]) + 256 * (n[at + k] - m[at + k])
<1> DEFINE half == [j \in {at + i - 1 : i \in 1..len} |-> IF j = at + k - 1 THEN n[j] ELSE m[j]]
<1>1. len \in Nat
  BY DEF IsWord
<1>2. PICK middle : IsLittleSum(middle, half, at, len)
  BY LittleSum
<1>3. \A i \in 1..len :
        half[at + i - 1] = IF i = k THEN n[at + i - 1] ELSE m[at + i - 1]
  <2> SUFFICES ASSUME NEW i \in 1..len
               PROVE  half[at + i - 1] = IF i = k THEN n[at + i - 1] ELSE m[at + i - 1]
    OBVIOUS
  <2>1. at + i - 1 = at + k - 1 <=> i = k
    BY <1>1
  <2>2. at + i - 1 \in {at + j - 1 : j \in 1..len}
    OBVIOUS
  <2>3. QED  BY <2>1, <2>2
<1> HIDE DEF half
<1>4. AreBytes(half, at, len)
  BY <1>3 DEF AreBytes
<1> DEFINE s == sum[len]
           h == middle[len]
           t == other[len]
           x == n[at + k - 1] - m[at + k - 1]
           y == n[at + (k + 1) - 1] - m[at + (k + 1) - 1]
<1>5. half[at + k - 1] = n[at + k - 1] /\ half[at + (k + 1) - 1] = m[at + (k + 1) - 1]
  <2>1. k + 1 # k
    OBVIOUS
  <2> DEFINE next == k + 1
  <2> HIDE DEF next
  <2>2. half[at + k - 1] = n[at + k - 1]
    BY <1>3, Zenon
  <2>3. half[at + next - 1] = m[at + next - 1]
    BY <1>3, <2>1, Zenon DEF next
  <2>4. QED  BY <2>2, <2>3 DEF next
<1>6. h = s + x
  <2>1. DifferAt(m, half, at, len, k)
    BY <1>3, <1>4 DEF DifferAt
  <2>2. h = s + Change(m, half, at, k)
    BY <1>2, <2>1, SumOfChanged
  <2>3. Change(m, half, at, k) = x * 1
    BY <1>5 DEF Change
  <2>4. x * 1 = x
    <3>1. m[at + k - 1] \in Int /\ n[at + k - 1] \in Int
      BY BytesAreNumbers, Zenon
    <3>2. QED  BY <3>1
  <2>5. QED  BY <2>2, <2>3, <2>4
<1>7. t = h + y * 256
  <2>1. \A i \in (1..len) \ {k + 1} : half[at + i - 1] = n[at + i - 1]
    BY <1>3
  <2>2. DifferAt(half, n, at, len, k + 1)
    BY <1>4, <2>1 DEF DifferAt
  <2>3. t = h + Change(half, n, at, k + 1)
    BY <1>2, <2>2, SumOfChanged
  <2>4. (k + 1) % 2 # 1
    BY <1>1
  <2>5. Change(half, n, at, k + 1) = y * 256
    BY <1>5, <2>4 DEF Change
  <2>6. QED  BY <2>3, <2>5
<1>8. at + (k + 1) - 1 = at + k
  OBVIOUS
<1>9. x \in Int /\ y \in Int
  <2> DEFINE next == k + 1
  <2>1. next \in 1..len
    OBVIOUS
  <2> HIDE DEF next
  <2>2. /\ m[at + k - 1] \in Int /\ n[at + k - 1] \in Int
        /\ m[at + next - 1] \in Int /\ n[at + next - 1] \in Int
    BY <2>1, BytesAreNumbers, Zenon
  <2>3. QED  BY <2>2 DEF next
<1>10. s \in Int
  BY CalculateCongruent
<1>11. y = n[at + k] - m[at + k]
  BY <1>8
<1> HIDE DEF s, h, t, y
<1>12. t = s + x + 256 * y
  <2> HIDE DEF x
  <2>1. QED  BY <1>6, <1>7, <1>9, <1>10
<1>13. QED  BY <1>11, <1>12 DEF s, t

\* A word of two bytes.
LEMMA BytesOfWord ==
  ASSUME NEW w, IsWord(w)
  PROVE  w = (w % 256) + 256 * (w \div 256) /\ w % 256 \in Byte /\ w \div 256 \in Byte
<1>1. w = 256 * (w \div 256) + (w % 256)
  BY DEF IsWord
<1>2. (w % 256) + 256 * (w \div 256) = 256 * (w \div 256) + (w % 256)
  BY DEF IsWord
<1>3. w \div 256 \in Byte /\ w % 256 \in Byte
  BY SwappedBytes
<1>4. QED  BY <1>1, <1>2, <1>3

(***************************************************************************)
(* With its checksum in it, where a word of zeroes was, a buffer verifies. *)
(***************************************************************************)
LEMMA StoredSumVerifies ==
  ASSUME NEW m, NEW n, NEW at \in Int, NEW len, IsWord(len),
         AreBytes(m, at, len), AreBytes(n, at, len),
         NEW k \in 1..len, k % 2 = 1, k + 1 \in 1..len,
         \A i \in (1..len) \ {k, k + 1} : m[at + i - 1] = n[at + i - 1],
         m[at + k - 1] = 0, m[at + k] = 0,
         n[at + k - 1] = calculate_checksum(m, at, len) % 256,
         n[at + k] = calculate_checksum(m, at, len) \div 256
  PROVE  calculate_checksum(n, at, len) = 0
<1> DEFINE c == calculate_checksum(m, at, len)
           d == calculate_checksum(n, at, len)
           half == [j \in {at + i - 1 : i \in 1..len} |->
                      IF j = at + k - 1 THEN n[j] ELSE m[j]]
<1>1. len \in Nat
  BY DEF IsWord
<1>2. PICK sum : IsLittleSum(sum, m, at, len)
  BY LittleSum
<1>3. PICK middle : IsLittleSum(middle, half, at, len)
  BY LittleSum
<1>4. PICK other : IsLittleSum(other, n, at, len)
  BY LittleSum
<1>5. \A i \in 1..len :
        half[at + i - 1] = IF i = k THEN n[at + i - 1] ELSE m[at + i - 1]
  <2> SUFFICES ASSUME NEW i \in 1..len
               PROVE  half[at + i - 1] = IF i = k THEN n[at + i - 1] ELSE m[at + i - 1]
    OBVIOUS
  <2>1. at + i - 1 = at + k - 1 <=> i = k
    BY <1>1
  <2>2. at + i - 1 \in {at + j - 1 : j \in 1..len}
    OBVIOUS
  <2>3. QED  BY <2>1, <2>2
<1> HIDE DEF half
<1>6. AreBytes(half, at, len)
  BY <1>5 DEF AreBytes
<1> DEFINE s == sum[len]
           h == middle[len]
           t == other[len]
<1>7. h = s + Change(m, half, at, k)
  <2>1. DifferAt(m, half, at, len, k)
    BY <1>5, <1>6 DEF DifferAt
  <2>2. QED  BY <1>2, <1>3, <2>1, SumOfChanged
<1>8. t = h + Change(half, n, at, k + 1)
  <2>1. DifferAt(half, n, at, len, k + 1)
    BY <1>5, <1>6 DEF DifferAt
  <2>2. QED  BY <1>3, <1>4, <2>1, SumOfChanged
<1>9. s \in Nat /\ Congruent(c + s, 0) /\ (c = 65535 <=> s = 0)
  BY <1>2, CalculateCongruent
<1>10. t \in Nat /\ Congruent(d + t, 0) /\ (d = 65535 <=> t = 0)
  BY <1>4, CalculateCongruent
<1>11. IsWord(c) /\ IsWord(d)
  BY ChecksumTypes
<1>12. c = (c % 256) + 256 * (c \div 256) /\ c % 256 \in Byte /\ c \div 256 \in Byte
  BY <1>11, BytesOfWord
<1>13. (k + 1) % 2 # 1
  OBVIOUS
<1>14. at + (k + 1) - 1 = at + k /\ k # k + 1
  OBVIOUS
<1> HIDE DEF c, d, s, h, t
<1>15. h = s + (c % 256)
  <2>1. half[at + k - 1] = c % 256
    BY <1>5 DEF c
  <2> DEFINE lo == c % 256
  <2>2. h = s + (lo - 0) * 1
    BY <1>7, <2>1 DEF Change
  <2>3. lo \in Int
    BY <1>12 DEF Byte
  <2> HIDE DEF lo
  <2>4. h = s + lo
    BY <1>9, <2>2, <2>3
  <2>5. QED  BY <2>4 DEF lo
<1>16. t = h + 256 * (c \div 256)
  <2>1. half[at + (k + 1) - 1] = 0 /\ n[at + (k + 1) - 1] = c \div 256
    BY <1>5, <1>14 DEF c
  <2> DEFINE hi == c \div 256
  <2>2. t = h + (hi - 0) * 256
    BY <1>8, <1>13, <2>1 DEF Change
  <2>3. hi \in Int
    BY <1>12 DEF Byte
  <2> HIDE DEF hi
  <2>4. t = h + 256 * hi
    BY <2>2, <2>3
  <2>5. QED  BY <2>4 DEF hi
<1>17. t = s + c
  <2> DEFINE lo == c % 256
             hi == c \div 256
  <2>1. lo \in Int /\ hi \in Int
    BY <1>12 DEF Byte
  <2>2. c = lo + 256 * hi
    BY <1>12
  <2>3. h = s + lo /\ t = h + 256 * hi
    BY <1>15, <1>16
  <2> HIDE DEF lo, hi
  <2>4. QED  BY <1>9, <2>1, <2>2, <2>3
<1>18. PICK i \in Int : c + s = 65535 * i
  BY <1>9 DEF Congruent
<1>19. PICK j \in Int : d + t = 65535 * j
  BY <1>10 DEF Congruent
<1>20. d = 65535 * (j - i) /\ j - i \in Int
  BY <1>9, <1>10, <1>11, <1>17, <1>18, <1>19 DEF IsWord
<1>21. d # 65535
  BY <1>9, <1>10, <1>11, <1>17 DEF IsWord
<1>22. d = 0
  <2> DEFINE e == j - i
  <2>1. e \in Int /\ d = 65535 * e /\ d \in Nat /\ d <= 65535 /\ d # 65535
    BY <1>11, <1>20, <1>21 DEF IsWord
  <2> HIDE DEF e
  <2>2. QED  BY <2>1
<1>23. QED  BY <1>22 DEF d

-----------------------------------------------------------------------------
(***************************************************************************)
(* Checksums depend on the bytes they add, and on them only.               *)
(***************************************************************************)
LEMMA SameChecksum ==
  ASSUME NEW m, NEW n, NEW at \in Int, NEW len, Same(m, n, at, len), AreBytes(m, at, len)
  PROVE  /\ calculate_checksum(m, at, len) = calculate_checksum(n, at, len)
         /\ cksum(m, at, len) = cksum(n, at, len)
<1>1. IsWord(len) /\ AreBytes(n, at, len)
  BY DEF Same, AreBytes
<1>2. cksum(m, at, len) = cksum(n, at, len)
  <2> DEFINE Result(s) == htons(65535 - Folded(Folded(s)))
  <2>1. PICK sum : /\ IsSum(sum, m, at, len, 256, 1)
                   /\ cksum(m, at, len) = IF Result(sum[len]) = 0 THEN 65535 ELSE Result(sum[len])
    BY <1>1, CksumOfSum
  <2>2. PICK other : /\ IsSum(other, n, at, len, 256, 1)
                     /\ cksum(n, at, len) = IF Result(other[len]) = 0 THEN 65535 ELSE Result(other[len])
    BY <1>1, CksumOfSum
  <2> HIDE DEF Result
  <2>3. sum[len] = other[len]
    BY <2>1, <2>2, SameBytesSameSum
  <2>4. QED  BY <2>1, <2>2, <2>3
<1>3. calculate_checksum(m, at, len) = calculate_checksum(n, at, len)
  <2>1. PICK sum : /\ IsSum(sum, m, at, len, 1, 256)
                   /\ calculate_checksum(m, at, len) = 65535 - Folded(Folded(sum[len]))
    BY <1>1, CalculateOfSum
  <2>2. PICK other : /\ IsSum(other, n, at, len, 1, 256)
                     /\ calculate_checksum(n, at, len) = 65535 - Folded(Folded(other[len]))
    BY <1>1, CalculateOfSum
  <2>3. sum[len] = other[len]
    BY <2>1, <2>2, SameBytesSameSum
  <2>4. QED  BY <2>1, <2>2, <2>3
<1>4. QED  BY <1>2, <1>3

\* Zeroes behind the bytes that are meant add nothing to their sum.
LEMMA ZeroesInSum ==
  ASSUME NEW m, NEW at \in Int, NEW short, NEW len, IsWord(short), IsWord(len), short <= len,
         AreBytes(m, at, len), \A i \in (short + 1)..len : m[at + i - 1] = 0,
         NEW sum, IsLittleSum(sum, m, at, len),
         NEW part, IsLittleSum(part, m, at, short)
  PROVE  sum[len] = part[short]
<1>1. len \in Nat /\ short \in Nat /\ short <= len
  BY DEF IsWord
<1>2. AreBytes(m, at, short)
  BY <1>1 DEF AreBytes
<1>3. IsSum(sum, m, at, len, 1, 256)
  BY DEF IsLittleSum
<1>4. IsSum(part, m, at, short, 1, 256)
  BY DEF IsLittleSum
<1> DEFINE Holds == {i \in 0..len : /\ sum[i] \in Int
                                    /\ sum[i] = IF i <= short THEN part[i] ELSE part[short]}
<1>5. 0 \in Holds
  BY <1>1, <1>3, <1>4 DEF IsSum
<1>6. ASSUME NEW i \in 1..len, i - 1 \in Holds
      PROVE  i \in Holds
  <2> DEFINE w == IF i % 2 = 1 THEN 1 ELSE 256
             term == m[at + i - 1] * w
  <2>1. sum[i] = sum[i - 1] + term
    BY <1>1, <1>3 DEF IsSum
  <2>2. sum[i - 1] \in Int /\ sum[i - 1] = IF i - 1 <= short THEN part[i - 1] ELSE part[short]
    BY <1>6
  <2>3. term \in Int
    <3>1. m[at + i - 1] \in Int
      BY DEF AreBytes, Byte
    <3>2. w = 1 \/ w = 256
      OBVIOUS
    <3> DEFINE byte == m[at + i - 1]
    <3>3. term = byte * 1 \/ term = byte * 256
      BY <3>2
    <3>4. byte \in Int
      BY <3>1
    <3> HIDE DEF byte, term
    <3>5. QED  BY <3>3, <3>4
  <2>4. CASE i <= short
    <3>1. part[i] = part[i - 1] + term
      BY <1>1, <1>4, <2>4 DEF IsSum
    <3> HIDE DEF term
    <3>2. sum[i] \in Int /\ sum[i] = part[i]
      BY <1>1, <2>1, <2>2, <2>3, <2>4, <3>1
    <3>3. QED  BY <2>4, <3>2
  <2>5. CASE i > short
    <3>1. term = 0
      BY <1>1, <2>5
    <3> HIDE DEF term
    <3>2. sum[i] \in Int /\ sum[i] = part[short]
      BY <1>1, <2>1, <2>2, <2>3, <2>5, <3>1
    <3>3. QED  BY <1>1, <2>5, <3>2
  <2>6. QED  BY <1>1, <2>4, <2>5
<1>7. \A i \in 0..len : i \in Holds
  <2> HIDE DEF Holds
  <2>1. QED  BY <1>1, <1>5, <1>6, UpTo
<1>8. QED  BY <1>1, <1>7

\* Nor to their checksum.
LEMMA ZeroesAddNothing ==
  ASSUME NEW m, NEW at \in Int, NEW short, NEW len, IsWord(short), IsWord(len), short <= len,
         AreBytes(m, at, len), \A i \in (short + 1)..len : m[at + i - 1] = 0
  PROVE  calculate_checksum(m, at, len) = calculate_checksum(m, at, short)
<1>1. AreBytes(m, at, short)
  BY DEF AreBytes, IsWord
<1>2. PICK sum : IsSum(sum, m, at, len, 1, 256)
                 /\ calculate_checksum(m, at, len) = 65535 - Folded(Folded(sum[len]))
  BY CalculateOfSum
<1>3. PICK part : IsSum(part, m, at, short, 1, 256)
                  /\ calculate_checksum(m, at, short) = 65535 - Folded(Folded(part[short]))
  BY <1>1, CalculateOfSum
<1>4. sum[len] = part[short]
  BY <1>2, <1>3, ZeroesInSum DEF IsLittleSum
<1>5. QED  BY <1>2, <1>3, <1>4

-----------------------------------------------------------------------------
(***************************************************************************)
(* Memory.                                                                 *)
(***************************************************************************)

\* What a store leaves at each place.
LEMMA StoredAt ==
  ASSUME NEW D, NEW m \in [D -> Byte], NEW at \in Int, NEW bytes \in Seq(Byte)
  PROVE  /\ Stored(m, at, bytes) \in [D -> Byte]
         /\ \A i \in D : Stored(m, at, bytes)[i] =
              IF i - at \in 0..(Len(bytes) - 1) THEN bytes[i - at + 1] ELSE m[i]
<1>1. Len(bytes) \in Nat /\ \A i \in 1..Len(bytes) : bytes[i] \in Byte
  OBVIOUS
<1>2. \A i : i - at \in 0..(Len(bytes) - 1) => i - at + 1 \in 1..Len(bytes)
  BY <1>1
<1>3. DOMAIN m = D /\ \A i \in D : m[i] \in Byte
  OBVIOUS
<1>4. Stored(m, at, bytes) =
        [i \in D |-> IF i - at \in 0..(Len(bytes) - 1) THEN bytes[i - at + 1] ELSE m[i]]
  BY <1>3 DEF Stored
<1>5. \A i \in D :
        (IF i - at \in 0..(Len(bytes) - 1) THEN bytes[i - at + 1] ELSE m[i]) \in Byte
  BY <1>1, <1>2, <1>3
<1>6. QED  BY <1>4, <1>5

\* The same for one byte.
LEMMA ByteStoredAt ==
  ASSUME NEW D \in SUBSET Int, NEW m \in [D -> Byte], NEW at \in Int, NEW byte \in Byte
  PROVE  /\ Stored(m, at, <<byte>>) \in [D -> Byte]
         /\ \A i \in D : Stored(m, at, <<byte>>)[i] = IF i = at THEN byte ELSE m[i]
<1>1. <<byte>> \in Seq(Byte) /\ Len(<<byte>>) = 1 /\ <<byte>>[1] = byte
  OBVIOUS
<1> DEFINE bytes == <<byte>>
<1>2. bytes \in Seq(Byte) /\ Len(bytes) = 1 /\ bytes[1] = byte
  BY <1>1
<1> HIDE DEF bytes
<1>3. Stored(m, at, bytes) \in [D -> Byte]
  BY <1>2, StoredAt
<1>4. \A i \in D : Stored(m, at, bytes)[i] =
        IF i - at \in 0..(Len(bytes) - 1) THEN bytes[i - at + 1] ELSE m[i]
  BY DEF Stored
<1>5. \A i \in D : i - at \in 0..(1 - 1) <=> i = at
  OBVIOUS
<1>6. \A i \in D : i = at => i - at + 1 = 1
  OBVIOUS
<1>7. \A i \in D : Stored(m, at, bytes)[i] = IF i = at THEN byte ELSE m[i]
  BY <1>2, <1>4, <1>5, <1>6
<1>8. QED  BY <1>3, <1>7 DEF bytes

\* A word is stored with its low byte first.
LEMMA WordStoredAt ==
  ASSUME NEW D \in SUBSET Int, NEW m \in [D -> Byte], NEW at \in Int, NEW w, IsWord(w)
  PROVE  /\ StoreWord(m, at, w) \in [D -> Byte]
         /\ \A i \in D : StoreWord(m, at, w)[i] =
              IF i = at THEN w % 256 ELSE IF i = at + 1 THEN w \div 256 ELSE m[i]
<1> DEFINE bytes == <<w % 256, w \div 256>>
<1>1. w % 256 \in Byte /\ w \div 256 \in Byte
  BY SwappedBytes
<1>2. bytes \in Seq(Byte) /\ Len(bytes) = 2 /\ bytes[1] = w % 256 /\ bytes[2] = w \div 256
  BY <1>1
<1>3. StoreWord(m, at, w) = Stored(m, at, bytes)
  BY DEF StoreWord
<1> HIDE DEF bytes
<1>4. Stored(m, at, bytes) \in [D -> Byte]
  BY <1>2, StoredAt
<1>5. \A i \in D : Stored(m, at, bytes)[i] =
        IF i - at \in 0..(Len(bytes) - 1) THEN bytes[i - at + 1] ELSE m[i]
  BY DEF Stored
<1>6. ASSUME NEW i \in D
      PROVE  StoreWord(m, at, w)[i] =
               IF i = at THEN w % 256 ELSE IF i = at + 1 THEN w \div 256 ELSE m[i]
  <2>1. i - at \in 0..(Len(bytes) - 1) <=> i = at \/ i = at + 1
    BY <1>2
  <2>2. i = at => i - at + 1 = 1
    OBVIOUS
  <2>3. i = at + 1 => i - at + 1 = 2 /\ i # at
    OBVIOUS
  <2>4. QED  BY <1>2, <1>3, <1>5, <2>1, <2>2, <2>3
<1>7. QED  BY <1>3, <1>4, <1>6
=============================================================================
