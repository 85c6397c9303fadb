--------------------------- MODULE BuffersProofs ---------------------------
(***************************************************************************)
(* Theorems about the heap of each program, module Buffers, for every set  *)
(* of texts that fit: what one operation does, what the functions of       *)
(* packet.c leave behind, and from these each path of the programs.        *)
(***************************************************************************)
EXTENDS Buffers, WellFoundedInduction, TLAPS

-----------------------------------------------------------------------------
(***************************************************************************)
(* Sequences of operations.                                                *)
(***************************************************************************)

\* The heaps on the way.
IsRun(after, h, ops, n) ==
  after = [i \in 0..n |-> IF i = 0 THEN h ELSE Operate(after[i - 1], ops[i])]

\* Numbers have a smallest one.
LEMMA SmallestNumber ==
  ASSUME NEW I \in SUBSET Nat, I # {}
  PROVE  \E i \in I : \A j \in I : i <= j
<1> DEFINE less == OpToRel(<, Nat)
<1>1. PICK i \in I : \A j \in I : ~(<<j, i>> \in less)
  <2>1. IsWellFoundedOn(less, Nat)
    BY NatLessThanWellFounded
  <2> HIDE DEF less
  <2>2. QED  BY <2>1, WFMin
<1>2. \A j \in I : j < i => <<j, i>> \in less
  BY DEF OpToRel
<1> HIDE DEF less
<1>3. ASSUME NEW j \in I
      PROVE  i <= j
  <2>1. i \in Nat /\ j \in Nat /\ ~(j < i)
    BY <1>1, <1>2
  <2>2. QED  BY <2>1
<1>4. QED  BY <1>3

\* What holds of 0, and of every number up to len after the one before it,
\* holds up to len: here of the members of a set.
LEMMA UpTo ==
  ASSUME NEW len0 \in Nat, NEW Holds, 0 \in Holds,
         \A i \in 1..len0 : (i - 1) \in Holds => i \in Holds
  PROVE  \A i \in 0..len0 : i \in Holds
<1> DEFINE Bad == {i \in 0..len0 : i \notin Holds}
<1>1. SUFFICES ASSUME Bad # {} PROVE FALSE
  OBVIOUS
<1>2. PICK i \in Bad : \A j \in Bad : i <= j
  <2>1. Bad \in SUBSET Nat
    OBVIOUS
  <2> HIDE DEF Bad
  <2>2. QED  BY <1>1, <2>1, SmallestNumber
<1>3. i \in 1..len0 /\ i - 1 \notin Bad
  BY <1>2
<1>4. QED  BY <1>2, <1>3

\* The recursive definition defines a function.
LEMMA RunExists ==
  ASSUME NEW h, NEW ops, NEW n \in Nat
  PROVE  \E after : IsRun(after, h, ops, n)
<1> DEFINE Step(f, m) == [i \in 0..m |-> IF i = 0 THEN h ELSE Operate(f[i - 1], ops[i])]
           Holds == {m \in Nat : \E f : f = Step(f, m)}
<1>1. 0 \in Holds
  <2> DEFINE f == [i \in 0..0 |-> h]
  <2>1. f = Step(f, 0)
    OBVIOUS
  <2>2. QED  BY <2>1
<1>2. ASSUME NEW m \in 1..n, m - 1 \in Holds
      PROVE  m \in Holds
  <2>1. PICK f : f = Step(f, m - 1)
    BY <1>2
  <2> DEFINE g == [i \in 0..m |-> IF i = m THEN Operate(f[m - 1], ops[m]) ELSE f[i]]
  <2>2. \A i \in 0..(m - 1) : f[i] = IF i = 0 THEN h ELSE Operate(f[i - 1], ops[i])
    BY <2>1
  <2>3. \A i \in 0..m : g[i] = IF i = 0 THEN h ELSE Operate(g[i - 1], ops[i])
    <3>1. \A i \in 0..m : i # 0 => g[i - 1] = f[i - 1]
      OBVIOUS
    <3>2. QED  BY <2>2, <3>1
  <2> HIDE DEF g
  <2>4. g = [i \in 0..m |-> g[i]]
    BY DEF g
  <2>5. g = Step(g, m)
    BY <2>3, <2>4
  <2>6. QED  BY <2>5
<1>3. n \in Holds
  <2> HIDE DEF Holds
  <2>1. QED  BY <1>1, <1>2, UpTo
<1>4. QED  BY <1>3 DEF IsRun

\* Two such functions are one.
LEMMA RunsEqual ==
  ASSUME NEW h, NEW ops, NEW n \in Nat, NEW f, NEW g,
         IsRun(f, h, ops, n), IsRun(g, h, ops, n)
  PROVE  f[n] = g[n]
<1> DEFINE Same == {i \in 0..n : f[i] = g[i]}
<1>1. 0 \in Same
  BY DEF IsRun
<1>2. ASSUME NEW i \in 1..n, i - 1 \in Same
      PROVE  i \in Same
  <2>1. f[i] = Operate(f[i - 1], ops[i]) /\ g[i] = Operate(g[i - 1], ops[i])
    BY DEF IsRun
  <2>2. QED  BY <1>2, <2>1
<1>3. n \in Same
  <2> HIDE DEF Same
  <2>1. QED  BY <1>1, <1>2, UpTo
<1>4. QED  BY <1>3

\* A sequence of operations runs from heap to heap.
LEMMA Running ==
  ASSUME NEW h, NEW ops, Len(ops) \in Nat
  PROVE  \E after : /\ IsRun(after, h, ops, Len(ops))
                    /\ after[0] = h
                    /\ \A i \in 1..Len(ops) : after[i] = Operate(after[i - 1], ops[i])
                    /\ Executed(h, ops) = after[Len(ops)]
<1> DEFINE run == CHOOSE after : IsRun(after, h, ops, Len(ops))
<1>1. IsRun(run, h, ops, Len(ops))
  BY RunExists
<1>2. Executed(h, ops) = run[Len(ops)]
  BY DEF Executed, IsRun
<1> HIDE DEF run
<1>3. run[0] = h /\ \A i \in 1..Len(ops) : run[i] = Operate(run[i - 1], ops[i])
  BY <1>1 DEF IsRun
<1>4. QED  BY <1>1, <1>2, <1>3

\* Any function that runs that way ends where the sequence does.
LEMMA RunIs ==
  ASSUME NEW h, NEW ops, NEW n, n \in Nat, Len(ops) = n, NEW f, IsRun(f, h, ops, n)
  PROVE  Executed(h, ops) = f[n]
<1>1. PICK after : IsRun(after, h, ops, Len(ops)) /\ Executed(h, ops) = after[Len(ops)]
  BY Running
<1>2. QED  BY <1>1, RunsEqual

\* The heaps on the way of n operations, of which the last is result.
RunsTo(after, h, ops, n, result) ==
  /\ after[0] = h
  /\ \A i \in 1..n : after[i] = Operate(after[i - 1], ops[i])
  /\ result = after[n]

\* A sequence of operations has them.
LEMMA Steps ==
  ASSUME NEW h, NEW ops, Len(ops) \in Nat
  PROVE  \E after : RunsTo(after, h, ops, Len(ops), Executed(h, ops))
<1>1. PICK after : /\ after[0] = h
                   /\ \A i \in 1..Len(ops) : after[i] = Operate(after[i - 1], ops[i])
                   /\ Executed(h, ops) = after[Len(ops)]
  BY Running
<1>2. QED  BY <1>1 DEF RunsTo

Buffer == {"packet", "new_packet", "new_rec_pkt", "resp_pkt", "rec_packet",
"rec_packet_dest",
           "enc_pkt", "encrypt_packet", "response_pkt",
           "ip_src_str", "ip_dst_str", "dest_ip", "client_str_ip", "client_ip_str"}

Operation == [do : {"calloc", "access", "free"}, buf : Buffer, end : Int]

\* One sequence after another.
LEMMA Concatenated ==
  ASSUME NEW h, NEW s \in Seq(Operation), NEW t \in Seq(Operation)
  PROVE  Executed(h, s \o t) = Executed(Executed(h, s), t)
<1>1. PICK m \in Nat, n \in Nat : m = Len(s) /\ n = Len(t)
  OBVIOUS
<1>0. m \in Nat /\ n \in Nat /\ Len(s) = m /\ Len(t) = n /\ Len(s \o t) = m + n
  BY <1>1
<1>2. PICK f : RunsTo(f, h, s, m, Executed(h, s))
  <2>1. \E f : RunsTo(f, h, s, Len(s), Executed(h, s))
    BY <1>0, Steps
  <2>2. QED  BY <2>1, <1>0
<1>3. PICK g : RunsTo(g, Executed(h, s), t, n, Executed(Executed(h, s), t))
  <2>1. \E g : RunsTo(g, Executed(h, s), t, Len(t), Executed(Executed(h, s), t))
    BY <1>0, Steps
  <2>2. QED  BY <2>1, <1>0
<1> DEFINE both == [i \in 0..(m + n) |-> IF i <= m THEN f[i] ELSE g[i - m]]
<1>4. /\ \A i \in 1..m : (s \o t)[i] = s[i]
      /\ \A i \in (m + 1)..(m + n) : (s \o t)[i] = t[i - m]
  BY <1>0
<1>5. both[m] = f[m] /\ g[0] = f[m]
  BY <1>0, <1>2, <1>3 DEF RunsTo
<1>6. ASSUME NEW i \in 0..(m + n)
      PROVE  both[i] = IF i = 0 THEN h ELSE Operate(both[i - 1], (s \o t)[i])
  <2>1. CASE i = 0
    BY <2>1, <1>0, <1>2 DEF RunsTo
  <2>2. CASE i \in 1..m
    <3>1. both[i] = f[i] /\ both[i - 1] = f[i - 1]
      BY <2>2, <1>0
    <3>2. QED  BY <2>2, <3>1, <1>0, <1>2, <1>4 DEF RunsTo
  <2>3. CASE i \in (m + 1)..(m + n)
    <3>1. both[i] = g[i - m] /\ i - m \in 1..n
      BY <2>3, <1>0
    <3>2. both[i - 1] = g[(i - m) - 1]
      <4>1. CASE i = m + 1
        BY <4>1, <1>0, <1>5
      <4>2. CASE i # m + 1
        BY <4>2, <2>3, <1>0
      <4>3. QED  BY <4>1, <4>2
    <3>3. g[i - m] = Operate(g[(i - m) - 1], t[i - m])
      BY <3>1, <1>3 DEF RunsTo
    <3>4. i # 0 /\ (s \o t)[i] = t[i - m]
      BY <2>3, <1>0, <1>4
    <3>5. QED  BY <3>1, <3>2, <3>3, <3>4
  <2>4. QED  BY <2>1, <2>2, <2>3, <1>0
<1>7. both[m + n] = g[n]
  <2>1. CASE n = 0
    BY <2>1, <1>0, <1>5
  <2>2. CASE n # 0
    BY <2>2, <1>0
  <2>3. QED  BY <2>1, <2>2
<1>8. IsRun(both, h, s \o t, m + n)
  <2>1. both = [i \in 0..(m + n) |-> both[i]]
    OBVIOUS
  <2> HIDE DEF both
  <2>2. [i \in 0..(m + n) |-> both[i]] =
          [i \in 0..(m + n) |-> IF i = 0 THEN h ELSE Operate(both[i - 1], (s \o t)[i])]
    BY <1>6
  <2>3. QED  BY <2>1, <2>2 DEF IsRun
<1> HIDE DEF both
<1>9. Executed(h, s \o t) = both[m + n]
  <2>1. m + n \in Nat /\ Len(s \o t) = m + n
    BY <1>0
  <2>2. QED  BY <2>1, <1>8, RunIs
<1>10. QED  BY <1>3, <1>7, <1>9 DEF RunsTo

-----------------------------------------------------------------------------
(***************************************************************************)
(* Heaps without stale use: the buffers in L are allocated, out is what    *)
(* was accessed outside.  Room is the size of a buffer in program p; n is  *)
(* the length of the text that a server encrypts.                          *)
(***************************************************************************)
Room(p, n, b) ==
  IF b \in {"ip_src_str", "ip_dst_str", "dest_ip", "client_str_ip", "client_ip_str"} THEN 16
  ELSE IF b = "encrypt_packet" THEN 46 + n
  ELSE IF b = "rec_packet" /\ p = "destination" THEN 168
  ELSE 174

Holding(p, n, L, out) ==
  [size |-> [b \in L |-> Room(p, n, b)], stale |-> {}, outside |-> out]

\* The sizes, computed.
LEMMA Sizes ==
  /\ TunnelSize = 174 /\ PlainSize = 168 /\ GreSize = 6 /\ Payload = 46
  /\ StringSize = 16 /\ MaxPayload = 128
  BY DEF TunnelSize, PlainSize, GreSize, Payload, StringSize, MaxPayload

\* calloc() adds a buffer.
LEMMA Calloc ==
  ASSUME NEW p, NEW m, NEW L, NEW out, NEW b, NEW n, n = Room(p, m, b)
  PROVE  Operate(Holding(p, m, L, out), calloc(b, n)) = Holding(p, m, L \cup {b}, out)
  BY DEF Operate, Holding, calloc

\* An access inside a buffer changes nothing.
LEMMA Access ==
  ASSUME NEW p, NEW m, NEW L, NEW out, NEW b \in L, NEW n \in Int,
         Room(p, m, b) \in Int, n <= Room(p, m, b)
  PROVE  Operate(Holding(p, m, L, out), access(b, n)) = Holding(p, m, L, out)
  BY DEF Operate, Holding, access

\* An access further than that is one outside.
LEMMA AccessOutside ==
  ASSUME NEW p, NEW m, NEW L, NEW out, NEW b \in L, NEW n \in Int,
         Room(p, m, b) \in Int, n > Room(p, m, b)
  PROVE  Operate(Holding(p, m, L, out), access(b, n)) =
           Holding(p, m, L, out \cup {[buf |-> b, by |-> n - Room(p, m, b)]})
  BY DEF Operate, Holding, access

\* free() takes one of the buffers.
LEMMA Free ==
  ASSUME NEW p, NEW m, NEW L, NEW out, NEW b \in L
  PROVE  Operate(Holding(p, m, L, out), free(b)) = Holding(p, m, L \ {b}, out)
  BY DEF Operate, Holding, free

(***************************************************************************)
(* The sequence ops takes such a heap from one set of buffers to another.  *)
(***************************************************************************)
Leaves(p, n, L, out, ops, L2, out2) ==
  /\ ops \in Seq(Operation)
  /\ Executed(Holding(p, n, L, out), ops) = Holding(p, n, L2, out2)

\* What one sequence leaves the next one finds.
LEMMA LeavesNext ==
  ASSUME NEW p, NEW n, NEW L, NEW out, NEW s, NEW L2, NEW out2, NEW t, NEW L3, NEW out3,
         Leaves(p, n, L, out, s, L2, out2), Leaves(p, n, L2, out2, t, L3, out3)
  PROVE  Leaves(p, n, L, out, s \o t, L3, out3)
<1>1. s \in Seq(Operation) /\ t \in Seq(Operation)
  BY DEF Leaves
<1>2. s \o t \in Seq(Operation)
  BY <1>1
<1>3. Executed(Holding(p, n, L, out), s \o t) = Holding(p, n, L3, out3)
  BY <1>1, Concatenated DEF Leaves
<1>4. QED  BY <1>2, <1>3 DEF Leaves

\* Printing takes two strings and gives them back.
LEMMA Printed ==
  ASSUME NEW p, NEW m, NEW L, NEW out, NEW b \in L, b \in Buffer, NEW at \in Int,
  NEW n \in Int,
         Room(p, m, b) \in Int, at + n + 1 <= Room(p, m, b),
         "ip_src_str" \notin L, "ip_dst_str" \notin L
  PROVE  Leaves(p, m, L, out, PrintPacket(b, at, n), L, out)
<1> DEFINE ops == PrintPacket(b, at, n)
           h == Holding(p, m, L, out)
<1>1. /\ "ip_dst_str" \in Buffer
      /\ "ip_src_str" \in Buffer
      /\ b \in Buffer
      /\ 16 \in Int
      /\ at + n + 1 \in Int
      /\ Room(p, m, "ip_dst_str") = 16
      /\ Room(p, m, "ip_src_str") = 16
      /\ Room(p, m, b) = Room(p, m, b)
      /\ 16 \in Int
      /\ Room(p, m, b) \in Int
      /\ at + n + 1 <= Room(p, m, b)
      /\ 16 <= 16
      /\ 16 <= 16
  BY Sizes DEF Buffer, Room
<1>2. /\ Len(ops) = 7
      /\ ops[1] = calloc("ip_src_str", 16)
      /\ ops[2] = calloc("ip_dst_str", 16)
      /\ ops[3] = access(b, at + n + 1)
      /\ ops[4] = access("ip_src_str", 16)
      /\ ops[5] = access("ip_dst_str", 16)
      /\ ops[6] = free("ip_src_str")
      /\ ops[7] = free("ip_dst_str")
  BY Sizes DEF PrintPacket
<1>3. ops \in Seq(Operation)
  BY <1>1, Sizes DEF PrintPacket, Operation, calloc, access, free
<1> HIDE DEF ops, h
<1>4. PICK after : RunsTo(after, h, ops, 7, Executed(h, ops))
  <2>1. Len(ops) \in Nat
    BY <1>2
  <2>2. \E after : RunsTo(after, h, ops, Len(ops), Executed(h, ops))
    BY <2>1, Steps
  <2>3. QED  BY <1>2, <2>2
<1>5. /\ after[0] = h /\ Executed(h, ops) = after[7]
      /\ after[1] = Operate(after[0], ops[1])
      /\ after[2] = Operate(after[1], ops[2])
      /\ after[3] = Operate(after[2], ops[3])
      /\ after[4] = Operate(after[3], ops[4])
      /\ after[5] = Operate(after[4], ops[5])
      /\ after[6] = Operate(after[5], ops[6])
      /\ after[7] = Operate(after[6], ops[7])
  BY <1>4 DEF RunsTo
<1> USE DEF h
<1>6. after[1] = Holding(p, m, L \cup {"ip_src_str"}, out)
  BY <1>1, <1>2, <1>5, Calloc
<1>7. after[2] = Holding(p, m, (L \cup {"ip_src_str"}) \cup {"ip_dst_str"}, out)
  BY <1>1, <1>2, <1>5, <1>6, Calloc
<1>8. after[3] = Holding(p, m, (L \cup {"ip_src_str"}) \cup {"ip_dst_str"}, out)
  BY <1>1, <1>2, <1>5, <1>7, Access
<1>9. after[4] = Holding(p, m, (L \cup {"ip_src_str"}) \cup {"ip_dst_str"}, out)
  BY <1>1, <1>2, <1>5, <1>8, Access
<1>10. after[5] = Holding(p, m, (L \cup {"ip_src_str"}) \cup {"ip_dst_str"}, out)
  BY <1>1, <1>2, <1>5, <1>9, Access
<1>11. after[6] = Holding(p, m, ((L \cup {"ip_src_str"}) \cup {"ip_dst_str"}) \ {"ip_src_str"}, out)
  BY <1>1, <1>2, <1>5, <1>10, Free
<1>12. after[7] = Holding(p, m, (((L \cup {"ip_src_str"}) \cup {"ip_dst_str"}) \ {"ip_src_str"}) \ {"ip_dst_str"}, out)
  BY <1>1, <1>2, <1>5, <1>11, Free
<1>13. (((L \cup {"ip_src_str"}) \cup {"ip_dst_str"}) \ {"ip_src_str"}) \ {"ip_dst_str"} = L
  OBVIOUS
<1>14. QED  BY <1>3, <1>5, <1>12, <1>13 DEF ops, Leaves

\* A packet of create_packets() or create_packets_des(), with a text that fits.
LEMMA PacketMade ==
  ASSUME NEW p, NEW m, NEW L, NEW out, NEW b \in Buffer, Room(p, m, b) = 174,
  NEW n \in 0..128
  PROVE  Leaves(p, m, L, out, MakePacket(b, n), L \cup {b}, out)
<1> DEFINE ops == MakePacket(b, n)
           h == Holding(p, m, L, out)
<1>1. /\ b \in Buffer
      /\ 174 \in Int
      /\ 46 + Clamped(n) + 1 \in Int
      /\ 46 + n \in Int
      /\ Room(p, m, b) = 174
      /\ 174 \in Int
      /\ 46 + n <= 174
      /\ 46 + Clamped(n) + 1 <= 174
  BY Sizes DEF Buffer, Room, Clamped
<1>2. /\ Len(ops) = 3
      /\ ops[1] = calloc(b, 174)
      /\ ops[2] = access(b, 46 + n)
      /\ ops[3] = access(b, 46 + Clamped(n) + 1)
  BY Sizes DEF MakePacket
<1>3. ops \in Seq(Operation)
  BY <1>1, Sizes DEF MakePacket, Operation, calloc, access, free
<1> HIDE DEF ops, h
<1>4. PICK after : RunsTo(after, h, ops, 3, Executed(h, ops))
  <2>1. Len(ops) \in Nat
    BY <1>2
  <2>2. \E after : RunsTo(after, h, ops, Len(ops), Executed(h, ops))
    BY <2>1, Steps
  <2>3. QED  BY <1>2, <2>2
<1>5. /\ after[0] = h /\ Executed(h, ops) = after[3]
      /\ after[1] = Operate(after[0], ops[1])
      /\ after[2] = Operate(after[1], ops[2])
      /\ after[3] = Operate(after[2], ops[3])
  BY <1>4 DEF RunsTo
<1> USE DEF h
<1>6. after[1] = Holding(p, m, L \cup {b}, out)
  BY <1>1, <1>2, <1>5, Calloc
<1>7. after[2] = Holding(p, m, L \cup {b}, out)
  BY <1>1, <1>2, <1>5, <1>6, Access
<1>8. after[3] = Holding(p, m, L \cup {b}, out)
  BY <1>1, <1>2, <1>5, <1>7, Access
<1>9. QED  BY <1>3, <1>5, <1>8 DEF ops, Leaves

\* serv_rec_from_cli() frees what it received when it has decrypted it.
LEMMA Decrypted ==
  ASSUME NEW p, NEW m, NEW L, NEW out, NEW b \in Buffer, Room(p, m, b) = 174,
  NEW n \in 0..127,
         "new_rec_pkt" \in L
  PROVE  Leaves(p, m, L, out, Decrypt(b, n), (L \cup {b}) \ {"new_rec_pkt"}, out)
<1> DEFINE ops == Decrypt(b, n)
           h == Holding(p, m, L, out)
<1>1. /\ "new_rec_pkt" \in Buffer
      /\ b \in Buffer
      /\ 174 \in Int
      /\ 46 + Clamped(n) + 1 \in Int
      /\ Room(p, m, "new_rec_pkt") = 174
      /\ Room(p, m, b) = 174
      /\ 174 \in Int
      /\ 174 <= 174
      /\ 174 <= 174
      /\ 46 + Clamped(n) + 1 <= 174
  BY Sizes DEF Buffer, Room, Clamped
<1>2. /\ Len(ops) = 5
      /\ ops[1] = calloc(b, 174)
      /\ ops[2] = access("new_rec_pkt", 174)
      /\ ops[3] = access(b, 174)
      /\ ops[4] = access(b, 46 + Clamped(n) + 1)
      /\ ops[5] = free("new_rec_pkt")
  BY Sizes DEF Decrypt
<1>3. ops \in Seq(Operation)
  BY <1>1, Sizes DEF Decrypt, Operation, calloc, access, free
<1> HIDE DEF ops, h
<1>4. PICK after : RunsTo(after, h, ops, 5, Executed(h, ops))
  <2>1. Len(ops) \in Nat
    BY <1>2
  <2>2. \E after : RunsTo(after, h, ops, Len(ops), Executed(h, ops))
    BY <2>1, Steps
  <2>3. QED  BY <1>2, <2>2
<1>5. /\ after[0] = h /\ Executed(h, ops) = after[5]
      /\ after[1] = Operate(after[0], ops[1])
      /\ after[2] = Operate(after[1], ops[2])
      /\ after[3] = Operate(after[2], ops[3])
      /\ after[4] = Operate(after[3], ops[4])
      /\ after[5] = Operate(after[4], ops[5])
  BY <1>4 DEF RunsTo
<1> USE DEF h
<1>6. after[1] = Holding(p, m, L \cup {b}, out)
  BY <1>1, <1>2, <1>5, Calloc
<1>7. after[2] = Holding(p, m, L \cup {b}, out)
  BY <1>1, <1>2, <1>5, <1>6, Access
<1>8. after[3] = Holding(p, m, L \cup {b}, out)
  BY <1>1, <1>2, <1>5, <1>7, Access
<1>9. after[4] = Holding(p, m, L \cup {b}, out)
  BY <1>1, <1>2, <1>5, <1>8, Access
<1>10. after[5] = Holding(p, m, (L \cup {b}) \ {"new_rec_pkt"}, out)
  BY <1>1, <1>2, <1>5, <1>9, Free
<1>11. QED  BY <1>3, <1>5, <1>10 DEF ops, Leaves

\* serv_cli_encrypt_free() stores one byte behind the packet that it encrypts into.
LEMMA Encrypted ==
  ASSUME NEW p, NEW L, NEW out, NEW n \in 0..127,
         "enc_pkt" \in L
  PROVE  Leaves(p, n, L, out, Encrypt(n), L \cup {"encrypt_packet"},
                out \cup {[buf |-> "encrypt_packet", by |-> 1]})
<1> DEFINE ops == Encrypt(n)
           h == Holding(p, n, L, out)
<1>1. /\ "enc_pkt" \in Buffer
      /\ "encrypt_packet" \in Buffer
      /\ 46 + n \in Int
      /\ 46 + n + 1 \in Int
      /\ Room(p, n, "enc_pkt") = 174
      /\ Room(p, n, "encrypt_packet") = 46 + n
      /\ 174 \in Int
      /\ 46 + n \in Int
      /\ 46 + n <= 174
      /\ 46 + n <= 46 + n
      /\ 46 + n + 1 > 46 + n
  BY Sizes DEF Buffer, Room
<1>2. /\ Len(ops) = 4
      /\ ops[1] = calloc("encrypt_packet", 46 + n)
      /\ ops[2] = access("enc_pkt", 46 + n)
      /\ ops[3] = access("encrypt_packet", 46 + n)
      /\ ops[4] = access("encrypt_packet", 46 + n + 1)
  BY Sizes DEF Encrypt
<1>3. ops \in Seq(Operation)
  BY <1>1, Sizes DEF Encrypt, Operation, calloc, access, free
<1> HIDE DEF ops, h
<1>4. PICK after : RunsTo(after, h, ops, 4, Executed(h, ops))
  <2>1. Len(ops) \in Nat
    BY <1>2
  <2>2. \E after : RunsTo(after, h, ops, Len(ops), Executed(h, ops))
    BY <2>1, Steps
  <2>3. QED  BY <1>2, <2>2
<1>5. /\ after[0] = h /\ Executed(h, ops) = after[4]
      /\ after[1] = Operate(after[0], ops[1])
      /\ after[2] = Operate(after[1], ops[2])
      /\ after[3] = Operate(after[2], ops[3])
      /\ after[4] = Operate(after[3], ops[4])
  BY <1>4 DEF RunsTo
<1> USE DEF h
<1>6. after[1] = Holding(p, n, L \cup {"encrypt_packet"}, out)
  BY <1>1, <1>2, <1>5, Calloc
<1>7. after[2] = Holding(p, n, L \cup {"encrypt_packet"}, out)
  BY <1>1, <1>2, <1>5, <1>6, Access
<1>8. after[3] = Holding(p, n, L \cup {"encrypt_packet"}, out)
  BY <1>1, <1>2, <1>5, <1>7, Access
<1>9. after[4] = Holding(p, n, L \cup {"encrypt_packet"},
                         out \cup {[buf |-> "encrypt_packet",
                         by |-> (46 + n + 1) - (46 + n)]})
  BY <1>1, <1>2, <1>5, <1>8, AccessOutside
<1>10. out \cup {[buf |-> "encrypt_packet", by |-> (46 + n + 1) - (46 + n)]} =
        out \cup {[buf |-> "encrypt_packet", by |-> 1]}
  BY <1>1
<1>11. QED  BY <1>3, <1>5, <1>9, <1>10 DEF ops, Leaves

-----------------------------------------------------------------------------
(***************************************************************************)
(* The operations that the programs do between these.                      *)
(***************************************************************************)

\* recv()'s buffer.
LEMMA BufferTaken ==
  ASSUME NEW p, NEW m, NEW L, NEW out
  PROVE  Leaves(p, m, L, out, <<calloc("new_rec_pkt", TunnelSize)>>,
                L \cup {"new_rec_pkt"}, out)
<1> DEFINE ops == <<calloc("new_rec_pkt", TunnelSize)>>
           h == Holding(p, m, L, out)
<1>1. /\ "new_rec_pkt" \in Buffer
      /\ 174 \in Int
      /\ Room(p, m, "new_rec_pkt") = 174
      /\ 174 \in Int
  BY Sizes DEF Buffer, Room
<1>2. /\ Len(ops) = 1
      /\ ops[1] = calloc("new_rec_pkt", 174)
  BY Sizes
<1>3. ops \in Seq(Operation)
  BY <1>1, Sizes DEF Operation, calloc, access, free
<1> HIDE DEF ops, h
<1>4. PICK after : RunsTo(after, h, ops, 1, Executed(h, ops))
  <2>1. Len(ops) \in Nat
    BY <1>2
  <2>2. \E after : RunsTo(after, h, ops, Len(ops), Executed(h, ops))
    BY <2>1, Steps
  <2>3. QED  BY <1>2, <2>2
<1>5. /\ after[0] = h /\ Executed(h, ops) = after[1]
      /\ after[1] = Operate(after[0], ops[1])
  BY <1>4 DEF RunsTo
<1> USE DEF h
<1>6. after[1] = Holding(p, m, L \cup {"new_rec_pkt"}, out)
  BY <1>1, <1>2, <1>5, Calloc
<1>7. QED  BY <1>3, <1>5, <1>6 DEF ops, Leaves

\* create_packets() frees the packet when it has encrypted it.
LEMMA PacketEncrypted ==
  ASSUME NEW p, NEW m, NEW L, NEW out, NEW n \in 0..128,
         "new_packet" \in L
  PROVE  Leaves(p, m, L, out, <<calloc("packet", TunnelSize),
                access("new_packet", TunnelSize),
                          access("packet", TunnelSize),
                          access("packet", Payload + Clamped(n) + 1),
                          free("new_packet")>>, (L \cup {"packet"}) \ {"new_packet"}, out)
<1> DEFINE ops == <<calloc("packet", TunnelSize), access("new_packet", TunnelSize),
                          access("packet", TunnelSize),
                          access("packet", Payload + Clamped(n) + 1),
                          free("new_packet")>>
           h == Holding(p, m, L, out)
<1>1. /\ "new_packet" \in Buffer
      /\ "packet" \in Buffer
      /\ 174 \in Int
      /\ 46 + Clamped(n) + 1 \in Int
      /\ Room(p, m, "new_packet") = 174
      /\ Room(p, m, "packet") = 174
      /\ 174 \in Int
      /\ 174 <= 174
      /\ 174 <= 174
      /\ 46 + Clamped(n) + 1 <= 174
  BY Sizes DEF Buffer, Room, Clamped
<1>2. /\ Len(ops) = 5
      /\ ops[1] = calloc("packet", 174)
      /\ ops[2] = access("new_packet", 174)
      /\ ops[3] = access("packet", 174)
      /\ ops[4] = access("packet", 46 + Clamped(n) + 1)
      /\ ops[5] = free("new_packet")
  BY Sizes
<1>3. ops \in Seq(Operation)
  BY <1>1, Sizes DEF Operation, calloc, access, free
<1> HIDE DEF ops, h
<1>4. PICK after : RunsTo(after, h, ops, 5, Executed(h, ops))
  <2>1. Len(ops) \in Nat
    BY <1>2
  <2>2. \E after : RunsTo(after, h, ops, Len(ops), Executed(h, ops))
    BY <2>1, Steps
  <2>3. QED  BY <1>2, <2>2
<1>5. /\ after[0] = h /\ Executed(h, ops) = after[5]
      /\ after[1] = Operate(after[0], ops[1])
      /\ after[2] = Operate(after[1], ops[2])
      /\ after[3] = Operate(after[2], ops[3])
      /\ after[4] = Operate(after[3], ops[4])
      /\ after[5] = Operate(after[4], ops[5])
  BY <1>4 DEF RunsTo
<1> USE DEF h
<1>6. after[1] = Holding(p, m, L \cup {"packet"}, out)
  BY <1>1, <1>2, <1>5, Calloc
<1>7. after[2] = Holding(p, m, L \cup {"packet"}, out)
  BY <1>1, <1>2, <1>5, <1>6, Access
<1>8. after[3] = Holding(p, m, L \cup {"packet"}, out)
  BY <1>1, <1>2, <1>5, <1>7, Access
<1>9. after[4] = Holding(p, m, L \cup {"packet"}, out)
  BY <1>1, <1>2, <1>5, <1>8, Access
<1>10. after[5] = Holding(p, m, (L \cup {"packet"}) \ {"new_packet"}, out)
  BY <1>1, <1>2, <1>5, <1>9, Free
<1>11. QED  BY <1>3, <1>5, <1>10 DEF ops, Leaves

\* send() of a packet, and free().
LEMMA PacketSent ==
  ASSUME NEW p, NEW m, NEW L, NEW out, NEW n \in 0..128,
         "packet" \in L
  PROVE  Leaves(p, m, L, out, <<access("packet", Payload + n), free("packet")>>,
                L \ {"packet"}, out)
<1> DEFINE ops == <<access("packet", Payload + n), free("packet")>>
           h == Holding(p, m, L, out)
<1>1. /\ "packet" \in Buffer
      /\ 46 + n \in Int
      /\ Room(p, m, "packet") = 174
      /\ 174 \in Int
      /\ 46 + n <= 174
  BY Sizes DEF Buffer, Room
<1>2. /\ Len(ops) = 2
      /\ ops[1] = access("packet", 46 + n)
      /\ ops[2] = free("packet")
  BY Sizes
<1>3. ops \in Seq(Operation)
  BY <1>1, Sizes DEF Operation, calloc, access, free
<1> HIDE DEF ops, h
<1>4. PICK after : RunsTo(after, h, ops, 2, Executed(h, ops))
  <2>1. Len(ops) \in Nat
    BY <1>2
  <2>2. \E after : RunsTo(after, h, ops, Len(ops), Executed(h, ops))
    BY <2>1, Steps
  <2>3. QED  BY <1>2, <2>2
<1>5. /\ after[0] = h /\ Executed(h, ops) = after[2]
      /\ after[1] = Operate(after[0], ops[1])
      /\ after[2] = Operate(after[1], ops[2])
  BY <1>4 DEF RunsTo
<1> USE DEF h
<1>6. after[1] = Holding(p, m, L, out)
  BY <1>1, <1>2, <1>5, Access
<1>7. after[2] = Holding(p, m, L \ {"packet"}, out)
  BY <1>1, <1>2, <1>5, <1>6, Free
<1>8. QED  BY <1>3, <1>5, <1>7 DEF ops, Leaves

\* send() of a packet that fails.
LEMMA PacketKept ==
  ASSUME NEW p, NEW m, NEW L, NEW out, NEW n \in 0..128,
         "packet" \in L
  PROVE  Leaves(p, m, L, out, <<access("packet", Payload + n)>>, L, out)
<1> DEFINE ops == <<access("packet", Payload + n)>>
           h == Holding(p, m, L, out)
<1>1. /\ "packet" \in Buffer
      /\ 46 + n \in Int
      /\ Room(p, m, "packet") = 174
      /\ 174 \in Int
      /\ 46 + n <= 174
  BY Sizes DEF Buffer, Room
<1>2. /\ Len(ops) = 1
      /\ ops[1] = access("packet", 46 + n)
  BY Sizes
<1>3. ops \in Seq(Operation)
  BY <1>1, Sizes DEF Operation, calloc, access, free
<1> HIDE DEF ops, h
<1>4. PICK after : RunsTo(after, h, ops, 1, Executed(h, ops))
  <2>1. Len(ops) \in Nat
    BY <1>2
  <2>2. \E after : RunsTo(after, h, ops, Len(ops), Executed(h, ops))
    BY <2>1, Steps
  <2>3. QED  BY <1>2, <2>2
<1>5. /\ after[0] = h /\ Executed(h, ops) = after[1]
      /\ after[1] = Operate(after[0], ops[1])
  BY <1>4 DEF RunsTo
<1> USE DEF h
<1>6. after[1] = Holding(p, m, L, out)
  BY <1>1, <1>2, <1>5, Access
<1>7. QED  BY <1>3, <1>5, <1>6 DEF ops, Leaves

\* The client frees the response.
LEMMA ResponseFreed ==
  ASSUME NEW p, NEW m, NEW L, NEW out,
         "resp_pkt" \in L
  PROVE  Leaves(p, m, L, out, <<free("resp_pkt")>>, L \ {"resp_pkt"}, out)
<1> DEFINE ops == <<free("resp_pkt")>>
           h == Holding(p, m, L, out)
<1>1. /\ "resp_pkt" \in Buffer
      /\ Room(p, m, "resp_pkt") = 174
      /\ 174 \in Int
  BY Sizes DEF Buffer, Room
<1>2. /\ Len(ops) = 1
      /\ ops[1] = free("resp_pkt")
  BY Sizes
<1>3. ops \in Seq(Operation)
  BY <1>1, Sizes DEF Operation, calloc, access, free
<1> HIDE DEF ops, h
<1>4. PICK after : RunsTo(after, h, ops, 1, Executed(h, ops))
  <2>1. Len(ops) \in Nat
    BY <1>2
  <2>2. \E after : RunsTo(after, h, ops, Len(ops), Executed(h, ops))
    BY <2>1, Steps
  <2>3. QED  BY <1>2, <2>2
<1>5. /\ after[0] = h /\ Executed(h, ops) = after[1]
      /\ after[1] = Operate(after[0], ops[1])
  BY <1>4 DEF RunsTo
<1> USE DEF h
<1>6. after[1] = Holding(p, m, L \ {"resp_pkt"}, out)
  BY <1>1, <1>2, <1>5, Free
<1>7. QED  BY <1>3, <1>5, <1>6 DEF ops, Leaves

\* The server's text of the address it dials.
LEMMA Dialled ==
  ASSUME NEW m, NEW L, NEW out,
         "rec_packet" \in L
  PROVE  Leaves("server", m, L, out,
                <<calloc("dest_ip", StringSize), access("rec_packet", TunnelSize),
                          access("dest_ip", StringSize)>>, L \cup {"dest_ip"}, out)
<1> DEFINE ops == <<calloc("dest_ip", StringSize), access("rec_packet", TunnelSize),
                          access("dest_ip", StringSize)>>
           h == Holding("server", m, L, out)
<1>1. /\ "dest_ip" \in Buffer
      /\ "rec_packet" \in Buffer
      /\ 16 \in Int
      /\ 174 \in Int
      /\ Room("server", m, "dest_ip") = 16
      /\ Room("server", m, "rec_packet") = 174
      /\ 16 \in Int
      /\ 174 \in Int
      /\ 174 <= 174
      /\ 16 <= 16
  BY Sizes DEF Buffer, Room
<1>2. /\ Len(ops) = 3
      /\ ops[1] = calloc("dest_ip", 16)
      /\ ops[2] = access("rec_packet", 174)
      /\ ops[3] = access("dest_ip", 16)
  BY Sizes
<1>3. ops \in Seq(Operation)
  BY <1>1, Sizes DEF Operation, calloc, access, free
<1> HIDE DEF ops, h
<1>4. PICK after : RunsTo(after, h, ops, 3, Executed(h, ops))
  <2>1. Len(ops) \in Nat
    BY <1>2
  <2>2. \E after : RunsTo(after, h, ops, Len(ops), Executed(h, ops))
    BY <2>1, Steps
  <2>3. QED  BY <1>2, <2>2
<1>5. /\ after[0] = h /\ Executed(h, ops) = after[3]
      /\ after[1] = Operate(after[0], ops[1])
      /\ after[2] = Operate(after[1], ops[2])
      /\ after[3] = Operate(after[2], ops[3])
  BY <1>4 DEF RunsTo
<1> USE DEF h
<1>6. after[1] = Holding("server", m, L \cup {"dest_ip"}, out)
  BY <1>1, <1>2, <1>5, Calloc
<1>7. after[2] = Holding("server", m, L \cup {"dest_ip"}, out)
  BY <1>1, <1>2, <1>5, <1>6, Access
<1>8. after[3] = Holding("server", m, L \cup {"dest_ip"}, out)
  BY <1>1, <1>2, <1>5, <1>7, Access
<1>9. QED  BY <1>3, <1>5, <1>8 DEF ops, Leaves

\* It is freed when the server has dialled.
LEMMA TextFreed ==
  ASSUME NEW p, NEW m, NEW L, NEW out,
         "dest_ip" \in L
  PROVE  Leaves(p, m, L, out, <<free("dest_ip")>>, L \ {"dest_ip"}, out)
<1> DEFINE ops == <<free("dest_ip")>>
           h == Holding(p, m, L, out)
<1>1. /\ "dest_ip" \in Buffer
      /\ Room(p, m, "dest_ip") = 16
      /\ 16 \in Int
  BY Sizes DEF Buffer, Room
<1>2. /\ Len(ops) = 1
      /\ ops[1] = free("dest_ip")
  BY Sizes
<1>3. ops \in Seq(Operation)
  BY <1>1, Sizes DEF Operation, calloc, access, free
<1> HIDE DEF ops, h
<1>4. PICK after : RunsTo(after, h, ops, 1, Executed(h, ops))
  <2>1. Len(ops) \in Nat
    BY <1>2
  <2>2. \E after : RunsTo(after, h, ops, Len(ops), Executed(h, ops))
    BY <2>1, Steps
  <2>3. QED  BY <1>2, <2>2
<1>5. /\ after[0] = h /\ Executed(h, ops) = after[1]
      /\ after[1] = Operate(after[0], ops[1])
  BY <1>4 DEF RunsTo
<1> USE DEF h
<1>6. after[1] = Holding(p, m, L \ {"dest_ip"}, out)
  BY <1>1, <1>2, <1>5, Free
<1>7. QED  BY <1>3, <1>5, <1>6 DEF ops, Leaves

\* The server's send() that fails.
LEMMA RequestKept ==
  ASSUME NEW m, NEW L, NEW out,
         "rec_packet" \in L
  PROVE  Leaves("server", m, L, out, <<access("rec_packet", TunnelSize)>>, L, out)
<1> DEFINE ops == <<access("rec_packet", TunnelSize)>>
           h == Holding("server", m, L, out)
<1>1. /\ "rec_packet" \in Buffer
      /\ 174 \in Int
      /\ Room("server", m, "rec_packet") = 174
      /\ 174 \in Int
      /\ 174 <= 174
  BY Sizes DEF Buffer, Room
<1>2. /\ Len(ops) = 1
      /\ ops[1] = access("rec_packet", 174)
  BY Sizes
<1>3. ops \in Seq(Operation)
  BY <1>1, Sizes DEF Operation, calloc, access, free
<1> HIDE DEF ops, h
<1>4. PICK after : RunsTo(after, h, ops, 1, Executed(h, ops))
  <2>1. Len(ops) \in Nat
    BY <1>2
  <2>2. \E after : RunsTo(after, h, ops, Len(ops), Executed(h, ops))
    BY <2>1, Steps
  <2>3. QED  BY <1>2, <2>2
<1>5. /\ after[0] = h /\ Executed(h, ops) = after[1]
      /\ after[1] = Operate(after[0], ops[1])
  BY <1>4 DEF RunsTo
<1> USE DEF h
<1>6. after[1] = Holding("server", m, L, out)
  BY <1>1, <1>2, <1>5, Access
<1>7. QED  BY <1>3, <1>5, <1>6 DEF ops, Leaves

\* The server's send(), and free().
LEMMA RequestSent ==
  ASSUME NEW m, NEW L, NEW out,
         "rec_packet" \in L
  PROVE  Leaves("server", m, L, out,
                <<access("rec_packet", TunnelSize), free("rec_packet")>>,
                L \ {"rec_packet"}, out)
<1> DEFINE ops == <<access("rec_packet", TunnelSize), free("rec_packet")>>
           h == Holding("server", m, L, out)
<1>1. /\ "rec_packet" \in Buffer
      /\ 174 \in Int
      /\ Room("server", m, "rec_packet") = 174
      /\ 174 \in Int
      /\ 174 <= 174
  BY Sizes DEF Buffer, Room
<1>2. /\ Len(ops) = 2
      /\ ops[1] = access("rec_packet", 174)
      /\ ops[2] = free("rec_packet")
  BY Sizes
<1>3. ops \in Seq(Operation)
  BY <1>1, Sizes DEF Operation, calloc, access, free
<1> HIDE DEF ops, h
<1>4. PICK after : RunsTo(after, h, ops, 2, Executed(h, ops))
  <2>1. Len(ops) \in Nat
    BY <1>2
  <2>2. \E after : RunsTo(after, h, ops, Len(ops), Executed(h, ops))
    BY <2>1, Steps
  <2>3. QED  BY <1>2, <2>2
<1>5. /\ after[0] = h /\ Executed(h, ops) = after[2]
      /\ after[1] = Operate(after[0], ops[1])
      /\ after[2] = Operate(after[1], ops[2])
  BY <1>4 DEF RunsTo
<1> USE DEF h
<1>6. after[1] = Holding("server", m, L, out)
  BY <1>1, <1>2, <1>5, Access
<1>7. after[2] = Holding("server", m, L \ {"rec_packet"}, out)
  BY <1>1, <1>2, <1>5, <1>6, Free
<1>8. QED  BY <1>3, <1>5, <1>7 DEF ops, Leaves

\* The response, the tunnel packet around it, and the text of the client's address.
LEMMA Wrapped ==
  ASSUME NEW p, NEW m, NEW L, NEW out
  PROVE  Leaves(p, m, L, out, <<calloc("rec_packet_dest", TunnelSize),
                calloc("enc_pkt", TunnelSize),
                          access("rec_packet_dest", PlainSize),
                          access("enc_pkt", TunnelSize),
                          calloc("client_str_ip", StringSize),
                          access("client_str_ip", StringSize)>>,
                          ((L \cup {"rec_packet_dest"}) \cup {"enc_pkt"}) \cup {"client_str_ip"}, out)
<1> DEFINE ops == <<calloc("rec_packet_dest", TunnelSize), calloc("enc_pkt", TunnelSize),
                          access("rec_packet_dest", PlainSize),
                          access("enc_pkt", TunnelSize),
                          calloc("client_str_ip", StringSize),
                          access("client_str_ip", StringSize)>>
           h == Holding(p, m, L, out)
<1>1. /\ "client_str_ip" \in Buffer
      /\ "enc_pkt" \in Buffer
      /\ "rec_packet_dest" \in Buffer
      /\ 16 \in Int
      /\ 168 \in Int
      /\ 174 \in Int
      /\ Room(p, m, "client_str_ip") = 16
      /\ Room(p, m, "enc_pkt") = 174
      /\ Room(p, m, "rec_packet_dest") = 174
      /\ 16 \in Int
      /\ 174 \in Int
      /\ 168 <= 174
      /\ 174 <= 174
      /\ 16 <= 16
  BY Sizes DEF Buffer, Room
<1>2. /\ Len(ops) = 6
      /\ ops[1] = calloc("rec_packet_dest", 174)
      /\ ops[2] = calloc("enc_pkt", 174)
      /\ ops[3] = access("rec_packet_dest", 168)
      /\ ops[4] = access("enc_pkt", 174)
      /\ ops[5] = calloc("client_str_ip", 16)
      /\ ops[6] = access("client_str_ip", 16)
  BY Sizes
<1>3. ops \in Seq(Operation)
  BY <1>1, Sizes DEF Operation, calloc, access, free
<1> HIDE DEF ops, h
<1>4. PICK after : RunsTo(after, h, ops, 6, Executed(h, ops))
  <2>1. Len(ops) \in Nat
    BY <1>2
  <2>2. \E after : RunsTo(after, h, ops, Len(ops), Executed(h, ops))
    BY <2>1, Steps
  <2>3. QED  BY <1>2, <2>2
<1>5. /\ after[0] = h /\ Executed(h, ops) = after[6]
      /\ after[1] = Operate(after[0], ops[1])
      /\ after[2] = Operate(after[1], ops[2])
      /\ after[3] = Operate(after[2], ops[3])
      /\ after[4] = Operate(after[3], ops[4])
      /\ after[5] = Operate(after[4], ops[5])
      /\ after[6] = Operate(after[5], ops[6])
  BY <1>4 DEF RunsTo
<1> USE DEF h
<1>6. after[1] = Holding(p, m, L \cup {"rec_packet_dest"}, out)
  BY <1>1, <1>2, <1>5, Calloc
<1>7. after[2] = Holding(p, m, (L \cup {"rec_packet_dest"}) \cup {"enc_pkt"}, out)
  BY <1>1, <1>2, <1>5, <1>6, Calloc
<1>8. after[3] = Holding(p, m, (L \cup {"rec_packet_dest"}) \cup {"enc_pkt"}, out)
  BY <1>1, <1>2, <1>5, <1>7, Access
<1>9. after[4] = Holding(p, m, (L \cup {"rec_packet_dest"}) \cup {"enc_pkt"}, out)
  BY <1>1, <1>2, <1>5, <1>8, Access
<1>10. after[5] = Holding(p, m, ((L \cup {"rec_packet_dest"}) \cup {"enc_pkt"}) \cup {"client_str_ip"}, out)
  BY <1>1, <1>2, <1>5, <1>9, Calloc
<1>11. after[6] = Holding(p, m, ((L \cup {"rec_packet_dest"}) \cup {"enc_pkt"}) \cup {"client_str_ip"}, out)
  BY <1>1, <1>2, <1>5, <1>10, Access
<1>12. QED  BY <1>3, <1>5, <1>11 DEF ops, Leaves

\* "Freeing any allocs".
LEMMA AllocsFreed ==
  ASSUME NEW p, NEW m, NEW L, NEW out,
         "rec_packet_dest" \in L, "client_str_ip" \in L
  PROVE  Leaves(p, m, L, out, <<free("rec_packet_dest"), free("client_str_ip")>>,
                (L \ {"rec_packet_dest"}) \ {"client_str_ip"}, out)
<1> DEFINE ops == <<free("rec_packet_dest"), free("client_str_ip")>>
           h == Holding(p, m, L, out)
<1>1. /\ "client_str_ip" \in Buffer
      /\ "rec_packet_dest" \in Buffer
      /\ Room(p, m, "client_str_ip") = 16
      /\ Room(p, m, "rec_packet_dest") = 174
      /\ 16 \in Int
      /\ 174 \in Int
  BY Sizes DEF Buffer, Room
<1>2. /\ Len(ops) = 2
      /\ ops[1] = free("rec_packet_dest")
      /\ ops[2] = free("client_str_ip")
  BY Sizes
<1>3. ops \in Seq(Operation)
  BY <1>1, Sizes DEF Operation, calloc, access, free
<1> HIDE DEF ops, h
<1>4. PICK after : RunsTo(after, h, ops, 2, Executed(h, ops))
  <2>1. Len(ops) \in Nat
    BY <1>2
  <2>2. \E after : RunsTo(after, h, ops, Len(ops), Executed(h, ops))
    BY <2>1, Steps
  <2>3. QED  BY <1>2, <2>2
<1>5. /\ after[0] = h /\ Executed(h, ops) = after[2]
      /\ after[1] = Operate(after[0], ops[1])
      /\ after[2] = Operate(after[1], ops[2])
  BY <1>4 DEF RunsTo
<1> USE DEF h
<1>6. after[1] = Holding(p, m, L \ {"rec_packet_dest"}, out)
  BY <1>1, <1>2, <1>5, Free
<1>7. after[2] = Holding(p, m, (L \ {"rec_packet_dest"}) \ {"client_str_ip"}, out)
  BY <1>1, <1>2, <1>5, <1>6, Free
<1>8. QED  BY <1>3, <1>5, <1>7 DEF ops, Leaves

\* serv_cli_encrypt_free() frees both packets after send().
LEMMA SentFreed ==
  ASSUME NEW p, NEW m \in Int, NEW L, NEW out,
         "enc_pkt" \in L, "encrypt_packet" \in L
  PROVE  Leaves(p, m, L, out, FreeSent, (L \ {"enc_pkt"}) \ {"encrypt_packet"}, out)
<1> DEFINE ops == FreeSent
           h == Holding(p, m, L, out)
<1>1. /\ "enc_pkt" \in Buffer
      /\ "encrypt_packet" \in Buffer
      /\ Room(p, m, "enc_pkt") = 174
      /\ Room(p, m, "encrypt_packet") = 46 + m
      /\ 174 \in Int
      /\ 46 + m \in Int
  BY Sizes DEF Buffer, Room
<1>2. /\ Len(ops) = 2
      /\ ops[1] = free("enc_pkt")
      /\ ops[2] = free("encrypt_packet")
  BY Sizes DEF FreeSent
<1>3. ops \in Seq(Operation)
  BY <1>1, Sizes DEF FreeSent, Operation, calloc, access, free
<1> HIDE DEF ops, h
<1>4. PICK after : RunsTo(after, h, ops, 2, Executed(h, ops))
  <2>1. Len(ops) \in Nat
    BY <1>2
  <2>2. \E after : RunsTo(after, h, ops, Len(ops), Executed(h, ops))
    BY <2>1, Steps
  <2>3. QED  BY <1>2, <2>2
<1>5. /\ after[0] = h /\ Executed(h, ops) = after[2]
      /\ after[1] = Operate(after[0], ops[1])
      /\ after[2] = Operate(after[1], ops[2])
  BY <1>4 DEF RunsTo
<1> USE DEF h
<1>6. after[1] = Holding(p, m, L \ {"enc_pkt"}, out)
  BY <1>1, <1>2, <1>5, Free
<1>7. after[2] = Holding(p, m, (L \ {"enc_pkt"}) \ {"encrypt_packet"}, out)
  BY <1>1, <1>2, <1>5, <1>6, Free
<1>8. QED  BY <1>3, <1>5, <1>7 DEF ops, Leaves

\* The destination's buffer has no room for a GRE header.
LEMMA RequestTaken ==
  ASSUME NEW m, NEW L, NEW out
  PROVE  Leaves("destination", m, L, out, <<calloc("rec_packet", PlainSize)>>,
                L \cup {"rec_packet"}, out)
<1> DEFINE ops == <<calloc("rec_packet", PlainSize)>>
           h == Holding("destination", m, L, out)
<1>1. /\ "rec_packet" \in Buffer
      /\ 168 \in Int
      /\ Room("destination", m, "rec_packet") = 168
      /\ 168 \in Int
  BY Sizes DEF Buffer, Room
<1>2. /\ Len(ops) = 1
      /\ ops[1] = calloc("rec_packet", 168)
  BY Sizes
<1>3. ops \in Seq(Operation)
  BY <1>1, Sizes DEF Operation, calloc, access, free
<1> HIDE DEF ops, h
<1>4. PICK after : RunsTo(after, h, ops, 1, Executed(h, ops))
  <2>1. Len(ops) \in Nat
    BY <1>2
  <2>2. \E after : RunsTo(after, h, ops, Len(ops), Executed(h, ops))
    BY <2>1, Steps
  <2>3. QED  BY <1>2, <2>2
<1>5. /\ after[0] = h /\ Executed(h, ops) = after[1]
      /\ after[1] = Operate(after[0], ops[1])
  BY <1>4 DEF RunsTo
<1> USE DEF h
<1>6. after[1] = Holding("destination", m, L \cup {"rec_packet"}, out)
  BY <1>1, <1>2, <1>5, Calloc
<1>7. QED  BY <1>3, <1>5, <1>6 DEF ops, Leaves

\* The text of the caller's address.
LEMMA CallerNamed ==
  ASSUME NEW p, NEW m, NEW L, NEW out
  PROVE  Leaves(p, m, L, out, <<calloc("client_ip_str", StringSize),
                access("client_ip_str", StringSize)>>, L \cup {"client_ip_str"}, out)
<1> DEFINE ops == <<calloc("client_ip_str", StringSize),
                    access("client_ip_str", StringSize)>>
           h == Holding(p, m, L, out)
<1>1. /\ "client_ip_str" \in Buffer
      /\ 16 \in Int
      /\ Room(p, m, "client_ip_str") = 16
      /\ 16 \in Int
      /\ 16 <= 16
  BY Sizes DEF Buffer, Room
<1>2. /\ Len(ops) = 2
      /\ ops[1] = calloc("client_ip_str", 16)
      /\ ops[2] = access("client_ip_str", 16)
  BY Sizes
<1>3. ops \in Seq(Operation)
  BY <1>1, Sizes DEF Operation, calloc, access, free
<1> HIDE DEF ops, h
<1>4. PICK after : RunsTo(after, h, ops, 2, Executed(h, ops))
  <2>1. Len(ops) \in Nat
    BY <1>2
  <2>2. \E after : RunsTo(after, h, ops, Len(ops), Executed(h, ops))
    BY <2>1, Steps
  <2>3. QED  BY <1>2, <2>2
<1>5. /\ after[0] = h /\ Executed(h, ops) = after[2]
      /\ after[1] = Operate(after[0], ops[1])
      /\ after[2] = Operate(after[1], ops[2])
  BY <1>4 DEF RunsTo
<1> USE DEF h
<1>6. after[1] = Holding(p, m, L \cup {"client_ip_str"}, out)
  BY <1>1, <1>2, <1>5, Calloc
<1>7. after[2] = Holding(p, m, L \cup {"client_ip_str"}, out)
  BY <1>1, <1>2, <1>5, <1>6, Access
<1>8. QED  BY <1>3, <1>5, <1>7 DEF ops, Leaves

\* The response is sent from behind its GRE header.
LEMMA ResponseSent ==
  ASSUME NEW p, NEW m, NEW L, NEW out, NEW n \in 0..122,
         "response_pkt" \in L
  PROVE  Leaves(p, m, L, out, <<access("response_pkt", GreSize + Payload + n)>>, L, out)
<1> DEFINE ops == <<access("response_pkt", GreSize + Payload + n)>>
           h == Holding(p, m, L, out)
<1>1. /\ "response_pkt" \in Buffer
      /\ 6 + 46 + n \in Int
      /\ Room(p, m, "response_pkt") = 174
      /\ 174 \in Int
      /\ 6 + 46 + n <= 174
  BY Sizes DEF Buffer, Room
<1>2. /\ Len(ops) = 1
      /\ ops[1] = access("response_pkt", 6 + 46 + n)
  BY Sizes
<1>3. ops \in Seq(Operation)
  BY <1>1, Sizes DEF Operation, calloc, access, free
<1> HIDE DEF ops, h
<1>4. PICK after : RunsTo(after, h, ops, 1, Executed(h, ops))
  <2>1. Len(ops) \in Nat
    BY <1>2
  <2>2. \E after : RunsTo(after, h, ops, Len(ops), Executed(h, ops))
    BY <2>1, Steps
  <2>3. QED  BY <1>2, <2>2
<1>5. /\ after[0] = h /\ Executed(h, ops) = after[1]
      /\ after[1] = Operate(after[0], ops[1])
  BY <1>4 DEF RunsTo
<1> USE DEF h
<1>6. after[1] = Holding(p, m, L, out)
  BY <1>1, <1>2, <1>5, Access
<1>7. QED  BY <1>3, <1>5, <1>6 DEF ops, Leaves

\* The destination frees all it has.
LEMMA RespondedFreed ==
  ASSUME NEW m, NEW L, NEW out,
         "rec_packet" \in L, "response_pkt" \in L, "client_ip_str" \in L
  PROVE  Leaves("destination", m, L, out, <<free("rec_packet"), free("response_pkt"),
                          free("client_ip_str")>>,
                          ((L \ {"rec_packet"}) \ {"response_pkt"}) \ {"client_ip_str"},
                          out)
<1> DEFINE ops == <<free("rec_packet"), free("response_pkt"),
                          free("client_ip_str")>>
           h == Holding("destination", m, L, out)
<1>1. /\ "client_ip_str" \in Buffer
      /\ "rec_packet" \in Buffer
      /\ "response_pkt" \in Buffer
      /\ Room("destination", m, "client_ip_str") = 16
      /\ Room("destination", m, "rec_packet") = 168
      /\ Room("destination", m, "response_pkt") = 174
      /\ 16 \in Int
      /\ 168 \in Int
      /\ 174 \in Int
  BY Sizes DEF Buffer, Room
<1>2. /\ Len(ops) = 3
      /\ ops[1] = free("rec_packet")
      /\ ops[2] = free("response_pkt")
      /\ ops[3] = free("client_ip_str")
  BY Sizes
<1>3. ops \in Seq(Operation)
  BY <1>1, Sizes DEF Operation, calloc, access, free
<1> HIDE DEF ops, h
<1>4. PICK after : RunsTo(after, h, ops, 3, Executed(h, ops))
  <2>1. Len(ops) \in Nat
    BY <1>2
  <2>2. \E after : RunsTo(after, h, ops, Len(ops), Executed(h, ops))
    BY <2>1, Steps
  <2>3. QED  BY <1>2, <2>2
<1>5. /\ after[0] = h /\ Executed(h, ops) = after[3]
      /\ after[1] = Operate(after[0], ops[1])
      /\ after[2] = Operate(after[1], ops[2])
      /\ after[3] = Operate(after[2], ops[3])
  BY <1>4 DEF RunsTo
<1> USE DEF h
<1>6. after[1] = Holding("destination", m, L \ {"rec_packet"}, out)
  BY <1>1, <1>2, <1>5, Free
<1>7. after[2] = Holding("destination", m, (L \ {"rec_packet"}) \ {"response_pkt"}, out)
  BY <1>1, <1>2, <1>5, <1>6, Free
<1>8. after[3] = Holding("destination", m,
                         ((L \ {"rec_packet"}) \ {"response_pkt"}) \ {"client_ip_str"}, out)
  BY <1>1, <1>2, <1>5, <1>7, Free
<1>9. QED  BY <1>3, <1>5, <1>8 DEF ops, Leaves

-----------------------------------------------------------------------------
(***************************************************************************)
(* What is allocated after each call of the programs.                      *)
(***************************************************************************)

\* A path without operations.
LEMMA Idle ==
  ASSUME NEW h
  PROVE  Executed(h, <<>>) = h
<1>1. Len(<<>>) = 0
  OBVIOUS
<1>2. PICK after : RunsTo(after, h, <<>>, Len(<<>>), Executed(h, <<>>))
  BY <1>1, Steps
<1>3. QED  BY <1>1, <1>2 DEF RunsTo

\* create_packets() leaves the encrypted packet.
LEMMA Created ==
  ASSUME NEW n \in 0..128, NEW out
  PROVE  Leaves("client", 0, {}, out, create_packets(n), {"packet"}, out)
<1> DEFINE rest == <<calloc("packet", TunnelSize), access("new_packet", TunnelSize),
                   access("packet", TunnelSize), access("packet", Payload + Clamped(n) + 1),
                   free("new_packet")>>
<1>1. Leaves("client", 0, {}, out, MakePacket("new_packet", n), {"new_packet"}, out)
  <2>1. Room("client", 0, "new_packet") = 174 /\ "new_packet" \in Buffer
    BY DEF Room, Buffer
  <2>2. Leaves("client", 0, {}, out, MakePacket("new_packet", n), {} \cup {"new_packet"},
               out)
    BY <2>1, PacketMade
  <2>3. {} \cup {"new_packet"} = {"new_packet"}
    OBVIOUS
  <2>4. QED  BY <2>2, <2>3
<1>2. Leaves("client", 0, {"new_packet"}, out, rest, {"packet"}, out)
  <2>1. Leaves("client", 0, {"new_packet"}, out, rest,
               ({"new_packet"} \cup {"packet"}) \ {"new_packet"}, out)
    BY PacketEncrypted
  <2>2. ({"new_packet"} \cup {"packet"}) \ {"new_packet"} = {"packet"}
    OBVIOUS
  <2>3. QED  BY <2>1, <2>2
<1>3. Leaves("client", 0, {}, out, MakePacket("new_packet", n) \o rest, {"packet"}, out)
  BY <1>1, <1>2, LeavesNext
<1>4. QED  BY <1>3 DEF create_packets

\* The client prints it.
LEMMA ClientCreated ==
  ASSUME NEW n \in 0..128, NEW out
  PROVE  Leaves("client", 0, {}, out, create_packets(n)
                \o PrintPacket("packet", Payload, Clamped(n)), {"packet"}, out)
<1>1. Leaves("client", 0, {}, out, create_packets(n), {"packet"}, out)
  BY Created
<1>2. Leaves("client", 0, {"packet"}, out, PrintPacket("packet", Payload, Clamped(n)),
             {"packet"}, out)
  BY Printed, Sizes DEF Room, Buffer, Clamped
<1>3. Leaves("client", 0, {}, out, create_packets(n)
             \o PrintPacket("packet", Payload, Clamped(n)), {"packet"}, out)
  BY <1>1, <1>2, LeavesNext
<1>4. QED  BY <1>3

\* The client decrypts, prints and frees the response, whatever it kept.
LEMMA ClientReceived ==
  ASSUME NEW n \in 0..127, NEW out, NEW L \in SUBSET {"packet"}
  PROVE  Leaves("client", 0, L, out, <<calloc("new_rec_pkt", TunnelSize)>>
                \o Decrypt("resp_pkt", n)
           \o PrintPacket("resp_pkt", Payload, n) \o <<free("resp_pkt")>>, L, out)
<1>1. Leaves("client", 0, L, out, <<calloc("new_rec_pkt", TunnelSize)>>,
             L \cup {"new_rec_pkt"}, out)
  BY BufferTaken
<1>2. Leaves("client", 0, L \cup {"new_rec_pkt"}, out, Decrypt("resp_pkt", n),
             L \cup {"resp_pkt"}, out)
  <2>1. Room("client", 0, "resp_pkt") = 174 /\ "resp_pkt" \in Buffer
    BY DEF Room, Buffer
  <2>2. Leaves("client", 0, L \cup {"new_rec_pkt"}, out, Decrypt("resp_pkt", n),
               ((L \cup {"new_rec_pkt"}) \cup {"resp_pkt"}) \ {"new_rec_pkt"}, out)
    BY <2>1, Decrypted
  <2>3. ((L \cup {"new_rec_pkt"}) \cup {"resp_pkt"}) \ {"new_rec_pkt"} = L \cup {"resp_pkt"}
    OBVIOUS
  <2>4. QED  BY <2>2, <2>3
<1>3. Leaves("client", 0, L, out, <<calloc("new_rec_pkt", TunnelSize)>>
             \o Decrypt("resp_pkt", n), L \cup {"resp_pkt"}, out)
  BY <1>1, <1>2, LeavesNext
<1>4. Leaves("client", 0, L \cup {"resp_pkt"}, out, PrintPacket("resp_pkt", Payload, n),
             L \cup {"resp_pkt"}, out)
  BY Printed, Sizes DEF Room, Buffer
<1>5. Leaves("client", 0, L, out, <<calloc("new_rec_pkt", TunnelSize)>>
             \o Decrypt("resp_pkt", n) \o PrintPacket("resp_pkt", Payload, n),
             L \cup {"resp_pkt"}, out)
  BY <1>3, <1>4, LeavesNext
<1>6. Leaves("client", 0, L \cup {"resp_pkt"}, out, <<free("resp_pkt")>>, L, out)
  <2>1. Leaves("client", 0, L \cup {"resp_pkt"}, out, <<free("resp_pkt")>>,
               (L \cup {"resp_pkt"}) \ {"resp_pkt"}, out)
    BY ResponseFreed
  <2>2. (L \cup {"resp_pkt"}) \ {"resp_pkt"} = L
    OBVIOUS
  <2>3. QED  BY <2>1, <2>2
<1>7. Leaves("client", 0, L, out, <<calloc("new_rec_pkt", TunnelSize)>>
             \o Decrypt("resp_pkt", n) \o PrintPacket("resp_pkt", Payload, n)
             \o <<free("resp_pkt")>>, L, out)
  BY <1>5, <1>6, LeavesNext
<1>8. QED  BY <1>7

\* The server decrypts and prints the request.
LEMMA ServerReceived ==
  ASSUME NEW n \in 0..127, NEW out
  PROVE  Leaves("server", 0, {}, out, <<calloc("new_rec_pkt", TunnelSize)>>
                \o Decrypt("rec_packet", n)
           \o PrintPacket("rec_packet", Payload, n), {"rec_packet"}, out)
<1>1. Leaves("server", 0, {}, out, <<calloc("new_rec_pkt", TunnelSize)>>, {"new_rec_pkt"},
             out)
  <2>1. Leaves("server", 0, {}, out, <<calloc("new_rec_pkt", TunnelSize)>>,
               {} \cup {"new_rec_pkt"}, out)
    BY BufferTaken
  <2>2. {} \cup {"new_rec_pkt"} = {"new_rec_pkt"}
    OBVIOUS
  <2>3. QED  BY <2>1, <2>2
<1>2. Leaves("server", 0, {"new_rec_pkt"}, out, Decrypt("rec_packet", n), {"rec_packet"},
             out)
  <2>1. Room("server", 0, "rec_packet") = 174 /\ "rec_packet" \in Buffer
    BY DEF Room, Buffer
  <2>2. Leaves("server", 0, {"new_rec_pkt"}, out, Decrypt("rec_packet", n),
               ({"new_rec_pkt"} \cup {"rec_packet"}) \ {"new_rec_pkt"}, out)
    BY <2>1, Decrypted
  <2>3. ({"new_rec_pkt"} \cup {"rec_packet"}) \ {"new_rec_pkt"} = {"rec_packet"}
    OBVIOUS
  <2>4. QED  BY <2>2, <2>3
<1>3. Leaves("server", 0, {}, out, <<calloc("new_rec_pkt", TunnelSize)>>
             \o Decrypt("rec_packet", n), {"rec_packet"}, out)
  BY <1>1, <1>2, LeavesNext
<1>4. Leaves("server", 0, {"rec_packet"}, out, PrintPacket("rec_packet", Payload, n),
             {"rec_packet"}, out)
  BY Printed, Sizes DEF Room, Buffer
<1>5. Leaves("server", 0, {}, out, <<calloc("new_rec_pkt", TunnelSize)>>
             \o Decrypt("rec_packet", n) \o PrintPacket("rec_packet", Payload, n),
             {"rec_packet"}, out)
  BY <1>3, <1>4, LeavesNext
<1>6. QED  BY <1>5

\* The server wraps, prints and encrypts the response.
LEMMA ReplyWrapped ==
  ASSUME NEW n \in 0..127, NEW out
  PROVE  Leaves("server", n, {}, out,
                <<calloc("rec_packet_dest", TunnelSize), calloc("enc_pkt", TunnelSize),
                      access("rec_packet_dest", PlainSize), access("enc_pkt", TunnelSize),
                      calloc("client_str_ip", StringSize),
                      access("client_str_ip", StringSize)>>
           \o PrintPacket("enc_pkt", Payload, n) \o Encrypt(n),
           {"rec_packet_dest", "enc_pkt", "client_str_ip", "encrypt_packet"},
           out \cup {[buf |-> "encrypt_packet", by |-> 1]})
<1> DEFINE calls == <<calloc("rec_packet_dest", TunnelSize), calloc("enc_pkt", TunnelSize),
                    access("rec_packet_dest", PlainSize), access("enc_pkt", TunnelSize),
                    calloc("client_str_ip", StringSize),
                    access("client_str_ip", StringSize)>>
           three == {"rec_packet_dest", "enc_pkt", "client_str_ip"}
           terminator == [buf |-> "encrypt_packet", by |-> 1]
<1>1. Leaves("server", n, {}, out, calls, three, out)
  <2>1. Leaves("server", n, {}, out, calls,
               (({} \cup {"rec_packet_dest"}) \cup {"enc_pkt"}) \cup {"client_str_ip"}, out)
    BY Wrapped
  <2>2. (({} \cup {"rec_packet_dest"}) \cup {"enc_pkt"}) \cup {"client_str_ip"} = three
    OBVIOUS
  <2>3. QED  BY <2>1, <2>2
<1>2. Leaves("server", n, three, out, PrintPacket("enc_pkt", Payload, n), three, out)
  BY Printed, Sizes DEF Room, Buffer
<1>3. Leaves("server", n, {}, out, calls \o PrintPacket("enc_pkt", Payload, n), three, out)
  BY <1>1, <1>2, LeavesNext
<1>4. Leaves("server", n, three, out, Encrypt(n),
             {"rec_packet_dest", "enc_pkt", "client_str_ip", "encrypt_packet"},
             out \cup {terminator})
  <2>1. Leaves("server", n, three, out, Encrypt(n), three \cup {"encrypt_packet"},
               out \cup {terminator})
    BY Encrypted
  <2>2. three \cup {"encrypt_packet"} =
          {"rec_packet_dest", "enc_pkt", "client_str_ip", "encrypt_packet"}
    OBVIOUS
  <2>3. QED  BY <2>1, <2>2
<1>5. Leaves("server", n, {}, out, calls \o PrintPacket("enc_pkt", Payload, n)
             \o Encrypt(n),
             {"rec_packet_dest", "enc_pkt", "client_str_ip", "encrypt_packet"},
             out \cup {terminator})
  BY <1>3, <1>4, LeavesNext
<1>6. QED  BY <1>5

\* When the reply has been sent, nothing is left.
LEMMA ReplySent ==
  ASSUME NEW n \in 0..127, NEW out
  PROVE  Leaves("server", n, {}, out,
                (<<calloc("rec_packet_dest", TunnelSize), calloc("enc_pkt", TunnelSize),
                      access("rec_packet_dest", PlainSize), access("enc_pkt", TunnelSize),
                      calloc("client_str_ip", StringSize),
                      access("client_str_ip", StringSize)>>
           \o PrintPacket("enc_pkt", Payload, n) \o Encrypt(n))
           \o FreeSent \o <<free("rec_packet_dest"), free("client_str_ip")>>, {},
           out \cup {[buf |-> "encrypt_packet", by |-> 1]})
<1> DEFINE wrapped == <<calloc("rec_packet_dest", TunnelSize),
                        calloc("enc_pkt", TunnelSize),
                      access("rec_packet_dest", PlainSize), access("enc_pkt", TunnelSize),
                      calloc("client_str_ip", StringSize),
                      access("client_str_ip", StringSize)>>
                      \o PrintPacket("enc_pkt", Payload, n) \o Encrypt(n)
           freed == <<free("rec_packet_dest"), free("client_str_ip")>>
           four == {"rec_packet_dest", "enc_pkt", "client_str_ip", "encrypt_packet"}
           terminator == [buf |-> "encrypt_packet", by |-> 1]
<1>1. Leaves("server", n, {}, out, wrapped, four, out \cup {terminator})
  BY ReplyWrapped
<1>2. Leaves("server", n, four, out \cup {terminator}, FreeSent,
             {"rec_packet_dest", "client_str_ip"}, out \cup {terminator})
  <2>1. Leaves("server", n, four, out \cup {terminator}, FreeSent,
               (four \ {"enc_pkt"}) \ {"encrypt_packet"}, out \cup {terminator})
    BY SentFreed
  <2>2. (four \ {"enc_pkt"}) \ {"encrypt_packet"} = {"rec_packet_dest", "client_str_ip"}
    OBVIOUS
  <2>3. QED  BY <2>1, <2>2
<1>3. Leaves("server", n, {}, out, wrapped \o FreeSent,
             {"rec_packet_dest", "client_str_ip"}, out \cup {terminator})
  BY <1>1, <1>2, LeavesNext
<1>4. Leaves("server", n, {"rec_packet_dest", "client_str_ip"}, out \cup {terminator},
             freed, {}, out \cup {terminator})
  <2>1. Leaves("server", n, {"rec_packet_dest", "client_str_ip"}, out \cup {terminator},
               freed, ({"rec_packet_dest",
               "client_str_ip"} \ {"rec_packet_dest"}) \ {"client_str_ip"},
               out \cup {terminator})
    BY AllocsFreed
  <2>2. ({"rec_packet_dest", "client_str_ip"} \ {"rec_packet_dest"}) \ {"client_str_ip"} =
          {}
    OBVIOUS
  <2>3. QED  BY <2>1, <2>2
<1>5. Leaves("server", n, {}, out, wrapped \o FreeSent \o freed, {}, out \cup {terminator})
  BY <1>3, <1>4, LeavesNext
<1>6. QED  BY <1>5

\* When it has not, both packets of it are.
LEMMA ReplyFailed ==
  ASSUME NEW n \in 0..127, NEW out
  PROVE  Leaves("server", n, {}, out,
                (<<calloc("rec_packet_dest", TunnelSize), calloc("enc_pkt", TunnelSize),
                      access("rec_packet_dest", PlainSize), access("enc_pkt", TunnelSize),
                      calloc("client_str_ip", StringSize),
                      access("client_str_ip", StringSize)>>
           \o PrintPacket("enc_pkt", Payload, n) \o Encrypt(n))
           \o <<free("rec_packet_dest"), free("client_str_ip")>>,
           {"enc_pkt", "encrypt_packet"}, out \cup {[buf |-> "encrypt_packet", by |-> 1]})
<1> DEFINE wrapped == <<calloc("rec_packet_dest", TunnelSize),
                        calloc("enc_pkt", TunnelSize),
                      access("rec_packet_dest", PlainSize), access("enc_pkt", TunnelSize),
                      calloc("client_str_ip", StringSize),
                      access("client_str_ip", StringSize)>>
                      \o PrintPacket("enc_pkt", Payload, n) \o Encrypt(n)
           freed == <<free("rec_packet_dest"), free("client_str_ip")>>
           four == {"rec_packet_dest", "enc_pkt", "client_str_ip", "encrypt_packet"}
           terminator == [buf |-> "encrypt_packet", by |-> 1]
<1>1. Leaves("server", n, {}, out, wrapped, four, out \cup {terminator})
  BY ReplyWrapped
<1>2. Leaves("server", n, four, out \cup {terminator}, freed,
             {"enc_pkt", "encrypt_packet"}, out \cup {terminator})
  <2>1. Leaves("server", n, four, out \cup {terminator}, freed,
               (four \ {"rec_packet_dest"}) \ {"client_str_ip"}, out \cup {terminator})
    BY AllocsFreed
  <2>2. (four \ {"rec_packet_dest"}) \ {"client_str_ip"} = {"enc_pkt", "encrypt_packet"}
    OBVIOUS
  <2>3. QED  BY <2>1, <2>2
<1>3. Leaves("server", n, {}, out, wrapped \o freed, {"enc_pkt", "encrypt_packet"},
             out \cup {terminator})
  BY <1>1, <1>2, LeavesNext
<1>4. QED  BY <1>3

\* The destination prints the request.
LEMMA DestinationReceived ==
  ASSUME NEW n \in 0..127, NEW out
  PROVE  Leaves("destination", 0, {}, out, <<calloc("rec_packet", PlainSize)>>
                \o PrintPacket("rec_packet", Payload - GreSize, n), {"rec_packet"}, out)
<1>1. Leaves("destination", 0, {}, out, <<calloc("rec_packet", PlainSize)>>,
             {"rec_packet"}, out)
  <2>1. Leaves("destination", 0, {}, out, <<calloc("rec_packet", PlainSize)>>,
               {} \cup {"rec_packet"}, out)
    BY RequestTaken
  <2>2. {} \cup {"rec_packet"} = {"rec_packet"}
    OBVIOUS
  <2>3. QED  BY <2>1, <2>2
<1>2. Leaves("destination", 0, {"rec_packet"}, out,
             PrintPacket("rec_packet", Payload - GreSize, n), {"rec_packet"}, out)
  BY Printed, Sizes DEF Room, Buffer
<1>3. Leaves("destination", 0, {}, out, <<calloc("rec_packet", PlainSize)>>
             \o PrintPacket("rec_packet", Payload - GreSize, n), {"rec_packet"}, out)
  BY <1>1, <1>2, LeavesNext
<1>4. QED  BY <1>3

\* The destination makes, prints and sends its response.
LEMMA Responded ==
  ASSUME NEW n \in 0..122, NEW out
  PROVE  Leaves("destination", 0, {"rec_packet"}, out,
                <<calloc("client_ip_str", StringSize), access("client_ip_str", StringSize)>>
           \o MakePacket("response_pkt", n)
           \o PrintPacket("response_pkt", Payload, Clamped(n))
           \o <<access("response_pkt", GreSize + Payload + n)>>,
           {"rec_packet", "client_ip_str", "response_pkt"}, out)
<1> DEFINE named == <<calloc("client_ip_str", StringSize),
                      access("client_ip_str", StringSize)>>
           sent == <<access("response_pkt", GreSize + Payload + n)>>
           three == {"rec_packet", "client_ip_str", "response_pkt"}
<1>1. Leaves("destination", 0, {"rec_packet"}, out, named,
             {"rec_packet", "client_ip_str"}, out)
  <2>1. Leaves("destination", 0, {"rec_packet"}, out, named,
               {"rec_packet"} \cup {"client_ip_str"}, out)
    BY CallerNamed
  <2>2. {"rec_packet"} \cup {"client_ip_str"} = {"rec_packet", "client_ip_str"}
    OBVIOUS
  <2>3. QED  BY <2>1, <2>2
<1>2. Leaves("destination", 0, {"rec_packet", "client_ip_str"}, out,
             MakePacket("response_pkt", n), three, out)
  <2>1. Room("destination", 0, "response_pkt") =
          174 /\ "response_pkt" \in Buffer /\ n \in 0..128
    BY DEF Room, Buffer
  <2>2. Leaves("destination", 0, {"rec_packet", "client_ip_str"}, out,
               MakePacket("response_pkt", n),
               {"rec_packet", "client_ip_str"} \cup {"response_pkt"}, out)
    BY <2>1, PacketMade
  <2>3. {"rec_packet", "client_ip_str"} \cup {"response_pkt"} = three
    OBVIOUS
  <2>4. QED  BY <2>2, <2>3
<1>3. Leaves("destination", 0, {"rec_packet"}, out, named
             \o MakePacket("response_pkt", n), three, out)
  BY <1>1, <1>2, LeavesNext
<1>4. Leaves("destination", 0, three, out,
             PrintPacket("response_pkt", Payload, Clamped(n)), three, out)
  BY Printed, Sizes DEF Room, Buffer, Clamped
<1>5. Leaves("destination", 0, {"rec_packet"}, out, named
             \o MakePacket("response_pkt", n)
             \o PrintPacket("response_pkt", Payload, Clamped(n)), three, out)
  BY <1>3, <1>4, LeavesNext
<1>6. Leaves("destination", 0, three, out, sent, three, out)
  BY ResponseSent
<1>7. Leaves("destination", 0, {"rec_packet"}, out, named
             \o MakePacket("response_pkt", n)
             \o PrintPacket("response_pkt", Payload, Clamped(n)) \o sent, three, out)
  BY <1>5, <1>6, LeavesNext
<1>8. QED  BY <1>7

\* When it has been sent, nothing is left.
LEMMA RespondedWell ==
  ASSUME NEW n \in 0..122, NEW out
  PROVE  Leaves("destination", 0, {"rec_packet"}, out,
                (<<calloc("client_ip_str", StringSize),
                access("client_ip_str", StringSize)>>
           \o MakePacket("response_pkt", n)
           \o PrintPacket("response_pkt", Payload, Clamped(n))
           \o <<access("response_pkt", GreSize + Payload + n)>>)
           \o <<free("rec_packet"), free("response_pkt"), free("client_ip_str")>>, {}, out)
<1> DEFINE respond == <<calloc("client_ip_str", StringSize),
                        access("client_ip_str", StringSize)>>
                      \o MakePacket("response_pkt", n)
                      \o PrintPacket("response_pkt", Payload, Clamped(n))
                      \o <<access("response_pkt", GreSize + Payload + n)>>
           freed == <<free("rec_packet"), free("response_pkt"), free("client_ip_str")>>
           three == {"rec_packet", "client_ip_str", "response_pkt"}
<1>1. Leaves("destination", 0, {"rec_packet"}, out, respond, three, out)
  BY Responded
<1>2. Leaves("destination", 0, three, out, freed, {}, out)
  <2>1. Leaves("destination", 0, three, out, freed,
               ((three \ {"rec_packet"}) \ {"response_pkt"}) \ {"client_ip_str"}, out)
    BY RespondedFreed
  <2>2. ((three \ {"rec_packet"}) \ {"response_pkt"}) \ {"client_ip_str"} = {}
    OBVIOUS
  <2>3. QED  BY <2>1, <2>2
<1>3. Leaves("destination", 0, {"rec_packet"}, out, respond \o freed, {}, out)
  BY <1>1, <1>2, LeavesNext
<1>4. QED  BY <1>3

-----------------------------------------------------------------------------
(***************************************************************************)
(* The inductive invariant.                                                *)
(***************************************************************************)

\* Where the invariant says what is allocated.
Runs == pc \notin {"exit0", "exit1", "segv"} \/ (pc = "exit0" /\ ~failed)

\* There the heap is one of those above.
LEMMA HeldHeap ==
  ASSUME BuffersInv, Runs, NEW n
  PROVE  heap = Holding(prog, n, Held, heap.outside)
<1>1. heap.size = [b \in Held |-> Room(prog, n, b)]
  <2>1. heap.size = [b \in Held |-> IF prog = "destination" THEN PlainSize ELSE TunnelSize]
    BY DEF BuffersInv, Runs
  <2>2. ASSUME NEW b \in Held
        PROVE  Room(prog, n, b) = IF prog = "destination" THEN PlainSize ELSE TunnelSize
    BY Sizes DEF Held, BuffersInv, Room
  <2>3. QED  BY <2>1, <2>2
<1>2. heap = [size |-> heap.size, stale |-> {}, outside |-> heap.outside]
  BY DEF BuffersInv
<1>3. QED  BY <1>1, <1>2 DEF Holding

\* A step that leads to one keeps the invariant's part about the heap.
LEMMA HeapKept ==
  ASSUME NEW n, NEW L, NEW out, heap' = Holding(prog', n, L, out),
         out \subseteq {[buf |-> "encrypt_packet", by |-> 1]},
         Runs' => L = Held',
         prog' = "destination" => "packet" \notin L
  PROVE  /\ heap' = [size |-> heap'.size, stale |-> {}, outside |-> heap'.outside]
         /\ OnlyTerminatorOutside'
         /\ Runs' => heap'.size = [b \in Held' |-> IF prog' = "destination" THEN PlainSize
                                                   ELSE TunnelSize]
<1>1. /\ heap'.size = [b \in L |-> Room(prog', n, b)]
      /\ heap'.stale = {} /\ heap'.outside = out
      /\ heap' = [size |-> heap'.size, stale |-> {}, outside |-> heap'.outside]
  BY DEF Holding
<1>2. OnlyTerminatorOutside'
  BY <1>1 DEF OnlyTerminatorOutside
<1>3. ASSUME Runs'
      PROVE  heap'.size = [b \in Held' |-> IF prog' = "destination" THEN PlainSize
                                           ELSE TunnelSize]
  <2>1. ASSUME NEW b \in L
        PROVE  Room(prog', n, b) = IF prog' = "destination" THEN PlainSize ELSE TunnelSize
    <3>1. L = Held' /\ b \in {"packet", "rec_packet"}
      BY <1>3 DEF Held
    <3>2. QED  BY <3>1, Sizes DEF Room
  <2>2. QED  BY <1>1, <1>3, <2>1
<1>4. QED  BY <1>1, <1>2, <1>3

\* The initial states have an empty heap.
LEMMA BuffersInvInit == Init => BuffersInv
<1> SUFFICES ASSUME Init PROVE BuffersInv
  OBVIOUS
<1>1. Held = {}
  BY DEF Init, Held
<1>2. heap = [size |-> heap.size, stale |-> {}, outside |-> heap.outside]
      /\ heap.outside = {}
  BY DEF Init
<1>3. heap.size = [b \in Held |-> IF prog = "destination" THEN PlainSize ELSE TunnelSize]
  BY <1>1 DEF Init
<1>4. pc \in {"create", "send"} => len \in 0..MaxPayload
  BY BuffersAssumption DEF Init
<1>5. QED  BY <1>2, <1>3, <1>4 DEF BuffersInv, OnlyTerminatorOutside, Init

\* What a call leaves, when what it does is known.
LEMMA Done ==
  ASSUME BuffersInv, Runs, NEW n, NEW ops, Does(ops), NEW L, NEW out,
         Leaves(prog, n, Held, heap.outside, ops, L, out)
  PROVE  heap' = Holding(prog, n, L, out)
<1>1. heap = Holding(prog, n, Held, heap.outside)
  BY HeldHeap
<1>2. QED  BY <1>1 DEF Does, Leaves

\* The invariant's part about the heap, after a call that leaves out as it was.
LEMMA CallKeeps ==
  ASSUME BuffersInv, Runs, NEW n, NEW ops, Does(ops), NEW L,
         Leaves(prog, n, Held, heap.outside, ops, L, heap.outside),
         prog' = prog, Runs' => L = Held', prog = "destination" => "packet" \notin L
  PROVE  /\ heap' = [size |-> heap'.size, stale |-> {}, outside |-> heap'.outside]
         /\ OnlyTerminatorOutside'
         /\ Runs' => heap'.size = [b \in Held' |-> IF prog' = "destination" THEN PlainSize
                                                   ELSE TunnelSize]
<1>1. heap' = Holding(prog', n, L, heap.outside)
  BY Done
<1>2. heap.outside \subseteq {[buf |-> "encrypt_packet", by |-> 1]}
  BY DEF BuffersInv, OnlyTerminatorOutside
<1>3. QED  BY <1>1, <1>2, HeapKept

\* The invariant's part about the control.
Control ==
  /\ \/ prog = "client" /\ pc \in {"create", "send", "receive", "exit0", "segv"}
     \/ prog = "server" /\ pc \in {"receive", "connect", "forward", "reply",
                                  "exit0", "exit1", "segv"}
     \/ prog = "destination" /\ pc \in {"receive", "respond", "exit0", "exit1"}
  /\ failed \in BOOLEAN
  /\ failed => (prog = "client" /\ pc = "receive") \/ pc \in {"exit0", "exit1", "segv"}
  /\ pc \in {"create", "send"} => len \in 0..MaxPayload

\* recv() fails: its buffer is left.
LEMMA ReceiveFailsKeeps ==
  ASSUME BuffersInv, ReceiveFails
  PROVE  BuffersInv'
<1>1. Control' /\ Runs /\ ~Runs' /\ prog' = prog
  BY DEF ReceiveFails, At, Goto, Fails, Control, Runs, BuffersInv
<1>2. CASE prog = "destination"
  <2>1. Does(<<calloc("rec_packet", PlainSize)>>)
    BY <1>2 DEF ReceiveFails, NewRecPkt
  <2>2. Leaves(prog, 0, Held, heap.outside, <<calloc("rec_packet", PlainSize)>>,
               Held \cup {"rec_packet"}, heap.outside)
    BY <1>2, RequestTaken
  <2>3. "packet" \notin Held \cup {"rec_packet"}
    BY <1>2 DEF Held, BuffersInv
  <2>4. QED  BY <1>1, <2>1, <2>2, <2>3, CallKeeps DEF Control, BuffersInv, Runs
<1>3. CASE prog # "destination"
  <2>1. Does(<<calloc("new_rec_pkt", TunnelSize)>>)
    BY <1>3 DEF ReceiveFails, NewRecPkt
  <2>2. Leaves(prog, 0, Held, heap.outside, <<calloc("new_rec_pkt", TunnelSize)>>,
               Held \cup {"new_rec_pkt"}, heap.outside)
    BY BufferTaken
  <2>3. QED  BY <1>1, <1>3, <2>1, <2>2, CallKeeps DEF Control, BuffersInv, Runs
<1>4. QED  BY <1>2, <1>3

\* create_packets() and its printing leave the packet.
LEMMA ClientCreatesKeeps ==
  ASSUME BuffersInv, ClientCreates
  PROVE  BuffersInv'
<1>1. Control' /\ Runs /\ prog' = prog /\ prog = "client" /\ len \in 0..128
  BY Sizes DEF ClientCreates, At, Goto, Succeeds, Control, Runs, BuffersInv
<1>2. Held = {} /\ Held' = {"packet"}
  BY DEF ClientCreates, At, Goto, Held
<1>3. Leaves(prog, 0, Held, heap.outside,
             create_packets(len) \o PrintPacket("packet", Payload, Clamped(len)),
             {"packet"}, heap.outside)
  BY <1>1, <1>2, ClientCreated
<1>4. Does(create_packets(len) \o PrintPacket("packet", Payload, Clamped(len)))
  BY DEF ClientCreates
<1>5. QED  BY <1>1, <1>2, <1>3, <1>4, CallKeeps DEF Control, BuffersInv, Runs

\* send() frees the packet, unless it fails.
LEMMA ClientSendsKeeps ==
  ASSUME BuffersInv, ClientSends
  PROVE  BuffersInv'
<1>1. Control' /\ Runs /\ prog' = prog /\ prog = "client" /\ len \in 0..128
  BY Sizes DEF ClientSends, At, Goto, Succeeds, Fails, Control, Runs, BuffersInv
<1>2. Held = {"packet"} /\ Held' = IF failed' THEN {"packet"} ELSE {}
  BY DEF ClientSends, At, Goto, Held
<1>3. CASE Does(<<access("packet", Payload + len), free("packet")>>) /\ Succeeds
  <2>1. ~failed'
    BY <1>3 DEF Succeeds, ClientSends, At, BuffersInv
  <2>2. Leaves(prog, 0, Held, heap.outside,
               <<access("packet", Payload + len), free("packet")>>, {}, heap.outside)
    <3>1. Leaves("client", 0, {"packet"}, heap.outside,
                 <<access("packet", Payload + len), free("packet")>>,
                 {"packet"} \ {"packet"}, heap.outside)
      BY <1>1, PacketSent
    <3>2. {"packet"} \ {"packet"} = {}
      OBVIOUS
    <3>3. QED  BY <3>1, <3>2, <1>1, <1>2
  <2>3. QED  BY <1>1, <1>2, <1>3, <2>1, <2>2, CallKeeps DEF Control, BuffersInv, Runs
<1>4. CASE Does(<<access("packet", Payload + len)>>) /\ Fails
  <2>1. failed'
    BY <1>4 DEF Fails
  <2>2. Leaves(prog, 0, Held, heap.outside,
               <<access("packet", Payload + len)>>, {"packet"}, heap.outside)
    BY <1>1, <1>2, PacketKept
  <2>3. QED  BY <1>1, <1>2, <1>4, <2>1, <2>2, CallKeeps DEF Control, BuffersInv, Runs
<1>5. QED  BY <1>3, <1>4 DEF ClientSends

\* The client's last call frees what it received.
LEMMA ClientReceivesKeeps ==
  ASSUME BuffersInv, ClientReceives
  PROVE  BuffersInv'
<1> DEFINE ops == <<calloc("new_rec_pkt", TunnelSize)>> \o Decrypt("resp_pkt", len')
                    \o PrintPacket("resp_pkt", Payload, len') \o <<free("resp_pkt")>>
<1>1. Control' /\ Runs /\ prog' = prog /\ prog = "client" /\ len' \in 0..127
  BY Sizes DEF ClientReceives, At, Goto, Succeeds, Control, Runs, BuffersInv, Found
<1>2. Held \in SUBSET {"packet"} /\ (Runs' => Held' = Held)
  BY DEF ClientReceives, At, Goto, Succeeds, Held, Runs
<1>3. Leaves(prog, 0, Held, heap.outside, ops, Held, heap.outside)
  BY <1>1, <1>2, ClientReceived
<1>4. Does(ops)
  BY DEF ClientReceives
<1> HIDE DEF ops
<1>5. QED  BY <1>1, <1>2, <1>3, <1>4, CallKeeps DEF Control, BuffersInv, Runs

\* The server has the request.
LEMMA ServerReceivesKeeps ==
  ASSUME BuffersInv, ServerReceives
  PROVE  BuffersInv'
<1> DEFINE ops == <<calloc("new_rec_pkt", TunnelSize)>> \o Decrypt("rec_packet", len')
                    \o PrintPacket("rec_packet", Payload, len')
<1>1. Control' /\ Runs /\ prog' = prog /\ prog = "server" /\ len' \in 0..127
  BY Sizes DEF ServerReceives, At, Goto, Succeeds, Control, Runs, BuffersInv, Found
<1>2. Held = {} /\ Held' = {"rec_packet"}
  BY DEF ServerReceives, At, Goto, Held
<1>3. Leaves(prog, 0, Held, heap.outside, ops, {"rec_packet"}, heap.outside)
  BY <1>1, <1>2, ServerReceived
<1>4. Does(ops)
  BY DEF ServerReceives
<1> HIDE DEF ops
<1>5. QED  BY <1>1, <1>2, <1>3, <1>4, CallKeeps DEF Control, BuffersInv, Runs

\* It has it still when it has dialled.
LEMMA ServerConnectsKeeps ==
  ASSUME BuffersInv, ServerConnects
  PROVE  BuffersInv'
<1> DEFINE dial == <<calloc("dest_ip", StringSize), access("rec_packet", TunnelSize),
                     access("dest_ip", StringSize)>>
<1>1. Control' /\ Runs /\ prog' = prog /\ prog = "server"
  <2>1. prog = "server" /\ pc = "connect" /\ prog' = prog /\ len' = len
    BY DEF ServerConnects, At, Goto
  <2>2. \/ pc' = "exit1" /\ failed' = TRUE
        \/ pc' = "forward" /\ failed' = failed
    BY DEF ServerConnects, Goto, Succeeds, Fails
  <2>3. failed = FALSE
    BY <2>1 DEF BuffersInv
  <2>4. failed' \in BOOLEAN /\ (failed' => pc' = "exit1")
    BY <2>2, <2>3
  <2>5. QED  BY <2>1, <2>2, <2>4 DEF Control, Runs
<1>2. Held = {"rec_packet"}
  BY DEF ServerConnects, At, Held
<1>3. Leaves(prog, 0, Held, heap.outside, dial, {"rec_packet", "dest_ip"}, heap.outside)
  <2>1. Leaves("server", 0, {"rec_packet"}, heap.outside, dial,
               {"rec_packet"} \cup {"dest_ip"}, heap.outside)
    BY Dialled
  <2>2. {"rec_packet"} \cup {"dest_ip"} = {"rec_packet", "dest_ip"}
    OBVIOUS
  <2> HIDE DEF dial
  <2>3. QED  BY <2>1, <2>2, <1>1, <1>2
<1>4. Leaves(prog, 0, Held, heap.outside, dial \o <<free("dest_ip")>>, {"rec_packet"},
             heap.outside)
  <2>1. Leaves("server", 0, {"rec_packet", "dest_ip"}, heap.outside, <<free("dest_ip")>>,
               {"rec_packet", "dest_ip"} \ {"dest_ip"}, heap.outside)
    BY TextFreed
  <2>2. {"rec_packet", "dest_ip"} \ {"dest_ip"} = {"rec_packet"}
    OBVIOUS
  <2> HIDE DEF dial
  <2>3. Leaves(prog, 0, {"rec_packet", "dest_ip"}, heap.outside, <<free("dest_ip")>>,
               {"rec_packet"}, heap.outside)
    BY <2>1, <2>2, <1>1
  <2>4. QED  BY <2>3, <1>3, LeavesNext
<1>5. CASE Does(<<>>) /\ Goto("exit1") /\ Fails
  <2>1. heap' = heap
    BY <1>5, Idle DEF Does
  <2>2. QED  BY <1>1, <1>5, <2>1 DEF Control, BuffersInv, Runs, Goto, OnlyTerminatorOutside
<1>6. CASE Does(dial) /\ Goto("exit1") /\ Fails
  <2>1. ~Runs'
    BY <1>6 DEF Runs, Goto
  <2> HIDE DEF dial
  <2>2. QED  BY <1>1, <1>3, <1>6, <2>1, CallKeeps DEF Control, BuffersInv, Runs
<1>7. CASE Does(dial \o <<free("dest_ip")>>) /\ Goto("forward") /\ Succeeds
  <2>1. Held' = {"rec_packet"}
    BY <1>7, <1>1 DEF Held, Goto
  <2> HIDE DEF dial
  <2>2. QED  BY <1>1, <1>4, <1>7, <2>1, CallKeeps DEF Control, BuffersInv, Runs
<1>8. QED  BY <1>5, <1>6, <1>7 DEF ServerConnects

\* It frees the request when it has sent it on.
LEMMA ServerForwardsKeeps ==
  ASSUME BuffersInv, ServerForwards
  PROVE  BuffersInv'
<1>1. Control' /\ Runs /\ prog' = prog /\ prog = "server"
  <2>1. prog = "server" /\ pc = "forward" /\ prog' = prog /\ len' = len
    BY DEF ServerForwards, At, Goto
  <2>2. \/ pc' = "exit1" /\ failed' = TRUE
        \/ pc' = "reply" /\ failed' = failed
    BY DEF ServerForwards, Goto, Succeeds, Fails
  <2>3. failed = FALSE
    BY <2>1 DEF BuffersInv
  <2>4. failed' \in BOOLEAN /\ (failed' => pc' = "exit1")
    BY <2>2, <2>3
  <2>5. QED  BY <2>1, <2>2, <2>4 DEF Control, Runs
<1>2. Held = {"rec_packet"}
  BY DEF ServerForwards, At, Held
<1>3. CASE Does(<<access("rec_packet", TunnelSize)>>) /\ Goto("exit1") /\ Fails
  <2>1. ~Runs'
    BY <1>3 DEF Runs, Goto
  <2>2. Leaves(prog, 0, Held, heap.outside, <<access("rec_packet", TunnelSize)>>,
               {"rec_packet"}, heap.outside)
    BY <1>1, <1>2, RequestKept
  <2>3. QED  BY <1>1, <1>3, <2>1, <2>2, CallKeeps DEF Control, BuffersInv, Runs
<1>4. CASE /\ Does(<<access("rec_packet", TunnelSize), free("rec_packet")>>)
           /\ Goto("reply") /\ Succeeds
  <2>1. Held' = {}
    BY <1>4, <1>1 DEF Held, Goto
  <2>2. Leaves(prog, 0, Held, heap.outside,
               <<access("rec_packet", TunnelSize), free("rec_packet")>>, {}, heap.outside)
    <3>1. Leaves("server", 0, {"rec_packet"}, heap.outside,
                 <<access("rec_packet", TunnelSize), free("rec_packet")>>,
                 {"rec_packet"} \ {"rec_packet"}, heap.outside)
      BY RequestSent
    <3>2. {"rec_packet"} \ {"rec_packet"} = {}
      OBVIOUS
    <3>3. QED  BY <3>1, <3>2, <1>1, <1>2
  <2>3. QED  BY <1>1, <1>4, <2>1, <2>2, CallKeeps DEF Control, BuffersInv, Runs
<1>5. QED  BY <1>3, <1>4 DEF ServerForwards

\* The reply stores the terminator outside, and frees all when it is sent.
LEMMA ServerRepliesKeeps ==
  ASSUME BuffersInv, ServerReplies
  PROVE  BuffersInv'
<1> DEFINE wrapped == <<calloc("rec_packet_dest", TunnelSize),
                        calloc("enc_pkt", TunnelSize),
                        access("rec_packet_dest", PlainSize), access("enc_pkt", TunnelSize),
                        calloc("client_str_ip", StringSize),
                        access("client_str_ip", StringSize)>>
                        \o PrintPacket("enc_pkt", Payload, len') \o Encrypt(len')
           freed == <<free("rec_packet_dest"), free("client_str_ip")>>
           terminator == [buf |-> "encrypt_packet", by |-> 1]
           out == heap.outside \cup {terminator}
<1>1. Control' /\ Runs /\ prog' = prog /\ prog = "server" /\ len' \in 0..127
  <2>1. /\ prog = "server" /\ pc = "reply" /\ prog' = prog /\ pc' = "exit0"
        /\ len' \in 0..127
    BY Sizes DEF ServerReplies, At, Goto, Found
  <2>2. failed' = TRUE \/ failed' = failed
    BY DEF ServerReplies, Succeeds, Fails
  <2>3. failed \in BOOLEAN
    BY <2>1 DEF BuffersInv
  <2>4. QED  BY <2>1, <2>2, <2>3 DEF Control, Runs
<1>2. Held = {} /\ Held' = {}
  BY DEF ServerReplies, At, Goto, Held
<1>3. out \subseteq {terminator}
  BY DEF BuffersInv, OnlyTerminatorOutside
<1>4. CASE Does(wrapped \o FreeSent \o freed) /\ Succeeds
  <2>1. Leaves("server", len', {}, heap.outside, wrapped \o FreeSent \o freed, {}, out)
    BY <1>1, ReplySent
  <2> HIDE DEF wrapped, freed, terminator
  <2>2. heap' = Holding(prog', len', {}, out)
    BY <1>1, <1>2, <1>4, <2>1, Done
  <2> USE DEF terminator
  <2> HIDE DEF out
  <2>3. QED  BY <1>1, <1>2, <1>3, <2>2, HeapKept DEF Control, BuffersInv, Runs
<1>5. CASE Does(wrapped \o freed) /\ Fails
  <2>1. Leaves("server", len', {}, heap.outside, wrapped \o freed,
               {"enc_pkt", "encrypt_packet"}, out)
    BY <1>1, ReplyFailed
  <2> HIDE DEF wrapped, freed, terminator
  <2>2. heap' = Holding(prog', len', {"enc_pkt", "encrypt_packet"}, out)
    BY <1>1, <1>2, <1>5, <2>1, Done
  <2>3. ~Runs'
    BY <1>5 DEF Fails, Runs, ServerReplies, Goto
  <2> USE DEF terminator
  <2> HIDE DEF out
  <2>4. QED  BY <1>1, <1>3, <2>2, <2>3, HeapKept DEF Control, BuffersInv, Runs
<1>6. QED  BY <1>4, <1>5 DEF ServerReplies

\* The destination has the request.
LEMMA DestinationReceivesKeeps ==
  ASSUME BuffersInv, DestinationReceives
  PROVE  BuffersInv'
<1> DEFINE ops == <<calloc("rec_packet", PlainSize)>>
                    \o PrintPacket("rec_packet", Payload - GreSize, len')
<1>1. Control' /\ Runs /\ prog' = prog /\ prog = "destination" /\ len' \in 0..127
  BY Sizes DEF DestinationReceives, At, Goto, Succeeds, Control, Runs, BuffersInv, Found
<1>2. Held = {} /\ Held' = {"rec_packet"}
  BY DEF DestinationReceives, At, Goto, Held
<1>3. Leaves(prog, 0, Held, heap.outside, ops, {"rec_packet"}, heap.outside)
  BY <1>1, <1>2, DestinationReceived
<1>4. Does(ops)
  BY DEF DestinationReceives
<1> HIDE DEF ops
<1>5. "packet" \notin {"rec_packet"}
  OBVIOUS
<1>6. heap' = [size |-> heap'.size, stale |-> {}, outside |-> heap'.outside]
      /\ OnlyTerminatorOutside'
      /\ (Runs' => heap'.size = [b \in Held' |-> IF prog' = "destination" THEN PlainSize
                                                ELSE TunnelSize])
  BY <1>1, <1>2, <1>3, <1>4, <1>5, CallKeeps
<1>7. QED  BY <1>1, <1>6 DEF Control, BuffersInv, Runs

\* It frees all when its response is sent.
LEMMA DestinationRespondsKeeps ==
  ASSUME BuffersInv, DestinationResponds
  PROVE  BuffersInv'
<1> DEFINE respond == <<calloc("client_ip_str", StringSize),
                        access("client_ip_str", StringSize)>>
                        \o MakePacket("response_pkt", len')
                        \o PrintPacket("response_pkt", Payload, Clamped(len'))
                        \o <<access("response_pkt", GreSize + Payload + len')>>
           freed == <<free("rec_packet"), free("response_pkt"), free("client_ip_str")>>
           three == {"rec_packet", "client_ip_str", "response_pkt"}
<1>1. Control' /\ Runs /\ prog' = prog /\ prog = "destination" /\ len' \in 0..122
  <2>1. /\ prog = "destination" /\ pc = "respond" /\ prog' = prog
        /\ len' \in Responses
    BY DEF DestinationResponds, At, Goto
  <2>2. \/ pc' = "exit1" /\ failed' = TRUE
        \/ pc' = "exit0" /\ failed' = failed
    BY DEF DestinationResponds, Goto, Succeeds, Fails
  <2>3. failed \in BOOLEAN
    BY <2>1 DEF BuffersInv
  <2>4. len' \in 0..122
    BY <2>1, BuffersAssumption, Sizes
  <2>5. QED  BY <2>1, <2>2, <2>3, <2>4 DEF Control, Runs
<1>2. Held = {"rec_packet"}
  BY DEF DestinationResponds, At, Held
<1>3. CASE Does(respond) /\ Goto("exit1") /\ Fails
  <2>1. Leaves(prog, 0, Held, heap.outside, respond, three, heap.outside)
    BY <1>1, <1>2, Responded
  <2>2. ~Runs'
    BY <1>3 DEF Runs, Goto
  <2> HIDE DEF respond
  <2>3. QED  BY <1>1, <1>3, <2>1, <2>2, CallKeeps DEF Control, BuffersInv, Runs
<1>4. CASE Does(respond \o freed) /\ Goto("exit0") /\ Succeeds
  <2>1. Leaves(prog, 0, Held, heap.outside, respond \o freed, {}, heap.outside)
    BY <1>1, <1>2, RespondedWell
  <2>2. Held' = {}
    BY <1>4, <1>1 DEF Held, Goto
  <2> HIDE DEF respond, freed
  <2>3. "packet" \notin {}
    OBVIOUS
  <2>4. heap' = [size |-> heap'.size, stale |-> {}, outside |-> heap'.outside]
        /\ OnlyTerminatorOutside'
        /\ (Runs' => heap'.size = [b \in Held' |-> IF prog' = "destination" THEN PlainSize
                                                  ELSE TunnelSize])
    BY <1>1, <1>4, <2>1, <2>2, <2>3, CallKeeps
  <2>5. QED  BY <1>1, <2>4 DEF Control, BuffersInv, Runs
<1>5. QED  BY <1>3, <1>4 DEF DestinationResponds

\* Every step keeps the invariant.
LEMMA BuffersInvNext == BuffersInv /\ [Next]_vars => BuffersInv'
<1> SUFFICES ASSUME BuffersInv, [Next]_vars PROVE BuffersInv'
  OBVIOUS
<1>1. CASE ReceiveFails  BY <1>1, ReceiveFailsKeeps
<1>2. CASE ClientCreates  BY <1>2, ClientCreatesKeeps
<1>3. CASE ClientSends  BY <1>3, ClientSendsKeeps
<1>4. CASE ClientReceives  BY <1>4, ClientReceivesKeeps
<1>5. CASE ServerReceives  BY <1>5, ServerReceivesKeeps
<1>6. CASE ServerConnects  BY <1>6, ServerConnectsKeeps
<1>7. CASE ServerForwards  BY <1>7, ServerForwardsKeeps
<1>8. CASE ServerReplies  BY <1>8, ServerRepliesKeeps
<1>9. CASE DestinationReceives  BY <1>9, DestinationReceivesKeeps
<1>10. CASE DestinationResponds  BY <1>10, DestinationRespondsKeeps
<1>11. CASE UNCHANGED vars
  BY <1>11 DEF vars, BuffersInv, Held, OnlyTerminatorOutside
<1>12. CASE Ended
  BY <1>12, <1>11 DEF Ended
<1>13. QED
  BY <1>1, <1>2, <1>3, <1>4, <1>5, <1>6, <1>7, <1>8, <1>9, <1>10, <1>11, <1>12 DEF Next

(***************************************************************************)
(* The inductive invariant, for every set of texts that fit.               *)
(***************************************************************************)
THEOREM BuffersCorrect == Spec => []BuffersInv
<1>1. QED  BY BuffersInvInit, BuffersInvNext, PTL DEF Spec

(***************************************************************************)
(* No program uses or frees a buffer that it has freed (packet.c,          *)
(* server.c:165-213), whatever fails and however long the texts are.       *)
(***************************************************************************)
THEOREM NothingEverStale == Spec => []NothingStale
<1>1. BuffersInv => NothingStale
  BY DEF BuffersInv, NothingStale
<1>2. QED  BY <1>1, BuffersCorrect, PTL

(***************************************************************************)
(* Nothing outside a buffer is touched but the byte that                   *)
(* serv_cli_encrypt_free() stores behind its own (packet.c:230).           *)
(***************************************************************************)
THEOREM OnlyTerminatorEverOutside == Spec => []OnlyTerminatorOutside
<1>1. BuffersInv => OnlyTerminatorOutside
  BY DEF BuffersInv
<1>2. QED  BY <1>1, BuffersCorrect, PTL

(***************************************************************************)
(* A program none of whose calls failed has freed all at the end of main().*)
(***************************************************************************)
THEOREM SuccessAlwaysFreesAll == Spec => []SuccessFreesAll
<1>1. ASSUME BuffersInv, pc = "exit0", ~failed
      PROVE  Live = {}
  <2>1. Held = {}
    BY <1>1 DEF Held
  <2>2. heap.size = [b \in {} |-> IF prog = "destination" THEN PlainSize ELSE TunnelSize]
    BY <1>1, <2>1 DEF BuffersInv
  <2>3. QED  BY <2>2 DEF Live
<1>2. BuffersInv => SuccessFreesAll
  BY <1>1 DEF SuccessFreesAll
<1>3. QED  BY <1>2, BuffersCorrect, PTL
=============================================================================
