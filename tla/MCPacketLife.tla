---------------------------- MODULE MCPacketLife ----------------------------
(***************************************************************************)
(* PacketLife for TLC: the XOR of bytes, the texts and the cuts.           *)
(***************************************************************************)
EXTENDS PacketLife, Bitwise

ByteXor(a, b) == a ^^ b

\* h1, h2 and h7, the first hosts and the last of the table.
ThreeHosts == {<<10, 0, 0, n>> : n \in {1, 2, 7}}

\* "payload", the text client.c sends.
ClientTexts == {<<112, 97, 121, 108, 111, 97, 100>>}

\* It is one that BytesMatchPackets speaks of.
ASSUME ClientTextsTell == \A t \in ClientTexts : Telling(t)

\* Cuts before, inside and after each field, in either form.
FieldCuts == {0, 1, 6, 11, 12, 14, 15, 16, 17, 19, 20, 21, 22, 23, 25, 26, 40, 41,
              46, 47, 50, 52, 53, 65, 66, 67, 71, 100, 167}

\* Texts another caller of create_packets() may pass: bytes of the key at and
\* off their places, and lengths about the limit of the payload.
KeyedTexts ==
  UNION {[1..n -> {18, 52, 86, 120, 97}] : n \in 0..3}
  \cup {[i \in 1..n |-> 97] : n \in {126, 127, 128}}
=============================================================================
