---------------------------- MODULE MCRawPacket ----------------------------
(***************************************************************************)
(* RawPacket for TLC: payloads that carry, are odd, or all zeroes or ones, *)
(* the longest that are sent whole, and damage in the headers, the payload *)
(* and the padding behind it.  Fewer bytes are sent than in the program,   *)
(* because TLC adds them up by recursion.                                  *)
(***************************************************************************)
EXTENDS RawPacket

BytesSent == 330

\* "Hello, this is the payload!", short ones of extreme bytes, one that leaves a
\* byte of padding, and one that leaves none.
SentPayloads ==
  {<<72, 101, 108, 108, 111, 44, 32, 116, 104, 105, 115, 32, 105, 115, 32, 116, 104,
     101, 32, 112, 97, 121, 108, 111, 97, 100, 33>>}
  \cup UNION {[1..n -> {0, 1, 255}] : n \in 0..3}
  \cup {[i \in 1..n |-> i % 256] : n \in {BytesSent - Text - 1, BytesSent - Text}}

AnyDamage ==
  [at : {20, 21, 23, 33, 36, 37, 40, 41, 42, 66, 67, 68, BytesSent - 1}, by : {0, 1, 255}]
=============================================================================
