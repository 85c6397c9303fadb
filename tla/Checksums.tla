----------------------------- MODULE Checksums -----------------------------
(***************************************************************************)
(* Memory of a little-endian machine, and the two Internet checksums of    *)
(* the repository: cksum() of utils.c adds big-endian words, and           *)
(* calculate_checksum() of client_packet.c adds words as they lie in       *)
(* memory.  A buffer is a function from offsets to bytes.                  *)
(***************************************************************************)
EXTENDS Integers, Sequences

Byte == 0..255

\* calloc, memcpy and a field's load and store.
Zeroed(n) == [i \in 0..(n - 1) |-> 0]

Stored(m, at, bytes) ==
  [i \in DOMAIN m |-> IF i - at \in 0..(Len(bytes) - 1) THEN bytes[i - at + 1] ELSE m[i]]

Bytes(m, at, n) == [i \in 1..n |-> m[at + i - 1]]

Word(m, at) == m[at] + 256 * m[at + 1]
StoreWord(m, at, w) == Stored(m, at, <<w % 256, w \div 256>>)

htons(w) == (w % 256) * 256 + (w \div 256)

-----------------------------------------------------------------------------
\* The carries of a sum, added to it.
Folded(sum) == (sum \div 65536) + (sum % 65536)

\* The sum of the big-endian words, the carries folded, inverted; never 0.
cksum(m, at, len) ==
  LET sum[i \in 0..(len \div 2)] ==
        IF i = 0 THEN 0
        ELSE sum[i - 1] + (256 * m[at + 2 * i - 2] + m[at + 2 * i - 1])
      all == sum[len \div 2] + (IF len % 2 = 1 THEN 256 * m[at + len - 1] ELSE 0)
      result == htons(65535 - Folded(Folded(all)))
  IN  IF result = 0 THEN 65535 ELSE result

verify_checksum(m, at, len, old_cksum) == IF cksum(m, at, len) = old_cksum THEN 0 ELSE -1

\* Slip: the last byte of an odd number is left out.
EvenBytes(m, at, nbytes) ==
  LET sum[i \in 0..(nbytes \div 2)] ==
        IF i = 0 THEN 0 ELSE sum[i - 1] + Word(m, at + 2 * (i - 1))
  IN  65535 - (Folded(Folded(sum[nbytes \div 2])) % 65536)

\* The same of the words in the machine's order; a last odd byte is a low byte.
calculate_checksum(m, at, nbytes) ==
  LET sum[i \in 0..(nbytes \div 2)] ==
        IF i = 0 THEN 0
        ELSE sum[i - 1] + (m[at + 2 * i - 2] + 256 * m[at + 2 * i - 1])
      all == sum[nbytes \div 2] + (IF nbytes % 2 = 1 THEN m[at + nbytes - 1] ELSE 0)
      once == Folded(all)
  IN  65535 - ((once + (once \div 65536)) % 65536)
=============================================================================
