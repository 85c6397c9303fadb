---------------------------- MODULE MCTopology ----------------------------
(***************************************************************************)
(* Topology for TLC: the lines, what uninitialised memory may hold, and   *)
(* addresses about the numbers of digits of an octet.                      *)
(***************************************************************************)
EXTENDS Topology

\* Two of the topology's pairs, and a server's name that has no address.
ClientArguments ==
  {[client |-> <<H, Zero + 1>>, server |-> <<H, Zero + 2>>],
   [client |-> <<H, Zero + 7>>, server |-> <<H, Zero + 1>>],
   [client |-> <<H, Zero + 7>>, server |-> <<H>>]}

\* Lines of the characters h, 1, 7 and of bytes 0 within them, with and without a
\* newline at their end.
TypedLines ==
  LET chars == UNION {[1..n -> {H, Zero + 1, Zero + 7}] : n \in 0..5}
      cut == {<<0>>, <<H, 0>>, <<H, Zero + 7, 0>>, <<H, Zero + 7, 0, H>>,
              <<H, Zero + 7, 0, H, H>>, <<H, 0, Zero + 7>>, <<H, Zero + 7, H, 0>>,
              <<H, Zero + 7, H, H, 0>>}
      texts == chars \cup cut
  IN  texts \cup {Append(t, Newline) : t \in texts \cup Hosts}

AnyMemory == {<<>>, <<H, Zero + 1>>, <<H, Zero + 9>>}

\* One octet of any number of digits, next to others of two or of three.
CutAddresses ==
  {[i \in 1..4 |-> IF i = k THEN v ELSE w] :
     k \in 1..4, v \in {0, 9, 10, 99, 100, 255}, w \in {10, 255}}
=============================================================================
