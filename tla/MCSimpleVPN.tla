---------------------------- MODULE MCSimpleVPN ----------------------------
(***************************************************************************)
(* Small instances of SimpleVPN for TLC.  Each topology gives the hosts    *)
(* the processes run on, the server each client names and the names that   *)
(* may be typed at its prompt.                                             *)
(***************************************************************************)
EXTENDS SimpleVPN

CONSTANTS c1, c2, s1, s2, d1, d2,     \* processes
          h1, h2, h3, h4, h5, h6      \* hosts

\* Every process on a host of its own.
ApartHostOf ==
  [p \in Process |-> CASE p = c1 -> h1 [] p = c2 -> h2 [] p = s1 -> h3
                       [] p = s2 -> h4 [] p = d1 -> h5 [] OTHER -> h6]

\* Two destinations share host h5.
SharedHostOf == [p \in Process |-> IF p \in Destination THEN h5 ELSE ApartHostOf[p]]

OneServer == [c \in Client |-> h3]
TwoServers == [c \in Client |-> IF c = c1 THEN h3 ELSE h4]

\* A destination's host.
ProperNames == {h5}
\* Also a host where nothing runs, a name that is not in the table, and a client's host.
AnyNames == {h2, h5, h6, NoHost}
\* The hosts of both servers and of a destination.
ServerNames == {h3, h4, h5}
=============================================================================
