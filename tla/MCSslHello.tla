----------------------------- MODULE MCSslHello -----------------------------
(***************************************************************************)
(* SslHello for TLC: a client that is served and one that is not.          *)
(***************************************************************************)
EXTENDS SslHello

TwoClients == {"a", "b"}
=============================================================================
