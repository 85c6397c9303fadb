----------------------------- MODULE MCBuffers -----------------------------
(***************************************************************************)
(* Buffers for TLC: all lengths that fit.                                  *)
(***************************************************************************)
EXTENDS Buffers

AllRequests == 0..MaxPayload
AllResponses == 0..(MaxPayload - GreSize)
=============================================================================
