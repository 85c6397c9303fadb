--------------------------- MODULE MCSimplexTalk ---------------------------
(***************************************************************************)
(* SimplexTalk for TLC.                                                    *)
(***************************************************************************)
EXTENDS SimplexTalk

AllKinds == {"text", "exit", "endsInExit"}
Both == {"a", Server}
=============================================================================
