------------------------------ MODULE Streams ------------------------------
(***************************************************************************)
(* The kernels' part of a TCP connection on which programs send more than  *)
(* once (Sockets has that of the VPN's programs, which never do).  An end  *)
(* of a connection is "open"; "fin" when the other program has closed it;  *)
(* "rst" when it was reset and no call has told so yet; "gone" afterwards, *)
(* when recv() returns 0 and send() raises SIGPIPE.  A reset may overtake  *)
(* bytes sent before it.                                                   *)
(***************************************************************************)
EXTENDS Integers, Sequences, SequencesExt

\* What send() does to the sender's end.
AfterSend(end) ==
  CASE end = "open" -> {"open"}
    [] end = "fin" -> {"fin", "gone"}  \* the reset it causes may come late
    [] end = "rst" -> {"gone"}
    [] end = "gone" -> {"gone"}

\* What the other end becomes when a program ends or closes: bytes unread, or
\* still under way, reset the connection.
AfterClose(end, unread) ==
  IF end # "open" THEN {end}
  ELSE IF unread # <<>> THEN {"rst", "gone"}
  ELSE {"fin"}
=============================================================================
