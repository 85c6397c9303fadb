--------------------------- MODULE VpnDestination ---------------------------
(***************************************************************************)
(* The program vpn_destination (destination.c), with the functions of      *)
(* packet.c it calls.  Each destination process runs main() once: it       *)
(* accepts one connection, receives one packet and answers its sender.     *)
(***************************************************************************)
EXTENDS Sockets

VARIABLES
  dpc,     \* what a destination does next, or how it ended
  caller,  \* the process whose connection new_socket is
  dpkt     \* rec_packet

destinationVars == <<dpc, caller, dpkt>>

DestinationPC == {"start", "accept", "recv", "respond", "close"} \cup Ended

DestinationTypeOK ==
  /\ dpc \in [Destination -> DestinationPC]
  /\ caller \in [Destination -> Opener \cup {Nobody}]
  /\ dpkt \in [Destination -> Packet \cup {Null}]

DestinationInit ==
  /\ dpc = [d \in Destination |-> "start"]
  /\ caller = [d \in Destination |-> Nobody]
  /\ dpkt = [d \in Destination |-> Null]

-----------------------------------------------------------------------------
DestinationStops(d, how) ==
  /\ dpc' = [dpc EXCEPT ![d] = how]
  /\ HangUp(d)
  /\ UNCHANGED <<caller, dpkt>>

\* get_host_ip(), which may not know the name given, and create_dest_socket().
LaunchDestination(d) ==
  /\ dpc[d] = "start"
  /\ \/ dpc' = [dpc EXCEPT ![d] = "accept"] /\ Listen(d)
     \/ dpc' = [dpc EXCEPT ![d] = "exit0"] /\ UNCHANGED socketVars
     \/ dpc' = [dpc EXCEPT ![d] = "exit1"] /\ Faults /\ UNCHANGED socketVars
  /\ UNCHANGED <<caller, dpkt>>

accept_dest_connection(d) ==
  /\ dpc[d] = "accept"
  /\ \/ /\ Accept(d)
        /\ caller' = [caller EXCEPT ![d] = Head(backlog[d])]
        /\ dpc' = [dpc EXCEPT ![d] = "recv"]
        /\ UNCHANGED dpkt
     \/ Faults /\ DestinationStops(d, "exit1")

dest_rec_pkt(d) ==
  /\ dpc[d] = "recv"
  /\ \/ \E got \in UpArrivals(caller[d], "plain") :
          /\ RecvUp(caller[d], got)
          /\ dpkt' = [dpkt EXCEPT ![d] = got.pkt]
          /\ dpc' = [dpc EXCEPT ![d] = "respond"]
          /\ UNCHANGED caller
     \/ RecvUpFails(caller[d]) /\ DestinationStops(d, "exit1")

\* The response goes to the packet's source address, on the same connection.
Respond(d) ==
  /\ dpc[d] = "respond"
  /\ \/ /\ SendDown(caller[d], create_packets_des(HostOf[d], dpkt[d].src))
        /\ dpc' = [dpc EXCEPT ![d] = "close"]
        /\ UNCHANGED <<caller, dpkt>>
     \/ SendDownFails(caller[d]) /\ DestinationStops(d, "exit1")

\* Slip: the listening socket stays open and the next connection is accepted.
ServesAgain(d) ==
  /\ dpc[d] = "close"
  /\ dpc' = [dpc EXCEPT ![d] = "accept"]
  /\ link' = [o \in Opener |-> IF o = caller[d] THEN FarClosed(link[o]) ELSE link[o]]
  /\ UNCHANGED <<caller, dpkt, listening, backlog>>

CloseDestination(d) ==
  /\ dpc[d] = "close"
  /\ DestinationStops(d, "exit0")

InterruptDestination(d) ==
  /\ d \in Interruptible
  /\ dpc[d] \notin Ended
  /\ DestinationStops(d, "sigint")

\* The destination is in a call that returns only when another process acts.
DestinationBlocked(d) ==
  \/ dpc[d] = "accept" /\ backlog[d] = <<>>
  \/ dpc[d] = "recv" /\ ~UpReady(caller[d], "plain")

\* The steps the program takes by itself, once it is listening.
DestinationRuns(d) ==
  \/ accept_dest_connection(d) \/ dest_rec_pkt(d)
  \/ Respond(d)                \/ CloseDestination(d)

DestinationNext(d) ==
  LaunchDestination(d) \/ DestinationRuns(d) \/ InterruptDestination(d)
=============================================================================
