----------------------------- MODULE VpnClient -----------------------------
(***************************************************************************)
(* The program vpn_client (client.c), with the functions of packet.c it    *)
(* calls.  Each client process runs main() once: it asks for the name of a *)
(* destination, connects to the VPN server, sends one request and waits    *)
(* for one reply.                                                          *)
(***************************************************************************)
EXTENDS Sockets

CONSTANTS
  ServerHost,  \* the host name of the VPN server, argv[2], by client
  DestNames    \* the names that may be typed at the prompt

ASSUME ClientAssumption ==
  /\ ServerHost \in [Client -> Address]
  /\ DestNames \subseteq Address

VARIABLES
  cpc,    \* what a client does next, or how it ended
  asked,  \* dest_host_name, once read
  reply   \* resp_pkt

clientVars == <<cpc, asked, reply>>

ClientPC == {"start", "connect", "send", "recv", "close"} \cup Ended

ClientTypeOK ==
  /\ cpc \in [Client -> ClientPC]
  /\ asked \in [Client -> Address]
  /\ reply \in [Client -> Packet \cup {Null}]

ClientInit ==
  /\ cpc = [c \in Client |-> "start"]
  /\ asked = [c \in Client |-> NoHost]
  /\ reply = [c \in Client |-> Null]

-----------------------------------------------------------------------------
\* get_host_ip() finds the three names, and no two of them are the same host.
NamesUsable(c, name) ==
  /\ NoHost \notin {ServerHost[c], name}
  /\ HostOf[c] # ServerHost[c]
  /\ HostOf[c] # name
  /\ ServerHost[c] # name

ClientStops(c, how) ==
  /\ cpc' = [cpc EXCEPT ![c] = how]
  /\ HangUp(c)
  /\ UNCHANGED <<asked, reply>>

\* The prompt, the checks on the names and create_client_socket().
ReadNames(c) ==
  /\ cpc[c] = "start"
  /\ \E name \in DestNames :
       /\ asked' = [asked EXCEPT ![c] = name]
       /\ \/ NamesUsable(c, name) /\ cpc' = [cpc EXCEPT ![c] = "connect"]
          \/ ~NamesUsable(c, name) /\ cpc' = [cpc EXCEPT ![c] = "exit0"]
          \/ NamesUsable(c, name) /\ Faults /\ cpc' = [cpc EXCEPT ![c] = "exit1"]
  /\ UNCHANGED <<reply, socketVars>>

ConnectToServer(c) ==
  /\ cpc[c] = "connect"
  /\ \/ /\ Dial(c, ServerHost[c])
        /\ cpc' = [cpc EXCEPT ![c] = "send"]
        /\ UNCHANGED <<asked, reply>>
     \/ DialFails(ServerHost[c]) /\ ClientStops(c, "exit1")

\* Slip: the request is made and never sent.
UnsentRequest(c) ==
  /\ cpc[c] = "send"
  /\ cpc' = [cpc EXCEPT ![c] = "recv"]
  /\ UNCHANGED <<asked, reply, socketVars>>

\* send_and_free_packet_vpn(): main() goes on to wait for a reply in any case.
SendRequest(c) ==
  /\ cpc[c] = "send"
  /\ \/ SendUp(c, create_packets(HostOf[c], asked[c]))
     \/ SendUpFails(c) /\ ErrorReported(c)
  /\ cpc' = [cpc EXCEPT ![c] = "recv"]
  /\ UNCHANGED <<asked, reply>>

\* Slip: the client reads on until the connection ends.
ReadsToTheEnd(c) ==
  /\ cpc[c] = "recv"
  /\ \/ \E got \in DownArrivals(c, "tunnel") :
          /\ RecvDown(c, got)
          /\ reply' = [reply EXCEPT ![c] = got.pkt]
          /\ cpc' = IF got.pkt.body = "none" THEN [cpc EXCEPT ![c] = "close"] ELSE cpc
          /\ UNCHANGED asked
     \/ RecvDownFails(c) /\ ClientStops(c, "segv")

\* serv_rec_from_cli(), whose null result print_packet() dereferences.
ReceiveReply(c) ==
  /\ cpc[c] = "recv"
  /\ \/ \E got \in DownArrivals(c, "tunnel") :
          /\ RecvDown(c, got)
          /\ reply' = [reply EXCEPT ![c] = got.pkt]
          /\ cpc' = [cpc EXCEPT ![c] = "close"]
          /\ UNCHANGED asked
     \/ RecvDownFails(c) /\ ClientStops(c, "segv")

CloseClient(c) ==
  /\ cpc[c] = "close"
  /\ ClientStops(c, "exit0")

InterruptClient(c) ==
  /\ c \in Interruptible
  /\ cpc[c] \notin Ended
  /\ ClientStops(c, "sigint")

\* The client is in a call that returns only when its peer has done something.
ClientBlocked(c) == cpc[c] = "recv" /\ ~DownReady(c, "tunnel")

\* The steps the program takes by itself, once it has read a name.
ClientRuns(c) ==
  ConnectToServer(c) \/ SendRequest(c) \/ ReceiveReply(c) \/ CloseClient(c)

ClientNext(c) == ReadNames(c) \/ ClientRuns(c) \/ InterruptClient(c)
=============================================================================
