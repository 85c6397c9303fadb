----------------------------- MODULE VpnServer -----------------------------
(***************************************************************************)
(* The program vpn_server (server.c), with the functions of packet.c it    *)
(* calls.  Each server process runs main() once: it accepts one client,    *)
(* passes its packet on to the destination under the server's address, and *)
(* passes the destination's response back.                                 *)
(***************************************************************************)
EXTENDS Sockets

VARIABLES
  spc,       \* what a server does next, or how it ended
  accepted,  \* the process whose connection new_socket is
  spkt,      \* rec_packet, then rec_packet_dest and enc_pkt
  clientIp   \* client_ip

serverVars == <<spc, accepted, spkt, clientIp>>

ServerPC == {"start", "accept", "recv", "connect", "forward", "await", "reply",
             "close"} \cup Ended

ServerTypeOK ==
  /\ spc \in [Server -> ServerPC]
  /\ accepted \in [Server -> Opener \cup {Nobody}]
  /\ spkt \in [Server -> Packet \cup {Null}]
  /\ clientIp \in [Server -> Address]

ServerInit ==
  /\ spc = [s \in Server |-> "start"]
  /\ accepted = [s \in Server |-> Nobody]
  /\ spkt = [s \in Server |-> Null]
  /\ clientIp = [s \in Server |-> NoHost]

-----------------------------------------------------------------------------
ServerStops(s, how) ==
  /\ spc' = [spc EXCEPT ![s] = how]
  /\ HangUp(s)
  /\ UNCHANGED <<accepted, spkt, clientIp>>

\* get_host_ip(), which may not know the name given, and create_server_socket().
LaunchServer(s) ==
  /\ spc[s] = "start"
  /\ \/ spc' = [spc EXCEPT ![s] = "accept"] /\ Listen(s)
     \/ spc' = [spc EXCEPT ![s] = "exit0"] /\ UNCHANGED socketVars
     \/ spc' = [spc EXCEPT ![s] = "exit1"] /\ Faults /\ UNCHANGED socketVars
  /\ UNCHANGED <<accepted, spkt, clientIp>>

\* Slip: the test of accept()'s result is inverted.
AcceptedIsError(s) ==
  /\ spc[s] = "accept"
  /\ Accept(s)
  /\ accepted' = [accepted EXCEPT ![s] = Head(backlog[s])]
  /\ spc' = [spc EXCEPT ![s] = "close"]
  /\ UNCHANGED <<spkt, clientIp>>

accept_client_connection(s) ==
  /\ spc[s] = "accept"
  /\ \/ /\ Accept(s)
        /\ accepted' = [accepted EXCEPT ![s] = Head(backlog[s])]
        /\ spc' = [spc EXCEPT ![s] = "recv"]
        /\ UNCHANGED <<spkt, clientIp>>
     \/ Faults /\ ServerStops(s, "exit1")

\* Slip: the client's address is saved after the packet was rewritten in place.
SavedTooLate(s) ==
  /\ spc[s] = "recv"
  /\ \/ \E got \in UpArrivals(accepted[s], "tunnel") :
          /\ RecvUp(accepted[s], got)
          /\ clientIp' = [clientIp EXCEPT ![s] =
                            save_client_ip(serv_handle_pkt(got.pkt, HostOf[s]))]
          /\ spkt' = [spkt EXCEPT ![s] = serv_handle_pkt(got.pkt, HostOf[s])]
          /\ spc' = [spc EXCEPT ![s] = "connect"]
          /\ UNCHANGED accepted
     \/ RecvUpFails(accepted[s]) /\ ServerStops(s, "exit1")

\* Slip: the request is only looked at (MSG_PEEK) and stays unread.
PeekedRequest(s) ==
  /\ spc[s] = "recv"
  /\ \/ \E got \in UpArrivals(accepted[s], "tunnel") :
          /\ clientIp' = [clientIp EXCEPT ![s] = save_client_ip(got.pkt)]
          /\ spkt' = [spkt EXCEPT ![s] = serv_handle_pkt(got.pkt, HostOf[s])]
          /\ spc' = [spc EXCEPT ![s] = "connect"]
          /\ UNCHANGED <<accepted, socketVars>>
     \/ RecvUpFails(accepted[s]) /\ ServerStops(s, "exit1")

\* serv_rec_from_cli(), save_client_ip(), serv_handle_pkt() and
\* create_client_socket(), in the order of main().
ReceiveRequest(s) ==
  /\ spc[s] = "recv"
  /\ \/ \E got \in UpArrivals(accepted[s], "tunnel") :
          /\ RecvUp(accepted[s], got)
          /\ clientIp' = [clientIp EXCEPT ![s] = save_client_ip(got.pkt)]
          /\ spkt' = [spkt EXCEPT ![s] = serv_handle_pkt(got.pkt, HostOf[s])]
          /\ spc' = [spc EXCEPT ![s] = "connect"]
          /\ UNCHANGED accepted
     \/ RecvUpFails(accepted[s]) /\ ServerStops(s, "exit1")

\* Slip: the server forwards whatever it holds when connect() fails.
UncheckedConnect(s) ==
  /\ spc[s] = "connect"
  /\ \/ Dial(s, spkt[s].dst)
     \/ DialFails(spkt[s].dst) /\ UNCHANGED socketVars
  /\ spc' = [spc EXCEPT ![s] = "forward"]
  /\ UNCHANGED <<accepted, spkt, clientIp>>

ConnectToDestination(s) ==
  /\ spc[s] = "connect"
  /\ \/ /\ Dial(s, spkt[s].dst)
        /\ spc' = [spc EXCEPT ![s] = "forward"]
        /\ UNCHANGED <<accepted, spkt, clientIp>>
     \/ DialFails(spkt[s].dst) /\ ServerStops(s, "exit1")

ForwardRequest(s) ==
  /\ spc[s] = "forward"
  /\ \/ /\ SendUp(s, spkt[s])
        /\ spc' = [spc EXCEPT ![s] = "await"]
        /\ UNCHANGED <<accepted, spkt, clientIp>>
     \/ SendUpFails(s) /\ ServerStops(s, "exit1")

\* serv_rec_from_des(), whose null result memcpy() dereferences, and the
\* making of enc_pkt for the client.
ReceiveResponse(s) ==
  /\ spc[s] = "await"
  /\ \/ \E got \in DownArrivals(s, "plain") :
          /\ RecvDown(s, got)
          /\ spkt' = [spkt EXCEPT ![s] = serv_handle_pkt_dest(got.pkt, clientIp[s])]
          /\ spc' = [spc EXCEPT ![s] = "reply"]
          /\ UNCHANGED <<accepted, clientIp>>
     \/ RecvDownFails(s) /\ ServerStops(s, "segv")

\* Slip: the response is encrypted and never sent.
UnsentReply(s) ==
  /\ spc[s] = "reply"
  /\ spc' = [spc EXCEPT ![s] = "close"]
  /\ UNCHANGED <<accepted, spkt, clientIp, socketVars>>

\* serv_cli_encrypt_free(), whose result main() ignores.
ReplyToClient(s) ==
  /\ spc[s] = "reply"
  /\ \/ SendDown(accepted[s], spkt[s])
     \/ SendDownFails(accepted[s]) /\ UNCHANGED socketVars
  /\ spc' = [spc EXCEPT ![s] = "close"]
  /\ UNCHANGED <<accepted, spkt, clientIp>>

CloseServer(s) ==
  /\ spc[s] = "close"
  /\ ServerStops(s, "exit0")

InterruptServer(s) ==
  /\ s \in Interruptible
  /\ spc[s] \notin Ended
  /\ ServerStops(s, "sigint")

\* The server is in a call that returns only when another process acts.
ServerBlocked(s) ==
  \/ spc[s] = "accept" /\ backlog[s] = <<>>
  \/ spc[s] = "recv" /\ ~UpReady(accepted[s], "tunnel")
  \/ spc[s] = "await" /\ ~DownReady(s, "plain")

\* The steps the program takes by itself, once it is listening.
ServerRuns(s) ==
  \/ accept_client_connection(s) \/ ReceiveRequest(s)
  \/ ConnectToDestination(s)     \/ ForwardRequest(s)
  \/ ReceiveResponse(s)          \/ ReplyToClient(s)   \/ CloseServer(s)

ServerNext(s) == LaunchServer(s) \/ ServerRuns(s) \/ InterruptServer(s)
=============================================================================
