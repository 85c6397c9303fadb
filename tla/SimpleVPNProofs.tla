-------------------------- MODULE SimpleVPNProofs --------------------------
(***************************************************************************)
(* Theorems about SimpleVPN, for every number of processes and hosts,      *)
(* whatever fails: types, and that no client's address is shown outside;   *)
(* the connections, and what a client is answered over them; that the      *)
(* programs implement the service, VpnService; and that in an undisturbed  *)
(* system only a process that was passed over crashes.                     *)
(***************************************************************************)
EXTENDS SimpleVPN, SequenceTheorems, TLAPS

-----------------------------------------------------------------------------
(***************************************************************************)
(* The packet operators: each returns a packet, and which fields it keeps. *)
(***************************************************************************)

\* create_packets() and create_packets_des() make packets.
LEMMA CreatedPackets ==
  ASSUME NEW a \in Address, NEW b \in Address
  PROVE  /\ create_packets(a, b) \in Packet
         /\ create_packets_des(a, b) \in Packet
  BY DEF create_packets, create_packets_des, Packet, Form, Body

\* serv_handle_pkt() replaces the source address and decapsulates.
LEMMA HandledPacket ==
  ASSUME NEW pkt \in Packet, NEW h \in Address
  PROVE  /\ serv_handle_pkt(pkt, h) \in Packet
         /\ serv_handle_pkt(pkt, h).form = "plain"
         /\ serv_handle_pkt(pkt, h).src = h
         /\ serv_handle_pkt(pkt, h).dst = pkt.dst
         /\ serv_handle_pkt(pkt, h).body = pkt.body
  BY DEF serv_handle_pkt, Packet, Form

\* serv_handle_pkt_dest() replaces the destination address and encapsulates.
LEMMA HandledResponse ==
  ASSUME NEW pkt \in Packet, NEW h \in Address
  PROVE  /\ serv_handle_pkt_dest(pkt, h) \in Packet
         /\ serv_handle_pkt_dest(pkt, h).form = "tunnel"
         /\ serv_handle_pkt_dest(pkt, h).src = pkt.src
         /\ serv_handle_pkt_dest(pkt, h).dst = h
         /\ serv_handle_pkt_dest(pkt, h).body = pkt.body
  BY DEF serv_handle_pkt_dest, Packet, Form

\* What recv() leaves in a buffer is a packet of the form the reader expects;
\* its addresses are those of a packet under way in that form, or nobody's.
LEMMA ArrivedPacket ==
  ASSUME NEW pkts \in SUBSET Packet, NEW end, NEW f \in Form,
         NEW got \in Arrivals(pkts, end, f)
  PROVE  /\ got.pkt \in Packet
         /\ got.pkt.form = f
         /\ got.rest \in SUBSET pkts
         /\ got.pkt.src # NoHost =>
              \E p \in pkts : p.form = f /\ p.src = got.pkt.src
         /\ got.pkt.dst # NoHost =>
              \E p \in pkts : p.form = f /\ p.dst = got.pkt.dst
<1>1. CASE \E p \in pkts, n \in CutOrWhole(f) :
             got = [pkt |-> Received(f, p, n), rest |-> IF n = Whole THEN {} ELSE {p}]
  <2>1. PICK p \in pkts, n \in CutOrWhole(f) :
          got = [pkt |-> Received(f, p, n), rest |-> IF n = Whole THEN {} ELSE {p}]
    BY <1>1
  <2>2. /\ Received(f, p, n) \in Packet
        /\ Received(f, p, n).form = f
        /\ Received(f, p, n).src # NoHost => p.form = f /\ p.src = Received(f, p, n).src
        /\ Received(f, p, n).dst # NoHost => p.form = f /\ p.dst = Received(f, p, n).dst
    BY DEF Received, Packet, Address, Body
  <2>3. QED  BY <2>1, <2>2
<1>2. CASE got = [pkt |-> NothingReceived(f), rest |-> {}]
  BY <1>2 DEF NothingReceived, Packet, Address, Body
<1>3. QED  BY <1>1, <1>2 DEF Arrivals

-----------------------------------------------------------------------------
(***************************************************************************)
(* The socket operations keep the sockets' types.                          *)
(***************************************************************************)

\* listen()
LEMMA ListenType ==
  ASSUME SocketsTypeOK, NEW a \in Acceptor, Listen(a)
  PROVE  SocketsTypeOK'
  BY DEF SocketsTypeOK, Listen

\* connect()
LEMMA DialType ==
  ASSUME SocketsTypeOK, NEW o \in Opener, NEW addr, Dial(o, addr)
  PROVE  SocketsTypeOK'
<1>1. PICK a \in Acceptor :
        /\ link' = [link EXCEPT ![o] = NewLink(a)]
        /\ backlog' = [backlog EXCEPT ![a] = Append(@, o)]
  BY DEF Dial
<1>2. link' \in [Opener -> Link]
  BY <1>1 DEF SocketsTypeOK, NewLink, Link
<1>3. backlog' \in [Acceptor -> Seq(Opener)]
  <2>1. Append(backlog[a], o) \in Seq(Opener)
    BY DEF SocketsTypeOK
  <2>2. QED  BY <1>1, <2>1 DEF SocketsTypeOK
<1>4. QED  BY <1>2, <1>3 DEF SocketsTypeOK, Dial

\* accept()
LEMMA AcceptType ==
  ASSUME SocketsTypeOK, NEW a \in Acceptor, Accept(a)
  PROVE  SocketsTypeOK' /\ Head(backlog[a]) \in Opener
<1>1. backlog[a] \in Seq(Opener) /\ backlog[a] # <<>>
  BY DEF SocketsTypeOK, Accept
<1>2. Head(backlog[a]) \in Opener /\ Tail(backlog[a]) \in Seq(Opener)
  BY <1>1
<1>3. link' \in [Opener -> Link]
  BY <1>2 DEF SocketsTypeOK, Accept, Link
<1>4. QED  BY <1>2, <1>3 DEF SocketsTypeOK, Accept

\* send()
LEMMA SendType ==
  ASSUME SocketsTypeOK, NEW o \in Opener, NEW pkt \in Packet,
         SendUp(o, pkt) \/ SendDown(o, pkt)
  PROVE  SocketsTypeOK'
<1>1. link[o] \in Link
  BY DEF SocketsTypeOK
<1>2. CASE SendUp(o, pkt)
  BY <1>1, <1>2 DEF SocketsTypeOK, SendUp, Link
<1>3. CASE SendDown(o, pkt)
  BY <1>1, <1>3 DEF SocketsTypeOK, SendDown, Link
<1>4. QED  BY <1>2, <1>3

\* The error of a failed send() is reported.
LEMMA ErrorReportedType ==
  ASSUME SocketsTypeOK, NEW o \in Opener, ErrorReported(o)
  PROVE  SocketsTypeOK'
  BY DEF SocketsTypeOK, ErrorReported, Link

\* recv()
LEMMA RecvType ==
  ASSUME SocketsTypeOK, NEW o \in Opener, NEW f \in Form, NEW got,
         \/ got \in UpArrivals(o, f) /\ RecvUp(o, got)
         \/ got \in DownArrivals(o, f) /\ RecvDown(o, got)
  PROVE  SocketsTypeOK' /\ got.pkt \in Packet
<1>1. link[o] \in Link
  BY DEF SocketsTypeOK
<1>2. link[o].up \in SUBSET Packet /\ link[o].down \in SUBSET Packet
  BY <1>1 DEF Link
<1>3. CASE got \in UpArrivals(o, f) /\ RecvUp(o, got)
  <2>1. got.pkt \in Packet /\ got.rest \in SUBSET Packet
    BY <1>2, <1>3, ArrivedPacket DEF UpArrivals
  <2>2. QED  BY <1>1, <1>3, <2>1 DEF SocketsTypeOK, RecvUp, Link
<1>4. CASE got \in DownArrivals(o, f) /\ RecvDown(o, got)
  <2>1. got.pkt \in Packet /\ got.rest \in SUBSET Packet
    BY <1>2, <1>4, ArrivedPacket DEF DownArrivals
  <2>2. QED  BY <1>1, <1>4, <2>1 DEF SocketsTypeOK, RecvDown, Link
<1>5. QED  BY <1>3, <1>4

\* The ends of a process's connections are closed; the bytes stay.
LEMMA HangUpType ==
  ASSUME SocketsTypeOK, NEW p, HangUp(p)
  PROVE  /\ SocketsTypeOK'
         /\ \A o \in Opener : /\ link'[o].peer = link[o].peer
                              /\ link'[o].up = link[o].up
                              /\ link'[o].down = link[o].down
<1>1. ASSUME NEW l \in Link
      PROVE  /\ NearClosed(l) \in Link
             /\ NearClosed(l).peer = l.peer
             /\ NearClosed(l).up = l.up
             /\ NearClosed(l).down = l.down
  BY DEF NearClosed, Link
<1>2. ASSUME NEW l \in Link
      PROVE  /\ FarClosed(l) \in Link
             /\ FarClosed(l).peer = l.peer
             /\ FarClosed(l).up = l.up
             /\ FarClosed(l).down = l.down
  BY DEF FarClosed, Link
<1>3. ASSUME NEW o \in Opener
      PROVE  /\ link'[o] \in Link
             /\ link'[o].peer = link[o].peer
             /\ link'[o].up = link[o].up
             /\ link'[o].down = link[o].down
  <2>1. link[o] \in Link
    BY DEF SocketsTypeOK
  <2> DEFINE l == IF o = p THEN NearClosed(link[o]) ELSE link[o]
  <2>2. l \in Link /\ l.peer = link[o].peer /\ l.up = link[o].up /\ l.down = link[o].down
    BY <1>1, <2>1
  <2>3. link'[o] = IF l.peer = p THEN FarClosed(l) ELSE l
    BY DEF HangUp
  <2>4. QED  BY <1>2, <2>2, <2>3
<1>4. link' \in [Opener -> Link]
  BY <1>3 DEF HangUp
<1>5. <<>> \in Seq(Opener)
  OBVIOUS
<1>6. QED  BY <1>3, <1>4, <1>5 DEF HangUp, SocketsTypeOK

-----------------------------------------------------------------------------
(***************************************************************************)
(* Type correctness.                                                       *)
(***************************************************************************)

\* The fields of a packet that was sent are addresses of hosts or nobody's.
LEMMA ProcessFacts ==
  /\ Client \subseteq Opener /\ Server \subseteq Opener
  /\ Server \subseteq Acceptor /\ Destination \subseteq Acceptor
  /\ \A p \in Process : HostOf[p] \in Address
  /\ Opener \subseteq Process /\ Acceptor \subseteq Process
  BY SocketsAssumption DEF Opener, Acceptor, Process, Address

\* The programs begin with nothing open and nothing received.
LEMMA InitType == Init => TypeInv
<1> SUFFICES ASSUME Init PROVE TypeInv
  OBVIOUS
<1> USE DEF Init
<1>1. ClientTypeOK
  BY DEF ClientInit, ClientTypeOK, ClientPC, Address
<1>2. ServerTypeOK
  BY DEF ServerInit, ServerTypeOK, ServerPC, Address
<1>3. DestinationTypeOK
  BY DEF DestinationInit, DestinationTypeOK, DestinationPC
<1>4. SocketsTypeOK
  <2>1. NoLink \in Link
    BY DEF NoLink, Link
  <2>2. <<>> \in Seq(Opener)
    OBVIOUS
  <2>3. QED  BY <2>1, <2>2 DEF SocketsInit, SocketsTypeOK
<1>5. \A s \in Server : spc[s] \notin Serving
  BY DEF ServerInit, Serving, Holding
<1>6. \A d \in Destination : dpc[d] \notin {"recv", "respond", "close"}
  BY DEF DestinationInit
<1>7. QED  BY <1>1, <1>2, <1>3, <1>4, <1>5, <1>6 DEF TypeInv, TypeOK, Serving

\* A step of a client keeps the types.
LEMMA ClientStepType ==
  ASSUME TypeInv, NEW c \in Client, ClientStep(c)
  PROVE  TypeInv'
<1> USE DEF TypeInv, TypeOK
<1>0. c \in Opener /\ HostOf[c] \in Address
  BY ProcessFacts
<1>1. ASSUME NEW how \in Ended, ClientStops(c, how)
      PROVE  ClientTypeOK' /\ SocketsTypeOK'
  BY <1>1, HangUpType DEF ClientStops, ClientTypeOK, ClientPC
<1>2. CASE ReadNames(c)
  <2>1. SocketsTypeOK'
    BY <1>2 DEF ReadNames, socketVars, SocketsTypeOK
  <2>2. ClientTypeOK'
    BY <1>2, ClientAssumption DEF ReadNames, ClientTypeOK, ClientPC, Ended
  <2>3. QED  BY <2>1, <2>2 DEF ClientStep, serverVars, destinationVars,
                              ServerTypeOK, DestinationTypeOK
<1>3. CASE ConnectToServer(c)
  <2>1. ClientTypeOK' /\ SocketsTypeOK'
    <3>1. CASE Dial(c, ServerHost[c]) /\ cpc' = [cpc EXCEPT ![c] = "send"]
               /\ UNCHANGED <<asked, reply>>
      BY <1>0, <3>1, DialType DEF ClientTypeOK, ClientPC
    <3>2. CASE ClientStops(c, "exit1")
      BY <1>1, <3>2 DEF Ended
    <3>3. QED  BY <1>3, <3>1, <3>2 DEF ConnectToServer
  <2>2. QED  BY <2>1 DEF ClientStep, serverVars, destinationVars,
                         ServerTypeOK, DestinationTypeOK
<1>4. CASE SendRequest(c)
  <2>1. create_packets(HostOf[c], asked[c]) \in Packet
    BY <1>0, CreatedPackets DEF ClientTypeOK
  <2>2. SocketsTypeOK'
    BY <1>0, <1>4, <2>1, SendType, ErrorReportedType DEF SendRequest
  <2>3. ClientTypeOK'
    BY <1>4 DEF SendRequest, ClientTypeOK, ClientPC
  <2>4. QED  BY <2>2, <2>3 DEF ClientStep, serverVars, destinationVars,
                              ServerTypeOK, DestinationTypeOK
<1>5. CASE ReceiveReply(c)
  <2>1. ClientTypeOK' /\ SocketsTypeOK'
    <3>1. ASSUME NEW got \in DownArrivals(c, "tunnel"), RecvDown(c, got),
                 reply' = [reply EXCEPT ![c] = got.pkt],
                 cpc' = [cpc EXCEPT ![c] = "close"], UNCHANGED asked
          PROVE  ClientTypeOK' /\ SocketsTypeOK'
      <4>1. SocketsTypeOK' /\ got.pkt \in Packet
        BY <1>0, <3>1, RecvType DEF Form
      <4>2. QED  BY <3>1, <4>1 DEF ClientTypeOK, ClientPC
    <3>2. CASE ClientStops(c, "segv")
      BY <1>1, <3>2 DEF Ended
    <3>3. QED  BY <1>5, <3>1, <3>2 DEF ReceiveReply
  <2>2. QED  BY <2>1 DEF ClientStep, serverVars, destinationVars,
                         ServerTypeOK, DestinationTypeOK
<1>6. CASE CloseClient(c) \/ InterruptClient(c)
  <2>1. ClientTypeOK' /\ SocketsTypeOK'
    BY <1>1, <1>6 DEF CloseClient, InterruptClient, Ended
  <2>2. QED  BY <2>1 DEF ClientStep, serverVars, destinationVars,
                         ServerTypeOK, DestinationTypeOK
<1>7. QED  BY <1>2, <1>3, <1>4, <1>5, <1>6 DEF ClientStep, ClientNext, ClientRuns

\* A step of a server keeps the types.
LEMMA ServerStepType ==
  ASSUME TypeInv, NEW s \in Server, ServerStep(s)
  PROVE  TypeInv'
<1> USE DEF TypeInv, TypeOK
<1> DEFINE ServerTypes == /\ ServerTypeOK
                          /\ \A t \in Server : spc[t] \in Serving => accepted[t] \in Opener
                          /\ \A t \in Server : spc[t] \in Holding => spkt[t] \in Packet
<1>0. s \in Opener /\ s \in Acceptor /\ HostOf[s] \in Address
  BY ProcessFacts
<1>1. ASSUME NEW how \in Ended, ServerStops(s, how)
      PROVE  ServerTypes' /\ SocketsTypeOK'
  BY <1>1, HangUpType DEF ServerStops, ServerTypeOK, ServerPC, Serving, Holding, Ended
<1>2. SUFFICES ServerTypes' /\ SocketsTypeOK'
  BY <1>2 DEF ServerStep, clientVars, destinationVars, ClientTypeOK, DestinationTypeOK
<1>3. CASE LaunchServer(s)
  <2>1. SocketsTypeOK'
    BY <1>0, <1>3, ListenType DEF LaunchServer, socketVars, SocketsTypeOK
  <2>2. ServerTypes'
    BY <1>3 DEF LaunchServer, ServerTypeOK, ServerPC, Serving, Holding, Ended
  <2>3. QED  BY <2>1, <2>2
<1>4. CASE accept_client_connection(s)
  <2>1. CASE /\ Accept(s)
             /\ accepted' = [accepted EXCEPT ![s] = Head(backlog[s])]
             /\ spc' = [spc EXCEPT ![s] = "recv"]
             /\ UNCHANGED <<spkt, clientIp>>
    <3>1. SocketsTypeOK' /\ Head(backlog[s]) \in Opener
      BY <1>0, <2>1, AcceptType
    <3>2. ServerTypes'
      BY <2>1, <3>1 DEF ServerTypeOK, ServerPC, Serving, Holding
    <3>3. QED  BY <3>1, <3>2
  <2>2. CASE ServerStops(s, "exit1")
    BY <1>1, <2>2 DEF Ended
  <2>3. QED  BY <1>4, <2>1, <2>2 DEF accept_client_connection
<1>5. CASE ReceiveRequest(s)
  <2>1. ASSUME NEW got \in UpArrivals(accepted[s], "tunnel"), RecvUp(accepted[s], got),
               clientIp' = [clientIp EXCEPT ![s] = save_client_ip(got.pkt)],
               spkt' = [spkt EXCEPT ![s] = serv_handle_pkt(got.pkt, HostOf[s])],
               spc' = [spc EXCEPT ![s] = "connect"], UNCHANGED accepted
        PROVE  ServerTypes' /\ SocketsTypeOK'
    <3>1. accepted[s] \in Opener
      BY <1>5 DEF ReceiveRequest, Serving
    <3>2. SocketsTypeOK' /\ got.pkt \in Packet
      BY <2>1, <3>1, RecvType DEF Form
    <3>3. serv_handle_pkt(got.pkt, HostOf[s]) \in Packet
      BY <1>0, <3>2, HandledPacket
    <3>4. save_client_ip(got.pkt) \in Address
      BY <3>2 DEF save_client_ip, Packet
    <3>5. ServerTypes'
      BY <2>1, <3>1, <3>3, <3>4 DEF ServerTypeOK, ServerPC, Serving, Holding
    <3>6. QED  BY <3>2, <3>5
  <2>2. CASE ServerStops(s, "exit1")
    BY <1>1, <2>2 DEF Ended
  <2>3. QED  BY <1>5, <2>1, <2>2 DEF ReceiveRequest
<1>6. CASE ConnectToDestination(s)
  <2>1. CASE /\ Dial(s, spkt[s].dst)
             /\ spc' = [spc EXCEPT ![s] = "forward"]
             /\ UNCHANGED <<accepted, spkt, clientIp>>
    <3>1. SocketsTypeOK'
      BY <1>0, <2>1, DialType
    <3>2. ServerTypes'
      BY <1>6, <2>1 DEF ConnectToDestination, ServerTypeOK, ServerPC, Serving, Holding
    <3>3. QED  BY <3>1, <3>2
  <2>2. CASE ServerStops(s, "exit1")
    BY <1>1, <2>2 DEF Ended
  <2>3. QED  BY <1>6, <2>1, <2>2 DEF ConnectToDestination
<1>7. CASE ForwardRequest(s)
  <2>1. CASE /\ SendUp(s, spkt[s])
             /\ spc' = [spc EXCEPT ![s] = "await"]
             /\ UNCHANGED <<accepted, spkt, clientIp>>
    <3>1. spkt[s] \in Packet
      BY <1>7 DEF ForwardRequest, Holding
    <3>2. SocketsTypeOK'
      BY <1>0, <2>1, <3>1, SendType
    <3>3. ServerTypes'
      BY <1>7, <2>1 DEF ForwardRequest, ServerTypeOK, ServerPC, Serving, Holding
    <3>4. QED  BY <3>2, <3>3
  <2>2. CASE ServerStops(s, "exit1")
    BY <1>1, <2>2 DEF Ended
  <2>3. QED  BY <1>7, <2>1, <2>2 DEF ForwardRequest
<1>8. CASE ReceiveResponse(s)
  <2>1. ASSUME NEW got \in DownArrivals(s, "plain"), RecvDown(s, got),
               spkt' = [spkt EXCEPT ![s] = serv_handle_pkt_dest(got.pkt, clientIp[s])],
               spc' = [spc EXCEPT ![s] = "reply"], UNCHANGED <<accepted, clientIp>>
        PROVE  ServerTypes' /\ SocketsTypeOK'
    <3>1. SocketsTypeOK' /\ got.pkt \in Packet
      BY <1>0, <2>1, RecvType DEF Form
    <3>2. serv_handle_pkt_dest(got.pkt, clientIp[s]) \in Packet
      BY <3>1, HandledResponse DEF ServerTypeOK
    <3>3. ServerTypes'
      BY <1>8, <2>1, <3>2 DEF ReceiveResponse, ServerTypeOK, ServerPC, Serving, Holding
    <3>4. QED  BY <3>1, <3>3
  <2>2. CASE ServerStops(s, "segv")
    BY <1>1, <2>2 DEF Ended
  <2>3. QED  BY <1>8, <2>1, <2>2 DEF ReceiveResponse
<1>9. CASE ReplyToClient(s)
  <2>1. accepted[s] \in Opener /\ spkt[s] \in Packet
    BY <1>9 DEF ReplyToClient, Serving, Holding
  <2>2. SocketsTypeOK'
    BY <1>9, <2>1, SendType DEF ReplyToClient, socketVars, SocketsTypeOK
  <2>3. ServerTypes'
    BY <1>9 DEF ReplyToClient, ServerTypeOK, ServerPC, Serving, Holding
  <2>4. QED  BY <2>2, <2>3
<1>10. CASE CloseServer(s) \/ InterruptServer(s)
  BY <1>1, <1>10 DEF CloseServer, InterruptServer, Ended
<1>11. QED  BY <1>3, <1>4, <1>5, <1>6, <1>7, <1>8, <1>9, <1>10
            DEF ServerStep, ServerNext, ServerRuns

\* A step of a destination keeps the types.
LEMMA DestinationStepType ==
  ASSUME TypeInv, NEW d \in Destination, DestinationStep(d)
  PROVE  TypeInv'
<1> USE DEF TypeInv, TypeOK
<1> DEFINE DestinationTypes ==
             /\ DestinationTypeOK
             /\ \A e \in Destination : dpc[e] \in {"recv", "respond", "close"} => caller[e] \in Opener
             /\ \A e \in Destination : dpc[e] = "respond" => dpkt[e] \in Packet
<1>0. d \in Acceptor /\ HostOf[d] \in Address
  BY ProcessFacts
<1>1. ASSUME NEW how \in Ended, DestinationStops(d, how)
      PROVE  DestinationTypes' /\ SocketsTypeOK'
  BY <1>1, HangUpType DEF DestinationStops, DestinationTypeOK, DestinationPC, Ended
<1>2. SUFFICES DestinationTypes' /\ SocketsTypeOK'
  BY <1>2 DEF DestinationStep, clientVars, serverVars, ClientTypeOK, ServerTypeOK
<1>3. CASE LaunchDestination(d)
  <2>1. SocketsTypeOK'
    BY <1>0, <1>3, ListenType DEF LaunchDestination, socketVars, SocketsTypeOK
  <2>2. DestinationTypes'
    BY <1>3 DEF LaunchDestination, DestinationTypeOK, DestinationPC, Ended
  <2>3. QED  BY <2>1, <2>2
<1>4. CASE accept_dest_connection(d)
  <2>1. CASE /\ Accept(d)
             /\ caller' = [caller EXCEPT ![d] = Head(backlog[d])]
             /\ dpc' = [dpc EXCEPT ![d] = "recv"]
             /\ UNCHANGED dpkt
    <3>1. SocketsTypeOK' /\ Head(backlog[d]) \in Opener
      BY <1>0, <2>1, AcceptType
    <3>2. DestinationTypes'
      BY <2>1, <3>1 DEF DestinationTypeOK, DestinationPC
    <3>3. QED  BY <3>1, <3>2
  <2>2. CASE DestinationStops(d, "exit1")
    BY <1>1, <2>2 DEF Ended
  <2>3. QED  BY <1>4, <2>1, <2>2 DEF accept_dest_connection
<1>5. CASE dest_rec_pkt(d)
  <2>1. ASSUME NEW got \in UpArrivals(caller[d], "plain"), RecvUp(caller[d], got),
               dpkt' = [dpkt EXCEPT ![d] = got.pkt],
               dpc' = [dpc EXCEPT ![d] = "respond"], UNCHANGED caller
        PROVE  DestinationTypes' /\ SocketsTypeOK'
    <3>1. caller[d] \in Opener
      BY <1>5 DEF dest_rec_pkt
    <3>2. SocketsTypeOK' /\ got.pkt \in Packet
      BY <2>1, <3>1, RecvType DEF Form
    <3>3. DestinationTypes'
      BY <2>1, <3>1, <3>2 DEF DestinationTypeOK, DestinationPC
    <3>4. QED  BY <3>2, <3>3
  <2>2. CASE DestinationStops(d, "exit1")
    BY <1>1, <2>2 DEF Ended
  <2>3. QED  BY <1>5, <2>1, <2>2 DEF dest_rec_pkt
<1>6. CASE Respond(d)
  <2>1. CASE /\ SendDown(caller[d], create_packets_des(HostOf[d], dpkt[d].src))
             /\ dpc' = [dpc EXCEPT ![d] = "close"]
             /\ UNCHANGED <<caller, dpkt>>
    <3>1. caller[d] \in Opener /\ dpkt[d].src \in Address
      BY <1>6 DEF Respond, Packet
    <3>2. SocketsTypeOK'
      BY <1>0, <2>1, <3>1, CreatedPackets, SendType
    <3>3. DestinationTypes'
      BY <2>1, <3>1 DEF DestinationTypeOK, DestinationPC
    <3>4. QED  BY <3>2, <3>3
  <2>2. CASE DestinationStops(d, "exit1")
    BY <1>1, <2>2 DEF Ended
  <2>3. QED  BY <1>6, <2>1, <2>2 DEF Respond
<1>7. CASE CloseDestination(d) \/ InterruptDestination(d)
  BY <1>1, <1>7 DEF CloseDestination, InterruptDestination, Ended
<1>8. QED  BY <1>3, <1>4, <1>5, <1>6, <1>7
           DEF DestinationStep, DestinationNext, DestinationRuns

\* Every step keeps the types.
LEMMA StepType == TypeInv /\ [Next]_vars => TypeInv'
<1> SUFFICES ASSUME TypeInv, [Next]_vars PROVE TypeInv'
  OBVIOUS
<1>1. CASE UNCHANGED vars
  BY <1>1 DEF vars, clientVars, serverVars, destinationVars, socketVars, TypeInv, TypeOK,
              ClientTypeOK, ServerTypeOK, DestinationTypeOK, SocketsTypeOK
<1>2. QED  BY <1>1, ClientStepType, ServerStepType, DestinationStepType DEF Next, Rest

\* In every behaviour of the three programs each variable keeps its type, and
\* each process that is about to use a connection or a packet has one.
THEOREM TypeCorrect == Spec => []TypeInv
<1>1. QED  BY InitType, StepType, PTL DEF Spec

\* In every behaviour of the three programs each variable keeps its type.
THEOREM TypesHold == Spec => []TypeOK
<1>1. TypeInv => TypeOK
  BY DEF TypeInv
<1>2. QED  BY <1>1, TypeCorrect, PTL

-----------------------------------------------------------------------------
(***************************************************************************)
(* The proxy hides its clients.                                            *)
(***************************************************************************)

\* No bytes are added to any connection.
NothingSent ==
  \A o \in Opener : link'[o].up \subseteq link[o].up /\ link'[o].down \subseteq link[o].down

\* Only send() adds bytes to a connection.
LEMMA QuietCalls ==
  ASSUME SocketsTypeOK
  PROVE  /\ UNCHANGED socketVars => NothingSent
         /\ \A a \in Acceptor : Listen(a) => NothingSent
         /\ \A o \in Opener, addr \in Address : Dial(o, addr) => NothingSent
         /\ \A a \in Acceptor : Accept(a) => NothingSent
         /\ \A o \in Opener : ErrorReported(o) => NothingSent
         /\ \A p : HangUp(p) => NothingSent
<1> USE DEF NothingSent
<1>0. \A o \in Opener : link[o] \in Link
  BY DEF SocketsTypeOK
<1>1. UNCHANGED socketVars => NothingSent
  BY DEF socketVars
<1>2. ASSUME NEW a \in Acceptor, Listen(a) PROVE NothingSent
  BY <1>2 DEF Listen
<1>3. ASSUME NEW o \in Opener, NEW addr \in Address, Dial(o, addr) PROVE NothingSent
  <2>1. PICK a \in Acceptor : link' = [link EXCEPT ![o] = NewLink(a)]
    BY <1>3 DEF Dial
  <2>2. QED  BY <1>0, <2>1 DEF SocketsTypeOK, NewLink
<1>4. ASSUME NEW a \in Acceptor, Accept(a) PROVE NothingSent
  <2>1. Head(backlog[a]) \in Opener
    BY <1>4, AcceptType
  <2>2. QED  BY <1>0, <1>4, <2>1 DEF Accept, SocketsTypeOK, Link
<1>5. ASSUME NEW o \in Opener, ErrorReported(o) PROVE NothingSent
  BY <1>0, <1>5 DEF ErrorReported, SocketsTypeOK, Link
<1>6. ASSUME NEW p, HangUp(p) PROVE NothingSent
  BY <1>6, HangUpType
<1>7. QED  BY <1>1, <1>2, <1>3, <1>4, <1>5, <1>6

\* recv() takes bytes away.
LEMMA QuietRecv ==
  ASSUME SocketsTypeOK, NEW o \in Opener, NEW f \in Form, NEW got,
         \/ got \in UpArrivals(o, f) /\ RecvUp(o, got)
         \/ got \in DownArrivals(o, f) /\ RecvDown(o, got)
  PROVE  NothingSent
<1>1. \A x \in Opener : link[x] \in Link
  BY DEF SocketsTypeOK
<1>2. link[o].up \in SUBSET Packet /\ link[o].down \in SUBSET Packet
  BY <1>1 DEF Link
<1>3. CASE got \in UpArrivals(o, f) /\ RecvUp(o, got)
  <2>1. got.rest \subseteq link[o].up
    BY <1>2, <1>3, ArrivedPacket DEF UpArrivals
  <2>2. QED  BY <1>1, <1>3, <2>1 DEF RecvUp, SocketsTypeOK, Link, NothingSent
<1>4. CASE got \in DownArrivals(o, f) /\ RecvDown(o, got)
  <2>1. got.rest \subseteq link[o].down
    BY <1>2, <1>4, ArrivedPacket DEF DownArrivals
  <2>2. QED  BY <1>1, <1>4, <2>1 DEF RecvDown, SocketsTypeOK, Link, NothingSent
<1>5. QED  BY <1>3, <1>4

\* send() adds the packet to the one direction of the one connection.
LEMMA SendUpAdds ==
  ASSUME SocketsTypeOK, NEW o \in Opener, NEW pkt \in Packet, SendUp(o, pkt)
  PROVE  \A x \in Opener :
           /\ link'[x].up \subseteq link[x].up \cup {q \in {pkt} : x = o}
           /\ link'[x].down = link[x].down
<1>1. \A x \in Opener : link[x] \in Link
  BY DEF SocketsTypeOK
<1>2. QED  BY <1>1 DEF SendUp, SocketsTypeOK, Link

\* The same for a packet that is sent down.
LEMMA SendDownAdds ==
  ASSUME SocketsTypeOK, NEW o \in Opener, NEW pkt \in Packet, SendDown(o, pkt)
  PROVE  \A x \in Opener :
           /\ link'[x].up = link[x].up
           /\ link'[x].down \subseteq link[x].down \cup {q \in {pkt} : x = o}
<1>1. \A x \in Opener : link[x] \in Link
  BY DEF SocketsTypeOK
<1>2. QED  BY <1>1 DEF SendDown, SocketsTypeOK, Link

\* A step that sends nothing keeps what is said of the bytes under way.
LEMMA QuietForms ==
  ASSUME FormInv, NothingSent
  PROVE  FormInv'
  BY ProcessFacts DEF FormInv, NothingSent

\* The same for what a destination may know of the client.
LEMMA QuietHides ==
  ASSUME ProxyHidesClient, NothingSent, UNCHANGED dpkt
  PROVE  ProxyHidesClient'
  BY ProcessFacts DEF ProxyHidesClient, NothingSent, HostsApart, OutsideSees, ClientHost

\* No address of a client is an acceptor's, or nobody's.
LEMMA ClientHostFacts ==
  /\ NoHost \notin ClientHost
  /\ HostsApart => \A a \in Acceptor : HostOf[a] \notin ClientHost
  /\ \A p \in Process : HostOf[p] # NoHost
  BY PacketsAssumption, SocketsAssumption DEF ClientHost, HostsApart, Process

\* Nothing is under way at the start.
LEMMA InitProxy == Init => ProxyInv
<1> SUFFICES ASSUME Init PROVE ProxyInv
  OBVIOUS
<1>1. TypeInv
  BY InitType
<1>2. \A o \in Opener : link[o].up = {} /\ link[o].down = {}
  BY DEF Init, SocketsInit, NoLink
<1>3. FormInv
  BY <1>2, ProcessFacts DEF FormInv
<1>4. ServerInv
  BY DEF Init, ServerInit, ServerInv
<1>5. ProxyHidesClient
  BY <1>2, ProcessFacts DEF Init, DestinationInit, ProxyHidesClient
<1>6. QED  BY <1>1, <1>3, <1>4, <1>5 DEF ProxyInv

\* A client writes to its own connection only, and encrypts.
LEMMA ClientStepProxy ==
  ASSUME ProxyInv, NEW c \in Client, ClientStep(c)
  PROVE  FormInv' /\ ServerInv' /\ ProxyHidesClient'
<1> USE DEF ProxyInv
<1>0. c \in Opener /\ HostOf[c] \in Address /\ SocketsTypeOK /\ ClientTypeOK /\ c \notin Server
  BY ProcessFacts, SocketsAssumption DEF TypeInv, TypeOK, Acceptor
<1>1. ServerInv' /\ UNCHANGED dpkt
  BY DEF ClientStep, serverVars, destinationVars, ServerInv
<1>2. CASE NothingSent
  BY <1>1, <1>2, QuietForms, QuietHides
<1>3. ASSUME NEW how, ClientStops(c, how) PROVE NothingSent
  BY <1>0, <1>3, QuietCalls DEF ClientStops
<1>4. CASE ReadNames(c)
  BY <1>0, <1>2, <1>4, QuietCalls DEF ReadNames
<1>5. CASE ConnectToServer(c)
  <2>1. ServerHost[c] \in Address
    BY ClientAssumption
  <2>2. NothingSent
    BY <1>0, <1>3, <1>5, <2>1, QuietCalls DEF ConnectToServer
  <2>3. QED  BY <1>2, <2>2
<1>6. CASE SendRequest(c)
  <2>1. CASE ErrorReported(c)
    BY <1>0, <1>2, <2>1, QuietCalls
  <2>2. CASE SendUp(c, create_packets(HostOf[c], asked[c]))
    <3> DEFINE pkt == create_packets(HostOf[c], asked[c])
    <3>1. pkt \in Packet /\ pkt.form = "tunnel"
      BY <1>0, CreatedPackets DEF ClientTypeOK, create_packets
    <3>2. \A x \in Opener :
            /\ link'[x].up \subseteq link[x].up \cup {q \in {pkt} : x = c}
            /\ link'[x].down = link[x].down
      BY <1>0, <2>2, <3>1, SendUpAdds
    <3>3. FormInv'
      BY <1>0, <3>1, <3>2, ProcessFacts DEF FormInv
    <3>4. \A s \in Server : link'[s].up \subseteq link[s].up /\ link'[s].down = link[s].down
      BY <1>0, <3>2, ProcessFacts
    <3>5. ProxyHidesClient'
      BY <1>1, <3>4 DEF ProxyHidesClient, HostsApart, OutsideSees, ClientHost
    <3>6. QED  BY <1>1, <3>3, <3>5
  <2>3. QED  BY <1>6, <2>1, <2>2 DEF SendRequest
<1>7. CASE ReceiveReply(c)
  <2>1. NothingSent
    BY <1>0, <1>3, <1>7, QuietRecv DEF ReceiveReply, Form
  <2>2. QED  BY <1>2, <2>1
<1>8. CASE CloseClient(c) \/ InterruptClient(c)
  BY <1>2, <1>3, <1>8 DEF CloseClient, InterruptClient
<1>9. QED  BY <1>4, <1>5, <1>6, <1>7, <1>8 DEF ClientStep, ClientNext, ClientRuns

\* A server writes its clients' packets under its own address.
LEMMA ServerStepProxy ==
  ASSUME ProxyInv, NEW s \in Server, ServerStep(s)
  PROVE  FormInv' /\ ServerInv' /\ ProxyHidesClient'
<1> USE DEF ProxyInv
<1>0. /\ s \in Opener /\ s \in Acceptor /\ HostOf[s] \in Address /\ s \notin Client
      /\ SocketsTypeOK /\ ServerTypeOK
  BY ProcessFacts, SocketsAssumption DEF TypeInv, TypeOK
<1>1. UNCHANGED dpkt
  BY DEF ServerStep, destinationVars
<1>2. CASE NothingSent /\ ServerInv'
  BY <1>1, <1>2, QuietForms, QuietHides
<1>3. ASSUME NEW how \in Ended, ServerStops(s, how) PROVE NothingSent /\ ServerInv'
  <2>1. NothingSent
    BY <1>0, <1>3, QuietCalls DEF ServerStops
  <2>2. ServerInv'
    BY <1>0, <1>3 DEF ServerStops, ServerInv, ServerTypeOK, Ended
  <2>3. QED  BY <2>1, <2>2
<1>4. CASE LaunchServer(s)
  <2>1. NothingSent
    BY <1>0, <1>4, QuietCalls DEF LaunchServer
  <2>2. ServerInv'
    BY <1>0, <1>4 DEF LaunchServer, ServerInv, ServerTypeOK
  <2>3. QED  BY <1>2, <2>1, <2>2
<1>5. CASE accept_client_connection(s)
  <2>1. CASE /\ Accept(s)
             /\ accepted' = [accepted EXCEPT ![s] = Head(backlog[s])]
             /\ spc' = [spc EXCEPT ![s] = "recv"]
             /\ UNCHANGED <<spkt, clientIp>>
    <3>1. NothingSent
      BY <1>0, <2>1, QuietCalls
    <3>2. ServerInv'
      BY <1>0, <2>1 DEF ServerInv, ServerTypeOK
    <3>3. QED  BY <1>2, <3>1, <3>2
  <2>2. CASE ServerStops(s, "exit1")
    BY <1>2, <1>3, <2>2 DEF Ended
  <2>3. QED  BY <1>5, <2>1, <2>2 DEF accept_client_connection
<1>6. CASE ReceiveRequest(s)
  <2>1. ASSUME NEW got \in UpArrivals(accepted[s], "tunnel"), RecvUp(accepted[s], got),
               spkt' = [spkt EXCEPT ![s] = serv_handle_pkt(got.pkt, HostOf[s])],
               spc' = [spc EXCEPT ![s] = "connect"], UNCHANGED accepted
        PROVE  NothingSent /\ ServerInv'
    <3>1. accepted[s] \in Opener
      BY <1>6 DEF ReceiveRequest, TypeInv, Serving
    <3>2. NothingSent
      BY <1>0, <2>1, <3>1, QuietRecv DEF Form
    <3>3. link[accepted[s]].up \in SUBSET Packet
      BY <1>0, <3>1 DEF SocketsTypeOK, Link
    <3>4. /\ got.pkt \in Packet
          /\ got.pkt.dst # NoHost =>
               \E p \in link[accepted[s]].up : p.form = "tunnel" /\ p.dst = got.pkt.dst
      <4>1. got \in Arrivals(link[accepted[s]].up, link[accepted[s]].near, "tunnel")
        BY <2>1 DEF UpArrivals
      <4>2. "tunnel" \in Form
        BY DEF Form
      <4>3. QED  BY <3>3, <4>1, <4>2, ArrivedPacket
    <3>5. accepted[s] \in Server => got.pkt.dst = NoHost
      BY <3>4 DEF FormInv
    <3> DEFINE pkt == serv_handle_pkt(got.pkt, HostOf[s])
    <3>6. pkt.form = "plain" /\ pkt.src = HostOf[s] /\ pkt.dst = got.pkt.dst
      BY <1>0, <3>4, HandledPacket
    <3>7. spkt'[s] = pkt /\ spc'[s] = "connect" /\ accepted'[s] = accepted[s]
      BY <1>0, <2>1 DEF ServerTypeOK
    <3>8. \A t \in Server \ {s} :
            spc'[t] = spc[t] /\ spkt'[t] = spkt[t] /\ accepted'[t] = accepted[t]
      BY <1>0, <2>1 DEF ServerTypeOK
    <3>9. ServerInv'
      BY <3>5, <3>6, <3>7, <3>8 DEF ServerInv
    <3>10. QED  BY <3>2, <3>9
  <2>2. CASE ServerStops(s, "exit1")
    BY <1>2, <1>3, <2>2 DEF Ended
  <2>3. QED  BY <1>2, <1>6, <2>1, <2>2 DEF ReceiveRequest
<1>7. CASE ConnectToDestination(s)
  <2>1. CASE /\ Dial(s, spkt[s].dst)
             /\ spc' = [spc EXCEPT ![s] = "forward"]
             /\ UNCHANGED <<accepted, spkt, clientIp>>
    <3>1. spc[s] = "connect" /\ spkt[s] \in Packet /\ accepted[s] \in Opener
      BY <1>7 DEF ConnectToDestination, TypeInv, Serving, Holding
    <3>2. NothingSent
      BY <1>0, <2>1, <3>1, QuietCalls DEF Packet
    <3>3. PICK a \in Acceptor : HostOf[a] = spkt[s].dst
      BY <2>1 DEF Dial, CanDial
    <3>4. accepted[s] \in Client
      BY <3>1, <3>3, ClientHostFacts, ProcessFacts DEF ServerInv, Opener
    <3>5. ServerInv'
      BY <1>0, <2>1, <3>1, <3>3, <3>4 DEF ServerInv, ServerTypeOK
    <3>6. QED  BY <1>2, <3>2, <3>5
  <2>2. CASE ServerStops(s, "exit1")
    BY <1>2, <1>3, <2>2 DEF Ended
  <2>3. QED  BY <1>7, <2>1, <2>2 DEF ConnectToDestination
<1>8. CASE ForwardRequest(s)
  <2>1. CASE /\ SendUp(s, spkt[s])
             /\ spc' = [spc EXCEPT ![s] = "await"]
             /\ UNCHANGED <<accepted, spkt, clientIp>>
    <3>1. spc[s] = "forward" /\ spkt[s] \in Packet
      BY <1>8 DEF ForwardRequest, TypeInv, Holding
    <3>2. \A x \in Opener :
            /\ link'[x].up \subseteq link[x].up \cup {q \in {spkt[s]} : x = s}
            /\ link'[x].down = link[x].down
      BY <1>0, <2>1, <3>1, SendUpAdds
    <3>3. spkt[s].form = "plain" /\ (HostsApart => OutsideSees(spkt[s]))
      BY <1>0, <3>1, ClientHostFacts DEF ServerInv, OutsideSees
    <3>4. FormInv'
      BY <1>0, <3>2, <3>3, ProcessFacts DEF FormInv
    <3>5. ServerInv'
      BY <1>0, <2>1, <3>1 DEF ServerInv, ServerTypeOK
    <3>6. ASSUME HostsApart, NEW t \in Server, NEW q \in link'[t].up \cup link'[t].down
          PROVE  OutsideSees(q)
      BY <3>2, <3>3, <3>6, ProcessFacts DEF ProxyHidesClient
    <3>7. ProxyHidesClient'
      BY <1>1, <3>6 DEF ProxyHidesClient, HostsApart, OutsideSees, ClientHost
    <3>8. QED  BY <3>4, <3>5, <3>7
  <2>2. CASE ServerStops(s, "exit1")
    BY <1>2, <1>3, <2>2 DEF Ended
  <2>3. QED  BY <1>8, <2>1, <2>2 DEF ForwardRequest
<1>9. CASE ReceiveResponse(s)
  <2>1. ASSUME NEW got \in DownArrivals(s, "plain"), RecvDown(s, got),
               spkt' = [spkt EXCEPT ![s] = serv_handle_pkt_dest(got.pkt, clientIp[s])],
               spc' = [spc EXCEPT ![s] = "reply"], UNCHANGED accepted
        PROVE  NothingSent /\ ServerInv'
    <3>1. NothingSent
      BY <1>0, <2>1, QuietRecv DEF Form
    <3>2. ServerInv'
      BY <1>0, <1>9, <2>1 DEF ReceiveResponse, ServerInv, ServerTypeOK
    <3>3. QED  BY <3>1, <3>2
  <2>2. CASE ServerStops(s, "segv")
    BY <1>2, <1>3, <2>2 DEF Ended
  <2>3. QED  BY <1>2, <1>9, <2>1, <2>2 DEF ReceiveResponse
<1>10. CASE ReplyToClient(s)
  <2>1. spc[s] = "reply" /\ accepted[s] \in Client /\ spkt[s] \in Packet
    BY <1>10 DEF ReplyToClient, ServerInv, TypeInv, Holding
  <2>2. ServerInv'
    BY <1>0, <1>10 DEF ReplyToClient, ServerInv, ServerTypeOK
  <2>3. CASE UNCHANGED socketVars
    BY <1>0, <1>2, <2>2, <2>3, QuietCalls
  <2>4. CASE SendDown(accepted[s], spkt[s])
    <3>1. \A x \in Opener :
            /\ link'[x].up = link[x].up
            /\ link'[x].down \subseteq link[x].down \cup {q \in {spkt[s]} : x = accepted[s]}
      BY <1>0, <2>1, <2>4, SendDownAdds, ProcessFacts
    <3>2. FormInv'
      BY <3>1, ProcessFacts DEF FormInv
    <3>3. accepted[s] \notin Server
      BY <2>1, SocketsAssumption DEF Acceptor
    <3>4. \A t \in Server : link'[t].up = link[t].up /\ link'[t].down \subseteq link[t].down
      BY <3>1, <3>3, ProcessFacts
    <3>5. ProxyHidesClient'
      BY <1>1, <3>4 DEF ProxyHidesClient, HostsApart, OutsideSees, ClientHost
    <3>6. QED  BY <2>2, <3>2, <3>5
  <2>5. QED  BY <1>10, <2>3, <2>4 DEF ReplyToClient
<1>11. CASE CloseServer(s) \/ InterruptServer(s)
  BY <1>2, <1>3, <1>11 DEF CloseServer, InterruptServer, Ended
<1>12. QED  BY <1>4, <1>5, <1>6, <1>7, <1>8, <1>9, <1>10, <1>11
            DEF ServerStep, ServerNext, ServerRuns

\* A destination sees what a server sent it, and answers to that address.
LEMMA DestinationStepProxy ==
  ASSUME ProxyInv, NEW d \in Destination, DestinationStep(d)
  PROVE  FormInv' /\ ServerInv' /\ ProxyHidesClient'
<1> USE DEF ProxyInv
<1>0. d \in Acceptor /\ HostOf[d] \in Address /\ SocketsTypeOK /\ DestinationTypeOK
  BY ProcessFacts DEF TypeInv, TypeOK
<1>1. ServerInv'
  BY DEF DestinationStep, serverVars, ServerInv
<1>2. CASE NothingSent /\ UNCHANGED dpkt
  BY <1>1, <1>2, QuietForms, QuietHides
<1>3. ASSUME NEW how, DestinationStops(d, how) PROVE NothingSent /\ UNCHANGED dpkt
  BY <1>0, <1>3, QuietCalls DEF DestinationStops
<1>4. CASE LaunchDestination(d)
  BY <1>0, <1>2, <1>4, QuietCalls DEF LaunchDestination
<1>5. CASE accept_dest_connection(d)
  BY <1>0, <1>2, <1>3, <1>5, QuietCalls DEF accept_dest_connection
<1>6. CASE dest_rec_pkt(d)
  <2>1. ASSUME NEW got \in UpArrivals(caller[d], "plain"), RecvUp(caller[d], got),
               dpkt' = [dpkt EXCEPT ![d] = got.pkt]
        PROVE  FormInv' /\ ProxyHidesClient'
    <3>1. caller[d] \in Opener
      BY <1>6 DEF dest_rec_pkt, TypeInv
    <3>2. NothingSent
      BY <1>0, <2>1, <3>1, QuietRecv DEF Form
    <3>3. FormInv'
      BY <3>2, QuietForms
    <3>4. link[caller[d]].up \in SUBSET Packet
      BY <1>0, <3>1 DEF SocketsTypeOK, Link
    <3>5. /\ got.pkt.src # NoHost =>
               \E p \in link[caller[d]].up : p.form = "plain" /\ p.src = got.pkt.src
          /\ got.pkt.dst # NoHost =>
               \E p \in link[caller[d]].up : p.form = "plain" /\ p.dst = got.pkt.dst
      <4>1. got \in Arrivals(link[caller[d]].up, link[caller[d]].near, "plain")
        BY <2>1 DEF UpArrivals
      <4>2. "plain" \in Form
        BY DEF Form
      <4>3. QED  BY <3>4, <4>1, <4>2, ArrivedPacket
    <3>6. HostsApart => OutsideSees(got.pkt)
      BY <3>1, <3>5, ClientHostFacts DEF FormInv, ProxyHidesClient, OutsideSees, Opener
    <3>7. ProxyHidesClient'
      <4>1. \A e \in Destination : dpkt'[e] = IF e = d THEN got.pkt ELSE dpkt[e]
        BY <1>0, <2>1 DEF DestinationTypeOK
      <4>2. QED  BY <3>2, <3>6, <4>1, ProcessFacts
                 DEF ProxyHidesClient, NothingSent, HostsApart, OutsideSees, ClientHost
    <3>8. QED  BY <3>3, <3>7
  <2>2. CASE DestinationStops(d, "exit1")
    BY <1>2, <1>3, <2>2
  <2>3. QED  BY <1>1, <1>6, <2>1, <2>2 DEF dest_rec_pkt
<1>7. CASE Respond(d)
  <2>1. CASE /\ SendDown(caller[d], create_packets_des(HostOf[d], dpkt[d].src))
             /\ UNCHANGED <<caller, dpkt>>
    <3> DEFINE pkt == create_packets_des(HostOf[d], dpkt[d].src)
    <3>1. caller[d] \in Opener /\ dpkt[d] \in Packet
      BY <1>7 DEF Respond, TypeInv
    <3>2. pkt \in Packet /\ pkt.src = HostOf[d] /\ pkt.dst = dpkt[d].src
      BY <1>0, <3>1, CreatedPackets DEF Packet, create_packets_des
    <3>3. HostsApart => OutsideSees(pkt)
      BY <1>0, <3>1, <3>2, ClientHostFacts, PacketsAssumption
      DEF ProxyHidesClient, OutsideSees
    <3>4. \A x \in Opener :
            /\ link'[x].up = link[x].up
            /\ link'[x].down \subseteq link[x].down \cup {q \in {pkt} : x = caller[d]}
      BY <1>0, <2>1, <3>1, <3>2, SendDownAdds
    <3>5. FormInv'
      BY <3>4, ProcessFacts DEF FormInv
    <3>6. ASSUME HostsApart, NEW t \in Server, NEW q \in link'[t].up \cup link'[t].down
          PROVE  OutsideSees(q)
      BY <3>3, <3>4, <3>6, ProcessFacts DEF ProxyHidesClient
    <3>7. ProxyHidesClient'
      BY <2>1, <3>6 DEF ProxyHidesClient, HostsApart, OutsideSees, ClientHost
    <3>8. QED  BY <1>1, <3>5, <3>7
  <2>2. CASE DestinationStops(d, "exit1")
    BY <1>2, <1>3, <2>2
  <2>3. QED  BY <1>7, <2>1, <2>2 DEF Respond
<1>8. CASE CloseDestination(d) \/ InterruptDestination(d)
  BY <1>2, <1>3, <1>8 DEF CloseDestination, InterruptDestination
<1>9. QED  BY <1>4, <1>5, <1>6, <1>7, <1>8
           DEF DestinationStep, DestinationNext, DestinationRuns

\* Every step keeps the invariant.
LEMMA StepProxy == ProxyInv /\ [Next]_vars => ProxyInv'
<1> SUFFICES ASSUME ProxyInv, [Next]_vars PROVE ProxyInv'
  OBVIOUS
<1>1. TypeInv'
  BY StepType DEF ProxyInv
<1>2. CASE UNCHANGED vars
  BY <1>1, <1>2 DEF vars, clientVars, serverVars, destinationVars, socketVars, ProxyInv,
                    FormInv, ServerInv, ProxyHidesClient, HostsApart, OutsideSees, ClientHost
<1>3. QED  BY <1>1, <1>2, ClientStepProxy, ServerStepProxy, DestinationStepProxy
           DEF ProxyInv, Next, Rest

\* In every behaviour, whatever fails and however packets are cut, the outside
\* world never sees the address of a client.
THEOREM ClientsStayHidden == Spec => []ProxyHidesClient
<1>1. ProxyInv => ProxyHidesClient
  BY DEF ProxyInv
<1>2. QED  BY <1>1, InitProxy, StepProxy, PTL DEF Spec


-----------------------------------------------------------------------------
(***************************************************************************)
(* Processes, their connections and the processes they serve.              *)
(***************************************************************************)

\* The types that the lemmas below use, in the form they use them in.
LEMMA WireTypes ==
  ASSUME TypeInv
  PROVE  /\ SocketsTypeOK
         /\ \A o \in Opener : link[o] \in Link /\ link[o].peer \in Acceptor \cup {Nobody}
         /\ \A a \in Acceptor : /\ Served(a) \in Opener \cup {Nobody}
                                /\ backlog[a] \in Seq(Opener)
         /\ Nobody \notin Opener /\ Nobody \notin Acceptor
         /\ NoLink.peer = Nobody /\ NoLink.near = "idle" /\ NoLink.up = {} /\ NoLink.down = {}
         /\ Client \cap Server = {} /\ Client \cap Destination = {}
         /\ Server \cap Destination = {}
<1>1. SocketsTypeOK /\ ServerTypeOK /\ DestinationTypeOK
  BY DEF TypeInv, TypeOK
<1>2. \A o \in Opener : link[o] \in Link /\ link[o].peer \in Acceptor \cup {Nobody}
  BY <1>1 DEF SocketsTypeOK, Link
<1>3. \A a \in Acceptor : Served(a) \in Opener \cup {Nobody} /\ backlog[a] \in Seq(Opener)
  BY <1>1 DEF SocketsTypeOK, ServerTypeOK, DestinationTypeOK, Served, Acceptor
<1>4. QED  BY <1>1, <1>2, <1>3, SocketsAssumption, ProcessFacts DEF NoLink, Acceptor

\* The step opens and accepts no connection: at most it closes some.
Keeps ==
  /\ \A o \in Opener :
       /\ link'[o].peer = link[o].peer
       /\ link[o] = NoLink => link'[o] = NoLink
       /\ link'[o].far \in {link[o].far, "fin", "rst"}
  /\ \A a \in Acceptor : backlog'[a] \in {backlog[a], <<>>}

SameNear(o) == link'[o].near = link[o].near

\* Only connect() and accept() change who is connected to whom, and only
\* close() an opener's end.
LEMMA KeepingCalls ==
  ASSUME TypeInv
  PROVE  /\ UNCHANGED socketVars => Keeps /\ \A o \in Opener : SameNear(o)
         /\ \A a \in Acceptor : Listen(a) => Keeps /\ \A o \in Opener : SameNear(o)
         /\ \A p \in Opener : link[p] # NoLink /\ ErrorReported(p) =>
              Keeps /\ \A o \in Opener : SameNear(o)
         /\ \A p : HangUp(p) => Keeps /\ \A o \in Opener \ {p} : SameNear(o)
<1> USE DEF Keeps, SameNear
<1>0. SocketsTypeOK /\ \A o \in Opener : link[o] \in Link
  BY WireTypes
<1>1. ASSUME UNCHANGED socketVars PROVE Keeps /\ \A o \in Opener : SameNear(o)
  BY <1>1 DEF socketVars
<1>2. ASSUME NEW a \in Acceptor, Listen(a) PROVE Keeps /\ \A o \in Opener : SameNear(o)
  BY <1>2 DEF Listen
<1>3. ASSUME NEW p \in Opener, link[p] # NoLink, ErrorReported(p)
      PROVE  Keeps /\ \A o \in Opener : SameNear(o)
  <2>1. /\ link'[p].peer = link[p].peer /\ link'[p].near = link[p].near
        /\ link'[p].far \in {link[p].far, "fin"}
        /\ \A o \in Opener \ {p} : link'[o] = link[o]
    BY <1>0, <1>3 DEF ErrorReported, SocketsTypeOK, Link
  <2>2. QED  BY <1>3, <2>1 DEF ErrorReported
<1>4. ASSUME NEW p, HangUp(p) PROVE Keeps /\ \A o \in Opener \ {p} : SameNear(o)
  <2>1. ASSUME NEW o \in Opener
        PROVE  /\ link[o] = NoLink => link'[o] = NoLink
               /\ link'[o].far \in {link[o].far, "fin", "rst"}
               /\ o # p => link'[o].near = link[o].near
    <3> DEFINE l == IF o = p THEN NearClosed(link[o]) ELSE link[o]
    <3>1. link'[o] = IF l.peer = p THEN FarClosed(l) ELSE l
      BY <1>4 DEF HangUp
    <3>2. l \in Link /\ l.far = link[o].far /\ (o # p => l.near = link[o].near)
      BY <1>0 DEF NearClosed, Link
    <3>3. FarClosed(l).far \in {l.far, "fin", "rst"} /\ FarClosed(l).near = l.near
      BY <3>2 DEF FarClosed, Link
    <3>4. \A k \in Link : k.near # "open" => NearClosed(k) = k
      BY DEF NearClosed, Link
    <3>5. \A k \in Link : k.far \notin {"queued", "open"} => FarClosed(k) = k
      BY DEF FarClosed, Link
    <3>6. NoLink.near = "idle" /\ NoLink.far = "idle"
      BY DEF NoLink
    <3>7. QED  BY <1>0, <3>1, <3>2, <3>3, <3>4, <3>5, <3>6
  <2>2. \A o \in Opener : link'[o].peer = link[o].peer
    BY <1>0, <1>4, HangUpType
  <2>3. \A a \in Acceptor : backlog'[a] \in {backlog[a], <<>>}
    BY <1>4 DEF HangUp
  <2>4. QED  BY <2>1, <2>2, <2>3
<1>5. QED  BY <1>1, <1>2, <1>3, <1>4

\* send() and recv() keep the connections.
LEMMA KeepingTransfers ==
  ASSUME TypeInv, NEW p \in Opener, link[p] # NoLink, NEW x,
         SendUp(p, x) \/ SendDown(p, x) \/ RecvUp(p, x) \/ RecvDown(p, x)
  PROVE  Keeps /\ \A o \in Opener : SameNear(o)
<1>0. SocketsTypeOK /\ \A o \in Opener : link[o] \in Link
  BY WireTypes
<1>1. UNCHANGED backlog
  BY DEF SendUp, SendDown, RecvUp, RecvDown
<1>2. \A o \in Opener \ {p} : link'[o] = link[o]
  BY <1>0 DEF SendUp, SendDown, RecvUp, RecvDown, SocketsTypeOK
<1>3. /\ link'[p].peer = link[p].peer
      /\ link'[p].near = link[p].near
      /\ link'[p].far = link[p].far
  BY <1>0 DEF SendUp, SendDown, RecvUp, RecvDown, SocketsTypeOK, Link
<1>4. QED  BY <1>0, <1>1, <1>2, <1>3 DEF Keeps, SameNear

-----------------------------------------------------------------------------
(***************************************************************************)
(* The connections stay well-formed.                                       *)
(***************************************************************************)

\* No process goes back to before its connect() or its accept().
Advances ==
  /\ \A o \in Opener : Undialled(o)' => Undialled(o)
  /\ \A a \in Acceptor : Unserving(a)' => Unserving(a)

\* A step that opens and accepts no connection.
LEMMA KeptWires ==
  ASSUME TypeInv, WireInv, Keeps, Advances, UNCHANGED <<accepted, caller>>,
         \A o \in Opener : Live(o)' => Live(o) /\ SameNear(o)
  PROVE  WireInv'
<1>0. \A a \in Acceptor : Served(a)' = Served(a)
  BY DEF Served
<1>1. ASSUME NEW o \in Opener
      PROVE  (Undialled(o) => link[o] = NoLink)' /\ (Live(o) => link[o].near = "open")'
  BY <1>1 DEF WireInv, Keeps, Advances, SameNear
<1>2. ASSUME NEW a \in Acceptor
      PROVE  /\ (Unserving(a) => Served(a) = Nobody)'
             /\ (Served(a) # Nobody => link[Served(a)].peer = a)'
  BY <1>0, <1>2, WireTypes DEF WireInv, Keeps, Advances
<1>3. ASSUME NEW a \in Acceptor, NEW i \in 1..Len(backlog'[a])
      PROVE  link'[backlog'[a][i]].peer = a
  <2>1. backlog'[a] = backlog[a]
    BY <1>3 DEF Keeps
  <2>2. backlog[a][i] \in Opener
    BY <1>3, <2>1, WireTypes
  <2>3. QED  BY <1>3, <2>1, <2>2 DEF WireInv, Keeps
<1>4. ASSUME NEW a \in Acceptor, NEW o \in Opener, link'[o].peer = a
      PROVE  /\ link'[o].far = "queued" => Served(a)' # o
             /\ link'[o].far = "open" => Served(a)' = o
  BY <1>0, <1>4 DEF WireInv, Keeps
<1>5. QED  BY <1>1, <1>2, <1>3, <1>4 DEF WireInv

\* connect() by a process that has no connection yet.
LEMMA DialWires ==
  ASSUME TypeInv, WireInv, Advances, UNCHANGED <<accepted, caller>>,
         NEW p \in Opener, NEW addr, Dial(p, addr), Undialled(p), ~Undialled(p)',
         \A o \in Opener \ {p} : Live(o)' => Live(o)
  PROVE  WireInv'
<1>0. \A a \in Acceptor : Served(a)' = Served(a)
  BY DEF Served
<1>1. PICK b \in Acceptor :
        /\ link' = [link EXCEPT ![p] = NewLink(b)]
        /\ backlog' = [backlog EXCEPT ![b] = Append(@, p)]
  BY DEF Dial
<1>2. /\ link'[p] = NewLink(b)
      /\ \A o \in Opener \ {p} : link'[o] = link[o]
      /\ backlog'[b] = Append(backlog[b], p)
      /\ \A a \in Acceptor \ {b} : backlog'[a] = backlog[a]
  BY <1>1, WireTypes DEF SocketsTypeOK
<1>3. /\ NewLink(b).peer = b /\ NewLink(b).near = "open" /\ NewLink(b).far = "queued"
      /\ link[p].peer = Nobody
  BY WireTypes DEF NewLink, WireInv
<1>4. ASSUME NEW o \in Opener
      PROVE  (Undialled(o) => link[o] = NoLink)' /\ (Live(o) => link[o].near = "open")'
  BY <1>2, <1>3 DEF WireInv, Advances
<1>5. \A a \in Acceptor : Served(a) # p
  BY <1>3, WireTypes DEF WireInv
<1>6. ASSUME NEW a \in Acceptor
      PROVE  /\ (Unserving(a) => Served(a) = Nobody)'
             /\ (Served(a) # Nobody => link[Served(a)].peer = a)'
  BY <1>0, <1>2, <1>5, WireTypes DEF WireInv, Advances
<1>7. ASSUME NEW a \in Acceptor, NEW i \in 1..Len(backlog'[a])
      PROVE  link'[backlog'[a][i]].peer = a
  <2>1. ASSUME i \in 1..Len(backlog[a]) PROVE link'[backlog[a][i]].peer = a
    <3>1. backlog[a][i] \in Opener /\ link[backlog[a][i]].peer = a
      BY <2>1, WireTypes DEF WireInv
    <3>2. backlog[a][i] # p
      BY <1>3, <3>1, WireTypes
    <3>3. QED  BY <1>2, <3>1, <3>2
  <2>2. CASE a # b
    BY <1>2, <1>7, <2>1, <2>2
  <2>3. CASE a = b
    <3>1. backlog[b] \in Seq(Opener)
      BY WireTypes
    <3>2. \/ i \in 1..Len(backlog[b]) /\ backlog'[b][i] = backlog[b][i]
          \/ backlog'[b][i] = p
      BY <1>2, <1>7, <2>3, <3>1
    <3>3. QED  BY <1>2, <1>3, <2>1, <2>3, <3>2
  <2>4. QED  BY <2>2, <2>3
<1>8. ASSUME NEW a \in Acceptor, NEW o \in Opener, link'[o].peer = a
      PROVE  /\ link'[o].far = "queued" => Served(a)' # o
             /\ link'[o].far = "open" => Served(a)' = o
  BY <1>0, <1>2, <1>3, <1>5, <1>8 DEF WireInv
<1>9. QED  BY <1>4, <1>6, <1>7, <1>8 DEF WireInv

\* accept() by a process that serves nobody yet.
LEMMA AcceptWires ==
  ASSUME TypeInv, WireInv, Advances, NEW b \in Acceptor, Accept(b), Unserving(b),
         Served(b)' = Head(backlog[b]), ~Unserving(b)',
         \A a \in Acceptor \ {b} : Served(a)' = Served(a),
         \A o \in Opener : Live(o)' => Live(o)
  PROVE  WireInv'
<1> DEFINE q == Head(backlog[b])
<1>1. backlog[b] \in Seq(Opener) /\ backlog[b] # <<>>
  BY WireTypes DEF Accept
<1>2. q \in Opener /\ 1 \in 1..Len(backlog[b]) /\ q = backlog[b][1]
  BY <1>1
<1>3. link[q].peer = b
  BY <1>2 DEF WireInv
<1>4. /\ \A o \in Opener : /\ link'[o].peer = link[o].peer /\ link'[o].near = link[o].near
                           /\ link'[o].far = IF o = q THEN "open" ELSE link[o].far
                           /\ o # q => link'[o] = link[o]
      /\ backlog'[b] = Tail(backlog[b])
      /\ \A a \in Acceptor \ {b} : backlog'[a] = backlog[a]
  BY <1>2, WireTypes DEF Accept, SocketsTypeOK, Link
<1>5. ASSUME NEW o \in Opener
      PROVE  (Undialled(o) => link[o] = NoLink)' /\ (Live(o) => link[o].near = "open")'
  <2>1. link[q] # NoLink
    BY <1>3, WireTypes
  <2>2. QED  BY <1>4, <1>5, <2>1 DEF WireInv, Advances
<1>6. \A a \in Acceptor : Served(a) # q
  <2>1. Served(b) = Nobody
    BY DEF WireInv
  <2>2. QED  BY <1>2, <1>3, <2>1, WireTypes DEF WireInv
<1>7. ASSUME NEW a \in Acceptor
      PROVE  /\ (Unserving(a) => Served(a) = Nobody)'
             /\ (Served(a) # Nobody => link[Served(a)].peer = a)'
  BY <1>2, <1>3, <1>4, <1>7, WireTypes DEF WireInv, Advances
<1>8. ASSUME NEW a \in Acceptor, NEW i \in 1..Len(backlog'[a])
      PROVE  link'[backlog'[a][i]].peer = a
  <2>1. PICK j \in 1..Len(backlog[a]) : backlog'[a][i] = backlog[a][j]
    <3>1. CASE a = b
      <4>1. /\ Len(Tail(backlog[b])) = Len(backlog[b]) - 1
            /\ \A j \in 1..Len(Tail(backlog[b])) : Tail(backlog[b])[j] = backlog[b][j + 1]
        BY <1>1, HeadTailProperties
      <4>2. i \in 1..Len(Tail(backlog[b])) /\ backlog'[b][i] = Tail(backlog[b])[i]
        BY <1>4, <1>8, <3>1
      <4>3. i + 1 \in 1..Len(backlog[b])
        BY <1>1, <4>1, <4>2
      <4>4. QED  BY <3>1, <4>1, <4>2, <4>3
    <3>2. CASE a # b
      BY <1>4, <1>8, <3>2
    <3>3. QED  BY <3>1, <3>2
  <2>2. backlog[a][j] \in Opener /\ link[backlog[a][j]].peer = a
    BY WireTypes DEF WireInv
  <2>3. QED  BY <1>4, <2>1, <2>2
<1>9. ASSUME NEW a \in Acceptor, NEW o \in Opener, link'[o].peer = a
      PROVE  /\ link'[o].far = "queued" => Served(a)' # o
             /\ link'[o].far = "open" => Served(a)' = o
  <2>1. CASE o = q
    BY <1>3, <1>4, <1>9, <2>1
  <2>2. CASE o # q /\ a # b
    BY <1>4, <1>9, <2>2 DEF WireInv
  <2>3. CASE o # q /\ a = b
    <3>1. Served(b) = Nobody /\ link[o].peer = b /\ Nobody # o
      BY <1>4, <1>9, <2>3, WireTypes DEF WireInv
    <3>2. link[o].far # "open"
      BY <1>9, <3>1 DEF WireInv
    <3>3. QED  BY <1>4, <2>3, <3>2
  <2>4. QED  BY <2>1, <2>2, <2>3
<1>10. QED  BY <1>5, <1>7, <1>8, <1>9 DEF WireInv

\* A step of a client keeps the connections well-formed.
LEMMA ClientStepWires ==
  ASSUME TypeInv, WireInv, NEW c \in Client, ClientStep(c)
  PROVE  WireInv'
<1>0. /\ c \in Opener /\ c \notin Server /\ ClientTypeOK
      /\ UNCHANGED <<spc, dpc, accepted, caller>>
  BY ProcessFacts, WireTypes DEF TypeInv, TypeOK, ClientStep, serverVars, destinationVars
<1>1. ASSUME NEW pc, cpc' = [cpc EXCEPT ![c] = pc]
      PROVE  /\ cpc'[c] = pc
             /\ \A a \in Acceptor : Unserving(a)' = Unserving(a)
             /\ \A o \in Opener \ {c} : Undialled(o)' = Undialled(o) /\ Live(o)' = Live(o)
  BY <1>0, <1>1 DEF ClientTypeOK, Unserving, Undialled, Live
<1>2. ASSUME NEW how \in Ended, ClientStops(c, how) PROVE WireInv'
  <2>1. Keeps /\ \A o \in Opener \ {c} : SameNear(o)
    BY <1>2, KeepingCalls DEF ClientStops
  <2>2. ~Undialled(c)' /\ ~Live(c)'
    BY <1>0, <1>1, <1>2 DEF ClientStops, Undialled, Live, Ended
  <2>3. Advances
    BY <1>1, <1>2, <2>2 DEF ClientStops, Advances
  <2>4. QED  BY <1>0, <1>1, <1>2, <2>1, <2>2, <2>3, KeptWires DEF ClientStops
<1>3. CASE ReadNames(c)
  <2>1. PICK pc \in {"connect", "exit0", "exit1"} : cpc' = [cpc EXCEPT ![c] = pc]
    BY <1>3 DEF ReadNames
  <2>2. Keeps /\ \A o \in Opener : SameNear(o)
    BY <1>3, KeepingCalls DEF ReadNames
  <2>3. Undialled(c) /\ ~Live(c)'
    BY <1>0, <1>1, <1>3, <2>1 DEF ReadNames, Undialled, Live
  <2>4. Advances
    BY <1>1, <2>1, <2>3 DEF Advances
  <2>5. QED  BY <1>0, <1>1, <2>1, <2>2, <2>3, <2>4, KeptWires
<1>4. CASE ConnectToServer(c)
  <2>1. CASE Dial(c, ServerHost[c]) /\ cpc' = [cpc EXCEPT ![c] = "send"]
    <3>1. Undialled(c) /\ ~Undialled(c)'
      BY <1>0, <1>1, <1>4, <2>1 DEF ConnectToServer, Undialled
    <3>2. Advances
      BY <1>1, <2>1, <3>1 DEF Advances
    <3>3. QED  BY <1>0, <1>1, <2>1, <3>1, <3>2, DialWires
  <2>2. QED  BY <1>2, <1>4, <2>1 DEF ConnectToServer, Ended
<1>5. ASSUME cpc[c] \in {"send", "recv"}, NEW pc \in {"recv", "close"},
             cpc' = [cpc EXCEPT ![c] = pc], Keeps, \A o \in Opener : SameNear(o)
      PROVE  WireInv'
  <2>1. Live(c) /\ ~Undialled(c)'
    BY <1>0, <1>1, <1>5 DEF Live, Undialled
  <2>2. Advances
    BY <1>1, <1>5, <2>1 DEF Advances
  <2>3. QED  BY <1>0, <1>1, <1>5, <2>1, <2>2, KeptWires
<1>6. ASSUME cpc[c] \in {"send", "recv"} PROVE link[c] # NoLink
  BY <1>0, <1>6, WireTypes DEF WireInv, Live
<1>7. CASE SendRequest(c)
  BY <1>0, <1>5, <1>6, <1>7, KeepingCalls, KeepingTransfers DEF SendRequest
<1>8. CASE ReceiveReply(c)
  BY <1>0, <1>2, <1>5, <1>6, <1>8, KeepingTransfers DEF ReceiveReply, Ended
<1>9. CASE CloseClient(c) \/ InterruptClient(c)
  BY <1>2, <1>9 DEF CloseClient, InterruptClient, Ended
<1>10. QED  BY <1>3, <1>4, <1>7, <1>8, <1>9 DEF ClientStep, ClientNext, ClientRuns

\* A step of a server keeps the connections well-formed.
LEMMA ServerStepWires ==
  ASSUME TypeInv, WireInv, NEW s \in Server, ServerStep(s)
  PROVE  WireInv'
<1>0. /\ s \in Opener /\ s \in Acceptor /\ s \notin Client /\ ServerTypeOK
      /\ UNCHANGED <<cpc, dpc, caller>>
  BY ProcessFacts, WireTypes DEF TypeInv, TypeOK, ServerStep, clientVars, destinationVars
<1>1. ASSUME NEW pc, spc' = [spc EXCEPT ![s] = pc]
      PROVE  /\ spc'[s] = pc
             /\ \A a \in Acceptor \ {s} : Unserving(a)' = Unserving(a)
             /\ \A o \in Opener \ {s} : Undialled(o)' = Undialled(o) /\ Live(o)' = Live(o)
  BY <1>0, <1>1 DEF ServerTypeOK, Unserving, Undialled, Live
<1>2. ASSUME NEW how \in Ended, ServerStops(s, how) PROVE WireInv'
  <2>1. Keeps /\ \A o \in Opener \ {s} : SameNear(o)
    BY <1>2, KeepingCalls DEF ServerStops
  <2>2. ~Undialled(s)' /\ ~Live(s)' /\ ~Unserving(s)'
    BY <1>0, <1>1, <1>2 DEF ServerStops, Undialled, Live, Unserving, Ended
  <2>3. Advances
    BY <1>1, <1>2, <2>2 DEF ServerStops, Advances
  <2>4. QED  BY <1>0, <1>1, <1>2, <2>1, <2>2, <2>3, KeptWires DEF ServerStops
<1>3. CASE LaunchServer(s)
  <2>1. PICK pc \in {"accept", "exit0", "exit1"} : spc' = [spc EXCEPT ![s] = pc]
    BY <1>3 DEF LaunchServer
  <2>2. Keeps /\ \A o \in Opener : SameNear(o)
    BY <1>0, <1>3, KeepingCalls DEF LaunchServer
  <2>3. Undialled(s) /\ Unserving(s) /\ ~Live(s)'
    BY <1>0, <1>1, <1>3, <2>1 DEF LaunchServer, Undialled, Unserving, Live
  <2>4. Advances
    BY <1>1, <2>1, <2>3 DEF Advances
  <2>5. QED  BY <1>0, <1>1, <1>3, <2>1, <2>2, <2>3, <2>4, KeptWires DEF LaunchServer
<1>4. CASE accept_client_connection(s)
  <2>1. CASE /\ Accept(s)
             /\ accepted' = [accepted EXCEPT ![s] = Head(backlog[s])]
             /\ spc' = [spc EXCEPT ![s] = "recv"]
    <3>1. Unserving(s) /\ ~Unserving(s)' /\ Undialled(s) /\ ~Live(s)'
      BY <1>0, <1>1, <1>4, <2>1 DEF accept_client_connection, Unserving, Undialled, Live
    <3>2. Served(s)' = Head(backlog[s]) /\ \A a \in Acceptor \ {s} : Served(a)' = Served(a)
      BY <1>0, <2>1 DEF ServerTypeOK, Served
    <3>3. Advances
      BY <1>1, <2>1, <3>1 DEF Advances
    <3>4. QED  BY <1>0, <1>1, <2>1, <3>1, <3>2, <3>3, AcceptWires
  <2>2. QED  BY <1>2, <1>4, <2>1 DEF accept_client_connection, Ended
<1>5. ASSUME spc[s] \in {"recv", "forward", "await", "reply"},
             NEW pc \in {"connect", "await", "reply", "close"},
             spc' = [spc EXCEPT ![s] = pc], pc = "connect" <=> spc[s] = "recv",
             UNCHANGED accepted, Keeps, \A o \in Opener : SameNear(o)
      PROVE  WireInv'
  <2>1. /\ Undialled(s)' => Undialled(s)
        /\ Live(s)' => Live(s)
        /\ ~Unserving(s)'
    BY <1>0, <1>1, <1>5 DEF Live, Undialled, Unserving
  <2>2. Advances
    BY <1>1, <1>5, <2>1 DEF Advances
  <2>3. QED  BY <1>0, <1>1, <1>5, <2>1, <2>2, KeptWires
<1>6. ASSUME spc[s] \in Serving
      PROVE  accepted[s] \in Opener /\ link[accepted[s]] # NoLink
  <2>1. accepted[s] \in Opener /\ accepted[s] = Served(s)
    BY <1>0, <1>6 DEF TypeInv, Served
  <2>2. QED  BY <1>0, <2>1, WireTypes DEF WireInv
<1>7. ASSUME spc[s] \in {"forward", "await"} PROVE link[s] # NoLink
  BY <1>0, <1>7, WireTypes DEF WireInv, Live
<1>8. CASE ReceiveRequest(s)
  <2>1. spc[s] = "recv"
    BY <1>8 DEF ReceiveRequest
  <2>2. QED  BY <1>2, <1>5, <1>6, <1>8, <2>1, KeepingTransfers
             DEF ReceiveRequest, Ended, Serving
<1>9. CASE ConnectToDestination(s)
  <2>1. CASE /\ Dial(s, spkt[s].dst)
             /\ spc' = [spc EXCEPT ![s] = "forward"]
             /\ UNCHANGED <<accepted, spkt, clientIp>>
    <3>1. Undialled(s) /\ ~Undialled(s)' /\ ~Unserving(s)'
      BY <1>0, <1>1, <1>9, <2>1 DEF ConnectToDestination, Undialled, Unserving
    <3>2. Advances
      BY <1>1, <2>1, <3>1 DEF Advances
    <3>3. QED  BY <1>0, <1>1, <2>1, <3>1, <3>2, DialWires
  <2>2. QED  BY <1>2, <1>9, <2>1 DEF ConnectToDestination, Ended
<1>10. CASE ForwardRequest(s)
  <2>1. spc[s] = "forward"
    BY <1>10 DEF ForwardRequest
  <2>2. QED  BY <1>0, <1>2, <1>5, <1>7, <1>10, <2>1, KeepingTransfers
             DEF ForwardRequest, Ended
<1>11. CASE ReceiveResponse(s)
  <2>1. spc[s] = "await"
    BY <1>11 DEF ReceiveResponse
  <2>2. QED  BY <1>0, <1>2, <1>5, <1>7, <1>11, <2>1, KeepingTransfers
             DEF ReceiveResponse, Ended
<1>12. CASE ReplyToClient(s)
  <2>1. spc[s] = "reply"
    BY <1>12 DEF ReplyToClient
  <2>2. QED  BY <1>5, <1>6, <1>12, <2>1, KeepingCalls, KeepingTransfers
             DEF ReplyToClient, Serving, Holding
<1>13. CASE CloseServer(s) \/ InterruptServer(s)
  BY <1>2, <1>13 DEF CloseServer, InterruptServer, Ended
<1>14. QED  BY <1>3, <1>4, <1>8, <1>9, <1>10, <1>11, <1>12, <1>13
            DEF ServerStep, ServerNext, ServerRuns

\* A step of a destination keeps the connections well-formed.
LEMMA DestinationStepWires ==
  ASSUME TypeInv, WireInv, NEW d \in Destination, DestinationStep(d)
  PROVE  WireInv'
<1>0. /\ d \in Acceptor /\ d \notin Server /\ DestinationTypeOK
      /\ UNCHANGED <<cpc, spc, accepted>>
  BY ProcessFacts, WireTypes DEF TypeInv, TypeOK, DestinationStep, clientVars, serverVars
<1>1. \A o \in Opener : Undialled(o)' = Undialled(o) /\ Live(o)' = Live(o)
  BY <1>0 DEF Undialled, Live
<1>2. ASSUME NEW pc, dpc' = [dpc EXCEPT ![d] = pc]
      PROVE  dpc'[d] = pc /\ \A a \in Acceptor \ {d} : Unserving(a)' = Unserving(a)
  BY <1>0, <1>2 DEF DestinationTypeOK, Unserving, Acceptor
<1>3. ASSUME NEW how \in Ended, DestinationStops(d, how) PROVE WireInv'
  <2>1. Keeps /\ \A o \in Opener : SameNear(o)
    BY <1>0, <1>3, KeepingCalls, WireTypes DEF DestinationStops, Opener
  <2>2. ~Unserving(d)'
    BY <1>0, <1>2, <1>3 DEF DestinationStops, Unserving, Ended
  <2>3. Advances
    BY <1>1, <1>2, <1>3, <2>2 DEF DestinationStops, Advances
  <2>4. QED  BY <1>0, <1>1, <1>3, <2>1, <2>3, KeptWires DEF DestinationStops
<1>4. CASE LaunchDestination(d)
  <2>1. PICK pc : dpc' = [dpc EXCEPT ![d] = pc]
    BY <1>4 DEF LaunchDestination
  <2>2. Keeps /\ \A o \in Opener : SameNear(o)
    BY <1>0, <1>4, KeepingCalls DEF LaunchDestination
  <2>3. Unserving(d)
    BY <1>0, <1>4 DEF LaunchDestination, Unserving
  <2>4. Advances
    BY <1>1, <1>2, <2>1, <2>3 DEF Advances
  <2>5. QED  BY <1>0, <1>1, <1>4, <2>2, <2>4, KeptWires DEF LaunchDestination
<1>5. CASE accept_dest_connection(d)
  <2>1. CASE /\ Accept(d)
             /\ caller' = [caller EXCEPT ![d] = Head(backlog[d])]
             /\ dpc' = [dpc EXCEPT ![d] = "recv"]
    <3>1. Unserving(d) /\ ~Unserving(d)'
      BY <1>0, <1>2, <1>5, <2>1 DEF accept_dest_connection, Unserving
    <3>2. Served(d)' = Head(backlog[d]) /\ \A a \in Acceptor \ {d} : Served(a)' = Served(a)
      BY <1>0, <2>1 DEF DestinationTypeOK, Served, Acceptor
    <3>3. Advances
      BY <1>1, <1>2, <2>1, <3>1 DEF Advances
    <3>4. QED  BY <1>0, <1>1, <2>1, <3>1, <3>2, <3>3, AcceptWires
  <2>2. QED  BY <1>3, <1>5, <2>1 DEF accept_dest_connection, Ended
<1>6. ASSUME dpc[d] \in {"recv", "respond"}, NEW pc \in {"respond", "close"},
             dpc' = [dpc EXCEPT ![d] = pc], UNCHANGED caller,
             NEW x, SendDown(caller[d], x) \/ RecvUp(caller[d], x)
      PROVE  WireInv'
  <2>1. caller[d] \in Opener /\ caller[d] = Served(d)
    BY <1>0, <1>6 DEF TypeInv, Served
  <2>2. link[caller[d]] # NoLink
    BY <1>0, <2>1, WireTypes DEF WireInv
  <2>3. Keeps /\ \A o \in Opener : SameNear(o)
    BY <1>6, <2>1, <2>2, KeepingTransfers
  <2>4. ~Unserving(d)'
    BY <1>0, <1>2, <1>6 DEF Unserving
  <2>5. Advances
    BY <1>1, <1>2, <1>6, <2>4 DEF Advances
  <2>6. QED  BY <1>0, <1>1, <1>6, <2>3, <2>5, KeptWires
<1>7. CASE dest_rec_pkt(d)
  BY <1>3, <1>6, <1>7 DEF dest_rec_pkt, Ended
<1>8. CASE Respond(d)
  BY <1>3, <1>6, <1>8 DEF Respond, Ended
<1>9. CASE CloseDestination(d) \/ InterruptDestination(d)
  BY <1>3, <1>9 DEF CloseDestination, InterruptDestination, Ended
<1>10. QED  BY <1>4, <1>5, <1>7, <1>8, <1>9
            DEF DestinationStep, DestinationNext, DestinationRuns
\* The programs begin with no connection.
LEMMA InitWires == Init => WireInv
<1> SUFFICES ASSUME Init PROVE WireInv
  OBVIOUS
<1>1. /\ \A o \in Opener : link[o] = NoLink
      /\ \A a \in Acceptor : backlog[a] = <<>> /\ Served(a) = Nobody
  BY DEF Init, SocketsInit, ServerInit, DestinationInit, Served, Acceptor
<1>2. NoLink.peer = Nobody /\ \A o \in Opener : ~Live(o)
  BY DEF NoLink, Live, Init, ClientInit, ServerInit
<1>3. QED  BY <1>1, <1>2, SocketsAssumption, ProcessFacts DEF WireInv

\* Every step keeps the connections well-formed.
LEMMA StepWires == TypeInv /\ WireInv /\ [Next]_vars => WireInv'
<1> SUFFICES ASSUME TypeInv, WireInv, [Next]_vars PROVE WireInv'
  OBVIOUS
<1>1. CASE UNCHANGED vars
  BY <1>1 DEF vars, clientVars, serverVars, destinationVars, socketVars,
              WireInv, Undialled, Live, Unserving, Served
<1>2. QED  BY <1>1, ClientStepWires, ServerStepWires, DestinationStepWires DEF Next, Rest

-----------------------------------------------------------------------------
(***************************************************************************)
(* Who is connected to whom, and asked for what, is settled once.          *)
(***************************************************************************)
Grows ==
  /\ \A o \in Opener : link[o].peer # Nobody => link'[o].peer = link[o].peer
  /\ \A a \in Acceptor : Served(a) # Nobody => Served(a)' = Served(a)
  /\ \A c \in Client : link[c].peer # Nobody => asked'[c] = asked[c]

SamePeers == \A o \in Opener : link'[o].peer = link[o].peer

\* Only connect() gives a connection its peer.
LEMMA PeerCalls ==
  ASSUME TypeInv
  PROVE  /\ UNCHANGED socketVars => SamePeers
         /\ \A a \in Acceptor : Listen(a) \/ Accept(a) => SamePeers
         /\ \A p \in Opener : ErrorReported(p) => SamePeers
         /\ \A p \in Opener : \A x :
              SendUp(p, x) \/ SendDown(p, x) \/ RecvUp(p, x) \/ RecvDown(p, x) => SamePeers
         /\ \A p : HangUp(p) => SamePeers
<1> USE DEF SamePeers
<1>0. SocketsTypeOK /\ \A o \in Opener : link[o] \in Link
  BY WireTypes
<1>1. UNCHANGED socketVars => SamePeers
  BY DEF socketVars
<1>2. ASSUME NEW a \in Acceptor, Listen(a) \/ Accept(a) PROVE SamePeers
  <2>1. CASE Listen(a)
    BY <2>1 DEF Listen
  <2>2. CASE Accept(a)
    <3>1. Head(backlog[a]) \in Opener
      BY <1>0, <2>2, AcceptType
    <3>2. QED  BY <1>0, <2>2, <3>1 DEF Accept, SocketsTypeOK, Link
  <2>3. QED  BY <1>2, <2>1, <2>2
<1>3. ASSUME NEW p \in Opener, ErrorReported(p) PROVE SamePeers
  BY <1>0, <1>3 DEF ErrorReported, SocketsTypeOK, Link
<1>4. ASSUME NEW p \in Opener, NEW x,
             SendUp(p, x) \/ SendDown(p, x) \/ RecvUp(p, x) \/ RecvDown(p, x)
      PROVE  SamePeers
  <2>1. \A o \in Opener \ {p} : link'[o] = link[o]
    BY <1>0, <1>4 DEF SendUp, SendDown, RecvUp, RecvDown, SocketsTypeOK
  <2>2. link'[p].peer = link[p].peer
    BY <1>0, <1>4 DEF SendUp, SendDown, RecvUp, RecvDown, SocketsTypeOK, Link
  <2>3. QED  BY <2>1, <2>2
<1>5. ASSUME NEW p, HangUp(p) PROVE SamePeers
  BY <1>0, <1>5, HangUpType
<1>6. QED  BY <1>1, <1>2, <1>3, <1>4, <1>5

\* connect() by a process that has no connection yet.
LEMMA DialGrows ==
  ASSUME TypeInv, WireInv, NEW p \in Opener, Undialled(p), NEW addr, Dial(p, addr)
  PROVE  /\ \A o \in Opener : link[o].peer # Nobody => link'[o].peer = link[o].peer
         /\ \A o \in Opener \ {p} : link'[o] = link[o]
         /\ link[p] = NoLink
         /\ link'[p].up = {} /\ link'[p].down = {}
         /\ link'[p].peer \in Acceptor /\ HostOf[link'[p].peer] = addr
<1>1. PICK b \in Acceptor : CanDial(addr, b) /\ link' = [link EXCEPT ![p] = NewLink(b)]
  BY DEF Dial
<1>2. link'[p] = NewLink(b) /\ \A o \in Opener \ {p} : link'[o] = link[o]
  BY <1>1, WireTypes DEF SocketsTypeOK
<1>3. link[p] = NoLink
  BY DEF WireInv
<1>4. QED  BY <1>1, <1>2, <1>3, WireTypes DEF NewLink, CanDial

\* A client dials once, and asks once.
LEMMA ClientStepGrows ==
  ASSUME TypeInv, WireInv, NEW c \in Client, ClientStep(c)
  PROVE  Grows
<1>0. /\ c \in Opener /\ ClientTypeOK /\ UNCHANGED <<accepted, caller>>
      /\ \A a \in Acceptor : Served(a)' = Served(a)
  BY ProcessFacts DEF TypeInv, TypeOK, ClientStep, serverVars, destinationVars, Served
<1>1. CASE SamePeers /\ UNCHANGED asked
  BY <1>0, <1>1 DEF Grows, SamePeers
<1>2. CASE ReadNames(c)
  <2>1. SamePeers
    BY <1>2, PeerCalls DEF ReadNames
  <2>2. \A b \in Client \ {c} : asked'[b] = asked[b]
    BY <1>0, <1>2 DEF ReadNames, ClientTypeOK
  <2>3. link[c].peer = Nobody
    BY <1>0, <1>2, WireTypes DEF ReadNames, WireInv, Undialled
  <2>4. QED  BY <1>0, <2>1, <2>2, <2>3 DEF Grows, SamePeers
<1>3. CASE ConnectToServer(c)
  <2>1. CASE Dial(c, ServerHost[c]) /\ UNCHANGED asked
    <3>1. Undialled(c)
      BY <1>3 DEF ConnectToServer, Undialled
    <3>2. QED  BY <1>0, <2>1, <3>1, DialGrows DEF Grows
  <2>2. CASE ClientStops(c, "exit1")
    BY <1>1, <2>2, PeerCalls DEF ClientStops
  <2>3. QED  BY <1>3, <2>1, <2>2 DEF ConnectToServer
<1>4. CASE SendRequest(c)
  BY <1>0, <1>1, <1>4, PeerCalls DEF SendRequest
<1>5. CASE ReceiveReply(c)
  BY <1>0, <1>1, <1>5, PeerCalls DEF ReceiveReply, ClientStops
<1>6. CASE CloseClient(c) \/ InterruptClient(c)
  BY <1>1, <1>6, PeerCalls DEF CloseClient, InterruptClient, ClientStops
<1>7. QED  BY <1>2, <1>3, <1>4, <1>5, <1>6 DEF ClientStep, ClientNext, ClientRuns

\* A server accepts once and dials once.
LEMMA ServerStepGrows ==
  ASSUME TypeInv, WireInv, NEW s \in Server, ServerStep(s)
  PROVE  Grows
<1>0. /\ s \in Opener /\ s \in Acceptor /\ ServerTypeOK /\ UNCHANGED <<asked, caller>>
  BY ProcessFacts DEF TypeInv, TypeOK, ServerStep, clientVars, destinationVars
<1>1. CASE SamePeers /\ UNCHANGED accepted
  BY <1>0, <1>1 DEF Grows, SamePeers, Served
<1>2. ASSUME NEW how, ServerStops(s, how) PROVE Grows
  BY <1>1, <1>2, PeerCalls DEF ServerStops
<1>3. spc[s] \in Serving => accepted[s] \in Opener
  BY DEF TypeInv
<1>4. CASE LaunchServer(s)
  BY <1>0, <1>1, <1>4, PeerCalls DEF LaunchServer
<1>5. CASE accept_client_connection(s)
  <2>1. CASE Accept(s) /\ accepted' = [accepted EXCEPT ![s] = Head(backlog[s])]
    <3>1. SamePeers
      BY <1>0, <2>1, PeerCalls
    <3>2. Served(s) = Nobody
      BY <1>0, <1>5 DEF accept_client_connection, WireInv, Unserving
    <3>3. \A a \in Acceptor \ {s} : Served(a)' = Served(a)
      BY <1>0, <2>1 DEF ServerTypeOK, Served
    <3>4. QED  BY <1>0, <3>1, <3>2, <3>3 DEF Grows, SamePeers
  <2>2. QED  BY <1>2, <1>5, <2>1 DEF accept_client_connection
<1>6. CASE ReceiveRequest(s)
  BY <1>1, <1>2, <1>3, <1>6, PeerCalls DEF ReceiveRequest, Serving
<1>7. CASE ConnectToDestination(s)
  <2>1. CASE Dial(s, spkt[s].dst) /\ UNCHANGED accepted
    <3>1. Undialled(s)
      BY <1>7 DEF ConnectToDestination, Undialled
    <3>2. QED  BY <1>0, <2>1, <3>1, DialGrows DEF Grows, Served
  <2>2. QED  BY <1>2, <1>7, <2>1 DEF ConnectToDestination
<1>8. CASE ForwardRequest(s)
  BY <1>0, <1>1, <1>2, <1>8, PeerCalls DEF ForwardRequest
<1>9. CASE ReceiveResponse(s)
  BY <1>0, <1>1, <1>2, <1>9, PeerCalls DEF ReceiveResponse
<1>10. CASE ReplyToClient(s)
  BY <1>1, <1>3, <1>10, PeerCalls DEF ReplyToClient, Serving, Holding
<1>11. CASE CloseServer(s) \/ InterruptServer(s)
  BY <1>2, <1>11 DEF CloseServer, InterruptServer
<1>12. QED  BY <1>4, <1>5, <1>6, <1>7, <1>8, <1>9, <1>10, <1>11
            DEF ServerStep, ServerNext, ServerRuns

\* A destination accepts once.
LEMMA DestinationStepGrows ==
  ASSUME TypeInv, WireInv, NEW d \in Destination, DestinationStep(d)
  PROVE  Grows
<1>0. /\ d \in Acceptor /\ d \notin Server /\ DestinationTypeOK /\ UNCHANGED <<asked, accepted>>
  BY ProcessFacts, WireTypes DEF TypeInv, TypeOK, DestinationStep, clientVars, serverVars
<1>1. CASE SamePeers /\ UNCHANGED caller
  BY <1>0, <1>1 DEF Grows, SamePeers, Served
<1>2. ASSUME NEW how, DestinationStops(d, how) PROVE Grows
  BY <1>1, <1>2, PeerCalls DEF DestinationStops
<1>3. dpc[d] \in {"recv", "respond"} => caller[d] \in Opener
  BY DEF TypeInv
<1>4. CASE LaunchDestination(d)
  BY <1>0, <1>1, <1>4, PeerCalls DEF LaunchDestination
<1>5. CASE accept_dest_connection(d)
  <2>1. CASE Accept(d) /\ caller' = [caller EXCEPT ![d] = Head(backlog[d])]
    <3>1. SamePeers
      BY <1>0, <2>1, PeerCalls
    <3>2. Served(d) = Nobody
      BY <1>0, <1>5 DEF accept_dest_connection, WireInv, Unserving
    <3>3. \A a \in Acceptor \ {d} : Served(a)' = Served(a)
      BY <1>0, <2>1 DEF DestinationTypeOK, Served, Acceptor
    <3>4. QED  BY <1>0, <3>1, <3>2, <3>3 DEF Grows, SamePeers
  <2>2. QED  BY <1>2, <1>5, <2>1 DEF accept_dest_connection
<1>6. CASE dest_rec_pkt(d)
  BY <1>1, <1>2, <1>3, <1>6, PeerCalls DEF dest_rec_pkt
<1>7. CASE Respond(d)
  BY <1>1, <1>2, <1>3, <1>7, PeerCalls DEF Respond
<1>8. CASE CloseDestination(d) \/ InterruptDestination(d)
  BY <1>2, <1>8 DEF CloseDestination, InterruptDestination
<1>9. QED  BY <1>4, <1>5, <1>6, <1>7, <1>8
           DEF DestinationStep, DestinationNext, DestinationRuns

\* No step takes back a connection, an acceptance or a question.
LEMMA StepGrows == TypeInv /\ WireInv /\ [Next]_vars => Grows
<1> SUFFICES ASSUME TypeInv, WireInv, [Next]_vars PROVE Grows
  OBVIOUS
<1>1. CASE UNCHANGED vars
  BY <1>1 DEF vars, clientVars, serverVars, destinationVars, socketVars, Grows, Served
<1>2. QED  BY <1>1, ClientStepGrows, ServerStepGrows, DestinationStepGrows DEF Next, Rest
-----------------------------------------------------------------------------
(***************************************************************************)
(* A request goes where the client asked for.                              *)
(***************************************************************************)

\* An address that recv() returns whole is that of a packet under way, and so
\* is every field before it.
LEMMA ArrivedFields ==
  ASSUME NEW pkts \in SUBSET Packet, NEW end, NEW f \in Form,
         NEW got \in Arrivals(pkts, end, f)
  PROVE  /\ got.pkt.dst # NoHost => \E p \in pkts :
              p.form = f /\ got.pkt.src = p.src /\ got.pkt.dst = p.dst
         /\ got.pkt.body = "hello" => \E p \in pkts :
              /\ p.form = f /\ p.body = "hello"
              /\ got.pkt.src = p.src /\ got.pkt.dst = p.dst
<1>1. ASSUME NEW p \in pkts, NEW n \in CutOrWhole(f), got.pkt = Received(f, p, n),
             got.pkt.dst # NoHost \/ got.pkt.body = "hello"
      PROVE  /\ p.form = f /\ got.pkt.src = p.src /\ got.pkt.dst = p.dst
             /\ got.pkt.body = "hello" => p.body = "hello"
  <2>1. n \in 0..4
    BY SocketsAssumption DEF CutOrWhole, Whole
  <2>2. p.form = f
    BY <1>1 DEF Received
  <2>3. n >= 2
    BY <1>1, <2>1, <2>2 DEF Received, TextRead
  <2>4. QED  BY <1>1, <2>1, <2>2, <2>3 DEF Received
<1>2. CASE got = [pkt |-> NothingReceived(f), rest |-> {}]
  BY <1>2 DEF NothingReceived
<1>3. CASE \E p \in pkts, n \in CutOrWhole(f) :
             got = [pkt |-> Received(f, p, n), rest |-> IF n = Whole THEN {} ELSE {p}]
  BY <1>1, <1>3
<1>4. QED  BY <1>2, <1>3 DEF Arrivals

\* A step that connects nobody, sends no request and receives none.
LEMMA KeptRoutes ==
  ASSUME TypeInv, RouteInv, SamePeers, UNCHANGED <<asked, accepted>>,
         \A c \in Client : link'[c].up \subseteq link[c].up,
         \A s \in Server :
           /\ spc'[s] = "connect" =>
                spc[s] = "connect" /\ spkt'[s] = spkt[s] /\ clientIp'[s] = clientIp[s]
           /\ spc'[s] \in {"forward", "await"} =>
                spc[s] \in {"forward", "await"} /\ clientIp'[s] = clientIp[s]
  PROVE  RouteInv'
<1>1. ASSUME NEW c \in Client
      PROVE  /\ \A pkt \in link'[c].up : pkt = create_packets(HostOf[c], asked'[c])
             /\ link'[c].peer # Nobody => HostOf[link'[c].peer] = ServerHost[c]
  BY <1>1, ProcessFacts DEF RouteInv, SamePeers
<1>2. ASSUME NEW s \in Server
      PROVE  /\ spc'[s] = "connect" /\ spkt'[s].dst # NoHost =>
                  /\ accepted'[s] \in Client
                  /\ clientIp'[s] = HostOf[accepted'[s]]
                  /\ spkt'[s].dst = asked'[accepted'[s]]
             /\ spc'[s] \in {"forward", "await"} => clientIp'[s] = HostOf[accepted'[s]]
             /\ link'[s].peer # Nobody =>
                  accepted'[s] \in Client /\ HostOf[link'[s].peer] = asked'[accepted'[s]]
  BY <1>2, ProcessFacts DEF RouteInv, SamePeers
<1>3. QED  BY <1>1, <1>2 DEF RouteInv

\* A client asks, dials the server it named, and sends what it asked for.
LEMMA ClientStepRoutes ==
  ASSUME CircuitInv, NEW c \in Client, ClientStep(c)
  PROVE  RouteInv'
<1>0. /\ c \in Opener /\ c \notin Server /\ HostOf[c] \in Address
      /\ TypeInv /\ SocketsTypeOK /\ ClientTypeOK /\ WireInv /\ RouteInv
      /\ UNCHANGED <<spc, accepted, spkt, clientIp>>
  BY ProcessFacts, WireTypes DEF CircuitInv, ProxyInv, TypeInv, TypeOK, ClientStep, serverVars
<1>1. CASE SamePeers /\ NothingSent /\ UNCHANGED asked
  BY <1>0, <1>1, KeptRoutes, ProcessFacts DEF NothingSent
<1>2. ASSUME NEW how, ClientStops(c, how) PROVE RouteInv'
  BY <1>0, <1>1, <1>2, PeerCalls, QuietCalls DEF ClientStops
<1>3. CASE ReadNames(c)
  <2>1. link' = link /\ link[c] = NoLink
    BY <1>0, <1>3 DEF ReadNames, socketVars, WireInv, Undialled
  <2>2. \A b \in Client \ {c} : asked'[b] = asked[b]
    BY <1>0, <1>3 DEF ReadNames, ClientTypeOK
  <2>3. \A s \in Server : accepted[s] # c
    BY <1>0, <2>1, WireTypes, ProcessFacts DEF WireInv, Served
  <2>4. ASSUME NEW b \in Client
        PROVE  \A pkt \in link'[b].up : pkt = create_packets(HostOf[b], asked'[b])
    BY <1>0, <2>1, <2>2, WireTypes DEF RouteInv
  <2>5. QED  BY <1>0, <2>1, <2>2, <2>3, <2>4 DEF RouteInv
<1>4. CASE ConnectToServer(c)
  <2>1. CASE Dial(c, ServerHost[c]) /\ UNCHANGED asked
    <3>1. Undialled(c)
      BY <1>4 DEF ConnectToServer, Undialled
    <3>2. /\ \A o \in Opener \ {c} : link'[o] = link[o]
          /\ link'[c].up = {} /\ HostOf[link'[c].peer] = ServerHost[c]
      BY <1>0, <2>1, <3>1, DialGrows
    <3>3. QED  BY <1>0, <2>1, <3>2, ProcessFacts DEF RouteInv
  <2>2. QED  BY <1>2, <1>4, <2>1 DEF ConnectToServer
<1>5. CASE SendRequest(c)
  <2>1. SamePeers
    BY <1>0, <1>5, PeerCalls DEF SendRequest
  <2>2. CASE ErrorReported(c)
    BY <1>0, <1>1, <1>5, <2>1, <2>2, QuietCalls DEF SendRequest
  <2>3. CASE SendUp(c, create_packets(HostOf[c], asked[c]))
    <3> DEFINE pkt == create_packets(HostOf[c], asked[c])
    <3>1. pkt \in Packet
      BY <1>0, CreatedPackets DEF ClientTypeOK
    <3>2. \A x \in Opener : link'[x].up \subseteq link[x].up \cup {q \in {pkt} : x = c}
      BY <1>0, <2>3, <3>1, SendUpAdds
    <3>3. asked' = asked
      BY <1>5 DEF SendRequest
    <3>4. \A b \in Client : \A q \in link'[b].up : q = create_packets(HostOf[b], asked'[b])
      BY <1>0, <3>2, <3>3, ProcessFacts DEF RouteInv
    <3>5. QED  BY <1>0, <2>1, <3>3, <3>4, ProcessFacts DEF RouteInv, SamePeers
  <2>4. QED  BY <1>5, <2>2, <2>3 DEF SendRequest
<1>6. CASE ReceiveReply(c)
  <2>1. CASE \E got \in DownArrivals(c, "tunnel") : RecvDown(c, got) /\ UNCHANGED asked
    <3>1. NothingSent
      BY <1>0, <2>1, QuietRecv DEF Form
    <3>2. QED  BY <1>0, <1>1, <2>1, <3>1, PeerCalls
  <2>2. QED  BY <1>2, <1>6, <2>1 DEF ReceiveReply
<1>7. CASE CloseClient(c) \/ InterruptClient(c)
  BY <1>2, <1>7 DEF CloseClient, InterruptClient
<1>8. QED  BY <1>3, <1>4, <1>5, <1>6, <1>7 DEF ClientStep, ClientNext, ClientRuns

\* A server dials the host that the client it accepted asked for.
LEMMA ServerStepRoutes ==
  ASSUME CircuitInv, NEW s \in Server, ServerStep(s)
  PROVE  RouteInv'
<1>0. /\ s \in Opener /\ s \in Acceptor /\ s \notin Client /\ HostOf[s] \in Address
      /\ TypeInv /\ SocketsTypeOK /\ ServerTypeOK /\ FormInv /\ ServerInv
      /\ WireInv /\ RouteInv /\ UNCHANGED asked
  BY ProcessFacts, WireTypes
  DEF CircuitInv, ProxyInv, TypeInv, TypeOK, ServerStep, clientVars
<1>1. CASE /\ SamePeers /\ NothingSent /\ UNCHANGED <<accepted, spkt, clientIp>>
           /\ \E pc : pc \notin {"connect", "forward", "await"} /\ spc' = [spc EXCEPT ![s] = pc]
  BY <1>0, <1>1, KeptRoutes, ProcessFacts DEF NothingSent, ServerTypeOK
<1>2. ASSUME NEW how \in Ended, ServerStops(s, how) PROVE RouteInv'
  <2>1. how \notin {"connect", "forward", "await"}
    BY DEF Ended
  <2>2. QED  BY <1>0, <1>1, <1>2, <2>1, PeerCalls, QuietCalls DEF ServerStops
<1>3. CASE LaunchServer(s)
  BY <1>0, <1>1, <1>3, PeerCalls, QuietCalls DEF LaunchServer
<1>4. CASE accept_client_connection(s)
  <2>1. CASE /\ Accept(s)
             /\ accepted' = [accepted EXCEPT ![s] = Head(backlog[s])]
             /\ spc' = [spc EXCEPT ![s] = "recv"]
             /\ UNCHANGED <<spkt, clientIp>>
    <3>1. SamePeers /\ NothingSent
      BY <1>0, <2>1, PeerCalls, QuietCalls
    <3>2. link[s].peer = Nobody
      BY <1>0, <1>4, WireTypes DEF accept_client_connection, WireInv, Undialled
    <3>3. spc'[s] = "recv" /\ \A t \in Server \ {s} :
            spc'[t] = spc[t] /\ accepted'[t] = accepted[t]
      BY <1>0, <2>1 DEF ServerTypeOK
    <3>4. QED  BY <1>0, <2>1, <3>1, <3>2, <3>3, ProcessFacts
               DEF RouteInv, SamePeers, NothingSent
  <2>2. QED  BY <1>2, <1>4, <2>1 DEF accept_client_connection, Ended
<1>5. CASE ReceiveRequest(s)
  <2>1. ASSUME NEW got \in UpArrivals(accepted[s], "tunnel"), RecvUp(accepted[s], got),
               clientIp' = [clientIp EXCEPT ![s] = save_client_ip(got.pkt)],
               spkt' = [spkt EXCEPT ![s] = serv_handle_pkt(got.pkt, HostOf[s])],
               spc' = [spc EXCEPT ![s] = "connect"], UNCHANGED accepted
        PROVE  RouteInv'
    <3> DEFINE o == accepted[s]
    <3>1. o \in Opener
      BY <1>0, <1>5 DEF ReceiveRequest, TypeInv, Serving
    <3>2. SamePeers /\ NothingSent
      BY <1>0, <2>1, <3>1, PeerCalls, QuietRecv DEF Form
    <3>3. link[o].up \in SUBSET Packet
      BY <3>1, WireTypes, <1>0 DEF Link
    <3>4. got \in Arrivals(link[o].up, link[o].near, "tunnel") /\ "tunnel" \in Form
      BY <2>1 DEF UpArrivals, Form
    <3>5. got.pkt \in Packet
      BY <3>3, <3>4, ArrivedPacket
    <3>6. ASSUME got.pkt.dst # NoHost
          PROVE  o \in Client /\ got.pkt.src = HostOf[o] /\ got.pkt.dst = asked[o]
      <4>1. PICK p \in link[o].up :
              p.form = "tunnel" /\ got.pkt.src = p.src /\ got.pkt.dst = p.dst
        BY <3>3, <3>4, <3>6, ArrivedFields
      <4>2. o \in Client
        BY <1>0, <3>1, <4>1 DEF FormInv, Opener
      <4>3. p = create_packets(HostOf[o], asked[o])
        BY <1>0, <4>1, <4>2 DEF RouteInv
      <4>4. QED  BY <4>1, <4>2, <4>3 DEF create_packets
    <3>7. /\ spc'[s] = "connect" /\ clientIp'[s] = got.pkt.src
          /\ spkt'[s].dst = got.pkt.dst
      BY <1>0, <2>1, <3>5, HandledPacket DEF ServerTypeOK, save_client_ip
    <3>8. \A t \in Server \ {s} :
            spc'[t] = spc[t] /\ spkt'[t] = spkt[t] /\ clientIp'[t] = clientIp[t]
      BY <1>0, <2>1 DEF ServerTypeOK
    <3>9. \A c \in Client : /\ link'[c].up \subseteq link[c].up
                            /\ link'[c].peer = link[c].peer
      BY <3>2, ProcessFacts DEF SamePeers, NothingSent
    <3>10. \A t \in Server : link'[t].peer = link[t].peer
      BY <3>2, ProcessFacts DEF SamePeers
    <3>11. QED  BY <1>0, <2>1, <3>6, <3>7, <3>8, <3>9, <3>10 DEF RouteInv
  <2>2. QED  BY <1>2, <1>5, <2>1 DEF ReceiveRequest, Ended
<1>6. CASE ConnectToDestination(s)
  <2>1. CASE /\ Dial(s, spkt[s].dst)
             /\ spc' = [spc EXCEPT ![s] = "forward"]
             /\ UNCHANGED <<accepted, spkt, clientIp>>
    <3>1. spc[s] = "connect" /\ Undialled(s)
      BY <1>0, <1>6 DEF ConnectToDestination, Undialled
    <3>2. /\ \A o \in Opener \ {s} : link'[o] = link[o]
          /\ link'[s].peer \in Acceptor /\ HostOf[link'[s].peer] = spkt[s].dst
      BY <1>0, <2>1, <3>1, DialGrows
    <3>3. spkt[s].dst # NoHost
      BY <3>2, ClientHostFacts, ProcessFacts
    <3>4. /\ accepted[s] \in Client /\ clientIp[s] = HostOf[accepted[s]]
          /\ HostOf[link'[s].peer] = asked[accepted[s]]
      BY <1>0, <3>1, <3>2, <3>3 DEF RouteInv
    <3>5. spc'[s] = "forward" /\ \A t \in Server \ {s} : spc'[t] = spc[t]
      BY <1>0, <2>1 DEF ServerTypeOK
    <3>6. \A c \in Client : link'[c] = link[c]
      BY <1>0, <3>2, ProcessFacts
    <3>7. \A t \in Server \ {s} : link'[t] = link[t]
      BY <3>2, ProcessFacts
    <3>8. QED  BY <1>0, <2>1, <3>4, <3>5, <3>6, <3>7 DEF RouteInv
  <2>2. QED  BY <1>2, <1>6, <2>1 DEF ConnectToDestination, Ended
<1>7. CASE ForwardRequest(s)
  <2>1. CASE /\ SendUp(s, spkt[s])
             /\ spc' = [spc EXCEPT ![s] = "await"]
             /\ UNCHANGED <<accepted, spkt, clientIp>>
    <3>1. spc[s] = "forward" /\ SamePeers
      BY <1>0, <1>7, <2>1, PeerCalls DEF ForwardRequest
    <3>2. \A c \in Client : link'[c].up = link[c].up
      BY <1>0, <2>1, ProcessFacts DEF SendUp, SocketsTypeOK
    <3>3. spc'[s] = "await" /\ \A t \in Server \ {s} : spc'[t] = spc[t]
      BY <1>0, <2>1 DEF ServerTypeOK
    <3>4. QED  BY <1>0, <2>1, <3>1, <3>2, <3>3, KeptRoutes
  <2>2. QED  BY <1>2, <1>7, <2>1 DEF ForwardRequest, Ended
<1>8. CASE ReceiveResponse(s)
  <2>1. ASSUME NEW got \in DownArrivals(s, "plain"), RecvDown(s, got),
               NEW pkt, spkt' = [spkt EXCEPT ![s] = pkt],
               spc' = [spc EXCEPT ![s] = "reply"], UNCHANGED <<accepted, clientIp>>
        PROVE  RouteInv'
    <3>1. SamePeers /\ NothingSent
      BY <1>0, <2>1, PeerCalls, QuietRecv DEF Form
    <3>2. spc'[s] = "reply" /\ \A t \in Server \ {s} : spc'[t] = spc[t] /\ spkt'[t] = spkt[t]
      BY <1>0, <2>1 DEF ServerTypeOK
    <3>3. QED  BY <1>0, <2>1, <3>1, <3>2, KeptRoutes, ProcessFacts DEF NothingSent
  <2>2. QED  BY <1>2, <1>8, <2>1 DEF ReceiveResponse, Ended
<1>9. CASE ReplyToClient(s)
  <2>1. accepted[s] \in Opener /\ SocketsTypeOK
    BY <1>0, <1>9 DEF ReplyToClient, TypeInv, Serving, Holding
  <2>2. SamePeers
    BY <1>0, <1>9, <2>1, PeerCalls DEF ReplyToClient
  <2>3. \A c \in Client : link'[c].up = link[c].up
    <3>1. CASE SendDown(accepted[s], spkt[s])
      <4>1. spkt[s] \in Packet
        BY <1>0, <1>9 DEF ReplyToClient, TypeInv, Holding
      <4>2. QED  BY <2>1, <3>1, <4>1, SendDownAdds, ProcessFacts
    <3>2. QED  BY <1>9, <3>1 DEF ReplyToClient, socketVars
  <2>4. spc'[s] = "close" /\ \A t \in Server \ {s} : spc'[t] = spc[t]
    BY <1>0, <1>9 DEF ReplyToClient, ServerTypeOK
  <2>5. QED  BY <1>0, <1>9, <2>2, <2>3, <2>4, KeptRoutes DEF ReplyToClient
<1>10. CASE CloseServer(s) \/ InterruptServer(s)
  BY <1>2, <1>10 DEF CloseServer, InterruptServer, Ended
<1>11. QED  BY <1>3, <1>4, <1>5, <1>6, <1>7, <1>8, <1>9, <1>10
            DEF ServerStep, ServerNext, ServerRuns

\* A destination sends no request.
LEMMA DestinationStepRoutes ==
  ASSUME CircuitInv, NEW d \in Destination, DestinationStep(d)
  PROVE  RouteInv'
<1>0. /\ d \in Acceptor /\ TypeInv /\ SocketsTypeOK /\ WireInv /\ RouteInv
      /\ UNCHANGED <<asked, spc, accepted, spkt, clientIp>>
  BY ProcessFacts, WireTypes DEF CircuitInv, ProxyInv, DestinationStep, clientVars, serverVars
<1>1. CASE SamePeers /\ \A c \in Client : link'[c].up \subseteq link[c].up
  BY <1>0, <1>1, KeptRoutes
<1>2. CASE SamePeers /\ NothingSent
  BY <1>1, <1>2, ProcessFacts DEF NothingSent
<1>3. ASSUME NEW how, DestinationStops(d, how) PROVE RouteInv'
  BY <1>0, <1>2, <1>3, PeerCalls, QuietCalls DEF DestinationStops
<1>4. dpc[d] \in {"recv", "respond"} => caller[d] \in Opener
  BY <1>0 DEF TypeInv
<1>5. CASE LaunchDestination(d)
  BY <1>0, <1>2, <1>5, PeerCalls, QuietCalls DEF LaunchDestination
<1>6. CASE accept_dest_connection(d)
  BY <1>0, <1>2, <1>3, <1>6, PeerCalls, QuietCalls DEF accept_dest_connection
<1>7. CASE dest_rec_pkt(d)
  <2>1. CASE \E got \in UpArrivals(caller[d], "plain") : RecvUp(caller[d], got)
    <3>1. caller[d] \in Opener
      BY <1>4, <1>7 DEF dest_rec_pkt
    <3>2. NothingSent
      BY <1>0, <2>1, <3>1, QuietRecv DEF Form
    <3>3. QED  BY <1>0, <1>2, <2>1, <3>1, <3>2, PeerCalls
  <2>2. QED  BY <1>3, <1>7, <2>1 DEF dest_rec_pkt
<1>8. CASE Respond(d)
  <2>1. ASSUME NEW pkt, SendDown(caller[d], pkt) PROVE RouteInv'
    <3>1. caller[d] \in Opener
      BY <1>4, <1>8 DEF Respond
    <3>2. \A o \in Opener : link'[o].up = link[o].up
      BY <1>0, <2>1, <3>1, WireTypes DEF SendDown, SocketsTypeOK, Link
    <3>3. QED  BY <1>0, <1>1, <2>1, <3>1, <3>2, PeerCalls, ProcessFacts
  <2>2. QED  BY <1>3, <1>8, <2>1 DEF Respond
<1>9. CASE CloseDestination(d) \/ InterruptDestination(d)
  BY <1>3, <1>9 DEF CloseDestination, InterruptDestination
<1>10. QED  BY <1>5, <1>6, <1>7, <1>8, <1>9
            DEF DestinationStep, DestinationNext, DestinationRuns
-----------------------------------------------------------------------------
(***************************************************************************)
(* An answer comes from where the client asked for.                        *)
(***************************************************************************)

\* What was written for a server, or delivered to a client, stays so.
LEMMA AnswersStay ==
  ASSUME TypeInv, WireInv, Grows
  PROVE  /\ \A s \in Server : \A pkt : WrittenFor(s, pkt) => WrittenFor(s, pkt)'
         /\ \A c \in Client : \A pkt : Delivered(c, pkt) => Delivered(c, pkt)'
<1>1. ASSUME NEW s \in Server, NEW pkt, WrittenFor(s, pkt)
      PROVE  WrittenFor(s, pkt)'
  <2>1. PICK d \in Destination : caller[d] = s /\ pkt.src = HostOf[d]
    BY <1>1 DEF WrittenFor
  <2>2. caller'[d] = s
    BY <2>1, WireTypes, ProcessFacts DEF Grows, Served
  <2>3. QED  BY <2>1, <2>2 DEF WrittenFor
<1>2. ASSUME NEW c \in Client, NEW pkt, Delivered(c, pkt)
      PROVE  Delivered(c, pkt)'
  <2>1. PICK s \in Server, d \in Destination :
          Circuit(c, s, d) /\ HostOf[s] = ServerHost[c] /\ HostOf[d] = asked[c]
    BY <1>2 DEF Delivered
  <2>2. /\ link'[c].peer = s /\ link'[s].peer = d /\ asked'[c] = asked[c]
    BY <2>1, WireTypes, ProcessFacts DEF Grows, Circuit
  <2>3. accepted'[s] = c /\ caller'[d] = s
    BY <2>1, WireTypes, ProcessFacts DEF Grows, Circuit, Served
  <2>4. Circuit(c, s, d)'
    BY <2>2, <2>3 DEF Circuit
  <2>5. QED  BY <1>2, <2>1, <2>2, <2>4 DEF Delivered
<1>3. QED  BY <1>1, <1>2

\* What was written for a server that serves a client comes from the host that
\* the client asked for.
LEMMA WrittenIsDelivered ==
  ASSUME CircuitInv, NEW s \in Server, NEW pkt, WrittenFor(s, pkt),
         accepted[s] \in Client, pkt.dst = HostOf[accepted[s]]
  PROVE  Delivered(accepted[s], pkt)
<1> DEFINE c == accepted[s]
<1>1. TypeInv /\ WireInv /\ RouteInv
  BY DEF CircuitInv, ProxyInv
<1>2. PICK d \in Destination : caller[d] = s /\ pkt.src = HostOf[d]
  BY DEF WrittenFor
<1>3. link[c].peer = s /\ HostOf[s] = ServerHost[c]
  BY <1>1, WireTypes, ProcessFacts DEF WireInv, Served, RouteInv
<1>4. link[s].peer = d /\ HostOf[d] = asked[c]
  BY <1>1, <1>2, WireTypes, ProcessFacts DEF WireInv, Served, RouteInv
<1>5. Circuit(c, s, d)
  BY <1>2, <1>3, <1>4 DEF Circuit
<1>6. QED  BY <1>2, <1>3, <1>4, <1>5 DEF Delivered

\* A step that sends no answer and receives none.
LEMMA KeptAnswers ==
  ASSUME CircuitInv, Grows,
         \A o \in Opener : link'[o].down \subseteq link[o].down,
         \A s \in Server :
           spc'[s] = "reply" => spc[s] = "reply" /\ spkt'[s] = spkt[s],
         \A c \in Client :
           /\ cpc'[c] \in {"start", "connect", "send", "recv"} =>
                cpc[c] \in {"start", "connect", "send", "recv"}
           /\ reply'[c] = reply[c]
  PROVE  AnswerInv' /\ ReplyHasCircuit'
<1>0. TypeInv /\ WireInv /\ AnswerInv /\ ReplyHasCircuit
  BY DEF CircuitInv, ProxyInv
<1>1. ASSUME NEW s \in Server
      PROVE  /\ \A pkt \in link'[s].down :
                  pkt.form = "plain" /\ pkt.body = "hello" => WrittenFor(s, pkt)'
             /\ spc'[s] = "reply" /\ spkt'[s].body = "hello" =>
                  WrittenFor(s, spkt[s])' /\ spkt'[s].dst = HostOf[accepted'[s]]
  <2>1. ASSUME NEW pkt \in link'[s].down, pkt.form = "plain", pkt.body = "hello"
        PROVE  WrittenFor(s, pkt)'
    <3>1. WrittenFor(s, pkt)
      BY <1>0, <2>1, ProcessFacts DEF AnswerInv
    <3>2. QED  BY <1>0, <3>1, AnswersStay
  <2>2. ASSUME spc'[s] = "reply", spkt'[s].body = "hello", NEW pkt, pkt = spkt[s]
        PROVE  WrittenFor(s, pkt)' /\ pkt = spkt'[s] /\ pkt.dst = HostOf[accepted'[s]]
    <3>1. WrittenFor(s, pkt) /\ pkt.dst = HostOf[accepted[s]] /\ pkt = spkt'[s]
      BY <1>0, <2>2 DEF AnswerInv
    <3>2. accepted[s] # Nobody
      BY <1>0, <2>2, WireTypes DEF TypeInv, Serving, Holding
    <3>3. accepted'[s] = accepted[s]
      BY <3>2, ProcessFacts DEF Grows, Served
    <3>4. QED  BY <1>0, <3>1, <3>3, AnswersStay
  <2>3. QED  BY <2>1, <2>2 DEF WrittenFor
<1>2. ASSUME NEW c \in Client
      PROVE  /\ \A pkt \in link'[c].down :
                  pkt.form = "tunnel" /\ pkt.body = "hello" => Delivered(c, pkt)'
             /\ cpc'[c] \in {"start", "connect", "send", "recv"} => reply'[c] = Null
  BY <1>0, <1>2, AnswersStay, ProcessFacts DEF AnswerInv
<1>3. ASSUME NEW c \in Client, HasReply(c)'
      PROVE  Delivered(c, reply[c])'
  <2>1. HasReply(c) /\ reply'[c] = reply[c]
    BY <1>3 DEF HasReply
  <2>2. ASSUME NEW pkt, pkt = reply[c] PROVE Delivered(c, pkt)'
    BY <1>0, <2>1, <2>2, AnswersStay DEF ReplyHasCircuit
  <2>3. QED  BY <2>1, <2>2 DEF Delivered
<1>4. QED  BY <1>1, <1>2, <1>3 DEF AnswerInv, ReplyHasCircuit

\* What a client reads as the destination's greeting was delivered to it.
LEMMA ClientStepAnswers ==
  ASSUME CircuitInv, Grows, NEW c \in Client, ClientStep(c)
  PROVE  AnswerInv' /\ ReplyHasCircuit'
<1>0. /\ c \in Opener /\ HostOf[c] \in Address
      /\ TypeInv /\ SocketsTypeOK /\ ClientTypeOK /\ WireInv /\ AnswerInv /\ ReplyHasCircuit
      /\ UNCHANGED <<spc, spkt>>
  BY ProcessFacts, WireTypes DEF CircuitInv, ProxyInv, TypeInv, TypeOK, ClientStep, serverVars
<1>1. CASE NothingSent /\ UNCHANGED reply /\ \E pc :
             /\ cpc' = [cpc EXCEPT ![c] = pc]
             /\ pc \in {"start", "connect", "send", "recv"} =>
                  cpc[c] \in {"start", "connect", "send", "recv"}
  BY <1>0, <1>1, KeptAnswers DEF NothingSent, ClientTypeOK
<1>2. ASSUME NEW how \in Ended, ClientStops(c, how) PROVE AnswerInv' /\ ReplyHasCircuit'
  <2>1. how \notin {"start", "connect", "send", "recv"}
    BY DEF Ended
  <2>2. QED  BY <1>0, <1>1, <1>2, <2>1, QuietCalls DEF ClientStops
<1>3. CASE ReadNames(c)
  BY <1>0, <1>1, <1>3, QuietCalls DEF ReadNames
<1>4. CASE ConnectToServer(c)
  <2>1. ServerHost[c] \in Address
    BY ClientAssumption
  <2>2. QED  BY <1>0, <1>1, <1>2, <1>4, <2>1, QuietCalls DEF ConnectToServer, Ended
<1>5. CASE SendRequest(c)
  <2>1. create_packets(HostOf[c], asked[c]) \in Packet
    BY <1>0, CreatedPackets DEF ClientTypeOK
  <2>2. \A o \in Opener : link'[o].down \subseteq link[o].down
    BY <1>0, <1>5, <2>1, SendUpAdds, QuietCalls DEF SendRequest, NothingSent
  <2>3. UNCHANGED reply /\ cpc' = [cpc EXCEPT ![c] = "recv"] /\ cpc[c] = "send"
    BY <1>5 DEF SendRequest
  <2>4. QED  BY <1>0, <2>2, <2>3, KeptAnswers DEF ClientTypeOK
<1>6. CASE ReceiveReply(c)
  <2>1. ASSUME NEW got \in DownArrivals(c, "tunnel"), RecvDown(c, got),
               reply' = [reply EXCEPT ![c] = got.pkt],
               cpc' = [cpc EXCEPT ![c] = "close"]
        PROVE  AnswerInv' /\ ReplyHasCircuit'
    <3>1. NothingSent
      BY <1>0, <2>1, QuietRecv DEF Form
    <3>2. /\ cpc'[c] = "close" /\ reply'[c] = got.pkt
          /\ \A b \in Client \ {c} : cpc'[b] = cpc[b] /\ reply'[b] = reply[b]
      BY <1>0, <2>1 DEF ClientTypeOK
    <3>3. ASSUME got.pkt.body = "hello" PROVE Delivered(c, got.pkt)
      <4>1. link[c].down \in SUBSET Packet /\ "tunnel" \in Form
        BY <1>0, WireTypes DEF Link, Form
      <4>2. PICK p \in link[c].down : /\ p.form = "tunnel" /\ p.body = "hello"
                                      /\ got.pkt.src = p.src /\ got.pkt.dst = p.dst
        BY <2>1, <3>3, <4>1, ArrivedFields DEF DownArrivals
      <4>3. Delivered(c, p)
        BY <1>0, <4>2 DEF AnswerInv
      <4>4. QED  BY <4>2, <4>3 DEF Delivered
    <3>4. \A b \in Client : \A pkt : Delivered(b, pkt) => Delivered(b, pkt)'
      BY <1>0, AnswersStay
    <3>5. ASSUME NEW b \in Client, HasReply(b)', NEW pkt, pkt = reply'[b]
          PROVE  Delivered(b, pkt)'
      BY <1>0, <3>2, <3>3, <3>4, <3>5 DEF HasReply, ReplyHasCircuit
    <3>6. ReplyHasCircuit'
      BY <3>5 DEF ReplyHasCircuit, Delivered
    <3>7. ASSUME NEW b \in Client
          PROVE  /\ \A pkt \in link'[b].down :
                      pkt.form = "tunnel" /\ pkt.body = "hello" => Delivered(b, pkt)'
                 /\ cpc'[b] \in {"start", "connect", "send", "recv"} => reply'[b] = Null
      BY <1>0, <3>1, <3>2, <3>4, ProcessFacts DEF AnswerInv, NothingSent
    <3>8. ASSUME NEW s \in Server
          PROVE  /\ \A pkt \in link'[s].down :
                      pkt.form = "plain" /\ pkt.body = "hello" => WrittenFor(s, pkt)'
                 /\ spc'[s] = "reply" /\ spkt'[s].body = "hello" =>
                      WrittenFor(s, spkt[s])' /\ spkt'[s].dst = HostOf[accepted'[s]]
      BY <1>0, <3>1, ProcessFacts
      DEF AnswerInv, NothingSent, WrittenFor, ClientStep, serverVars, destinationVars
    <3>9. QED  BY <3>6, <3>7, <3>8 DEF AnswerInv
  <2>2. QED  BY <1>2, <1>6, <2>1 DEF ReceiveReply, Ended
<1>7. CASE CloseClient(c) \/ InterruptClient(c)
  BY <1>2, <1>7 DEF CloseClient, InterruptClient, Ended
<1>8. QED  BY <1>3, <1>4, <1>5, <1>6, <1>7 DEF ClientStep, ClientNext, ClientRuns

\* A server passes the destination's answer back to the client it accepted.
LEMMA ServerStepAnswers ==
  ASSUME CircuitInv, Grows, NEW s \in Server, ServerStep(s)
  PROVE  AnswerInv' /\ ReplyHasCircuit'
<1>0. /\ s \in Opener /\ s \in Acceptor /\ HostOf[s] \in Address /\ s \notin Client
      /\ TypeInv /\ SocketsTypeOK /\ ServerTypeOK /\ ServerInv
      /\ WireInv /\ RouteInv /\ AnswerInv /\ ReplyHasCircuit
      /\ UNCHANGED <<cpc, asked, reply, caller>>
  BY ProcessFacts, WireTypes
  DEF CircuitInv, ProxyInv, TypeInv, TypeOK, ServerStep, clientVars, destinationVars
<1>1. CASE /\ \A o \in Opener : link'[o].down \subseteq link[o].down
           /\ \E pc : pc # "reply" /\ spc' = [spc EXCEPT ![s] = pc]
           /\ \A t \in Server \ {s} : spkt'[t] = spkt[t]
  BY <1>0, <1>1, KeptAnswers DEF ServerTypeOK
<1>2. ASSUME NEW how \in Ended, ServerStops(s, how) PROVE AnswerInv' /\ ReplyHasCircuit'
  <2>1. how # "reply" /\ NothingSent
    BY <1>0, <1>2, QuietCalls DEF Ended, ServerStops
  <2>2. QED  BY <1>1, <1>2, <2>1 DEF ServerStops, NothingSent
<1>3. CASE LaunchServer(s)
  BY <1>0, <1>1, <1>3, QuietCalls DEF LaunchServer, NothingSent
<1>4. CASE accept_client_connection(s)
  BY <1>0, <1>1, <1>2, <1>4, QuietCalls DEF accept_client_connection, NothingSent, Ended
<1>5. CASE ReceiveRequest(s)
  <2>1. ASSUME NEW got \in UpArrivals(accepted[s], "tunnel"), RecvUp(accepted[s], got),
               NEW pkt, spkt' = [spkt EXCEPT ![s] = pkt],
               spc' = [spc EXCEPT ![s] = "connect"]
        PROVE  AnswerInv' /\ ReplyHasCircuit'
    <3>1. accepted[s] \in Opener
      BY <1>0, <1>5 DEF ReceiveRequest, TypeInv, Serving
    <3>2. NothingSent
      BY <1>0, <2>1, <3>1, QuietRecv DEF Form
    <3>3. \A t \in Server \ {s} : spkt'[t] = spkt[t]
      BY <1>0, <2>1 DEF ServerTypeOK
    <3>4. QED  BY <1>1, <2>1, <3>2, <3>3 DEF NothingSent
  <2>2. QED  BY <1>2, <1>5, <2>1 DEF ReceiveRequest, Ended
<1>6. CASE ConnectToDestination(s)
  <2>1. spkt[s].dst \in Address
    BY <1>0, <1>6 DEF ConnectToDestination, TypeInv, Holding, Packet
  <2>2. CASE Dial(s, spkt[s].dst) /\ spc' = [spc EXCEPT ![s] = "forward"] /\ UNCHANGED spkt
    BY <1>0, <1>1, <2>1, <2>2, QuietCalls DEF NothingSent
  <2>3. QED  BY <1>2, <1>6, <2>2 DEF ConnectToDestination, Ended
<1>7. CASE ForwardRequest(s)
  <2>1. CASE SendUp(s, spkt[s]) /\ spc' = [spc EXCEPT ![s] = "await"] /\ UNCHANGED spkt
    <3>1. spkt[s] \in Packet
      BY <1>0, <1>7 DEF ForwardRequest, TypeInv, Holding
    <3>2. \A o \in Opener : link'[o].down = link[o].down
      BY <1>0, <2>1, <3>1, SendUpAdds
    <3>3. QED  BY <1>1, <2>1, <3>2
  <2>2. QED  BY <1>2, <1>7, <2>1 DEF ForwardRequest, Ended
<1>8. CASE ReceiveResponse(s)
  <2>1. ASSUME NEW got \in DownArrivals(s, "plain"), RecvDown(s, got),
               spkt' = [spkt EXCEPT ![s] = serv_handle_pkt_dest(got.pkt, clientIp[s])],
               spc' = [spc EXCEPT ![s] = "reply"], UNCHANGED <<accepted, clientIp>>
        PROVE  AnswerInv' /\ ReplyHasCircuit'
    <3> DEFINE pkt == serv_handle_pkt_dest(got.pkt, clientIp[s])
    <3>1. NothingSent
      BY <1>0, <2>1, QuietRecv DEF Form
    <3>2. link[s].down \in SUBSET Packet /\ "plain" \in Form
      BY <1>0, WireTypes DEF Link, Form
    <3>3. got.pkt \in Packet
      BY <2>1, <3>2, ArrivedPacket DEF DownArrivals
    <3>4. /\ pkt.src = got.pkt.src /\ pkt.body = got.pkt.body
          /\ pkt.dst = HostOf[accepted[s]]
      BY <1>0, <1>8, <3>3, HandledResponse DEF ReceiveResponse, RouteInv, ServerTypeOK
    <3>5. ASSUME pkt.body = "hello" PROVE WrittenFor(s, pkt)
      <4>1. got \in Arrivals(link[s].down, link[s].far, "plain") /\ got.pkt.body = "hello"
        BY <2>1, <3>4, <3>5 DEF DownArrivals
      <4>2. PICK p \in link[s].down :
              p.form = "plain" /\ p.body = "hello" /\ got.pkt.src = p.src
        BY <3>2, <4>1, ArrivedFields
      <4>3. WrittenFor(s, p)
        BY <1>0, <4>2 DEF AnswerInv
      <4>4. QED  BY <3>4, <4>2, <4>3 DEF WrittenFor
    <3>6. /\ spc'[s] = "reply" /\ spkt'[s] = pkt
          /\ \A t \in Server \ {s} : spc'[t] = spc[t] /\ spkt'[t] = spkt[t]
      BY <1>0, <2>1 DEF ServerTypeOK
    <3>7. \A t \in Server : \A q : WrittenFor(t, q) => WrittenFor(t, q)'
      BY <1>0, AnswersStay
    <3>8. ASSUME NEW t \in Server
          PROVE  /\ \A q \in link'[t].down :
                      q.form = "plain" /\ q.body = "hello" => WrittenFor(t, q)'
                 /\ spc'[t] = "reply" /\ spkt'[t].body = "hello" =>
                      WrittenFor(t, spkt[t])' /\ spkt'[t].dst = HostOf[accepted'[t]]
      <4>1. ASSUME NEW q \in link'[t].down, q.form = "plain", q.body = "hello"
            PROVE  WrittenFor(t, q)'
        BY <1>0, <3>1, <3>7, <4>1, ProcessFacts DEF AnswerInv, NothingSent
      <4>2. ASSUME spc'[t] = "reply", spkt'[t].body = "hello"
            PROVE  WrittenFor(t, spkt[t])' /\ spkt'[t].dst = HostOf[accepted'[t]]
        <5>1. CASE t = s
          BY <1>0, <2>1, <3>4, <3>5, <3>6, <4>2, <5>1 DEF WrittenFor
        <5>2. CASE t # s
          BY <1>0, <2>1, <3>6, <4>2, <5>2 DEF AnswerInv, WrittenFor
        <5>3. QED  BY <5>1, <5>2
      <4>3. QED  BY <4>1, <4>2
    <3>9. ASSUME NEW c \in Client, NEW q, Delivered(c, q) PROVE Delivered(c, q)'
      BY <1>0, <3>9, AnswersStay
    <3>10. ASSUME NEW c \in Client, NEW q \in link'[c].down,
                  q.form = "tunnel", q.body = "hello"
           PROVE  Delivered(c, q)'
      BY <1>0, <3>1, <3>9, <3>10, ProcessFacts DEF AnswerInv, NothingSent
    <3>11. ASSUME NEW c \in Client, HasReply(c)', NEW q, q = reply'[c]
           PROVE  Delivered(c, q)'
      BY <1>0, <3>9, <3>11 DEF HasReply, ReplyHasCircuit
    <3>12. ReplyHasCircuit'
      BY <3>11 DEF ReplyHasCircuit, Delivered
    <3>13. QED  BY <1>0, <3>8, <3>10, <3>12 DEF AnswerInv
  <2>2. QED  BY <1>2, <1>8, <2>1 DEF ReceiveResponse, Ended
<1>9. CASE ReplyToClient(s)
  <2> DEFINE b == accepted[s]
  <2>1. spc[s] = "reply" /\ b \in Client /\ spkt[s] \in Packet /\ b \notin Server /\ b \in Opener
    BY <1>0, <1>9, WireTypes, ProcessFacts DEF ReplyToClient, ServerInv, TypeInv, Holding
  <2>2. spkt' = spkt /\ spc' = [spc EXCEPT ![s] = "close"]
    BY <1>9 DEF ReplyToClient
  <2>3. CASE UNCHANGED socketVars
    BY <1>0, <1>1, <2>2, <2>3, QuietCalls DEF NothingSent
  <2>4. CASE SendDown(b, spkt[s])
    <3>1. \A o \in Opener :
            link'[o].down \subseteq link[o].down \cup {q \in {spkt[s]} : o = b}
      BY <1>0, <2>1, <2>4, SendDownAdds
    <3>2. spkt[s].body = "hello" => Delivered(b, spkt[s])
      BY <1>0, <2>1, WrittenIsDelivered DEF AnswerInv
    <3>3. /\ \A t \in Server : \A q : WrittenFor(t, q) => WrittenFor(t, q)'
          /\ \A c \in Client : \A q : Delivered(c, q) => Delivered(c, q)'
      BY <1>0, AnswersStay
    <3>4. ASSUME NEW t \in Server, NEW q \in link'[t].down, q.form = "plain", q.body = "hello"
          PROVE  WrittenFor(t, q)'
      BY <1>0, <2>1, <3>1, <3>3, <3>4, ProcessFacts DEF AnswerInv
    <3>5. ASSUME NEW t \in Server, spc'[t] = "reply", spkt'[t].body = "hello"
          PROVE  WrittenFor(t, spkt[t])' /\ spkt'[t].dst = HostOf[accepted'[t]]
      <4>1. spc[t] = "reply" /\ accepted' = accepted
        BY <1>0, <1>9, <2>2, <3>5 DEF ServerTypeOK, ReplyToClient
      <4>2. QED  BY <1>0, <2>2, <3>5, <4>1 DEF AnswerInv, WrittenFor
    <3>6. ASSUME NEW c \in Client, NEW q \in link'[c].down, q.form = "tunnel", q.body = "hello"
          PROVE  Delivered(c, q)'
      <4>1. Delivered(c, q)
        BY <1>0, <3>1, <3>2, <3>6, ProcessFacts DEF AnswerInv
      <4>2. QED  BY <3>3, <4>1
    <3>7. ASSUME NEW c \in Client, HasReply(c)', NEW q, q = reply'[c]
          PROVE  Delivered(c, q)'
      BY <1>0, <3>3, <3>7 DEF HasReply, ReplyHasCircuit
    <3>8. ReplyHasCircuit'
      BY <3>7 DEF ReplyHasCircuit, Delivered
    <3>9. QED  BY <1>0, <3>4, <3>5, <3>6, <3>8 DEF AnswerInv
  <2>5. QED  BY <1>9, <2>3, <2>4 DEF ReplyToClient
<1>10. CASE CloseServer(s) \/ InterruptServer(s)
  BY <1>2, <1>10 DEF CloseServer, InterruptServer, Ended
<1>11. QED  BY <1>3, <1>4, <1>5, <1>6, <1>7, <1>8, <1>9, <1>10
            DEF ServerStep, ServerNext, ServerRuns
\* A destination answers the server it accepted.
LEMMA DestinationStepAnswers ==
  ASSUME CircuitInv, Grows, NEW d \in Destination, DestinationStep(d)
  PROVE  AnswerInv' /\ ReplyHasCircuit'
<1>0. /\ d \in Acceptor /\ HostOf[d] \in Address
      /\ TypeInv /\ SocketsTypeOK /\ DestinationTypeOK /\ WireInv /\ AnswerInv /\ ReplyHasCircuit
      /\ UNCHANGED <<cpc, reply, asked, spc, spkt, accepted>>
  BY ProcessFacts, WireTypes
  DEF CircuitInv, ProxyInv, TypeInv, TypeOK, DestinationStep, clientVars, serverVars
<1>1. CASE NothingSent
  BY <1>0, <1>1, KeptAnswers DEF NothingSent
<1>2. ASSUME NEW how, DestinationStops(d, how) PROVE AnswerInv' /\ ReplyHasCircuit'
  BY <1>0, <1>1, <1>2, QuietCalls DEF DestinationStops
<1>3. dpc[d] \in {"recv", "respond"} => caller[d] \in Opener
  BY <1>0 DEF TypeInv
<1>4. CASE LaunchDestination(d)
  BY <1>0, <1>1, <1>4, QuietCalls DEF LaunchDestination
<1>5. CASE accept_dest_connection(d)
  BY <1>0, <1>1, <1>2, <1>5, QuietCalls DEF accept_dest_connection
<1>6. CASE dest_rec_pkt(d)
  <2>1. CASE \E got \in UpArrivals(caller[d], "plain") : RecvUp(caller[d], got)
    <3>1. caller[d] \in Opener /\ "plain" \in Form
      BY <1>3, <1>6 DEF dest_rec_pkt, Form
    <3>2. QED  BY <1>0, <1>1, <2>1, <3>1, QuietRecv
  <2>2. QED  BY <1>2, <1>6, <2>1 DEF dest_rec_pkt
<1>7. CASE Respond(d)
  <2>1. CASE SendDown(caller[d], create_packets_des(HostOf[d], dpkt[d].src)) /\ UNCHANGED caller
    <3> DEFINE pkt == create_packets_des(HostOf[d], dpkt[d].src)
    <3>1. caller[d] \in Opener /\ dpkt[d].src \in Address
      BY <1>0, <1>7 DEF Respond, TypeInv, Packet
    <3>2. pkt \in Packet /\ pkt.form = "plain" /\ pkt.src = HostOf[d]
      BY <1>0, <3>1, CreatedPackets DEF create_packets_des
    <3>3. \A o \in Opener :
            link'[o].down \subseteq link[o].down \cup {q \in {pkt} : o = caller[d]}
      BY <1>0, <2>1, <3>1, <3>2, SendDownAdds
    <3>4. /\ \A s \in Server : \A q : WrittenFor(s, q) => WrittenFor(s, q)'
          /\ \A c \in Client : \A q : Delivered(c, q) => Delivered(c, q)'
      BY <1>0, AnswersStay
    <3>5. ASSUME NEW s \in Server, NEW q \in link'[s].down, q.form = "plain", q.body = "hello"
          PROVE  WrittenFor(s, q)'
      <4>1. CASE q \in link[s].down
        BY <1>0, <3>4, <3>5, <4>1 DEF AnswerInv
      <4>2. CASE q = pkt /\ s = caller[d]
        BY <2>1, <3>2, <4>2 DEF WrittenFor
      <4>3. QED  BY <3>3, <3>5, <4>1, <4>2, ProcessFacts
    <3>6. ASSUME NEW s \in Server, spc'[s] = "reply", spkt'[s].body = "hello"
          PROVE  WrittenFor(s, spkt[s])' /\ spkt'[s].dst = HostOf[accepted'[s]]
      BY <1>0, <2>1, <3>6 DEF AnswerInv, WrittenFor
    <3>7. ASSUME NEW c \in Client, NEW q \in link'[c].down, q.form = "tunnel", q.body = "hello"
          PROVE  Delivered(c, q)'
      <4>1. q \in link[c].down
        BY <3>2, <3>3, <3>7, ProcessFacts
      <4>2. Delivered(c, q)
        BY <1>0, <3>7, <4>1 DEF AnswerInv
      <4>3. QED  BY <3>4, <4>2
    <3>8. ASSUME NEW c \in Client, HasReply(c)', NEW q, q = reply'[c]
          PROVE  Delivered(c, q)'
      BY <1>0, <3>4, <3>8 DEF HasReply, ReplyHasCircuit
    <3>9. ReplyHasCircuit'
      BY <3>8 DEF ReplyHasCircuit, Delivered
    <3>10. QED  BY <1>0, <3>5, <3>6, <3>7, <3>9 DEF AnswerInv
  <2>2. QED  BY <1>2, <1>7, <2>1 DEF Respond
<1>8. CASE CloseDestination(d) \/ InterruptDestination(d)
  BY <1>2, <1>8 DEF CloseDestination, InterruptDestination
<1>9. QED  BY <1>4, <1>5, <1>6, <1>7, <1>8
           DEF DestinationStep, DestinationNext, DestinationRuns

-----------------------------------------------------------------------------
(***************************************************************************)
(* The invariant, and what it says of clients.                             *)
(***************************************************************************)

\* The programs begin with nothing asked, sent or answered.
LEMMA InitCircuit == Init => CircuitInv
<1> SUFFICES ASSUME Init PROVE CircuitInv
  OBVIOUS
<1>1. ProxyInv /\ WireInv
  BY InitProxy, InitWires
<1>2. \A o \in Opener : link[o].peer = Nobody /\ link[o].up = {} /\ link[o].down = {}
  BY DEF Init, SocketsInit, NoLink
<1>3. RouteInv
  BY <1>2, ProcessFacts DEF RouteInv, Init, ServerInit
<1>4. AnswerInv /\ ReplyHasCircuit
  BY <1>2, ProcessFacts
  DEF AnswerInv, ReplyHasCircuit, HasReply, Init, ServerInit, ClientInit
<1>5. QED  BY <1>1, <1>3, <1>4 DEF CircuitInv

\* Every step keeps the invariant.
LEMMA StepCircuit == CircuitInv /\ [Next]_vars => CircuitInv'
<1> SUFFICES ASSUME CircuitInv, [Next]_vars PROVE CircuitInv'
  OBVIOUS
<1>1. TypeInv /\ WireInv
  BY DEF CircuitInv, ProxyInv
<1>2. ProxyInv' /\ WireInv' /\ Grows
  BY <1>1, StepProxy, StepWires, StepGrows DEF CircuitInv
<1>3. CASE UNCHANGED vars
  <2>1. UNCHANGED <<cpc, asked, reply, spc, accepted, spkt, clientIp, caller, link>>
    BY <1>3 DEF vars, clientVars, serverVars, destinationVars, socketVars
  <2>2. RouteInv'
    BY <2>1 DEF CircuitInv, RouteInv
  <2>3. AnswerInv' /\ ReplyHasCircuit'
    BY <1>2, <2>1, KeptAnswers
  <2>4. QED  BY <1>2, <2>2, <2>3 DEF CircuitInv
<1>4. CASE Next /\ ~UNCHANGED vars
  <2>1. RouteInv'
    BY <1>4, ClientStepRoutes, ServerStepRoutes, DestinationStepRoutes DEF Next, Rest
  <2>2. AnswerInv' /\ ReplyHasCircuit'
    BY <1>2, <1>4, ClientStepAnswers, ServerStepAnswers, DestinationStepAnswers DEF Next, Rest
  <2>3. QED  BY <1>2, <2>1, <2>2 DEF CircuitInv
<1>5. QED  BY <1>3, <1>4

\* In every behaviour the connections, the routes and the answers under way
\* are those the clients asked for.
THEOREM CircuitsCorrect == Spec => []CircuitInv
<1>1. QED  BY InitCircuit, StepCircuit, PTL DEF Spec

\* In every behaviour a server holds and sends on its clients' packets only,
\* under its own address.
THEOREM ProxyCorrect == Spec => []ProxyInv
<1>1. QED  BY InitProxy, StepProxy, PTL DEF Spec

\* In every behaviour, whatever fails and however packets are cut, the greeting
\* a client prints comes through a server on the host it named, which worked
\* for it alone, from a destination on the host it asked for.
THEOREM RepliesHaveCircuits == Spec => []ReplyHasCircuit
<1>1. CircuitInv => ReplyHasCircuit
  BY DEF CircuitInv
<1>2. QED  BY <1>1, CircuitsCorrect, PTL

-----------------------------------------------------------------------------
(***************************************************************************)
(* The programs implement the safety part of VpnService, for every number  *)
(* of processes and hosts.                                                 *)
(***************************************************************************)

\* The process two connections away from a client.
FarEnd(c) == link[link[c].peer].peer

\* The answer that a client shows is that of the process at its far end.
ShowsFarEnd ==
  \A c \in Client :
    /\ HasReply(c) => /\ AnswerOf(c) = FarEnd(c)
                      /\ FarEnd(c) \in Destination
                      /\ HostOf[FarEnd(c)] = asked[c]
                      /\ accepted[caller[FarEnd(c)]] = c
                      /\ link[c].peer \in Server
    /\ ~HasReply(c) => AnswerOf(c) = Nobody

\* There is one destination at the end of the circuit of a client with a reply.
LEMMA AnswersAtEnd == CircuitInv => ShowsFarEnd
<1> SUFFICES ASSUME CircuitInv, NEW c \in Client, HasReply(c)
             PROVE  /\ AnswerOf(c) = FarEnd(c)
                    /\ FarEnd(c) \in Destination
                    /\ HostOf[FarEnd(c)] = asked[c]
                    /\ accepted[caller[FarEnd(c)]] = c
                    /\ link[c].peer \in Server
  BY DEF ShowsFarEnd, AnswerOf
<1>1. PICK s \in Server, d \in Destination : Circuit(c, s, d) /\ HostOf[d] = asked[c]
  BY DEF CircuitInv, ReplyHasCircuit, Delivered
<1>2. FarEnd(c) = d /\ caller[d] = s /\ accepted[s] = c /\ link[c].peer = s
  BY <1>1 DEF Circuit, FarEnd
<1>3. AtEnd(c) = {d}
  BY <1>1 DEF AtEnd, Circuit
<1>4. AnswerOf(c) = d
  BY <1>3 DEF AnswerOf
<1>5. QED  BY <1>1, <1>2, <1>4

\* A step that receives no reply changes no answer.
LEMMA AnswersKept ==
  ASSUME CircuitInv, ShowsFarEnd, ShowsFarEnd', Grows, NEW c \in Client, reply'[c] = reply[c]
  PROVE  AnswerOf(c)' = AnswerOf(c)
<1>1. HasReply(c)' = HasReply(c)
  BY DEF HasReply
<1>2. CASE ~HasReply(c)
  BY <1>1, <1>2 DEF ShowsFarEnd
<1>3. CASE HasReply(c)
  <2>1. link[c].peer \in Server /\ FarEnd(c) \in Destination
    BY <1>3 DEF ShowsFarEnd
  <2>2. link'[c].peer = link[c].peer /\ link'[link[c].peer].peer = FarEnd(c)
    BY <2>1, ProcessFacts, SocketsAssumption DEF Grows, FarEnd, Acceptor, Process
  <2>3. FarEnd(c)' = FarEnd(c)
    BY <2>2 DEF FarEnd
  <2>4. QED  BY <1>1, <1>3, <2>3 DEF ShowsFarEnd
<1>4. QED  BY <1>2, <1>3

\* After a step too, no two clients show the answer of one destination process.
LEMMA AnswersDiffer ==
  ASSUME ShowsFarEnd', NEW b \in Client, NEW c \in Client, HasReply(c)',
         AnswerOf(b)' = AnswerOf(c)'
  PROVE  b = c
<1>1. AnswerOf(c)' \in Destination /\ accepted'[caller'[AnswerOf(c)']] = c
  BY DEF ShowsFarEnd
<1>2. HasReply(b)'
  BY <1>1, SocketsAssumption DEF ShowsFarEnd, Process
<1>3. accepted'[caller'[AnswerOf(b)']] = b
  BY <1>2 DEF ShowsFarEnd
<1>4. QED  BY <1>1, <1>3

-----------------------------------------------------------------------------
(***************************************************************************)
(* The steps of the programs are steps of the service.                     *)
(***************************************************************************)

\* The three phases of a client.
LEMMA Phases ==
  ASSUME NEW c \in Client
  PROVE  /\ cpc[c] = "start" => PhaseOf(c) = "idle"
         /\ cpc[c] \in Ended => PhaseOf(c) = "over"
         /\ cpc[c] \notin {"start"} \cup Ended => PhaseOf(c) = "asking"
  BY DEF PhaseOf, Ended

\* The same, after a step.
LEMMA PhasesNext ==
  ASSUME NEW c \in Client
  PROVE  /\ cpc'[c] = "start" => PhaseOf(c)' = "idle"
         /\ cpc'[c] \in Ended => PhaseOf(c)' = "over"
         /\ cpc'[c] \notin {"start"} \cup Ended => PhaseOf(c)' = "asking"
  BY DEF PhaseOf, Ended

\* The service begins as the programs do.
LEMMA InitService == Init => Service!Init
<1> SUFFICES ASSUME Init PROVE Service!Init
  OBVIOUS
<1>1. \A c \in Client : PhaseOf(c) = "idle" /\ AnswerOf(c) = Nobody
  BY Phases DEF Init, ClientInit, AnswerOf, HasReply
<1>2. asked = [c \in Client |-> NoHost]
  BY DEF Init, ClientInit
<1>3. QED  BY <1>1, <1>2 DEF Service!Init

\* The state of the service, as the programs' state gives it.
Phase == [c \in Client |-> PhaseOf(c)]
Shown == [c \in Client |-> AnswerOf(c)]

\* A step of a client is a step of the service, or none.
LEMMA ClientStepService ==
  ASSUME CircuitInv, ShowsFarEnd, ShowsFarEnd', Grows, NEW c \in Client, ClientStep(c)
  PROVE  Service!Next \/ UNCHANGED Service!serviceVars
<1> USE DEF Service!serviceVars
<1>0. ClientTypeOK /\ AnswerInv
  BY DEF CircuitInv, ProxyInv, TypeInv, TypeOK
<1>1. ASSUME NEW pc, cpc' = [cpc EXCEPT ![c] = pc]
      PROVE  cpc'[c] = pc /\ \A b \in Client \ {c} : PhaseOf(b)' = PhaseOf(b)
  BY <1>0, <1>1 DEF ClientTypeOK, PhaseOf
<1>2. UNCHANGED reply => UNCHANGED Shown
  BY AnswersKept DEF Shown
<1>3. ASSUME NEW how \in Ended, ClientStops(c, how), cpc[c] \notin Ended
      PROVE  Service!Next
  <2>1. UNCHANGED <<asked, Shown>> /\ cpc' = [cpc EXCEPT ![c] = how]
    BY <1>2, <1>3 DEF ClientStops
  <2>2. PhaseOf(c) # "over" /\ PhaseOf(c)' = "over"
    BY <1>1, <1>3, <2>1, Phases, PhasesNext
  <2>3. Phase' = [Phase EXCEPT ![c] = "over"]
    BY <1>1, <2>1, <2>2 DEF Phase
  <2>4. Service!End(c)
    BY <2>1, <2>2, <2>3 DEF Service!End, Phase, Shown
  <2>5. QED  BY <2>4 DEF Service!Next
<1>4. CASE ReadNames(c)
  <2>1. PICK name \in DestNames : asked' = [asked EXCEPT ![c] = name]
    BY <1>4 DEF ReadNames
  <2>2. PICK pc \in {"connect", "exit0", "exit1"} : cpc' = [cpc EXCEPT ![c] = pc]
    BY <1>4 DEF ReadNames
  <2>3. PhaseOf(c) = "idle" /\ PhaseOf(c)' \in {"asking", "over"}
    BY <1>1, <1>4, <2>2, Phases, PhasesNext DEF ReadNames, Ended
  <2>4. Phase' = [Phase EXCEPT ![c] = PhaseOf(c)']
    BY <1>1, <2>2 DEF Phase
  <2>5. UNCHANGED Shown
    BY <1>2, <1>4 DEF ReadNames
  <2>6. Service!Ask(c)
    BY <2>1, <2>3, <2>4, <2>5 DEF Service!Ask, Phase, Shown
  <2>7. QED  BY <2>6 DEF Service!Next
<1>5. ASSUME cpc[c] \in {"connect", "send", "recv"}, NEW pc \in {"send", "recv", "close"},
             cpc' = [cpc EXCEPT ![c] = pc]
      PROVE  PhaseOf(c) = "asking" /\ UNCHANGED Phase
  <2>1. PhaseOf(c) = "asking" /\ PhaseOf(c)' = "asking"
    BY <1>1, <1>5, Phases, PhasesNext DEF Ended
  <2>2. QED  BY <1>1, <1>5, <2>1 DEF Phase
<1>6. CASE ConnectToServer(c)
  <2>1. cpc[c] \notin Ended
    BY <1>6 DEF ConnectToServer, Ended
  <2>2. CASE ClientStops(c, "exit1")
    BY <1>3, <2>1, <2>2 DEF Ended
  <2>3. CASE cpc' = [cpc EXCEPT ![c] = "send"] /\ UNCHANGED <<asked, reply>>
    BY <1>2, <1>5, <1>6, <2>3 DEF ConnectToServer, Phase, Shown
  <2>4. QED  BY <1>6, <2>2, <2>3 DEF ConnectToServer
<1>7. CASE SendRequest(c)
  BY <1>2, <1>5, <1>7 DEF SendRequest, Phase, Shown
<1>8. CASE ReceiveReply(c)
  <2>1. cpc[c] = "recv" /\ cpc[c] \notin Ended
    BY <1>8 DEF ReceiveReply, Ended
  <2>2. CASE ClientStops(c, "segv")
    BY <1>3, <2>1, <2>2 DEF Ended
  <2>3. ASSUME NEW pkt, reply' = [reply EXCEPT ![c] = pkt],
               cpc' = [cpc EXCEPT ![c] = "close"], UNCHANGED asked
        PROVE  Service!Next \/ UNCHANGED Service!serviceVars
    <3>1. PhaseOf(c) = "asking" /\ UNCHANGED Phase
      BY <1>5, <2>1, <2>3
    <3>2. AnswerOf(c) = Nobody
      BY <1>0, <2>1 DEF AnswerInv, AnswerOf, HasReply
    <3>3. \A b \in Client \ {c} : AnswerOf(b)' = AnswerOf(b)
      BY <1>0, <2>3, AnswersKept DEF ClientTypeOK
    <3>4. CASE ~HasReply(c)'
      <4>1. AnswerOf(c)' = Nobody
        BY <3>4 DEF ShowsFarEnd
      <4>2. UNCHANGED Shown
        BY <3>2, <3>3, <4>1 DEF Shown
      <4>3. QED  BY <2>3, <3>1, <4>2 DEF Phase, Shown
    <3>5. CASE HasReply(c)'
      <4>1. /\ AnswerOf(c)' \in Destination
            /\ HostOf[AnswerOf(c)'] = asked[c]
        BY <2>3, <3>5 DEF ShowsFarEnd
      <4>2. AnswerOf(c)' # Nobody
        BY <4>1, SocketsAssumption DEF Process
      <4>3. ASSUME NEW b \in Client PROVE AnswerOf(b) # AnswerOf(c)'
        <5>1. CASE b = c
          BY <3>2, <4>2, <5>1
        <5>2. CASE b # c
          <6>1. AnswerOf(b)' # AnswerOf(c)'
            BY <3>5, <5>2, AnswersDiffer
          <6>2. QED  BY <3>3, <5>2, <6>1
        <5>3. QED  BY <5>1, <5>2
      <4>4. Shown' = [Shown EXCEPT ![c] = AnswerOf(c)']
        BY <3>3 DEF Shown
      <4>5. Service!Show(c)
        BY <2>3, <3>1, <3>2, <4>1, <4>3, <4>4 DEF Service!Show, Phase, Shown
      <4>6. QED  BY <4>5 DEF Service!Next
    <3>6. QED  BY <3>4, <3>5
  <2>4. QED  BY <1>8, <2>2, <2>3 DEF ReceiveReply
<1>9. CASE CloseClient(c) \/ InterruptClient(c)
  BY <1>3, <1>9 DEF CloseClient, InterruptClient, Ended
<1>10. QED  BY <1>4, <1>6, <1>7, <1>8, <1>9 DEF ClientStep, ClientNext, ClientRuns

\* Every step of the programs is a step of the service, or none: servers and
\* destinations take none.
LEMMA StepService ==
  CircuitInv /\ CircuitInv' /\ [Next]_vars => [Service!Next]_(Service!serviceVars)
<1> SUFFICES ASSUME CircuitInv, CircuitInv', [Next]_vars
             PROVE  Service!Next \/ UNCHANGED Service!serviceVars
  OBVIOUS
<1>1. ShowsFarEnd /\ ShowsFarEnd'
  <2>1. CircuitInv' => ShowsFarEnd'
    BY AnswersAtEnd, PTL
  <2>2. QED  BY <2>1, AnswersAtEnd
<1>2. Grows
  BY StepGrows DEF CircuitInv, ProxyInv
<1>3. CASE UNCHANGED clientVars
  <2>1. \A c \in Client : PhaseOf(c)' = PhaseOf(c) /\ AnswerOf(c)' = AnswerOf(c)
    BY <1>1, <1>2, <1>3, AnswersKept DEF clientVars, PhaseOf
  <2>2. QED  BY <1>3, <2>1 DEF clientVars, Service!serviceVars
<1>4. CASE \E c \in Client : ClientStep(c)
  BY <1>1, <1>2, <1>4, ClientStepService
<1>5. QED  BY <1>3, <1>4 DEF Next, Rest, vars, ServerStep, DestinationStep

\* The programs implement the service's safety: a client shows at most one
\* answer, by a destination process on the host it asked for that answers
\* nobody else, and only between its question and its end.
THEOREM ServiceImplemented == Spec => Service!Spec
<1>1. QED  BY InitService, StepService, CircuitsCorrect, PTL DEF Spec, Service!Spec

-----------------------------------------------------------------------------
(***************************************************************************)
(* What the socket operations do to the bytes sent up and to the resets.   *)
(***************************************************************************)

\* A recv() that returns everything leaves nothing, and waits for something.
LEMMA WholeArrivals ==
  ASSUME Reads = {Whole}, NEW pkts, NEW end, NEW f, NEW got \in Arrivals(pkts, end, f)
  PROVE  got.rest = {} /\ (end # "fin" => pkts # {})
  BY DEF Arrivals, CutOrWhole, Whole, TextRead

\* The opener's end and the bytes it sent stay, and no reset arrives.
Calm ==
  \A o \in Opener : /\ link'[o].up = link[o].up
                    /\ link'[o].near = link[o].near
                    /\ link'[o].far = "rst" => link[o].far = "rst"

\* Nothing but a connect(), a send(), a recv() at the other end or a close()
\* changes what Calm speaks of.
LEMMA CalmCalls ==
  ASSUME TypeInv
  PROVE  /\ UNCHANGED socketVars => Calm
         /\ \A a \in Acceptor : Listen(a) \/ Accept(a) => Calm
         /\ \A p \in Opener : ErrorReported(p) => Calm
         /\ \A p \in Opener : \A x : SendDown(p, x) \/ RecvDown(p, x) => Calm
<1> USE DEF Calm
<1>0. SocketsTypeOK /\ \A o \in Opener : link[o] \in Link
  BY WireTypes
<1>1. UNCHANGED socketVars => Calm
  BY DEF socketVars
<1>2. ASSUME NEW a \in Acceptor, Listen(a) \/ Accept(a) PROVE Calm
  <2>1. CASE Listen(a)
    BY <2>1 DEF Listen
  <2>2. CASE Accept(a)
    <3>1. Head(backlog[a]) \in Opener
      BY <1>0, <2>2, AcceptType
    <3>2. QED  BY <1>0, <2>2, <3>1 DEF Accept, SocketsTypeOK, Link
  <2>3. QED  BY <1>2, <2>1, <2>2
<1>3. ASSUME NEW p \in Opener, ErrorReported(p) PROVE Calm
  BY <1>0, <1>3 DEF ErrorReported, SocketsTypeOK, Link
<1>4. ASSUME NEW p \in Opener, NEW x, SendDown(p, x) \/ RecvDown(p, x) PROVE Calm
  <2>1. \A o \in Opener \ {p} : link'[o] = link[o]
    BY <1>0, <1>4 DEF SendDown, RecvDown, SocketsTypeOK
  <2>2. /\ link'[p].up = link[p].up /\ link'[p].near = link[p].near
        /\ link'[p].far = link[p].far
    BY <1>0, <1>4 DEF SendDown, RecvDown, SocketsTypeOK, Link
  <2>3. QED  BY <2>1, <2>2
<1>5. QED  BY <1>1, <1>2, <1>3, <1>4

\* Closing its own end leaves the bytes sent on a connection.
LEMMA OwnEndCloses ==
  ASSUME TypeInv, NEW p \in Opener, HangUp(p)
  PROVE  link'[p].near # "open"
<1>0. link[p] \in Link
  BY WireTypes
<1>1. NearClosed(link[p]) \in Link /\ NearClosed(link[p]).near # "open"
  BY <1>0 DEF NearClosed, Link
<1>2. FarClosed(NearClosed(link[p])).near = NearClosed(link[p]).near
  BY <1>1 DEF FarClosed, Link
<1>3. QED  BY <1>1, <1>2 DEF HangUp

\* Closing the accepting end resets a connection that waits in the queue or
\* holds unread bytes, and no other.
LEMMA OtherEndsClose ==
  ASSUME TypeInv, NEW p, HangUp(p), NEW o \in Opener, o # p
  PROVE  /\ link'[o].near = link[o].near
         /\ link[o].peer # p => link'[o] = link[o]
         /\ link'[o].far = "rst" =>
              \/ link[o].far \in {"rst", "queued"}
              \/ link[o].far = "open" /\ link[o].up # {}
<1>0. link[o] \in Link
  BY WireTypes
<1>1. link'[o] = IF link[o].peer = p THEN FarClosed(link[o]) ELSE link[o]
  BY DEF HangUp
<1>2. /\ FarClosed(link[o]).near = link[o].near
      /\ FarClosed(link[o]).far = "rst" =>
           \/ link[o].far \in {"rst", "queued"}
           \/ link[o].far = "open" /\ link[o].up # {}
  BY <1>0 DEF FarClosed, Link
<1>3. QED  BY <1>1, <1>2

-----------------------------------------------------------------------------
(***************************************************************************)
(* Resets reach a live opener only from an acceptor that passed it over.   *)
(***************************************************************************)

\* Who was passed over stays so.
LEMMA PassedOverStays ==
  ASSUME TypeInv, Grows, NEW o \in Opener, PassedOver(o)
  PROVE  PassedOver(o)'
<1>1. PICK a \in Acceptor : link[o].peer = a /\ Served(a) \notin {o, Nobody}
  BY DEF PassedOver
<1>2. link'[o].peer = a /\ Served(a)' = Served(a)
  BY <1>1, WireTypes DEF Grows
<1>3. QED  BY <1>1, <1>2 DEF PassedOver

\* One connection, in a step that sends nothing on it.
LEMMA KeptReset ==
  ASSUME TypeInv, Grows, NEW o \in Opener, ResetAt(o), Unsent(o)' => Unsent(o),
         link'[o].up \subseteq link[o].up,
         link'[o].near = "open" =>
           /\ link[o].near = "open"
           /\ link'[o].far = "rst" => link[o].far = "rst" \/ PassedOver(o)
           /\ \A a \in Acceptor : Served(a)' = o /\ HasRead(a)' =>
                \/ Served(a) = o /\ HasRead(a)
                \/ link'[o].up = {} /\ ~Unsent(o)
  PROVE  ResetAt(o)'
<1>1. PassedOver(o) => PassedOver(o)'
  BY PassedOverStays
<1>2. link'[o].up # {} => ~Unsent(o)'
  BY DEF ResetAt
<1>3. ASSUME link'[o].near = "open"
      PROVE  /\ link'[o].far = "rst" => PassedOver(o)'
             /\ \A a \in Acceptor :
                  Served(a)' = o /\ HasRead(a)' => link'[o].up = {} /\ ~Unsent(o)'
  BY <1>1, <1>3 DEF ResetAt
<1>4. QED  BY <1>2, <1>3 DEF ResetAt

\* Every connection, in a step after which no acceptor has newly read.
LEMMA CalmResets ==
  ASSUME TypeInv, Grows, ResetInv, Calm,
         \A o \in Opener : Unsent(o)' => Unsent(o),
         \A a \in Acceptor : HasRead(a)' =>
           \/ HasRead(a) /\ Served(a)' = Served(a)
           \/ Served(a)' = Nobody
  PROVE  ResetInv'
<1> SUFFICES ASSUME NEW o \in Opener PROVE ResetAt(o)'
  BY DEF ResetInv
<1>1. ResetAt(o) /\ o # Nobody
  BY WireTypes DEF ResetInv
<1>2. QED  BY <1>1, KeptReset DEF Calm

\* connect() by a process that has no connection yet.
LEMMA DialResets ==
  ASSUME TypeInv, WireInv, Grows, ResetInv,
         NEW p \in Opener, NEW addr, Dial(p, addr), Undialled(p),
         \A o \in Opener : Unsent(o)' => Unsent(o),
         \A a \in Acceptor : Served(a)' = Served(a) /\ (HasRead(a)' => HasRead(a))
  PROVE  ResetInv'
<1> SUFFICES ASSUME NEW o \in Opener PROVE ResetAt(o)'
  BY DEF ResetInv
<1>1. /\ \A x \in Opener \ {p} : link'[x] = link[x]
      /\ link[p] = NoLink /\ link'[p].up = {}
  BY DialGrows
<1>2. CASE o # p
  BY <1>1, <1>2, KeptReset DEF ResetInv
<1>3. CASE o = p
  <2>1. link'[p].far = "queued"
    BY WireTypes DEF Dial, NewLink, SocketsTypeOK
  <2>2. \A a \in Acceptor : Served(a) # p
    BY <1>1, WireTypes DEF WireInv
  <2>3. QED  BY <1>1, <1>3, <2>1, <2>2 DEF ResetAt
<1>4. QED  BY <1>2, <1>3

\* send() by an opener that has not sent yet.
LEMMA SendResets ==
  ASSUME TypeInv, Grows, ResetInv,
         NEW p \in Opener, NEW pkt, SendUp(p, pkt), Unsent(p), ~Unsent(p)',
         link[p].near = "open",
         \A o \in Opener : Unsent(o)' => Unsent(o),
         \A a \in Acceptor : Served(a)' = Served(a) /\ (HasRead(a)' => HasRead(a))
  PROVE  ResetInv'
<1> SUFFICES ASSUME NEW o \in Opener PROVE ResetAt(o)'
  BY DEF ResetInv
<1>1. /\ \A x \in Opener \ {p} : link'[x] = link[x]
      /\ link'[p].far = link[p].far /\ link[p].far # "rst"
  BY WireTypes DEF SendUp, SocketsTypeOK, Link
<1>2. CASE o # p
  BY <1>1, <1>2, KeptReset DEF ResetInv
<1>3. CASE o = p
  <2>1. \A a \in Acceptor : ~(Served(a) = p /\ HasRead(a))
    BY DEF ResetInv, ResetAt
  <2>2. QED  BY <1>1, <1>3, <2>1 DEF ResetAt
<1>4. QED  BY <1>2, <1>3

\* recv() by the acceptor, of everything or of the end of the connection.
LEMMA RecvResets ==
  ASSUME TypeInv, WireInv, Grows, ResetInv, Reads = {Whole},
         NEW b \in Acceptor, Served(b) \in Opener, NEW f,
         NEW got \in UpArrivals(Served(b), f), RecvUp(Served(b), got),
         \A o \in Opener : Unsent(o)' => Unsent(o),
         \A a \in Acceptor : Served(a)' = Served(a),
         \A a \in Acceptor \ {b} : HasRead(a)' => HasRead(a)
  PROVE  ResetInv'
<1> SUFFICES ASSUME NEW o \in Opener PROVE ResetAt(o)'
  BY DEF ResetInv
<1> DEFINE q == Served(b)
<1>1. got.rest = {} /\ (link[q].near # "fin" => link[q].up # {})
  BY WholeArrivals DEF UpArrivals
<1>2. /\ \A x \in Opener \ {q} : link'[x] = link[x]
      /\ link'[q].up = {} /\ link'[q].near = link[q].near /\ link'[q].far = link[q].far
  BY <1>1, WireTypes DEF RecvUp, SocketsTypeOK, Link
<1>3. CASE o # q
  BY <1>2, <1>3, KeptReset DEF ResetInv
<1>4. CASE o = q
  <2>1. link[q].near = "open" => ~Unsent(q)
    BY <1>1 DEF ResetInv, ResetAt
  <2>2. QED  BY <1>2, <1>4, <2>1, KeptReset DEF ResetInv
<1>5. QED  BY <1>3, <1>4

\* The end of an acceptor that has read what it accepted, or cannot.
LEMMA HangUpResets ==
  ASSUME TypeInv, WireInv, Grows, ResetInv,
         NEW b \in Acceptor, Served(b) \in Opener, HangUp(b),
         HasRead(b) \/ link[Served(b)].near = "rst",
         \A o \in Opener : Unsent(o)' => Unsent(o),
         \A a \in Acceptor : Served(a)' = Served(a),
         \A a \in Acceptor \ {b} : HasRead(a)' => HasRead(a)
  PROVE  ResetInv'
<1> SUFFICES ASSUME NEW o \in Opener PROVE ResetAt(o)'
  BY DEF ResetInv
<1>1. link'[o].up = link[o].up /\ ResetAt(o)
  BY HangUpType, WireTypes DEF ResetInv
<1>2. CASE o = b
  BY <1>1, <1>2, OwnEndCloses, KeptReset
<1>3. CASE o # b
  <2>1. link'[o].near = link[o].near
    BY <1>3, OtherEndsClose
  <2>2. ASSUME link[o].near = "open", link'[o].far = "rst"
        PROVE  link[o].far = "rst" \/ PassedOver(o)
    <3>1. CASE link[o].peer # b
      BY <1>3, <2>2, <3>1, OtherEndsClose
    <3>2. CASE link[o].peer = b /\ link[o].far = "queued"
      <4>1. Served(b) \notin {o, Nobody}
        BY <3>2, WireTypes DEF WireInv
      <4>2. QED  BY <3>2, <4>1 DEF PassedOver
    <3>3. CASE link[o].peer = b /\ link[o].far = "open" /\ link[o].up # {}
      <4>1. Served(b) = o
        BY <3>3 DEF WireInv
      <4>2. HasRead(b)
        BY <2>2, <4>1
      <4>3. QED  BY <1>1, <2>2, <3>3, <4>1, <4>2 DEF ResetAt
    <3>4. QED  BY <1>3, <2>2, <3>1, <3>2, <3>3, OtherEndsClose
  <2>3. ASSUME link[o].near = "open", NEW a \in Acceptor, Served(a)' = o, HasRead(a)'
        PROVE  Served(a) = o /\ HasRead(a)
    BY <2>3
  <2>4. QED  BY <1>1, <2>1, <2>2, <2>3, KeptReset
<1>4. QED  BY <1>2, <1>3

-----------------------------------------------------------------------------
(***************************************************************************)
(* The steps of the three programs, undisturbed.                           *)
(***************************************************************************)

\* Who crashes in a step has been passed over.
LEMMA CrashesStay ==
  ASSUME TypeInv, Grows, Undisturbed, CrashOnlyIfPassedOver,
         \A c \in Client : cpc'[c] = "segv" => cpc[c] = "segv" \/ PassedOver(c),
         \A s \in Server : spc'[s] = "segv" => spc[s] = "segv" \/ PassedOver(s)
  PROVE  CrashOnlyIfPassedOver'
<1>1. \A o \in Opener : PassedOver(o) => PassedOver(o)'
  BY PassedOverStays
<1>2. QED  BY <1>1, ProcessFacts DEF CrashOnlyIfPassedOver

\* A step of a client, undisturbed.
LEMMA ClientStepResets ==
  ASSUME TypeInv, WireInv, Grows, Undisturbed, ResetInv, CrashOnlyIfPassedOver,
         NEW c \in Client, ClientStep(c)
  PROVE  ResetInv' /\ CrashOnlyIfPassedOver'
<1>0. /\ c \in Opener /\ c \notin Server /\ c \notin Acceptor /\ ClientTypeOK
      /\ UNCHANGED <<spc, dpc, accepted, caller>>
      /\ ~Faults /\ Interruptible = {}
  BY ProcessFacts, SocketsAssumption
     DEF TypeInv, TypeOK, ClientStep, serverVars, destinationVars, Undisturbed
<1>1. \A a \in Acceptor : Served(a)' = Served(a) /\ (HasRead(a)' => HasRead(a))
  BY <1>0 DEF HasRead, Served
<1>2. Unsent(c) <=> cpc[c] \in {"start", "connect", "send"}
  BY <1>0 DEF Unsent, Undialled
<1>3. ASSUME NEW pc, cpc' = [cpc EXCEPT ![c] = pc],
             pc \in {"start", "connect", "send"} => Unsent(c)
      PROVE  /\ cpc'[c] = pc
             /\ Unsent(c)' <=> pc \in {"start", "connect", "send"}
             /\ \A o \in Opener : Unsent(o)' => Unsent(o)
             /\ pc # "segv" \/ PassedOver(c) => CrashOnlyIfPassedOver'
  <2>1. cpc'[c] = pc /\ \A b \in Client \ {c} : cpc'[b] = cpc[b]
    BY <1>0, <1>3 DEF ClientTypeOK
  <2>2. Unsent(c)' <=> pc \in {"start", "connect", "send"}
    BY <1>0, <2>1 DEF Unsent, Undialled
  <2>3. \A o \in Opener \ {c} : Unsent(o)' => Unsent(o)
    BY <1>0, <2>1 DEF Unsent, Undialled
  <2>4. QED  BY <1>0, <1>3, <2>1, <2>2, <2>3, CrashesStay
<1>4. ASSUME NEW how \in Ended, ClientStops(c, how), how = "segv" => PassedOver(c)
      PROVE  ResetInv' /\ CrashOnlyIfPassedOver'
  <2>1. /\ \A o \in Opener : Unsent(o)' => Unsent(o)
        /\ CrashOnlyIfPassedOver'
    BY <1>3, <1>4 DEF ClientStops, Ended
  <2>2. ASSUME NEW o \in Opener PROVE ResetAt(o)'
    <3>1. ResetAt(o) /\ link'[o].up = link[o].up
      BY <1>4, HangUpType, WireTypes DEF ResetInv, ClientStops
    <3>2. CASE o = c
      BY <1>0, <1>4, <2>1, <3>1, <3>2, OwnEndCloses, KeptReset DEF ClientStops
    <3>3. CASE o # c
      <4>1. link[o].peer # c
        BY <1>0, WireTypes
      <4>2. link'[o] = link[o]
        BY <1>4, <3>3, <4>1, OtherEndsClose DEF ClientStops
      <4>3. QED  BY <1>1, <2>1, <3>1, <4>2, KeptReset
    <3>4. QED  BY <3>2, <3>3
  <2>3. QED  BY <2>1, <2>2 DEF ResetInv
<1>5. ASSUME NEW pc, cpc' = [cpc EXCEPT ![c] = pc], pc # "segv", Calm,
             pc \in {"start", "connect", "send"} => Unsent(c)
      PROVE  ResetInv' /\ CrashOnlyIfPassedOver'
  BY <1>1, <1>3, <1>5, CalmResets
<1>6. CASE ReadNames(c)
  <2>1. PICK pc \in {"connect", "exit0", "exit1"} : cpc' = [cpc EXCEPT ![c] = pc]
    BY <1>6 DEF ReadNames
  <2>2. Calm /\ Unsent(c)
    BY <1>2, <1>6, CalmCalls DEF ReadNames
  <2>3. QED  BY <1>5, <2>1, <2>2
<1>7. CASE ConnectToServer(c)
  <2>1. CASE Dial(c, ServerHost[c]) /\ cpc' = [cpc EXCEPT ![c] = "send"]
    <3>1. Undialled(c) /\ Unsent(c)
      BY <1>7 DEF ConnectToServer, Undialled, Unsent
    <3>2. QED  BY <1>0, <1>1, <1>3, <2>1, <3>1, DialResets
  <2>2. CASE ClientStops(c, "exit1")
    BY <1>4, <2>2 DEF Ended
  <2>3. QED  BY <1>7, <2>1, <2>2 DEF ConnectToServer
<1>8. CASE SendRequest(c)
  <2>1. cpc[c] = "send" /\ cpc' = [cpc EXCEPT ![c] = "recv"] /\ link[c].near = "open"
    BY <1>0, <1>8 DEF SendRequest, WireInv, Live
  <2>2. CASE SendUp(c, create_packets(HostOf[c], asked[c]))
    BY <1>0, <1>1, <1>2, <1>3, <2>1, <2>2, SendResets
  <2>3. CASE ErrorReported(c)
    BY <1>0, <1>5, <2>1, <2>3, CalmCalls
  <2>4. QED  BY <1>8, <2>2, <2>3 DEF SendRequest
<1>9. CASE ReceiveReply(c)
  <2>1. CASE (\E got : RecvDown(c, got)) /\ cpc' = [cpc EXCEPT ![c] = "close"]
    BY <1>0, <1>5, <2>1, CalmCalls
  <2>2. CASE RecvDownFails(c) /\ ClientStops(c, "segv")
    <3>1. link[c].near = "open" /\ link[c].far = "rst"
      BY <1>0, <1>9, <2>2 DEF ReceiveReply, RecvDownFails, WireInv, Live
    <3>2. PassedOver(c)
      BY <1>0, <3>1 DEF ResetInv, ResetAt
    <3>3. QED  BY <1>4, <2>2, <3>2 DEF Ended
  <2>3. QED  BY <1>9, <2>1, <2>2 DEF ReceiveReply
<1>10. CASE CloseClient(c) \/ InterruptClient(c)
  BY <1>4, <1>10 DEF CloseClient, InterruptClient, Ended
<1>11. QED  BY <1>6, <1>7, <1>8, <1>9, <1>10 DEF ClientStep, ClientNext, ClientRuns

\* A step of a server, undisturbed.
LEMMA ServerStepResets ==
  ASSUME TypeInv, WireInv, Grows, Undisturbed, ResetInv, CrashOnlyIfPassedOver,
         NEW s \in Server, ServerStep(s)
  PROVE  ResetInv' /\ CrashOnlyIfPassedOver'
<1>0. /\ s \in Opener /\ s \in Acceptor /\ s \notin Client /\ ServerTypeOK
      /\ UNCHANGED <<cpc, dpc, caller>>
      /\ ~Faults /\ Interruptible = {} /\ Reads = {Whole}
  BY ProcessFacts, WireTypes
     DEF TypeInv, TypeOK, ServerStep, clientVars, destinationVars, Undisturbed
<1>1. /\ Unsent(s) <=> spc[s] \in {"start", "accept", "recv", "connect", "forward"}
      /\ HasRead(s) <=> spc[s] \notin {"start", "accept", "recv"}
      /\ Served(s) = accepted[s]
  BY <1>0 DEF Unsent, Undialled, HasRead, Served
<1>2. ASSUME NEW pc, spc' = [spc EXCEPT ![s] = pc],
             pc \in {"start", "accept", "recv", "connect", "forward"} => Unsent(s)
      PROVE  /\ Unsent(s)' <=> pc \in {"start", "accept", "recv", "connect", "forward"}
             /\ HasRead(s)' <=> pc \notin {"start", "accept", "recv"}
             /\ \A o \in Opener : Unsent(o)' => Unsent(o)
             /\ \A a \in Acceptor \ {s} : HasRead(a)' => HasRead(a)
  <2>1. spc'[s] = pc /\ \A t \in Server \ {s} : spc'[t] = spc[t]
    BY <1>0, <1>2 DEF ServerTypeOK
  <2>2. /\ Unsent(s)' <=> pc \in {"start", "accept", "recv", "connect", "forward"}
        /\ HasRead(s)' <=> pc \notin {"start", "accept", "recv"}
    BY <1>0, <2>1 DEF Unsent, Undialled, HasRead
  <2>3. /\ \A o \in Opener \ {s} : Unsent(o)' => Unsent(o)
        /\ \A a \in Acceptor \ {s} : HasRead(a)' => HasRead(a)
    BY <1>0, <2>1 DEF Unsent, Undialled, HasRead
  <2>4. QED  BY <1>2, <2>2, <2>3
<1>3. ASSUME NEW pc, spc' = [spc EXCEPT ![s] = pc], pc # "segv" \/ PassedOver(s)
       PROVE  CrashOnlyIfPassedOver'
  <2>1. spc'[s] = pc /\ \A t \in Server \ {s} : spc'[t] = spc[t]
    BY <1>0, <1>3 DEF ServerTypeOK
  <2>2. QED  BY <1>0, <1>3, <2>1, CrashesStay
<1>4. UNCHANGED accepted => \A a \in Acceptor : Served(a)' = Served(a)
  BY <1>0 DEF Served
<1>5. ASSUME spc[s] \in Serving
      PROVE  Served(s) \in Opener /\ link[Served(s)] # NoLink
  BY <1>0, <1>1, <1>5, WireTypes DEF TypeInv, WireInv
<1>6. ASSUME NEW how \in Ended, ServerStops(s, how), Served(s) \in Opener,
             HasRead(s) \/ link[Served(s)].near = "rst", how = "segv" => PassedOver(s)
      PROVE  ResetInv' /\ CrashOnlyIfPassedOver'
  <2>1. spc' = [spc EXCEPT ![s] = how] /\ HangUp(s) /\ UNCHANGED accepted
    BY <1>6 DEF ServerStops
  <2>2. /\ \A o \in Opener : Unsent(o)' => Unsent(o)
        /\ \A a \in Acceptor \ {s} : HasRead(a)' => HasRead(a)
    BY <1>2, <1>6, <2>1 DEF Ended
  <2>3. CrashOnlyIfPassedOver'
    BY <1>3, <1>6, <2>1
  <2>4. QED  BY <1>0, <1>4, <1>6, <2>1, <2>2, <2>3, HangUpResets
<1>7. ASSUME NEW pc, spc' = [spc EXCEPT ![s] = pc], pc # "segv", Calm, UNCHANGED accepted,
             pc \in {"start", "accept", "recv", "connect", "forward"} => Unsent(s),
             HasRead(s) \/ Served(s) = Nobody
      PROVE  ResetInv' /\ CrashOnlyIfPassedOver'
  <2>1. ASSUME NEW a \in Acceptor, HasRead(a)'
        PROVE  \/ HasRead(a) /\ Served(a)' = Served(a)
               \/ Served(a)' = Nobody
    <3>1. CASE a = s
      BY <1>4, <1>7, <3>1
    <3>2. CASE a # s
      BY <1>2, <1>4, <1>7, <2>1, <3>2
    <3>3. QED  BY <3>1, <3>2
  <2>2. \A o \in Opener : Unsent(o)' => Unsent(o)
    BY <1>2, <1>7
  <2>3. CrashOnlyIfPassedOver'
    BY <1>3, <1>7
  <2>4. QED  BY <1>7, <2>1, <2>2, <2>3, CalmResets
<1>8. CASE LaunchServer(s)
  <2>1. PICK pc \in {"accept", "exit0", "exit1"} : spc' = [spc EXCEPT ![s] = pc]
    BY <1>8 DEF LaunchServer
  <2>2. Calm /\ UNCHANGED accepted
    BY <1>0, <1>8, CalmCalls DEF LaunchServer
  <2>3. Unsent(s) /\ Served(s) = Nobody
    BY <1>0, <1>1, <1>8 DEF LaunchServer, WireInv, Unserving
  <2>4. QED  BY <1>7, <2>1, <2>2, <2>3
<1>9. CASE accept_client_connection(s)
  <2>1. /\ Accept(s) /\ spc' = [spc EXCEPT ![s] = "recv"]
        /\ accepted' = [accepted EXCEPT ![s] = Head(backlog[s])]
    BY <1>0, <1>9 DEF accept_client_connection
  <2>2. Calm
    BY <1>0, <2>1, CalmCalls
  <2>3. Unsent(s)
    BY <1>1, <1>9 DEF accept_client_connection
  <2>4. \A a \in Acceptor \ {s} : Served(a)' = Served(a)
    BY <1>0, <2>1 DEF ServerTypeOK, Served
  <2>5. QED  BY <1>2, <1>3, <2>1, <2>2, <2>3, <2>4, CalmResets
<1>10. CASE ReceiveRequest(s)
  <2>1. spc[s] = "recv" /\ accepted[s] = Served(s) /\ Served(s) \in Opener /\ Unsent(s)
    BY <1>1, <1>5, <1>10 DEF ReceiveRequest, Serving
  <2>2. CASE /\ \E got \in UpArrivals(Served(s), "tunnel") : RecvUp(Served(s), got)
             /\ spc' = [spc EXCEPT ![s] = "connect"] /\ UNCHANGED accepted
    BY <1>0, <1>2, <1>3, <1>4, <2>1, <2>2, RecvResets
  <2>3. CASE RecvUpFails(Served(s)) /\ ServerStops(s, "exit1")
    <3>1. link[Served(s)].near = "rst"
      BY <1>0, <2>3 DEF RecvUpFails
    <3>2. QED  BY <1>6, <2>1, <2>3, <3>1 DEF Ended
  <2>4. QED  BY <1>10, <2>1, <2>2, <2>3 DEF ReceiveRequest
<1>11. CASE ConnectToDestination(s)
  <2>1. HasRead(s) /\ Unsent(s) /\ Undialled(s) /\ Served(s) \in Opener
    BY <1>1, <1>5, <1>11 DEF ConnectToDestination, Serving, Holding, Undialled
  <2>2. CASE /\ Dial(s, spkt[s].dst) /\ spc' = [spc EXCEPT ![s] = "forward"]
             /\ UNCHANGED accepted
    BY <1>0, <1>2, <1>3, <1>4, <2>1, <2>2, DialResets
  <2>3. CASE ServerStops(s, "exit1")
    BY <1>6, <2>1, <2>3 DEF Ended
  <2>4. QED  BY <1>11, <2>2, <2>3 DEF ConnectToDestination
<1>12. CASE ForwardRequest(s)
  <2>1. /\ HasRead(s) /\ Unsent(s) /\ link[s].near = "open" /\ Served(s) \in Opener
    BY <1>0, <1>1, <1>5, <1>12 DEF ForwardRequest, Serving, Holding, WireInv, Live
  <2>2. CASE SendUp(s, spkt[s]) /\ spc' = [spc EXCEPT ![s] = "await"] /\ UNCHANGED accepted
    <3>1. ~Unsent(s)'
      BY <1>0, <2>2 DEF ServerTypeOK, Unsent, Undialled
    <3>2. \A o \in Opener : Unsent(o)' => Unsent(o)
      BY <1>2, <2>1, <2>2
    <3>3. \A a \in Acceptor : Served(a)' = Served(a) /\ (HasRead(a)' => HasRead(a))
      BY <1>2, <1>4, <2>1, <2>2
    <3>4. CrashOnlyIfPassedOver'
      BY <1>3, <2>2
    <3>5. QED  BY <1>0, <2>1, <2>2, <3>1, <3>2, <3>3, <3>4, SendResets
  <2>3. CASE ServerStops(s, "exit1")
    BY <1>6, <2>1, <2>3 DEF Ended
  <2>4. QED  BY <1>12, <2>2, <2>3 DEF ForwardRequest
<1>13. CASE ReceiveResponse(s)
  <2>1. /\ HasRead(s) /\ link[s].near = "open" /\ Served(s) \in Opener
    BY <1>0, <1>1, <1>5, <1>13 DEF ReceiveResponse, Serving, Holding, WireInv, Live
  <2>2. CASE /\ \E got : RecvDown(s, got)
             /\ spc' = [spc EXCEPT ![s] = "reply"] /\ UNCHANGED accepted
    BY <1>0, <1>7, <2>1, <2>2, CalmCalls
  <2>3. CASE RecvDownFails(s) /\ ServerStops(s, "segv")
    <3>1. PassedOver(s)
      BY <1>0, <2>1, <2>3 DEF RecvDownFails, ResetInv, ResetAt
    <3>2. QED  BY <1>6, <2>1, <2>3, <3>1 DEF Ended
  <2>4. QED  BY <1>13, <2>2, <2>3 DEF ReceiveResponse
<1>14. CASE ReplyToClient(s)
  <2>1. /\ HasRead(s) /\ accepted[s] = Served(s) /\ Served(s) \in Opener
        /\ spc' = [spc EXCEPT ![s] = "close"] /\ UNCHANGED accepted
    BY <1>1, <1>5, <1>14 DEF ReplyToClient, Serving, Holding
  <2>2. Calm
    BY <1>14, <2>1, CalmCalls DEF ReplyToClient
  <2>3. QED  BY <1>7, <2>1, <2>2
<1>15. CASE CloseServer(s)
  <2>1. HasRead(s) /\ Served(s) \in Opener
    BY <1>1, <1>5, <1>15 DEF CloseServer, Serving, Holding
  <2>2. QED  BY <1>6, <1>15, <2>1 DEF CloseServer, Ended
<1>16. CASE InterruptServer(s)
  BY <1>0, <1>16 DEF InterruptServer
<1>17. QED  BY <1>8, <1>9, <1>10, <1>11, <1>12, <1>13, <1>14, <1>15, <1>16
            DEF ServerStep, ServerNext, ServerRuns

\* A step of a destination, undisturbed.
LEMMA DestinationStepResets ==
  ASSUME TypeInv, WireInv, Grows, Undisturbed, ResetInv, CrashOnlyIfPassedOver,
         NEW d \in Destination, DestinationStep(d)
  PROVE  ResetInv' /\ CrashOnlyIfPassedOver'
<1>0. /\ d \in Acceptor /\ d \notin Server /\ d \notin Opener /\ DestinationTypeOK
      /\ UNCHANGED <<cpc, spc, accepted>>
      /\ ~Faults /\ Interruptible = {} /\ Reads = {Whole}
  BY ProcessFacts, WireTypes
     DEF TypeInv, TypeOK, DestinationStep, clientVars, serverVars, Undisturbed, Opener
<1>1. /\ HasRead(d) <=> dpc[d] \notin {"start", "accept", "recv"}
      /\ Served(d) = caller[d]
      /\ \A o \in Opener : Unsent(o)' => Unsent(o)
  BY <1>0 DEF Unsent, Undialled, HasRead, Served
<1>2. SUFFICES ResetInv'
  BY <1>0, CrashesStay
<1>3. ASSUME NEW pc, dpc' = [dpc EXCEPT ![d] = pc]
      PROVE  /\ HasRead(d)' <=> pc \notin {"start", "accept", "recv"}
             /\ \A a \in Acceptor \ {d} : HasRead(a)' => HasRead(a)
  <2>1. dpc'[d] = pc /\ \A e \in Destination \ {d} : dpc'[e] = dpc[e]
    BY <1>0, <1>3 DEF DestinationTypeOK
  <2>2. HasRead(d)' <=> pc \notin {"start", "accept", "recv"}
    BY <1>0, <2>1 DEF HasRead
  <2>3. \A a \in Acceptor \ {d} : HasRead(a)' => HasRead(a)
    BY <1>0, <2>1 DEF HasRead, Acceptor
  <2>4. QED  BY <2>2, <2>3
<1>4. UNCHANGED caller => \A a \in Acceptor : Served(a)' = Served(a)
  BY <1>0 DEF Served
<1>5. dpc[d] \in {"recv", "respond", "close"} => Served(d) \in Opener
  BY <1>1 DEF TypeInv
<1>6. ASSUME NEW how, DestinationStops(d, how), Served(d) \in Opener,
             HasRead(d) \/ link[Served(d)].near = "rst"
      PROVE  ResetInv'
  <2>1. dpc' = [dpc EXCEPT ![d] = how] /\ HangUp(d) /\ UNCHANGED caller
    BY <1>6 DEF DestinationStops
  <2>2. \A a \in Acceptor \ {d} : HasRead(a)' => HasRead(a)
    BY <1>3, <2>1
  <2>3. QED  BY <1>0, <1>1, <1>4, <1>6, <2>1, <2>2, HangUpResets
<1>7. CASE LaunchDestination(d)
  <2>1. PICK pc \in {"accept", "exit0", "exit1"} : dpc' = [dpc EXCEPT ![d] = pc]
    BY <1>7 DEF LaunchDestination
  <2>2. Calm /\ UNCHANGED caller
    BY <1>0, <1>7, CalmCalls DEF LaunchDestination
  <2>3. Served(d) = Nobody
    BY <1>0, <1>7 DEF LaunchDestination, WireInv, Unserving
  <2>4. \A a \in Acceptor : Served(a)' = Served(a)
    BY <1>4, <2>2
  <2>5. \A a \in Acceptor \ {d} : HasRead(a)' => HasRead(a)
    BY <1>3, <2>1
  <2>6. Served(d)' = Nobody
    BY <1>0, <2>3, <2>4
  <2>7. QED  BY <1>1, <2>2, <2>4, <2>5, <2>6, CalmResets
<1>8. CASE accept_dest_connection(d)
  <2>1. /\ Accept(d) /\ dpc' = [dpc EXCEPT ![d] = "recv"]
        /\ caller' = [caller EXCEPT ![d] = Head(backlog[d])]
    BY <1>0, <1>8 DEF accept_dest_connection
  <2>2. Calm
    BY <1>0, <2>1, CalmCalls
  <2>3. ~HasRead(d)' /\ \A a \in Acceptor \ {d} : HasRead(a)' => HasRead(a)
    BY <1>3, <2>1
  <2>4. \A a \in Acceptor \ {d} : Served(a)' = Served(a)
    BY <1>0, <2>1 DEF DestinationTypeOK, Served, Acceptor
  <2>5. QED  BY <1>1, <2>2, <2>3, <2>4, CalmResets
<1>9. CASE dest_rec_pkt(d)
  <2>1. dpc[d] = "recv" /\ caller[d] = Served(d) /\ Served(d) \in Opener
    BY <1>1, <1>5, <1>9 DEF dest_rec_pkt
  <2>2. CASE /\ \E got \in UpArrivals(Served(d), "plain") : RecvUp(Served(d), got)
             /\ dpc' = [dpc EXCEPT ![d] = "respond"] /\ UNCHANGED caller
    <3>1. \A a \in Acceptor \ {d} : HasRead(a)' => HasRead(a)
      BY <1>3, <2>2
    <3>2. QED  BY <1>0, <1>1, <1>4, <2>1, <2>2, <3>1, RecvResets
  <2>3. CASE RecvUpFails(Served(d)) /\ DestinationStops(d, "exit1")
    BY <1>0, <1>6, <2>1, <2>3 DEF RecvUpFails
  <2>4. QED  BY <2>1, <1>9, <2>2, <2>3 DEF dest_rec_pkt
<1>10. CASE Respond(d)
  <2>1. HasRead(d) /\ caller[d] = Served(d) /\ Served(d) \in Opener
    BY <1>1, <1>5, <1>10 DEF Respond
  <2>2. CASE /\ \E x : SendDown(Served(d), x)
             /\ dpc' = [dpc EXCEPT ![d] = "close"] /\ UNCHANGED caller
    <3>1. Calm
      BY <2>1, <2>2, CalmCalls
    <3>2. \A a \in Acceptor : Served(a)' = Served(a)
      BY <1>4, <2>2
    <3>3. \A a \in Acceptor : HasRead(a)' => HasRead(a)
      BY <1>3, <2>1, <2>2
    <3>4. QED  BY <1>1, <3>1, <3>2, <3>3, CalmResets
  <2>3. CASE DestinationStops(d, "exit1")
    BY <1>6, <2>1, <2>3
  <2>4. QED  BY <1>10, <2>1, <2>2, <2>3 DEF Respond
<1>11. CASE CloseDestination(d)
  <2>1. HasRead(d) /\ Served(d) \in Opener
    BY <1>1, <1>5, <1>11 DEF CloseDestination
  <2>2. QED  BY <1>6, <1>11, <2>1 DEF CloseDestination
<1>12. CASE InterruptDestination(d)
  BY <1>0, <1>12 DEF InterruptDestination
<1>13. QED  BY <1>7, <1>8, <1>9, <1>10, <1>11, <1>12
            DEF DestinationStep, DestinationNext, DestinationRuns

-----------------------------------------------------------------------------
(***************************************************************************)
(* The theorems.                                                           *)
(***************************************************************************)

\* Nothing is sent, read or reset at the start, and nobody has crashed.
LEMMA InitReset == Init => UndisturbedInv
<1> SUFFICES ASSUME Init PROVE UndisturbedInv
  OBVIOUS
<1>1. CircuitInv
  BY InitCircuit
<1>2. ResetInv
  BY DEF Init, SocketsInit, NoLink, ResetInv, ResetAt
<1>3. CrashOnlyIfPassedOver
  BY DEF Init, ClientInit, ServerInit, CrashOnlyIfPassedOver
<1>4. QED  BY <1>1, <1>2, <1>3 DEF UndisturbedInv

\* Every step keeps the invariant of the undisturbed system.
LEMMA StepReset == UndisturbedInv /\ [Next]_vars => UndisturbedInv'
<1> SUFFICES ASSUME UndisturbedInv, [Next]_vars PROVE UndisturbedInv'
  OBVIOUS
<1>1. /\ CircuitInv' /\ CircuitInv /\ TypeInv /\ WireInv /\ CrashOnlyIfPassedOver
      /\ Undisturbed => ResetInv
  BY StepCircuit DEF UndisturbedInv, CircuitInv, ProxyInv
<1>2. Grows
  BY <1>1, StepGrows
<1>3. Undisturbed' = Undisturbed
  BY DEF Undisturbed
<1>4. CASE ~Undisturbed
  BY <1>1, <1>3, <1>4 DEF UndisturbedInv, CrashOnlyIfPassedOver
<1>5. CASE Undisturbed
  <2>1. CASE UNCHANGED vars
    <3>1. ResetInv'
      BY <1>1, <1>5, <2>1 DEF vars, clientVars, serverVars, destinationVars, socketVars, ResetInv,
                    ResetAt, Unsent, Undialled, HasRead, Served, PassedOver
    <3>2. CrashOnlyIfPassedOver'
      BY <1>1, <1>2, <1>5, <2>1, CrashesStay
         DEF vars, clientVars, serverVars, CrashOnlyIfPassedOver
    <3>3. QED  BY <1>1, <3>1, <3>2 DEF UndisturbedInv
  <2>2. QED  BY <1>1, <1>2, <1>5, <2>1, ClientStepResets, ServerStepResets, DestinationStepResets
             DEF Next, Rest, UndisturbedInv
<1>6. QED  BY <1>4, <1>5

\* Undisturbed, what is sent is read before the reader ends: the inductive
\* invariant holds in every behaviour of the programs.
THEOREM UndisturbedCorrect == Spec => []UndisturbedInv
<1>1. QED  BY InitReset, StepReset, PTL DEF Spec

\* Undisturbed, the null pointer that serv_rec_from_cli() or
\* serv_rec_from_des() returns is dereferenced only by a process whose
\* connection was still queued when the program it had dialled took another.
THEOREM CrashesExplained == Spec => []CrashOnlyIfPassedOver
<1>1. UndisturbedInv => CrashOnlyIfPassedOver
  BY DEF UndisturbedInv
<1>2. QED  BY <1>1, UndisturbedCorrect, PTL
=============================================================================
