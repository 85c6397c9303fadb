------------------------------ MODULE SslHello ------------------------------
(***************************************************************************)
(* The OpenSSL exercise (doc/guide_openssl/example/): a server and clients *)
(* that shake hands, of which the programs of server.c and client.c then   *)
(* pass one message and those of runner.c none, and that shut down.        *)
(*                                                                         *)
(* What SSL_accept() and SSL_connect() do is the library's: each is the    *)
(* sequence of reads and writes of its version of TLS.  The two versions   *)
(* differ in who is the last to write.                                     *)
(***************************************************************************)
EXTENDS Streams

CONSTANT Clients

Server == "server"
Nobody == "nobody"
Processes == Clients \cup {Server}

ASSUME SslHelloAssumption == Clients \cap {Server, Nobody} = {}

VARIABLES
  version,    \* of TLS, which the two libraries agree on
  talks,      \* who runs server.c or client.c; the others run runner.c
  certified,  \* the server finds its certificate, and the key of it
  status,     \* what each process does
  step,       \* the next of its calls, while it runs
  talked,     \* who has sent or received the message
  peer,       \* whom the server has accepted
  queue,      \* the connections it has not accepted
  wire,       \* what is under way on each client's connection, to either side
  end         \* the state of each side of it

setting == <<version, talks, certified>>
vars == <<setting, status, step, talked, peer, queue, wire, end>>

Side == {"client", "server"}
SideOf(p) == IF p = Server THEN "server" ELSE "client"
Other(p) == IF p = Server THEN "client" ELSE "server"
Conn(p) == IF p = Server THEN peer ELSE p

-----------------------------------------------------------------------------
get(msg) == [do |-> "get", msg |-> msg]
put(msg) == [do |-> "put", msg |-> msg]

\* TLS 1.3 has the server write last, two session tickets that nobody waits for.
SSL_accept ==
  <<get("ClientHello"), put("ServerHello"), get("ClientFinished")>>
    \o IF version = "1.2" THEN <<put("ServerFinished")>> ELSE <<put("ticket"), put("ticket")>>

SSL_connect ==
  <<put("ClientHello"), get("ServerHello"), put("ClientFinished")>>
    \o IF version = "1.2" THEN <<get("ServerFinished")>> ELSE <<>>

\* Slip: SSL_connect() on both sides.
BothConnect(p) == SSL_connect

Handshake(p) == IF p = Server THEN SSL_accept ELSE SSL_connect

\* Slip: the client waits for a message before it sends one.
BothListen(p) == IF p \notin talks THEN <<>> ELSE <<get("message")>>

Talk(p) ==
  IF p \notin talks THEN <<>>
  ELSE IF p = Server THEN <<get("message")>> ELSE <<put("message")>>

\* Slip: the shutdown comes before the message.
ShutdownFirst(p) == Handshake(p) \o <<put("CloseNotify")>> \o Talk(p)

\* ssl_shutdown() does not wait for the other side's.
Calls(p) == Handshake(p) \o Talk(p) \o <<put("CloseNotify")>>

Established(p) == step[p] > Len(Handshake(p))

-----------------------------------------------------------------------------
Init ==
  /\ version \in {"1.2", "1.3"} /\ talks \in SUBSET Processes /\ certified \in BOOLEAN
  /\ status = [p \in Processes |-> "start"]
  /\ step = [p \in Processes |-> 1]
  /\ talked = {} /\ peer = Nobody /\ queue = <<>>
  /\ wire = [c \in Clients |-> [s \in Side |-> <<>>]]
  /\ end = [c \in Clients |-> [s \in Side |-> "open"]]

\* A client ends, or the server, whose queue is reset.
Ends(p, how) ==
  /\ status' = [status EXCEPT ![p] = how]
  /\ \E other \in IF Conn(p) = Nobody THEN {"open"}
                  ELSE AfterClose(end[Conn(p)][Other(p)], wire[Conn(p)][SideOf(p)]) :
       end' = [c \in Clients |->
                 IF c = Conn(p) THEN [end[c] EXCEPT ![Other(p)] = other]
                 ELSE IF p = Server /\ c \in Range(queue) THEN [end[c] EXCEPT !["client"] = "rst"]
                 ELSE end[c]]

\* socket(), bind() and listen(), each of which may fail.
Listen ==
  /\ status[Server] = "start"
  /\ \E next \in {"accept", "exit1"} : status' = [status EXCEPT ![Server] = next]
  /\ UNCHANGED <<setting, step, talked, peer, queue, wire, end>>

Accept ==
  /\ status[Server] = "accept" /\ queue # <<>>
  /\ \/ /\ peer' = Head(queue) /\ queue' = Tail(queue)
        /\ status' = [status EXCEPT ![Server] = "context"]
        /\ UNCHANGED end
     \/ Ends(Server, "exit1") /\ UNCHANGED <<peer, queue>>
  /\ UNCHANGED <<setting, step, talked, wire>>

\* listen() is told 1, with which Linux lets two connections wait.
CanConnect ==
  status[Server] \in {"accept", "context", "run", "close"} /\ Len(queue) < 2

\* socket() and connect(), each of which may fail; connect() waits for a place
\* in a full queue, or times out.
Connect(c) ==
  /\ status[c] = "start"
  /\ \/ /\ CanConnect
        /\ status' = [status EXCEPT ![c] = "context"] /\ queue' = Append(queue, c)
     \/ status' = [status EXCEPT ![c] = "exit1"] /\ UNCHANGED queue
  /\ UNCHANGED <<setting, step, talked, peer, wire, end>>

\* SSL_CTX_new() may fail, with the connection open; so may configure_context().
CreateContext(p) ==
  /\ status[p] = "context"
  /\ \/ /\ p = Server => certified
        /\ status' = [status EXCEPT ![p] = "run"]
        /\ UNCHANGED end
     \/ Ends(p, "exit1")
  /\ UNCHANGED <<setting, step, talked, peer, queue, wire>>

-----------------------------------------------------------------------------
Runs(p, do) == status[p] = "run" /\ Calls(p)[step[p]].do = do

Continue(p) ==
  /\ step' = [step EXCEPT ![p] = @ + 1]
  /\ talked' = IF Calls(p)[step[p]].msg = "message" THEN talked \cup {p} ELSE talked
  /\ status' = IF step[p] = Len(Calls(p)) THEN [status EXCEPT ![p] = "close"] ELSE status

(***************************************************************************)
(* An error is printed.  SSL_shutdown() sends nothing when the handshake   *)
(* has not been completed; after a later error that is the library's       *)
(* choice.                                                                 *)
(***************************************************************************)
Fail(p) ==
  /\ \/ status' = [status EXCEPT ![p] = "close"] /\ UNCHANGED step
     \/ /\ Established(p) /\ step[p] < Len(Calls(p))
        /\ step' = [step EXCEPT ![p] = Len(Calls(p))]
        /\ UNCHANGED status
  /\ UNCHANGED talked

\* Slip: the server's SSL never gets the socket, as in ssl_accept_connection().
NoDescriptor(p) == IF p = Server THEN "gone" ELSE end[p]["client"]

\* The socket that SSL_set_fd() has given to the SSL, and what it has to read.
Mine(p) == end[Conn(p)][SideOf(p)]

Arrived(p) == wire[Conn(p)][SideOf(p)]

GetRecord(p) ==
  /\ Runs(p, "get") /\ Arrived(p) # <<>>
  /\ wire' = [wire EXCEPT ![Conn(p)][SideOf(p)] = Tail(@)]
  /\ IF Head(Arrived(p)) = Calls(p)[step[p]].msg THEN Continue(p) ELSE Fail(p)
  /\ UNCHANGED <<setting, peer, queue, end>>

\* The end of the stream, or an error.
GetNothing(p) ==
  /\ Runs(p, "get") /\ Fail(p)
  /\ \/ Arrived(p) = <<>> /\ Mine(p) \in {"fin", "gone"} /\ UNCHANGED end
     \/ Mine(p) = "rst" /\ end' = [end EXCEPT ![Conn(p)][SideOf(p)] = "gone"]
  /\ UNCHANGED <<setting, peer, queue, wire>>

\* The library takes no notice of a ticket that could not be sent.
Put(p) ==
  /\ Runs(p, "put") /\ Mine(p) # "gone"
  /\ LET msg == Calls(p)[step[p]].msg
     IN  /\ wire' = IF Mine(p) # "open" THEN wire
                    ELSE [wire EXCEPT ![Conn(p)][Other(p)] = Append(@, msg)]
         /\ IF Mine(p) = "rst" /\ msg # "ticket" THEN Fail(p) ELSE Continue(p)
  /\ \E after \in AfterSend(Mine(p)) : end' = [end EXCEPT ![Conn(p)][SideOf(p)] = after]
  /\ UNCHANGED <<setting, peer, queue>>

PutBreaks(p) ==
  /\ Runs(p, "put") /\ Mine(p) = "gone"
  /\ Ends(p, "sigpipe")
  /\ UNCHANGED <<setting, step, talked, peer, queue, wire>>

\* close() and the end of main(), with 0 also after an error.
Close(p) ==
  /\ status[p] = "close"
  /\ Ends(p, "exit0")
  /\ UNCHANGED <<setting, step, talked, peer, queue, wire>>

\* Ctrl-C.
Interrupt(p) ==
  /\ status[p] \in {"accept", "context", "run", "close"}
  /\ Ends(p, "sigint")
  /\ UNCHANGED <<setting, step, talked, peer, queue, wire>>

Ended(p) == status[p] \in {"exit0", "exit1", "sigpipe", "sigint"}

Quiet ==
  /\ \A c \in Clients : Ended(c)
  /\ Ended(Server) \/ (status[Server] = "accept" /\ queue = <<>>)
  /\ UNCHANGED vars

Works(p) == CreateContext(p) \/ GetRecord(p) \/ GetNothing(p) \/ Put(p) \/ PutBreaks(p) \/ Close(p)

Next ==
  \/ Listen \/ Accept
  \/ \E c \in Clients : Connect(c)
  \/ \E p \in Processes : Works(p) \/ Interrupt(p)
  \/ Quiet

Spec == Init /\ [][Next]_vars

\* The programs run; users start and interrupt them when they like.
FairSpec == Spec /\ WF_vars(Accept) /\ \A p \in Processes : WF_vars(Works(p))

-----------------------------------------------------------------------------
(***************************************************************************)
(* Programs that end with 0 may have failed to shake hands; but if both    *)
(* the server and the client it accepted end with 0, both have said "SSL   *)
(* connection established": a handshake fails only when the other program  *)
(* gives up or is interrupted, never by the order of their calls, by what  *)
(* one sends after its own last step or by an early close.                 *)
(***************************************************************************)
BothEstablish ==
  \A c \in Clients :
    peer = c /\ status[c] = "exit0" /\ status[Server] = "exit0" =>
      Established(c) /\ Established(Server)

(***************************************************************************)
(* With TLS 1.2, a message that the client says it sent is received when   *)
(* the server ends by itself: the client leaves without waiting, but has   *)
(* read all that the server wrote before.  With TLS 1.3 it has not read    *)
(* the tickets, and its close() may reset the connection under a message   *)
(* not yet read.                                                           *)
(***************************************************************************)
SentIsReceived ==
  version = "1.2" /\ Server \in talks /\ status[Server] = "exit0" =>
    (talked # {} => Server \in talked)

(***************************************************************************)
(* Nobody waits for ever: neither for a server that exits after accept(),  *)
(* because its certificate is missing, nor in the queue of one that serves *)
(* another client, nor for a message that the other program never sends.   *)
(***************************************************************************)
HandshakesEnd ==
  \A c \in Clients : /\ status[c] = "context" ~> Ended(c)
                     /\ peer = c ~> Ended(Server)

-----------------------------------------------------------------------------
(***************************************************************************)
(* Inductive strengthening of BothEstablish and of SentIsReceived: how far *)
(* the two sides of a handshake can be from one another, and what is under *)
(* way between them, as long as neither has been interrupted or given up.  *)
(***************************************************************************)
Status == {"start", "accept", "context", "run", "close", "exit0", "exit1", "sigpipe", "sigint"}

Message == {"ClientHello", "ServerHello", "ClientFinished", "ServerFinished", "ticket",
            "message", "CloseNotify"}

HelloTypeOK ==
  /\ version \in {"1.2", "1.3"} /\ talks \in SUBSET Processes /\ talked \in SUBSET Processes
  /\ status \in [Processes -> Status] /\ step \in [Processes -> Nat \ {0}]
  /\ peer \in Clients \cup {Nobody} /\ queue \in Seq(Clients)
  /\ wire \in [Clients -> [Side -> Seq(Message)]]
  /\ end \in [Clients -> [Side -> {"open", "fin", "rst", "gone"}]]

\* The server runs once it has accepted somebody, who had connected, and a
\* process calls what is left of its calls.
StatusInv ==
  /\ status[Server] \in {"start", "accept"} => peer = Nobody
  /\ status[Server] \in {"context", "run", "close", "exit0"} => peer \in Clients
  /\ \A p \in Processes : /\ status[p] \in {"start", "accept", "context"} => step[p] = 1
                          /\ status[p] = "run" => step[p] <= Len(Calls(p))
  /\ \A c \in Clients : /\ status[c] # "accept"
                        /\ c = peer \/ c \in Range(queue) => status[c] # "start"

GivenUp(p) == status[p] \in {"exit1", "sigpipe", "sigint"}
Running(p) == status[p] \in {"context", "run"}

Open(c, side) == end[c][side] = "open"
ToServer(c) == wire[c]["server"]
ToClient(c) == wire[c]["client"]

\* The next steps of client c and of the server, and what is under way.
At(c, k, j, toServer, toClient) ==
  step[c] = k /\ step[Server] = j /\ ToServer(c) = toServer /\ ToClient(c) = toClient

\* Whom the server has not accepted has said hello at most.
UnacceptedInv ==
  \A c \in Clients \ {peer} :
    /\ step[c] <= 2 /\ ToClient(c) = <<>> /\ c \notin talked
    /\ status[Server] \in {"start", "accept"} /\ ~GivenUp(c) =>
         /\ Open(c, "server") /\ Open(c, "client")
         /\ status[c] = "start" \/ Running(c)
         /\ ToServer(c) = IF step[c] = 1 THEN <<>> ELSE <<"ClientHello">>

\* The calls both versions begin with.
Greeting(c) ==
  /\ Running(c) /\ Running(Server) /\ Open(c, "server") /\ Open(c, "client")
  /\ \/ At(c, 1, 1, <<>>, <<>>) \/ At(c, 2, 1, <<"ClientHello">>, <<>>)
     \/ At(c, 2, 2, <<>>, <<>>) \/ At(c, 2, 3, <<>>, <<"ServerHello">>)
     \/ At(c, 3, 3, <<>>, <<>>)

\* TLS 1.2: the server is the last to write, the client waits for it.
ClientLast(c) ==
  /\ version = "1.2" /\ Running(c) /\ Open(c, "server")
  /\ \/ /\ Running(Server) /\ Open(c, "client")
        /\ At(c, 4, 3, <<"ClientFinished">>, <<>>) \/ At(c, 4, 4, <<>>, <<>>)
     \/ /\ step[c] = 4 /\ Established(Server) /\ ToServer(c) = <<>>
        /\ ToClient(c) # <<>> /\ Head(ToClient(c)) = "ServerFinished"
        /\ end[c]["client"] \in {"open", "fin"}
        /\ Server \in talks =>
             /\ status[Server] = "run" /\ Open(c, "client")
             /\ At(c, 4, 5, <<>>, <<"ServerFinished">>)

\* TLS 1.3: the client goes on, or has ended, before the server has written.
ServerLast(c) ==
  /\ version = "1.3" /\ Established(c) /\ Running(Server)
  /\ \/ /\ step[Server] = 3 /\ ToClient(c) = <<>>
        /\ ToServer(c) # <<>> /\ Head(ToServer(c)) = "ClientFinished"
        /\ Open(c, "client") /\ end[c]["server"] \in {"open", "fin"}
     \/ step[Server] \in {4, 5}

HandshakeInv ==
  peer \in Clients =>
    \/ GivenUp(peer) \/ GivenUp(Server)
    \/ Greeting(peer) \/ ClientLast(peer) \/ ServerLast(peer)
    \/ Established(peer) /\ Established(Server)

\* TLS 1.2: the message is next to come, or is to be read next.
MessageInv ==
  version = "1.2" /\ Server \in talks /\ peer \in Clients /\ ~GivenUp(Server) =>
    /\ status[peer] = "run" /\ peer \in talks /\ step[peer] = 5 =>
         /\ status[Server] = "run" /\ At(peer, 5, 5, <<>>, <<>>)
         /\ Open(peer, "server") /\ Open(peer, "client")
    /\ peer \in talked => step[peer] >= 6
    /\ peer \in talked /\ Server \notin talked =>
         /\ status[Server] = "run" /\ step[Server] = 5
         /\ ToServer(peer) # <<>> /\ Head(ToServer(peer)) = "message" /\ ToClient(peer) = <<>>
         /\ Open(peer, "client") /\ end[peer]["server"] \in {"open", "fin"}

HelloInv == HelloTypeOK /\ StatusInv /\ UnacceptedInv /\ HandshakeInv /\ MessageInv
=============================================================================
