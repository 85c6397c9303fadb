--------------------------- MODULE SslHelloProofs ---------------------------
(***************************************************************************)
(* Theorems about the OpenSSL exercise, for any number of clients: who may *)
(* miss the handshake, and that a message sent over TLS 1.2 is received.   *)
(***************************************************************************)
EXTENDS SslHello, SequenceTheorems, TLAPS

-----------------------------------------------------------------------------
(***************************************************************************)
(* The calls of the programs.                                              *)
(***************************************************************************)

\* Three calls and those that follow.
LEMMA ThreeFirst ==
  ASSUME NEW S, NEW a \in S, NEW b \in S, NEW c \in S, NEW s \in Seq(S)
  PROVE  /\ <<a, b, c>> \o s \in Seq(S)
         /\ Len(<<a, b, c>> \o s) = 3 + Len(s)
         /\ (<<a, b, c>> \o s)[1] = a /\ (<<a, b, c>> \o s)[2] = b /\ (<<a, b, c>> \o s)[3] = c
         /\ \A i \in 1..Len(s) : (<<a, b, c>> \o s)[3 + i] = s[i]
<1> DEFINE t == <<a, b, c>>
<1>1. t \in Seq(S) /\ Len(t) = 3 /\ t[1] = a /\ t[2] = b /\ t[3] = c
  OBVIOUS
<1> HIDE DEF t
<1>2. /\ t \o s \in Seq(S) /\ Len(t \o s) = 3 + Len(s)
      /\ \A i \in 1..(3 + Len(s)) : (t \o s)[i] = IF i <= 3 THEN t[i] ELSE s[i - 3]
  <2>1. /\ t \o s \in Seq(S) /\ Len(t \o s) = Len(t) + Len(s)
        /\ \A i \in 1..(Len(t) + Len(s)) :
             (t \o s)[i] = IF i <= Len(t) THEN t[i] ELSE s[i - Len(t)]
    BY <1>1, ConcatProperties, Zenon
  <2>2. QED  BY <1>1, <2>1, Zenon
<1>3. Len(s) \in Nat
  OBVIOUS
<1>4. (t \o s)[1] = a /\ (t \o s)[2] = b /\ (t \o s)[3] = c
  BY <1>1, <1>2, <1>3
<1>5. \A i \in 1..Len(s) : (t \o s)[3 + i] = s[i]
  BY <1>2, <1>3
<1>6. QED  BY <1>2, <1>4, <1>5 DEF t

\* Calls and one more.
LEMMA OneLast ==
  ASSUME NEW S, NEW s \in Seq(S), NEW x \in S
  PROVE  /\ s \o <<x>> \in Seq(S) /\ Len(s \o <<x>>) = Len(s) + 1
         /\ \A i \in 1..Len(s) : (s \o <<x>>)[i] = s[i]
         /\ (s \o <<x>>)[Len(s) + 1] = x
<1> DEFINE t == <<x>>
<1>1. t \in Seq(S) /\ Len(t) = 1 /\ t[1] = x /\ Len(s) \in Nat
  OBVIOUS
<1> HIDE DEF t
<1>2. /\ s \o t \in Seq(S) /\ Len(s \o t) = Len(s) + Len(t)
      /\ \A i \in 1..(Len(s) + Len(t)) :
           (s \o t)[i] = IF i <= Len(s) THEN s[i] ELSE t[i - Len(s)]
  BY <1>1, ConcatProperties, Zenon
<1>3. /\ s \o t \in Seq(S) /\ Len(s \o t) = Len(s) + 1
      /\ \A i \in 1..Len(s) : (s \o t)[i] = s[i]
      /\ (s \o t)[Len(s) + 1] = x
  BY <1>1, <1>2
<1>4. QED  BY <1>3 DEF t

\* How many calls make a handshake.
HandshakeLength(p) == IF version = "1.2" THEN 4 ELSE IF p = Server THEN 5 ELSE 3

Call == [do : {"get", "put"}, msg : Message]

\* What a call does, and with which message.
Is(call, do, msg) == call.do = do /\ call.msg = msg

\* The calls of a handshake, one by one.
LEMMA HandshakeCalls ==
  ASSUME HelloTypeOK, NEW p \in Processes
  PROVE  /\ Handshake(p) \in Seq(Call)
         /\ Len(Handshake(p)) = HandshakeLength(p)
         /\ p = Server =>
              /\ Is(Handshake(p)[1], "get", "ClientHello") /\ Is(Handshake(p)[2], "put", "ServerHello")
              /\ Is(Handshake(p)[3], "get", "ClientFinished")
              /\ version = "1.2" => Is(Handshake(p)[4], "put", "ServerFinished")
              /\ version = "1.3" => Is(Handshake(p)[4], "put", "ticket") /\ Is(Handshake(p)[5], "put", "ticket")
         /\ p # Server =>
              /\ Is(Handshake(p)[1], "put", "ClientHello") /\ Is(Handshake(p)[2], "get", "ServerHello")
              /\ Is(Handshake(p)[3], "put", "ClientFinished")
              /\ version = "1.2" => Is(Handshake(p)[4], "get", "ServerFinished")
<1>1. \A m \in Message : get(m) \in Call /\ put(m) \in Call
  BY DEF get, put, Call
<1>2. /\ "ClientHello" \in Message /\ "ServerHello" \in Message /\ "ClientFinished" \in Message
      /\ "ServerFinished" \in Message /\ "ticket" \in Message
  BY DEF Message
<1>3. version \in {"1.2", "1.3"}
  BY DEF HelloTypeOK
<1> DEFINE last == IF p = Server THEN put("ServerFinished") ELSE get("ServerFinished")
           ticket == put("ticket")
           a == get("ClientHello")  b == put("ServerHello")  c == get("ClientFinished")
           d == put("ClientHello")  e == get("ServerHello")  f == put("ClientFinished")
<1>4. /\ a \in Call /\ b \in Call /\ c \in Call /\ d \in Call /\ e \in Call /\ f \in Call
      /\ last \in Call /\ ticket \in Call
  BY <1>1, <1>2
<1>5. /\ p = Server /\ version = "1.2" => Handshake(p) = <<a, b, c>> \o <<last>>
      /\ p = Server /\ version = "1.3" => Handshake(p) = <<a, b, c>> \o <<ticket, ticket>>
      /\ p # Server /\ version = "1.2" => Handshake(p) = <<d, e, f>> \o <<last>>
      /\ p # Server /\ version = "1.3" => Handshake(p) = <<d, e, f>> \o <<>>
  BY DEF Handshake, SSL_accept, SSL_connect
<1>6. /\ Is(a, "get", "ClientHello") /\ Is(b, "put", "ServerHello") /\ Is(c, "get", "ClientFinished")
      /\ Is(d, "put", "ClientHello") /\ Is(e, "get", "ServerHello") /\ Is(f, "put", "ClientFinished")
      /\ Is(ticket, "put", "ticket")
      /\ p = Server => Is(last, "put", "ServerFinished")
      /\ p # Server => Is(last, "get", "ServerFinished")
  BY DEF Is, get, put
<1> HIDE DEF last, ticket, a, b, c, d, e, f
<1>7. /\ <<last>> \in Seq(Call) /\ Len(<<last>>) = 1 /\ <<last>>[1] = last
      /\ <<ticket, ticket>> \in Seq(Call) /\ Len(<<ticket, ticket>>) = 2
      /\ <<ticket, ticket>>[1] = ticket /\ <<ticket, ticket>>[2] = ticket
  BY <1>4
<1>8. <<>> \in Seq(Call) /\ Len(<<>>) = 0
  OBVIOUS
<1>9. CASE p = Server /\ version = "1.2"
  <2> DEFINE t == <<a, b, c>> \o <<last>>
  <2>1. /\ t \in Seq(Call) /\ Len(t) = 4 /\ t[1] = a /\ t[2] = b /\ t[3] = c /\ t[4] = last
    BY <1>4, <1>7, ThreeFirst
  <2>2. Handshake(p) = t
    BY <1>5, <1>9
  <2> HIDE DEF t
  <2>3. QED  BY <1>6, <1>9, <2>1, <2>2 DEF HandshakeLength
<1>10. CASE p = Server /\ version = "1.3"
  <2> DEFINE t == <<a, b, c>> \o <<ticket, ticket>>
  <2>1. /\ t \in Seq(Call) /\ Len(t) = 5 /\ t[1] = a /\ t[2] = b /\ t[3] = c
        /\ t[4] = ticket /\ t[5] = ticket
    BY <1>4, <1>7, ThreeFirst
  <2>2. Handshake(p) = t
    BY <1>5, <1>10
  <2> HIDE DEF t
  <2>3. QED  BY <1>6, <1>10, <2>1, <2>2 DEF HandshakeLength
<1>11. CASE p # Server /\ version = "1.2"
  <2> DEFINE t == <<d, e, f>> \o <<last>>
  <2>1. /\ t \in Seq(Call) /\ Len(t) = 4 /\ t[1] = d /\ t[2] = e /\ t[3] = f /\ t[4] = last
    BY <1>4, <1>7, ThreeFirst
  <2>2. Handshake(p) = t
    BY <1>5, <1>11
  <2> HIDE DEF t
  <2>3. QED  BY <1>6, <1>11, <2>1, <2>2 DEF HandshakeLength
<1>12. CASE p # Server /\ version = "1.3"
  <2> DEFINE t == <<d, e, f>> \o <<>>
  <2>1. /\ t \in Seq(Call) /\ Len(t) = 3 /\ t[1] = d /\ t[2] = e /\ t[3] = f
    BY <1>4, <1>8, ThreeFirst
  <2>2. Handshake(p) = t
    BY <1>5, <1>12
  <2> HIDE DEF t
  <2>3. QED  BY <1>6, <1>12, <2>1, <2>2 DEF HandshakeLength
<1>13. QED  BY <1>3, <1>9, <1>10, <1>11, <1>12

\* What a process calls after its handshake.
LEMMA LaterCalls ==
  ASSUME HelloTypeOK, NEW p \in Processes
  PROVE  /\ Len(Calls(p)) = HandshakeLength(p) + (IF p \in talks THEN 2 ELSE 1)
         /\ Calls(p) \in Seq(Call)
         /\ \A i \in 1..HandshakeLength(p) : Calls(p)[i] = Handshake(p)[i]
         /\ Is(Calls(p)[Len(Calls(p))], "put", "CloseNotify")
         /\ p \in talks =>
              /\ p = Server => Is(Calls(p)[HandshakeLength(p) + 1], "get", "message")
              /\ p # Server => Is(Calls(p)[HandshakeLength(p) + 1], "put", "message")
<1> DEFINE H == Handshake(p)
<1>0. H \in Seq(Call) /\ Len(H) = HandshakeLength(p) /\ HandshakeLength(p) \in Nat
  BY HandshakeCalls DEF HandshakeLength
<1>1. /\ get("message") \in Call /\ put("message") \in Call /\ put("CloseNotify") \in Call
  BY DEF get, put, Message, Call
<1> HIDE DEF H
<1>2. CASE p \in talks
  <2> DEFINE m == IF p = Server THEN get("message") ELSE put("message")
             T == H \o <<m>>
             n == put("CloseNotify")
  <2>1. Talk(p) = <<m>>
    BY <1>2, Zenon DEF Talk
  <2>2. m \in Call
    BY <1>1
  <2>3. n \in Call
    BY <1>1
  <2>4. /\ Is(n, "put", "CloseNotify")
        /\ p = Server => Is(m, "get", "message")
        /\ p # Server => Is(m, "put", "message")
    BY DEF Is, get, put
  <2>5. Calls(p) = T \o <<n>>
    BY <2>1 DEF Calls, H
  <2> HIDE DEF m, n
  <2>6. /\ T \in Seq(Call) /\ Len(T) = Len(H) + 1
        /\ \A i \in 1..Len(H) : T[i] = H[i]
        /\ T[Len(H) + 1] = m
    BY <1>0, <2>2, OneLast, Zenon
  <2> HIDE DEF T
  <2>7. /\ Calls(p) \in Seq(Call) /\ Len(Calls(p)) = Len(T) + 1
        /\ \A i \in 1..Len(T) : Calls(p)[i] = T[i]
        /\ Calls(p)[Len(T) + 1] = n
    <3> DEFINE C == T \o <<n>>
    <3>1. /\ C \in Seq(Call) /\ Len(C) = Len(T) + 1
          /\ \A i \in 1..Len(T) : C[i] = T[i]
          /\ C[Len(T) + 1] = n
      BY <2>3, <2>6, OneLast, Zenon
    <3>2. Calls(p) = C
      BY <2>5
    <3> HIDE DEF C
    <3>3. QED  BY <3>1, <3>2
  <2> HIDE DEF H
  <2>8. /\ Len(Calls(p)) = Len(H) + 2
        /\ \A i \in 1..Len(H) : Calls(p)[i] = H[i]
        /\ Calls(p)[Len(H) + 1] = m /\ Calls(p)[Len(H) + 2] = n
    BY <1>0, <2>6, <2>7
  <2>9. QED  BY <1>0, <1>2, <2>7, <2>8, <2>4 DEF H
<1>3. CASE p \notin talks
  <2> DEFINE n == put("CloseNotify")
  <2>1. Calls(p) = (H \o <<>>) \o <<n>>
    BY <1>3 DEF Calls, Talk, H
  <2>2. H \o <<>> = H
    BY <1>0, ConcatEmptySeq, Zenon
  <2>3. n \in Call
    BY <1>1
  <2>4. Is(n, "put", "CloseNotify")
    BY DEF Is, put
  <2>5. Calls(p) = H \o <<n>>
    BY <2>1, <2>2
  <2> HIDE DEF n
  <2>6. /\ Calls(p) \in Seq(Call) /\ Len(Calls(p)) = Len(H) + 1
        /\ \A i \in 1..Len(H) : Calls(p)[i] = H[i]
        /\ Calls(p)[Len(H) + 1] = n
    <3> DEFINE C == H \o <<n>>
    <3>1. /\ C \in Seq(Call) /\ Len(C) = Len(H) + 1
          /\ \A i \in 1..Len(H) : C[i] = H[i]
          /\ C[Len(H) + 1] = n
      BY <1>0, <2>3, OneLast, Zenon
    <3>2. Calls(p) = C
      BY <2>5
    <3> HIDE DEF C, H
    <3>3. QED  BY <3>1, <3>2
  <2>7. QED  BY <1>0, <1>3, <2>6, <2>4 DEF H
<1>4. QED  BY <1>2, <1>3

\* The calls of a client, one by one.
LEMMA ClientTable ==
  ASSUME HelloTypeOK, NEW c \in Clients
  PROVE  /\ Len(Handshake(c)) = IF version = "1.2" THEN 4 ELSE 3
         /\ Len(Calls(c)) = Len(Handshake(c)) + (IF c \in talks THEN 2 ELSE 1)
         /\ Is(Calls(c)[1], "put", "ClientHello") /\ Is(Calls(c)[2], "get", "ServerHello")
         /\ Is(Calls(c)[3], "put", "ClientFinished")
         /\ version = "1.2" => Is(Calls(c)[4], "get", "ServerFinished")
         /\ c \in talks => Is(Calls(c)[Len(Handshake(c)) + 1], "put", "message")
         /\ Is(Calls(c)[Len(Calls(c))], "put", "CloseNotify")
<1>1. c \in Processes /\ c # Server /\ version \in {"1.2", "1.3"}
  BY SslHelloAssumption DEF Processes, HelloTypeOK
<1>2. HandshakeLength(c) = IF version = "1.2" THEN 4 ELSE 3
  BY <1>1 DEF HandshakeLength
<1>3. Len(Handshake(c)) = HandshakeLength(c)
  BY <1>1, HandshakeCalls
<1>4. Len(Calls(c)) = Len(Handshake(c)) + (IF c \in talks THEN 2 ELSE 1)
  BY <1>1, <1>3, LaterCalls
<1>5. \A k \in 1..HandshakeLength(c) : Calls(c)[k] = Handshake(c)[k]
  BY <1>1, LaterCalls, Zenon
<1>6. /\ 1 \in 1..HandshakeLength(c) /\ 2 \in 1..HandshakeLength(c) /\ 3 \in 1..HandshakeLength(c)
      /\ version = "1.2" => 4 \in 1..HandshakeLength(c)
  BY <1>1, <1>2
<1>8. /\ Is(Calls(c)[1], "put", "ClientHello") /\ Is(Calls(c)[2], "get", "ServerHello")
      /\ Is(Calls(c)[3], "put", "ClientFinished")
      /\ version = "1.2" => Is(Calls(c)[4], "get", "ServerFinished")
  BY <1>1, <1>5, <1>6, HandshakeCalls
<1>9. /\ Is(Calls(c)[Len(Calls(c))], "put", "CloseNotify")
      /\ c \in talks => Is(Calls(c)[Len(Handshake(c)) + 1], "put", "message")
  BY <1>1, <1>3, LaterCalls
<1>10. QED  BY <1>2, <1>3, <1>4, <1>8, <1>9

\* The calls of the server, one by one.
LEMMA ServerTable ==
  ASSUME HelloTypeOK
  PROVE  /\ Len(Handshake(Server)) = IF version = "1.2" THEN 4 ELSE 5
         /\ Len(Calls(Server)) = Len(Handshake(Server)) + (IF Server \in talks THEN 2 ELSE 1)
         /\ Is(Calls(Server)[1], "get", "ClientHello") /\ Is(Calls(Server)[2], "put", "ServerHello")
         /\ Is(Calls(Server)[3], "get", "ClientFinished")
         /\ version = "1.2" => Is(Calls(Server)[4], "put", "ServerFinished")
         /\ version = "1.3" => Is(Calls(Server)[4], "put", "ticket") /\ Is(Calls(Server)[5], "put", "ticket")
         /\ Server \in talks => Is(Calls(Server)[Len(Handshake(Server)) + 1], "get", "message")
         /\ Is(Calls(Server)[Len(Calls(Server))], "put", "CloseNotify")
<1>1. Server \in Processes /\ version \in {"1.2", "1.3"}
  BY DEF Processes, HelloTypeOK
<1>2. HandshakeLength(Server) = IF version = "1.2" THEN 4 ELSE 5
  BY <1>1 DEF HandshakeLength
<1>3. Len(Handshake(Server)) = HandshakeLength(Server)
  BY <1>1, HandshakeCalls
<1>4. Len(Calls(Server)) = Len(Handshake(Server)) + (IF Server \in talks THEN 2 ELSE 1)
  BY <1>1, <1>3, LaterCalls
<1>5. \A k \in 1..HandshakeLength(Server) : Calls(Server)[k] = Handshake(Server)[k]
  BY <1>1, LaterCalls, Zenon
<1>6. /\ 1 \in 1..HandshakeLength(Server) /\ 2 \in 1..HandshakeLength(Server) /\ 3 \in 1..HandshakeLength(Server)
      /\ version = "1.2" => 4 \in 1..HandshakeLength(Server)
      /\ version = "1.3" => 4 \in 1..HandshakeLength(Server) /\ 5 \in 1..HandshakeLength(Server)
  BY <1>1, <1>2
<1>8. /\ Is(Calls(Server)[1], "get", "ClientHello") /\ Is(Calls(Server)[2], "put", "ServerHello")
      /\ Is(Calls(Server)[3], "get", "ClientFinished")
      /\ version = "1.2" => Is(Calls(Server)[4], "put", "ServerFinished")
      /\ version = "1.3" => Is(Calls(Server)[4], "put", "ticket") /\ Is(Calls(Server)[5], "put", "ticket")
  BY <1>1, <1>5, <1>6, HandshakeCalls
<1>9. /\ Is(Calls(Server)[Len(Calls(Server))], "put", "CloseNotify")
      /\ Server \in talks => Is(Calls(Server)[Len(Handshake(Server)) + 1], "get", "message")
  BY <1>1, <1>3, LaterCalls
<1>10. QED  BY <1>2, <1>3, <1>4, <1>8, <1>9

\* Every call carries a message.
LEMMA CallsCarry ==
  ASSUME HelloTypeOK, NEW p \in Processes, NEW k \in 1..Len(Calls(p))
  PROVE  Calls(p)[k].msg \in Message
<1>1. Calls(p) \in Seq(Call)
  BY LaterCalls
<1>2. Calls(p)[k] \in Call
  BY <1>1
<1>3. QED  BY <1>2 DEF Call

-----------------------------------------------------------------------------
(***************************************************************************)
(* What a step leaves alone.                                               *)
(***************************************************************************)
EndState == {"open", "fin", "rst", "gone"}

\* No step changes the setting, nor what it makes the processes call.
Setting == UNCHANGED <<version, talks, certified>>

\* What a process calls, and its handshake, depend on the setting alone.
LEMMA SettingStays ==
  ASSUME Setting, NEW p
  PROVE  Calls(p)' = Calls(p) /\ Handshake(p)' = Handshake(p)
  BY DEF Setting, Calls, Handshake, Talk, SSL_accept, SSL_connect

\* The others, and the connections of others, are as they were.
Alone(p) ==
  /\ Setting /\ UNCHANGED peer
  /\ \A q \in Processes \ {p} : /\ status'[q] = status[q] /\ step'[q] = step[q]
                                /\ q \in talked' <=> q \in talked
  /\ \A c \in Clients \ {Conn(p)} : wire'[c] = wire[c] /\ end'[c] = end[c]

\* Types that a step of p keeps.
StepTypes(p) ==
  /\ status' = [status EXCEPT ![p] = status'[p]] /\ status'[p] \in Status
  /\ step' = [step EXCEPT ![p] = step'[p]] /\ step'[p] \in Nat \ {0}
  /\ talked' \in {talked, talked \cup {p}}
  /\ wire' \in [Clients -> [Side -> Seq(Message)]]
  /\ end' \in [Clients -> [Side -> EndState]]

\* The type invariant follows from them.
LEMMA TypesStay ==
  ASSUME HelloTypeOK, NEW p \in Processes, StepTypes(p), Setting, UNCHANGED <<peer, queue>>
  PROVE  HelloTypeOK'
<1>1. status' \in [Processes -> Status] /\ step' \in [Processes -> Nat \ {0}]
  BY DEF HelloTypeOK, StepTypes
<1>2. version' \in {"1.2", "1.3"} /\ talks' \in SUBSET Processes /\ talked' \in SUBSET Processes
  BY DEF HelloTypeOK, StepTypes, Setting
<1>3. QED  BY <1>1, <1>2 DEF HelloTypeOK, StepTypes, EndState

\* The accepted client and the server are as they were when another client has
\* taken a step.
LEMMA PairStays ==
  ASSUME HelloTypeOK, HandshakeInv, MessageInv, NEW c \in Clients, c # peer, Alone(c)
  PROVE  HandshakeInv' /\ MessageInv'
<1>1. CASE peer \notin Clients
  BY <1>1 DEF Alone, HandshakeInv, MessageInv
<1>2. CASE peer \in Clients
  <2>1. /\ c # Server /\ Conn(c) = c
        /\ peer \in Processes \ {c} /\ Server \in Processes \ {c} /\ peer \in Clients \ {Conn(c)}
    BY <1>2, SslHelloAssumption DEF Processes, Conn
  <2>2. /\ status'[peer] = status[peer] /\ step'[peer] = step[peer]
        /\ status'[Server] = status[Server] /\ step'[Server] = step[Server]
        /\ peer \in talked' <=> peer \in talked
        /\ Server \in talked' <=> Server \in talked
        /\ wire'[peer] = wire[peer] /\ end'[peer] = end[peer]
        /\ peer' = peer /\ version' = version /\ talks' = talks
    BY <2>1 DEF Alone, Setting
  <2>3. Handshake(peer)' = Handshake(peer) /\ Handshake(Server)' = Handshake(Server)
    BY <2>2 DEF Handshake, SSL_accept, SSL_connect
  <2>4. /\ GivenUp(peer)' <=> GivenUp(peer)
        /\ GivenUp(Server)' <=> GivenUp(Server)
    BY <2>2 DEF GivenUp
  <2>5. /\ Established(peer)' <=> Established(peer)
        /\ Established(Server)' <=> Established(Server)
    BY <2>2, <2>3 DEF Established
  <2>6. /\ Running(peer)' <=> Running(peer)
        /\ Running(Server)' <=> Running(Server)
    BY <2>2 DEF Running
  <2>7. /\ ToServer(peer)' = ToServer(peer) /\ ToClient(peer)' = ToClient(peer)
        /\ Open(peer, "client")' <=> Open(peer, "client")
        /\ Open(peer, "server")' <=> Open(peer, "server")
    BY <2>2 DEF ToServer, ToClient, Open
  <2>8. \A k, j, up, down : At(peer, k, j, up, down)' <=> At(peer, k, j, up, down)
    BY <2>2, <2>7 DEF At
  <2>9. Greeting(peer) => Greeting(peer)'
    BY <2>6, <2>7, <2>8 DEF Greeting
  <2>10. ClientLast(peer) => ClientLast(peer)'
    BY <2>2, <2>5, <2>6, <2>7, <2>8 DEF ClientLast
  <2>11. ServerLast(peer) => ServerLast(peer)'
    BY <2>2, <2>5, <2>6, <2>7 DEF ServerLast
  <2>12. HandshakeInv'
    BY <1>2, <2>2, <2>4, <2>5, <2>9, <2>10, <2>11 DEF HandshakeInv
  <2>13. MessageInv'
    BY <1>2, <2>2, <2>4, <2>7, <2>8 DEF MessageInv
  <2>14. QED  BY <2>12, <2>13
<1>3. QED  BY <1>1, <1>2

\* The other clients are as they were when the server or the accepted client
\* has taken a step.
LEMMA UnacceptedStays ==
  ASSUME HelloTypeOK, UnacceptedInv, NEW p \in Processes, p \in {Server, peer}, Alone(p),
         status'[Server] \in {"start", "accept"} => status[Server] \in {"start", "accept"}
  PROVE  UnacceptedInv'
<1> SUFFICES ASSUME NEW c \in Clients, c # peer
             PROVE  /\ step'[c] <= 2 /\ ToClient(c)' = <<>> /\ c \notin talked'
                    /\ status'[Server] \in {"start", "accept"} /\ ~GivenUp(c)' =>
                         /\ Open(c, "server")' /\ Open(c, "client")'
                         /\ status'[c] = "start" \/ Running(c)'
                         /\ ToServer(c)' = IF step'[c] = 1 THEN <<>> ELSE <<"ClientHello">>
  BY DEF UnacceptedInv, Alone
<1>1. c \in Processes \ {p} /\ c \in Clients \ {Conn(p)} /\ c \in Clients \ {peer}
  BY SslHelloAssumption DEF Processes, Conn
<1>2. /\ status'[c] = status[c] /\ step'[c] = step[c] /\ (c \in talked' <=> c \in talked)
      /\ wire'[c] = wire[c] /\ end'[c] = end[c]
  BY <1>1 DEF Alone
<1>3. QED  BY <1>1, <1>2 DEF UnacceptedInv, ToServer, ToClient, Open, Running, GivenUp

\* The statuses a step of p keeps in order.
LEMMA StatusStays ==
  ASSUME HelloTypeOK, StatusInv, NEW p \in Processes, Setting, UNCHANGED <<peer, queue>>,
         StepTypes(p), status'[p] \notin {"start", "accept"},
         status'[p] \in {"context", "run", "close", "exit0"} => status[p] \in {"context", "run", "close"},
         status'[p] = "context" => step'[p] = 1,
         status'[p] = "run" => step'[p] <= Len(Calls(p))
  PROVE  StatusInv'
<1>1. \A q \in Processes \ {p} : status'[q] = status[q] /\ step'[q] = step[q]
  BY DEF StepTypes, HelloTypeOK
<1>2. \A q \in Processes : Calls(q)' = Calls(q)
  BY SettingStays
<1>3. Server \in Processes /\ \A c \in Clients : c \in Processes /\ c # Server
  BY SslHelloAssumption DEF Processes
<1>4. /\ status'[Server] \in {"start", "accept"} => status[Server] \in {"start", "accept"}
      /\ status'[Server] \in {"context", "run", "close", "exit0"} =>
           status[Server] \in {"context", "run", "close", "exit0"}
  BY <1>1, <1>3
<1>5. \A q \in Processes : /\ status'[q] \in {"start", "accept", "context"} => step'[q] = 1
                           /\ status'[q] = "run" => step'[q] <= Len(Calls(q)')
  BY <1>1, <1>2 DEF StatusInv
<1>6. \A c \in Clients : /\ status'[c] # "accept"
                         /\ c = peer \/ c \in Range(queue) => status'[c] # "start"
  BY <1>1, <1>3 DEF StatusInv
<1>7. QED  BY <1>4, <1>5, <1>6 DEF StatusInv, Range

-----------------------------------------------------------------------------
(***************************************************************************)
(* What the calls do.                                                      *)
(***************************************************************************)

\* A process that has not given up and has called something is on a connection.
LEMMA RunsOnConnection ==
  ASSUME HelloTypeOK, StatusInv, NEW p \in Processes, status[p] \in {"context", "run", "close"}
  PROVE  /\ Conn(p) \in Clients /\ SideOf(p) \in Side /\ Other(p) \in Side
         /\ SideOf(p) # Other(p)
  BY SslHelloAssumption DEF StatusInv, Conn, Processes, SideOf, Other, Side

\* A call that succeeds leads to the next one, or to the end.
LEMMA ContinueStep ==
  ASSUME HelloTypeOK, StatusInv, NEW p \in Processes, status[p] = "run", Continue(p)
  PROVE  /\ step' = [step EXCEPT ![p] = step'[p]] /\ step'[p] = step[p] + 1
         /\ status' = [status EXCEPT ![p] = status'[p]]
         /\ status'[p] = IF step[p] = Len(Calls(p)) THEN "close" ELSE "run"
         /\ status'[p] = "run" => step'[p] <= Len(Calls(p))
         /\ talked' = IF Calls(p)[step[p]].msg = "message" THEN talked \cup {p} ELSE talked
<1>1. step[p] \in Nat /\ Len(Calls(p)) \in Nat /\ step[p] <= Len(Calls(p))
  <2>1. Calls(p) \in Seq(Call)
    BY LaterCalls
  <2>2. Len(Calls(p)) \in Nat
    BY <2>1
  <2>3. step[p] \in Nat
    BY DEF HelloTypeOK
  <2>4. QED  BY <2>2, <2>3 DEF StatusInv
<1>2. step' = [step EXCEPT ![p] = step[p] + 1] /\ step'[p] = step[p] + 1
  BY DEF Continue, HelloTypeOK
<1>3. /\ status' = [status EXCEPT ![p] = status'[p]]
      /\ status'[p] = IF step[p] = Len(Calls(p)) THEN "close" ELSE "run"
  BY DEF Continue, HelloTypeOK
<1>4. status'[p] = "run" => step'[p] <= Len(Calls(p))
  BY <1>1, <1>2, <1>3
<1>5. step' = [step EXCEPT ![p] = step'[p]]
  BY <1>2
<1>6. talked' = IF Calls(p)[step[p]].msg = "message" THEN talked \cup {p} ELSE talked
  BY DEF Continue
<1>7. QED  BY <1>2, <1>3, <1>4, <1>5, <1>6

\* A call that fails leads to the end, after the handshake perhaps by way of
\* the last call.
LEMMA FailStep ==
  ASSUME HelloTypeOK, StatusInv, NEW p \in Processes, status[p] = "run", Fail(p)
  PROVE  /\ step' = [step EXCEPT ![p] = step'[p]]
         /\ status' = [status EXCEPT ![p] = status'[p]]
         /\ talked' = talked
         /\ \/ status'[p] = "close" /\ step'[p] = step[p]
            \/ /\ status'[p] = "run" /\ Established(p)
               /\ step[p] < Len(Calls(p)) /\ step'[p] = Len(Calls(p))
<1>1. CASE status' = [status EXCEPT ![p] = "close"] /\ UNCHANGED step
  BY <1>1 DEF Fail, HelloTypeOK
<1>2. CASE /\ Established(p) /\ step[p] < Len(Calls(p))
           /\ step' = [step EXCEPT ![p] = Len(Calls(p))]
           /\ UNCHANGED status
  BY <1>2 DEF Fail, HelloTypeOK
<1>3. QED  BY <1>1, <1>2 DEF Fail

\* Where a process that runs is.
LEMMA StepInCalls ==
  ASSUME HelloTypeOK, StatusInv, NEW p \in Processes, status[p] = "run"
  PROVE  step[p] \in 1..Len(Calls(p)) /\ Len(Calls(p)) \in Nat
<1>1. Calls(p) \in Seq(Call)
  BY LaterCalls
<1>2. Len(Calls(p)) \in Nat
  BY <1>1
<1>3. step[p] \in Nat \ {0}
  BY DEF HelloTypeOK
<1>4. QED  BY <1>2, <1>3 DEF StatusInv

\* A process is about to read, or to write; the message of that call.
Reading(p) == Calls(p)[step[p]].do = "get"
Writing(p) == Calls(p)[step[p]].do = "put"
Bears(p, m) == Calls(p)[step[p]].msg = m

\* A call bears one message.
LEMMA BearsOne ==
  ASSUME NEW p, NEW m, NEW n, Bears(p, m), m # n
  PROVE  ~Bears(p, n)
  BY DEF Bears

\* What call of its list a client is at, when it reads and when it writes.
LEMMA ClientAt ==
  ASSUME HelloTypeOK, StatusInv, NEW c \in Clients, status[c] = "run"
  PROVE  /\ Reading(c) =>
              \/ step[c] = 2 /\ Bears(c, "ServerHello")
              \/ version = "1.2" /\ step[c] = 4 /\ Bears(c, "ServerFinished")
         /\ Writing(c) =>
              \/ step[c] = 1 /\ Bears(c, "ClientHello")
              \/ step[c] = 3 /\ Bears(c, "ClientFinished")
              \/ /\ step[c] = Len(Handshake(c)) + 1 /\ c \in talks
                 /\ Bears(c, "message")
              \/ /\ step[c] = Len(Calls(c)) /\ step[c] > Len(Handshake(c))
                 /\ Bears(c, "CloseNotify")
<1>1. c \in Processes /\ version \in {"1.2", "1.3"}
  BY DEF Processes, HelloTypeOK
<1>2. step[c] \in 1..Len(Calls(c))
  BY <1>1, StepInCalls
<1>3. /\ Len(Handshake(c)) = IF version = "1.2" THEN 4 ELSE 3
      /\ Len(Calls(c)) = Len(Handshake(c)) + (IF c \in talks THEN 2 ELSE 1)
  BY ClientTable
<1>4. \/ step[c] = 1
      \/ step[c] = 2
      \/ step[c] = 3
      \/ version = "1.2" /\ step[c] = 4
      \/ c \in talks /\ step[c] = Len(Handshake(c)) + 1
      \/ step[c] = Len(Calls(c)) /\ step[c] > Len(Handshake(c))
  BY <1>1, <1>2, <1>3
<1>5. QED  BY <1>4, ClientTable DEF Is, Reading, Writing, Bears

\* What call of its list the server is at, when it reads and when it writes.
LEMMA ServerAt ==
  ASSUME HelloTypeOK, StatusInv, status[Server] = "run"
  PROVE  /\ Reading(Server) =>
              \/ step[Server] = 1 /\ Bears(Server, "ClientHello")
              \/ step[Server] = 3 /\ Bears(Server, "ClientFinished")
              \/ /\ step[Server] = Len(Handshake(Server)) + 1 /\ Server \in talks
                 /\ Bears(Server, "message")
         /\ Writing(Server) =>
              \/ step[Server] = 2 /\ Bears(Server, "ServerHello")
              \/ /\ version = "1.2" /\ step[Server] = 4
                 /\ Bears(Server, "ServerFinished")
              \/ /\ version = "1.3" /\ step[Server] \in {4, 5}
                 /\ Bears(Server, "ticket")
              \/ /\ step[Server] = Len(Calls(Server)) /\ step[Server] > Len(Handshake(Server))
                 /\ Bears(Server, "CloseNotify")
<1>1. Server \in Processes /\ version \in {"1.2", "1.3"}
  BY DEF Processes, HelloTypeOK
<1>2. step[Server] \in 1..Len(Calls(Server))
  BY <1>1, StepInCalls
<1>3. /\ Len(Handshake(Server)) = IF version = "1.2" THEN 4 ELSE 5
      /\ Len(Calls(Server)) = Len(Handshake(Server)) + (IF Server \in talks THEN 2 ELSE 1)
  BY ServerTable
<1>4. \/ step[Server] = 1
      \/ step[Server] = 2
      \/ step[Server] = 3
      \/ version = "1.2" /\ step[Server] = 4
      \/ version = "1.3" /\ step[Server] = 4
      \/ version = "1.3" /\ step[Server] = 5
      \/ Server \in talks /\ step[Server] = Len(Handshake(Server)) + 1
      \/ step[Server] = Len(Calls(Server)) /\ step[Server] > Len(Handshake(Server))
  BY <1>1, <1>2, <1>3
<1>5. QED  BY <1>4, ServerTable DEF Is, Reading, Writing, Bears

\* A call of p has succeeded, or it has failed.
Went(p) ==
  /\ step'[p] = step[p] + 1
  /\ status'[p] = IF step[p] = Len(Calls(p)) THEN "close" ELSE "run"
  /\ p \in talked' <=> (p \in talked \/ Bears(p, "message"))

Failed(p) ==
  /\ p \in talked' <=> p \in talked
  /\ \/ status'[p] = "close" /\ step'[p] = step[p]
     \/ /\ status'[p] = "run" /\ Established(p)
        /\ step[p] < Len(Calls(p)) /\ step'[p] = Len(Calls(p))

\* What is the same for every call, given what it does to the connection.
LEMMA CallStep ==
  ASSUME HelloTypeOK, StatusInv, NEW p \in Processes, status[p] = "run",
         Continue(p) \/ Fail(p), Setting, UNCHANGED <<peer, queue>>,
         wire' \in [Clients -> [Side -> Seq(Message)]],
         end' \in [Clients -> [Side -> EndState]],
         \A c \in Clients \ {Conn(p)} : wire'[c] = wire[c] /\ end'[c] = end[c]
  PROVE  /\ Alone(p) /\ HelloTypeOK' /\ StatusInv'
         /\ Continue(p) => Went(p)
         /\ Fail(p) => Failed(p)
<1>1. /\ step' = [step EXCEPT ![p] = step'[p]] /\ status' = [status EXCEPT ![p] = status'[p]]
      /\ step'[p] \in Nat \ {0} /\ status'[p] \in {"run", "close"}
      /\ talked' \in {talked, talked \cup {p}}
      /\ status'[p] = "run" => step'[p] <= Len(Calls(p))
  <2>1. step[p] \in 1..Len(Calls(p)) /\ Len(Calls(p)) \in Nat
    BY StepInCalls
  <2>2. CASE Continue(p)
    BY <2>1, <2>2, ContinueStep
  <2>3. CASE Fail(p)
    BY <2>1, <2>3, FailStep
  <2>4. QED  BY <2>2, <2>3
<1>2. StepTypes(p)
  BY <1>1 DEF StepTypes, Status
<1>3. Alone(p)
  BY <1>1 DEF Alone, HelloTypeOK
<1>4. HelloTypeOK'
  BY <1>2, TypesStay
<1>5. StatusInv'
  BY <1>1, <1>2, StatusStays
<1>6. Continue(p) => Went(p)
  <2>1. HAVE Continue(p)
  <2>2. talked' = IF Calls(p)[step[p]].msg = "message" THEN talked \cup {p} ELSE talked
    BY <2>1, ContinueStep
  <2>3. QED  BY <2>1, <2>2, ContinueStep DEF Went, Bears
<1>7. Fail(p) => Failed(p)
  BY FailStep DEF Failed
<1>8. QED  BY <1>3, <1>4, <1>5, <1>6, <1>7

\* What has come is what the process waits for.
Expected(p) == Bears(p, Head(Arrived(p)))

\* A process reads a record.
LEMMA GetRecordStep ==
  ASSUME HelloTypeOK, StatusInv, NEW p \in Processes, GetRecord(p)
  PROVE  /\ status[p] = "run" /\ Reading(p) /\ Arrived(p) # <<>>
         /\ Alone(p) /\ HelloTypeOK' /\ StatusInv'
         /\ wire'[Conn(p)][SideOf(p)] = Tail(Arrived(p))
         /\ wire'[Conn(p)][Other(p)] = wire[Conn(p)][Other(p)]
         /\ end' = end
         /\ Expected(p) => Went(p)
         /\ ~Expected(p) => Failed(p)
<1> DEFINE c == Conn(p)
           s == SideOf(p)
<1>1. status[p] = "run" /\ Reading(p) /\ Arrived(p) # <<>>
  BY DEF GetRecord, Runs, Reading
<1>2. c \in Clients /\ s \in Side /\ Other(p) \in Side /\ s # Other(p)
  BY <1>1, RunsOnConnection
<1>3. IF Expected(p) THEN Continue(p) ELSE Fail(p)
  BY DEF GetRecord, Expected, Bears
<1>4. Setting /\ UNCHANGED <<peer, queue>> /\ end' = end
  BY DEF GetRecord, Setting, setting
<1>5. wire \in [Clients -> [Side -> Seq(Message)]] /\ end \in [Clients -> [Side -> EndState]]
  BY DEF HelloTypeOK, EndState
<1>6. wire' = [wire EXCEPT ![c][s] = Tail(wire[c][s])] /\ wire[c][s] # <<>>
  BY <1>1 DEF GetRecord, Arrived
<1> HIDE DEF c, s
<1>7. Tail(wire[c][s]) \in Seq(Message)
  BY <1>2, <1>5, <1>6
<1>8. /\ wire' \in [Clients -> [Side -> Seq(Message)]]
      /\ \A d \in Clients \ {c} : wire'[d] = wire[d]
      /\ wire'[c][s] = Tail(wire[c][s]) /\ wire'[c][Other(p)] = wire[c][Other(p)]
  BY <1>2, <1>5, <1>6, <1>7
<1>9. \A d \in Clients \ {Conn(p)} : wire'[d] = wire[d] /\ end'[d] = end[d]
  BY <1>4, <1>8 DEF c
<1>10. Continue(p) \/ Fail(p)
  BY <1>3
<1>11. /\ Alone(p) /\ HelloTypeOK' /\ StatusInv'
       /\ Continue(p) => Went(p)
       /\ Fail(p) => Failed(p)
  BY <1>1, <1>4, <1>5, <1>8, <1>9, <1>10, CallStep
<1>12. QED  BY <1>1, <1>3, <1>4, <1>8, <1>11 DEF c, s, Arrived

\* A process reads the end of the stream, or an error.
LEMMA GetNothingStep ==
  ASSUME HelloTypeOK, StatusInv, NEW p \in Processes, GetNothing(p)
  PROVE  /\ status[p] = "run" /\ Reading(p)
         /\ \/ Arrived(p) = <<>> /\ Mine(p) \in {"fin", "gone"}
            \/ Mine(p) = "rst"
         /\ Alone(p) /\ HelloTypeOK' /\ StatusInv'
         /\ wire' = wire
         /\ end'[Conn(p)][Other(p)] = end[Conn(p)][Other(p)]
         /\ Failed(p)
<1> DEFINE c == Conn(p)
           s == SideOf(p)
<1>1. /\ status[p] = "run" /\ Reading(p) /\ Fail(p)
      /\ \/ Arrived(p) = <<>> /\ Mine(p) \in {"fin", "gone"}
         \/ Mine(p) = "rst"
  BY DEF GetNothing, Runs, Reading
<1>2. c \in Clients /\ s \in Side /\ Other(p) \in Side /\ s # Other(p)
  BY <1>1, RunsOnConnection
<1>3. Setting /\ UNCHANGED <<peer, queue>> /\ wire' = wire
  BY DEF GetNothing, Setting, setting
<1>4. wire \in [Clients -> [Side -> Seq(Message)]] /\ end \in [Clients -> [Side -> EndState]]
  BY DEF HelloTypeOK, EndState
<1>5. end' = end \/ end' = [end EXCEPT ![c][s] = "gone"]
  BY DEF GetNothing
<1> HIDE DEF c, s
<1>6. /\ end' \in [Clients -> [Side -> EndState]]
      /\ \A d \in Clients \ {c} : end'[d] = end[d]
      /\ end'[c][Other(p)] = end[c][Other(p)]
  <2>1. "gone" \in EndState
    BY DEF EndState
  <2>2. CASE end' = end
    BY <1>4, <2>2
  <2>3. CASE end' = [end EXCEPT ![c][s] = "gone"]
    BY <1>2, <1>4, <2>1, <2>3
  <2>4. QED  BY <1>5, <2>2, <2>3
<1>7. \A d \in Clients \ {Conn(p)} : wire'[d] = wire[d] /\ end'[d] = end[d]
  BY <1>3, <1>6 DEF c
<1>8. wire' \in [Clients -> [Side -> Seq(Message)]]
  BY <1>3, <1>4
<1>9. Alone(p) /\ HelloTypeOK' /\ StatusInv' /\ Failed(p)
  BY <1>1, <1>3, <1>6, <1>7, <1>8, CallStep
<1>10. QED  BY <1>1, <1>3, <1>6, <1>9 DEF c

\* A process sends a message that its connection takes.
Sends(p, m) == wire'[Conn(p)][Other(p)] = Append(wire[Conn(p)][Other(p)], m)

\* A process writes.
LEMMA PutStep ==
  ASSUME HelloTypeOK, StatusInv, NEW p \in Processes, Put(p)
  PROVE  /\ status[p] = "run" /\ Writing(p)
         /\ Alone(p) /\ HelloTypeOK' /\ StatusInv'
         /\ wire'[Conn(p)][SideOf(p)] = Arrived(p)
         /\ \A m : Mine(p) = "open" /\ Bears(p, m) => Sends(p, m)
         /\ end'[Conn(p)][Other(p)] = end[Conn(p)][Other(p)]
         /\ Mine(p) = "open" => end'[Conn(p)][SideOf(p)] = "open"
         /\ Mine(p) # "rst" \/ Bears(p, "ticket") => Went(p)
         /\ Went(p) \/ Failed(p)
<1> DEFINE c == Conn(p)
           s == SideOf(p)
           o == Other(p)
           m == Calls(p)[step[p]].msg
<1>1. status[p] = "run" /\ Writing(p)
  BY DEF Put, Runs, Writing
<1>2. c \in Clients /\ s \in Side /\ o \in Side /\ s # o
  BY <1>1, RunsOnConnection
<1>3. /\ Continue(p) \/ Fail(p)
      /\ Mine(p) # "rst" \/ Bears(p, "ticket") => Continue(p)
  BY DEF Put, Bears
<1>4. Setting /\ UNCHANGED <<peer, queue>>
  BY DEF Put, Setting, setting
<1>5. wire \in [Clients -> [Side -> Seq(Message)]] /\ end \in [Clients -> [Side -> EndState]]
  BY DEF HelloTypeOK, EndState
<1>6. wire' = IF Mine(p) # "open" THEN wire ELSE [wire EXCEPT ![c][o] = Append(wire[c][o], m)]
  BY DEF Put
<1>7. \E after \in AfterSend(end[c][s]) : end' = [end EXCEPT ![c][s] = after]
  BY DEF Put, Mine
<1>8. m \in Message
  BY <1>1, StepInCalls, CallsCarry
<1>9. Mine(p) = end[c][s] /\ Arrived(p) = wire[c][s]
  BY DEF Mine, Arrived
<1>0. \A n : Bears(p, n) => n = m
  BY DEF Bears
<1> HIDE DEF c, s, o, m
<1>10. Append(wire[c][o], m) \in Seq(Message)
  BY <1>2, <1>5, <1>8
<1>11. /\ wire' \in [Clients -> [Side -> Seq(Message)]]
       /\ \A d \in Clients \ {c} : wire'[d] = wire[d]
       /\ wire'[c][s] = wire[c][s]
       /\ wire'[c][o] = IF Mine(p) = "open" THEN Append(wire[c][o], m) ELSE wire[c][o]
  <2>1. CASE Mine(p) = "open"
    BY <1>2, <1>5, <1>6, <1>10, <2>1
  <2>2. CASE Mine(p) # "open"
    BY <1>2, <1>5, <1>6, <2>2
  <2>3. QED  BY <2>1, <2>2
<1>12. PICK after \in AfterSend(end[c][s]) : end' = [end EXCEPT ![c][s] = after]
  BY <1>7
<1>13. after \in EndState /\ (end[c][s] = "open" => after = "open")
  <2>1. end[c][s] \in EndState
    BY <1>2, <1>5
  <2>2. QED  BY <1>12, <2>1 DEF AfterSend, EndState
<1>14. /\ end' \in [Clients -> [Side -> EndState]]
       /\ \A d \in Clients \ {c} : end'[d] = end[d]
       /\ end'[c][o] = end[c][o] /\ (end[c][s] = "open" => end'[c][s] = "open")
  BY <1>2, <1>5, <1>12, <1>13
<1>15. \A d \in Clients \ {Conn(p)} : wire'[d] = wire[d] /\ end'[d] = end[d]
  BY <1>11, <1>14 DEF c
<1>16. /\ Alone(p) /\ HelloTypeOK' /\ StatusInv'
       /\ Continue(p) => Went(p)
       /\ Fail(p) => Failed(p)
  BY <1>1, <1>3, <1>4, <1>11, <1>14, <1>15, CallStep
<1>17. Mine(p) = "open" => wire'[c][o] = Append(wire[c][o], m)
  BY <1>11
<1>18. \A n : Mine(p) = "open" /\ Bears(p, n) => Sends(p, n)
  BY <1>0, <1>17, Zenon DEF Sends, c, o
<1>19. QED  BY <1>1, <1>3, <1>9, <1>11, <1>14, <1>16, <1>18 DEF c, s, o

-----------------------------------------------------------------------------
(***************************************************************************)
(* The accepted client takes a step.                                       *)
(***************************************************************************)

\* What the server has done, and what it sees, when only its client has moved.
LEMMA ClientMoves ==
  ASSUME HelloTypeOK, NEW c \in Clients, c = peer, Alone(c)
  PROVE  /\ peer' = c /\ version' = version /\ talks' = talks
         /\ status'[Server] = status[Server] /\ step'[Server] = step[Server]
         /\ Server \in talked' <=> Server \in talked
         /\ Conn(c) = c /\ SideOf(c) = "client" /\ Other(c) = "server" /\ c # Server
         /\ GivenUp(Server)' <=> GivenUp(Server)
         /\ Running(Server)' <=> Running(Server)
         /\ Established(Server)' <=> Established(Server)
         /\ Established(c)' <=> step'[c] > Len(Handshake(c))
<1>1. c # Server /\ Server \in Processes \ {c}
  BY SslHelloAssumption DEF Processes
<1>2. /\ peer' = c /\ version' = version /\ talks' = talks
      /\ status'[Server] = status[Server] /\ step'[Server] = step[Server]
      /\ Server \in talked' <=> Server \in talked
  BY <1>1 DEF Alone, Setting
<1>3. Handshake(c)' = Handshake(c) /\ Handshake(Server)' = Handshake(Server)
  BY <1>2 DEF Handshake, SSL_accept, SSL_connect
<1>4. Conn(c) = c /\ SideOf(c) = "client" /\ Other(c) = "server"
  BY <1>1 DEF Conn, SideOf, Other
<1>5. QED  BY <1>1, <1>2, <1>3, <1>4 DEF GivenUp, Running, Established

\* Only one record under way.
LEMMA OneRecord ==
  ASSUME NEW m
  PROVE  /\ <<m>> # <<>> /\ Head(<<m>>) = m /\ Tail(<<m>>) = <<>>
         /\ Append(<<>>, m) = <<m>>
  OBVIOUS

\* It reads a record.
LEMMA ClientReads ==
  ASSUME HelloInv, NEW c \in Clients, c = peer, GetRecord(c)
  PROVE  HandshakeInv' /\ MessageInv'
<1>0. HelloTypeOK /\ StatusInv /\ HandshakeInv /\ MessageInv /\ c \in Processes
  BY DEF HelloInv, Processes
<1>1. /\ status[c] = "run" /\ Reading(c) /\ Arrived(c) # <<>> /\ Alone(c)
      /\ end' = end
  BY <1>0, GetRecordStep
<1>2. /\ wire'[Conn(c)][SideOf(c)] = Tail(Arrived(c))
      /\ wire'[Conn(c)][Other(c)] = wire[Conn(c)][Other(c)]
      /\ Expected(c) => Went(c)
  BY <1>0, GetRecordStep
<1>3. /\ peer' = c /\ version' = version /\ talks' = talks
      /\ status'[Server] = status[Server] /\ step'[Server] = step[Server]
      /\ Server \in talked' <=> Server \in talked
      /\ Conn(c) = c /\ SideOf(c) = "client" /\ Other(c) = "server" /\ c # Server
      /\ GivenUp(Server)' <=> GivenUp(Server)
      /\ Running(Server)' <=> Running(Server)
      /\ Established(Server)' <=> Established(Server)
      /\ Established(c)' <=> step'[c] > Len(Handshake(c))
  BY <1>0, <1>1, ClientMoves
<1>4. /\ ToClient(c) # <<>> /\ ToClient(c)' = Tail(ToClient(c)) /\ ToServer(c)' = ToServer(c)
  BY <1>1, <1>2, <1>3 DEF Arrived, ToClient, ToServer
<1>5. \/ step[c] = 2 /\ Bears(c, "ServerHello")
      \/ version = "1.2" /\ step[c] = 4 /\ Bears(c, "ServerFinished")
  BY <1>0, <1>1, ClientAt
<1>6. /\ Len(Handshake(c)) = IF version = "1.2" THEN 4 ELSE 3
      /\ Len(Calls(c)) = Len(Handshake(c)) + (IF c \in talks THEN 2 ELSE 1)
      /\ version \in {"1.2", "1.3"}
  BY <1>0, ClientTable DEF HelloTypeOK
<1>7. CASE GivenUp(Server)
  BY <1>3, <1>7 DEF HandshakeInv, MessageInv
<1>8. CASE ~GivenUp(Server) /\ Greeting(c)
  <2>0. step[c] = 2 /\ step[Server] = 3 /\ ToServer(c) = <<>> /\ ToClient(c) = <<"ServerHello">>
    BY <1>4, <1>5, <1>8 DEF Greeting, At
  <2>1. /\ step[c] = 2 /\ step[Server] = 3 /\ ToServer(c) = <<>>
        /\ Head(ToClient(c)) = "ServerHello" /\ Tail(ToClient(c)) = <<>>
    BY <2>0, OneRecord, Zenon
  <2>2. Bears(c, "ServerHello") /\ ~Bears(c, "message")
    BY <1>5, <2>1, BearsOne
  <2>3. Went(c)
    BY <1>2, <1>3, <2>1, <2>2 DEF Expected, Arrived, ToClient
  <2>4. step'[c] = 3 /\ status'[c] = "run" /\ (c \in talked' <=> c \in talked)
    BY <1>6, <2>1, <2>2, <2>3 DEF Went
  <2>5. At(c, 3, 3, <<>>, <<>>)'
    BY <1>3, <1>4, <2>1, <2>4 DEF At
  <2>6. Greeting(c)'
    BY <1>1, <1>3, <1>8, <2>4, <2>5 DEF Greeting, Running, Open
  <2>7. MessageInv'
    BY <1>0, <1>3, <1>8, <2>1, <2>4 DEF MessageInv
  <2>8. QED  BY <1>3, <2>6, <2>7 DEF HandshakeInv
<1>9. CASE ~GivenUp(Server) /\ ClientLast(c)
  <2>1. /\ version = "1.2" /\ step[c] = 4 /\ Established(Server)
        /\ Head(ToClient(c)) = "ServerFinished" /\ ToServer(c) = <<>> /\ Open(c, "server")
        /\ Server \in talks =>
             /\ status[Server] = "run" /\ Open(c, "client")
             /\ step[Server] = 5 /\ Tail(ToClient(c)) = <<>>
    BY <1>4, <1>5, <1>9, OneRecord DEF ClientLast, At
  <2>2. Bears(c, "ServerFinished") /\ ~Bears(c, "message")
    BY <1>5, <2>1, BearsOne
  <2>3. Went(c)
    BY <1>2, <1>3, <2>1, <2>2 DEF Expected, Arrived, ToClient
  <2>4. step'[c] = 5 /\ (c \in talked' <=> c \in talked)
    BY <2>1, <2>2, <2>3 DEF Went
  <2>5. Established(c)' /\ Established(Server)'
    BY <1>3, <1>6, <2>1, <2>4
  <2>6. ASSUME Server \in talks
        PROVE  At(c, 5, 5, <<>>, <<>>)' /\ Open(c, "client")' /\ Open(c, "server")'
    BY <1>1, <1>3, <1>4, <2>1, <2>4, <2>6 DEF At, Open
  <2>7. MessageInv'
    <3> SUFFICES ASSUME version' = "1.2", Server \in talks'
                 PROVE  MessageInv'
      BY DEF MessageInv
    <3>1. c \notin talked'
      BY <1>0, <1>3, <1>9, <2>1, <2>4 DEF MessageInv
    <3>2. QED  BY <1>3, <2>1, <2>4, <2>6, <3>1 DEF MessageInv
  <2>8. QED  BY <1>3, <2>5, <2>7 DEF HandshakeInv
<1>10. CASE ServerLast(c)
  BY <1>5, <1>6, <1>10 DEF ServerLast, Established
<1>11. CASE Established(c) /\ Established(Server)
  BY <1>5, <1>6, <1>11 DEF Established
<1>12. ~GivenUp(c)
  BY <1>1 DEF GivenUp
<1>13. QED  BY <1>0, <1>7, <1>8, <1>9, <1>10, <1>11, <1>12 DEF HandshakeInv

\* It reads the end of the stream, or an error: only once the server has given
\* up.
LEMMA ClientReadsNothing ==
  ASSUME HelloInv, NEW c \in Clients, c = peer, GetNothing(c)
  PROVE  HandshakeInv' /\ MessageInv'
<1>0. HelloTypeOK /\ StatusInv /\ HandshakeInv /\ MessageInv /\ c \in Processes
  BY DEF HelloInv, Processes
<1>1. /\ status[c] = "run" /\ Reading(c) /\ Alone(c)
      /\ \/ Arrived(c) = <<>> /\ Mine(c) \in {"fin", "gone"}
         \/ Mine(c) = "rst"
  BY <1>0, GetNothingStep
<1>3. /\ peer' = c
      /\ Conn(c) = c /\ SideOf(c) = "client"
      /\ GivenUp(Server)' <=> GivenUp(Server)
  BY <1>0, <1>1, ClientMoves
<1>4. /\ ~Open(c, "client")
      /\ ToClient(c) = <<>> \/ end[c]["client"] \notin {"open", "fin"}
  BY <1>1, <1>3 DEF Arrived, Mine, Open, ToClient
<1>5. step[c] = 2 \/ (version = "1.2" /\ step[c] = 4)
  BY <1>0, <1>1, ClientAt
<1>6. Len(Handshake(c)) = IF version = "1.2" THEN 4 ELSE 3
  BY <1>0, ClientTable
<1>7. ~Greeting(c)
  BY <1>4 DEF Greeting
<1>8. ~ClientLast(c)
  BY <1>4 DEF ClientLast
<1>9. ~Established(c)
  BY <1>5, <1>6 DEF Established
<1>10. ~GivenUp(c) /\ ~ServerLast(c)
  BY <1>1, <1>9 DEF GivenUp, ServerLast
<1>11. GivenUp(Server)
  BY <1>0, <1>7, <1>8, <1>9, <1>10 DEF HandshakeInv
<1>12. QED  BY <1>3, <1>11 DEF HandshakeInv, MessageInv

\* It writes.
LEMMA ClientWrites ==
  ASSUME HelloInv, NEW c \in Clients, c = peer, Put(c)
  PROVE  HandshakeInv' /\ MessageInv'
<1>0. HelloTypeOK /\ StatusInv /\ HandshakeInv /\ MessageInv /\ c \in Processes
  BY DEF HelloInv, Processes
<1>1. /\ status[c] = "run" /\ Writing(c) /\ Alone(c)
      /\ wire'[Conn(c)][SideOf(c)] = Arrived(c)
      /\ \A m : Mine(c) = "open" /\ Bears(c, m) => Sends(c, m)
      /\ end'[Conn(c)][Other(c)] = end[Conn(c)][Other(c)]
      /\ Mine(c) = "open" => end'[Conn(c)][SideOf(c)] = "open"
      /\ Mine(c) # "rst" => Went(c)
      /\ Went(c) \/ Failed(c)
  BY <1>0, PutStep
<1>3. /\ peer' = c /\ version' = version /\ talks' = talks
      /\ status'[Server] = status[Server] /\ step'[Server] = step[Server]
      /\ Server \in talked' <=> Server \in talked
      /\ Conn(c) = c /\ SideOf(c) = "client" /\ Other(c) = "server" /\ c # Server
      /\ GivenUp(Server)' <=> GivenUp(Server)
      /\ Running(Server)' <=> Running(Server)
      /\ Established(Server)' <=> Established(Server)
      /\ Established(c)' <=> step'[c] > Len(Handshake(c))
  BY <1>0, <1>1, ClientMoves
<1>4. /\ ToClient(c)' = ToClient(c)
      /\ end'[c]["server"] = end[c]["server"]
      /\ Open(c, "server")' <=> Open(c, "server")
      /\ Open(c, "client") => Open(c, "client")' /\ Went(c)
      /\ \A m : Open(c, "client") /\ Bears(c, m) => ToServer(c)' = Append(ToServer(c), m)
  BY <1>1, <1>3 DEF Arrived, Mine, Open, ToClient, ToServer, Sends
<1>5. \/ step[c] = 1 /\ Bears(c, "ClientHello")
      \/ step[c] = 3 /\ Bears(c, "ClientFinished")
      \/ step[c] = Len(Handshake(c)) + 1 /\ c \in talks /\ Bears(c, "message")
      \/ step[c] = Len(Calls(c)) /\ step[c] > Len(Handshake(c)) /\ Bears(c, "CloseNotify")
  BY <1>0, <1>1, ClientAt
<1>6. /\ Len(Handshake(c)) = IF version = "1.2" THEN 4 ELSE 3
      /\ Len(Calls(c)) = Len(Handshake(c)) + (IF c \in talks THEN 2 ELSE 1)
      /\ version \in {"1.2", "1.3"} /\ step[c] \in Nat
  BY <1>0, ClientTable DEF HelloTypeOK
<1>7. CASE GivenUp(Server)
  BY <1>3, <1>7 DEF HandshakeInv, MessageInv
<1>8. CASE ~GivenUp(Server) /\ Greeting(c)
  <2>0. /\ Open(c, "client") /\ Open(c, "server") /\ Running(Server)
        /\ Went(c) /\ Open(c, "client")' /\ Open(c, "server")' /\ Running(Server)'
    BY <1>3, <1>4, <1>8 DEF Greeting
  <2>1. CASE step[c] = 1
    <3>1. Bears(c, "ClientHello") /\ ~Bears(c, "message")
      BY <1>5, <1>6, <2>1, BearsOne
    <3>2. At(c, 1, 1, <<>>, <<>>)
      BY <1>8, <2>1 DEF Greeting, At
    <3>3. step'[c] = 2 /\ status'[c] = "run" /\ (c \in talked' <=> c \in talked)
      BY <1>6, <2>0, <2>1, <3>1 DEF Went
    <3>4. ToServer(c)' = Append(ToServer(c), "ClientHello")
      BY <1>4, <2>0, <3>1
    <3>5. ToServer(c)' = <<"ClientHello">> /\ ToClient(c)' = <<>> /\ step'[Server] = 1
      BY <1>3, <1>4, <3>2, <3>4, OneRecord DEF At
    <3>6. Greeting(c)'
      BY <2>0, <3>3, <3>5 DEF Greeting, Running, At
    <3>7. MessageInv'
      BY <1>0, <1>3, <1>8, <2>1, <3>3 DEF MessageInv
    <3>8. QED  BY <1>3, <3>6, <3>7 DEF HandshakeInv
  <2>2. CASE step[c] = 3
    <3>1. Bears(c, "ClientFinished") /\ ~Bears(c, "message")
      BY <1>5, <1>6, <2>2, BearsOne
    <3>2. At(c, 3, 3, <<>>, <<>>)
      BY <1>8, <2>2 DEF Greeting, At
    <3>3. step'[c] = 4 /\ status'[c] = "run" /\ (c \in talked' <=> c \in talked)
      BY <1>6, <2>0, <2>2, <3>1 DEF Went
    <3>4. ToServer(c)' = Append(ToServer(c), "ClientFinished")
      BY <1>4, <2>0, <3>1
    <3>5. ToServer(c)' = <<"ClientFinished">> /\ ToClient(c)' = <<>> /\ step'[Server] = 3
      BY <1>3, <1>4, <3>2, <3>4, OneRecord DEF At
    <3>6. ClientLast(c)' \/ ServerLast(c)'
      <4>1. CASE version = "1.2"
        BY <1>3, <2>0, <3>3, <3>5, <4>1 DEF ClientLast, Running, At
      <4>2. CASE version = "1.3"
        <5>1. Established(c)' /\ end'[c]["server"] \in {"open", "fin"}
          BY <1>3, <1>6, <2>0, <3>3, <4>2 DEF Open
        <5>2. ToServer(c)' # <<>> /\ Head(ToServer(c)') = "ClientFinished"
          BY <3>5
        <5>3. QED  BY <1>3, <2>0, <3>5, <4>2, <5>1, <5>2 DEF ServerLast
      <4>3. QED  BY <1>6, <4>1, <4>2
    <3>7. MessageInv'
      BY <1>0, <1>3, <1>8, <2>2, <3>3 DEF MessageInv
    <3>8. QED  BY <1>3, <3>6, <3>7 DEF HandshakeInv
  <2>3. step[c] \in {1, 2, 3}
    BY <1>8 DEF Greeting, At
  <2>4. QED  BY <1>5, <1>6, <2>1, <2>2, <2>3
<1>9. CASE ~GivenUp(Server) /\ ClientLast(c)
  BY <1>5, <1>6, <1>9 DEF ClientLast, At
<1>10. step[c] > Len(Handshake(c)) => Established(c)' /\ step'[c] >= step[c]
  BY <1>1, <1>3, <1>6 DEF Went, Failed
<1>11. CASE ~GivenUp(Server) /\ ServerLast(c)
  <2>1. version = "1.3" /\ Established(c)' /\ Running(Server)'
    BY <1>3, <1>10, <1>11 DEF ServerLast, Established
  <2>2. CASE step[Server] \in {4, 5}
    BY <1>3, <2>1, <2>2 DEF ServerLast, HandshakeInv, MessageInv
  <2>3. CASE step[Server] \notin {4, 5}
    <3>1. /\ step[Server] = 3 /\ ToClient(c) = <<>> /\ ToServer(c) # <<>>
          /\ Head(ToServer(c)) = "ClientFinished"
          /\ Open(c, "client") /\ end[c]["server"] \in {"open", "fin"}
      BY <1>11, <2>3 DEF ServerLast
    <3>2. PICK m \in Message : Bears(c, m)
      BY <1>5 DEF Message
    <3>3. ToServer(c)' = Append(ToServer(c), m) /\ Open(c, "client")'
      BY <1>4, <3>1, <3>2
    <3>4. ToServer(c) \in Seq(Message)
      BY <1>0 DEF HelloTypeOK, ToServer, Side
    <3>5. ToServer(c)' # <<>> /\ Head(ToServer(c)') = "ClientFinished"
      BY <3>1, <3>3, <3>4
    <3>6. ServerLast(c)'
      BY <1>3, <1>4, <2>1, <3>1, <3>3, <3>5 DEF ServerLast
    <3>7. QED  BY <1>3, <2>1, <3>6 DEF HandshakeInv, MessageInv
  <2>4. QED  BY <2>2, <2>3
<1>12. CASE ~GivenUp(Server) /\ Established(c) /\ Established(Server)
  <2>1. step[c] > Len(Handshake(c)) /\ Established(c)' /\ Established(Server)'
    BY <1>3, <1>10, <1>12 DEF Established
  <2>2. MessageInv'
    <3> SUFFICES ASSUME version = "1.2", Server \in talks
                 PROVE  /\ status'[c] = "run" /\ c \in talks /\ step'[c] = 5 =>
                             /\ status'[Server] = "run" /\ At(c, 5, 5, <<>>, <<>>)'
                             /\ Open(c, "server")' /\ Open(c, "client")'
                        /\ c \in talked' => step'[c] >= 6
                        /\ c \in talked' /\ Server \notin talked' =>
                             /\ status'[Server] = "run" /\ step'[Server] = 5
                             /\ ToServer(c)' # <<>> /\ Head(ToServer(c)') = "message"
                             /\ ToClient(c)' = <<>>
                             /\ Open(c, "client")' /\ end'[c]["server"] \in {"open", "fin"}
      BY <1>3 DEF MessageInv
    <3>0. ToServer(c) \in Seq(Message)
      BY <1>0 DEF HelloTypeOK, ToServer, Side
    <3>1. CASE step[c] = 5 /\ c \in talks
      <4>1. /\ status[Server] = "run" /\ At(c, 5, 5, <<>>, <<>>)
            /\ Open(c, "server") /\ Open(c, "client")
        BY <1>0, <1>1, <1>12, <3>1 DEF MessageInv
      <4>2. Bears(c, "message")
        BY <1>5, <1>6, <3>1
      <4>3. Went(c) /\ Open(c, "client")' /\ ToServer(c)' = Append(ToServer(c), "message")
        BY <1>4, <4>1, <4>2
      <4>4. step'[c] = 6
        BY <3>1, <4>3 DEF Went
      <4>5. ToServer(c)' # <<>> /\ Head(ToServer(c)') = "message"
        BY <4>1, <4>3 DEF At
      <4>6. QED  BY <1>3, <1>4, <4>1, <4>3, <4>4, <4>5 DEF At, Open
    <3>2. CASE ~(step[c] = 5 /\ c \in talks)
      <4>1. Bears(c, "CloseNotify") /\ ~Bears(c, "message")
        BY <1>5, <1>6, <2>1, <3>2, BearsOne
      <4>2. c \in talked' <=> c \in talked
        BY <1>1, <4>1 DEF Went, Failed
      <4>3. ~(c \in talks /\ step'[c] = 5)
        BY <1>6, <1>10, <2>1, <3>2
      <4>4. c \in talked' => step'[c] >= 6
        <5>1. c \in talked => step[c] >= 6
          BY <1>0, <1>12 DEF MessageInv
        <5>2. step'[c] \in Nat
          BY <1>1, <1>6 DEF Went, Failed
        <5>3. QED  BY <1>6, <1>10, <2>1, <4>2, <5>1, <5>2
      <4>5. ASSUME c \in talked', Server \notin talked'
            PROVE  /\ status'[Server] = "run" /\ step'[Server] = 5
                   /\ ToServer(c)' # <<>> /\ Head(ToServer(c)') = "message"
                   /\ ToClient(c)' = <<>>
                   /\ Open(c, "client")' /\ end'[c]["server"] \in {"open", "fin"}
        <5>1. /\ status[Server] = "run" /\ step[Server] = 5
              /\ ToServer(c) # <<>> /\ Head(ToServer(c)) = "message" /\ ToClient(c) = <<>>
              /\ Open(c, "client") /\ end[c]["server"] \in {"open", "fin"}
          BY <1>0, <1>3, <1>12, <4>2, <4>5 DEF MessageInv
        <5>2. ToServer(c)' = Append(ToServer(c), "CloseNotify") /\ Open(c, "client")'
          BY <1>4, <4>1, <5>1
        <5>3. ToServer(c)' # <<>> /\ Head(ToServer(c)') = "message"
          BY <3>0, <5>1, <5>2
        <5>4. QED  BY <1>3, <1>4, <5>1, <5>2, <5>3
      <4>6. QED  BY <4>3, <4>4, <4>5
    <3>3. QED  BY <3>1, <3>2
  <2>3. QED  BY <1>3, <2>1, <2>2 DEF HandshakeInv
<1>13. ~GivenUp(c)
  BY <1>1 DEF GivenUp
<1>14. QED  BY <1>0, <1>7, <1>8, <1>9, <1>11, <1>12, <1>13 DEF HandshakeInv

-----------------------------------------------------------------------------
(***************************************************************************)
(* The server takes a step.                                                *)
(***************************************************************************)

\* What its client has done, and what it sees, when only the server has moved.
LEMMA ServerMoves ==
  ASSUME HelloTypeOK, NEW c \in Clients, c = peer, Alone(Server)
  PROVE  /\ peer' = c /\ version' = version /\ talks' = talks
         /\ status'[c] = status[c] /\ step'[c] = step[c]
         /\ c \in talked' <=> c \in talked
         /\ Conn(Server) = c /\ SideOf(Server) = "server" /\ Other(Server) = "client"
         /\ GivenUp(c)' <=> GivenUp(c)
         /\ Running(c)' <=> Running(c)
         /\ Established(c)' <=> Established(c)
         /\ Established(Server)' <=> step'[Server] > Len(Handshake(Server))
<1>1. c \in Processes \ {Server}
  BY SslHelloAssumption DEF Processes
<1>2. /\ peer' = c /\ version' = version /\ talks' = talks
      /\ status'[c] = status[c] /\ step'[c] = step[c]
      /\ c \in talked' <=> c \in talked
  BY <1>1 DEF Alone, Setting
<1>3. Handshake(c)' = Handshake(c) /\ Handshake(Server)' = Handshake(Server)
  BY <1>2 DEF Handshake, SSL_accept, SSL_connect
<1>4. Conn(Server) = c /\ SideOf(Server) = "server" /\ Other(Server) = "client"
  BY DEF Conn, SideOf, Other
<1>5. QED  BY <1>1, <1>2, <1>3, <1>4 DEF GivenUp, Running, Established

\* It reads a record.
LEMMA ServerReads ==
  ASSUME HelloInv, NEW c \in Clients, c = peer, GetRecord(Server)
  PROVE  HandshakeInv' /\ MessageInv'
<1>0. HelloTypeOK /\ StatusInv /\ HandshakeInv /\ MessageInv /\ Server \in Processes
  BY DEF HelloInv, Processes
<1>1. /\ status[Server] = "run" /\ Reading(Server) /\ Arrived(Server) # <<>> /\ Alone(Server)
      /\ end' = end
      /\ wire'[Conn(Server)][SideOf(Server)] = Tail(Arrived(Server))
      /\ wire'[Conn(Server)][Other(Server)] = wire[Conn(Server)][Other(Server)]
      /\ Expected(Server) => Went(Server)
      /\ ~Expected(Server) => Failed(Server)
  BY <1>0, GetRecordStep
<1>2. /\ peer' = c /\ version' = version /\ talks' = talks
      /\ status'[c] = status[c] /\ step'[c] = step[c]
      /\ c \in talked' <=> c \in talked
      /\ Conn(Server) = c /\ SideOf(Server) = "server" /\ Other(Server) = "client"
      /\ GivenUp(c)' <=> GivenUp(c)
      /\ Running(c)' <=> Running(c)
      /\ Established(c)' <=> Established(c)
      /\ Established(Server)' <=> step'[Server] > Len(Handshake(Server))
  BY <1>0, <1>1, ServerMoves
<1>3. /\ ToServer(c) # <<>> /\ ToServer(c)' = Tail(ToServer(c)) /\ ToClient(c)' = ToClient(c)
      /\ \A m : Head(ToServer(c)) = m /\ Bears(Server, m) => Went(Server)
  BY <1>1, <1>2 DEF Arrived, Expected, ToClient, ToServer
<1>4. \/ step[Server] = 1 /\ Bears(Server, "ClientHello")
      \/ step[Server] = 3 /\ Bears(Server, "ClientFinished")
      \/ /\ step[Server] = Len(Handshake(Server)) + 1 /\ Server \in talks
         /\ Bears(Server, "message")
  BY <1>0, <1>1, ServerAt
<1>5. /\ Len(Handshake(Server)) = IF version = "1.2" THEN 4 ELSE 5
      /\ Len(Calls(Server)) = Len(Handshake(Server)) + (IF Server \in talks THEN 2 ELSE 1)
      /\ version \in {"1.2", "1.3"} /\ step[Server] \in Nat
  BY <1>0, ServerTable DEF HelloTypeOK
<1>6. ~GivenUp(Server) /\ (Went(Server) \/ Failed(Server))
  BY <1>1 DEF GivenUp
<1>7. MessageInv'
  <2> SUFFICES ASSUME version = "1.2", Server \in talks
               PROVE  /\ ~(status'[c] = "run" /\ c \in talks /\ step'[c] = 5)
                      /\ c \in talked' => step'[c] >= 6
                      /\ c \in talked' => Server \in talked'
    BY <1>2 DEF MessageInv
  <2>1. ~(status[c] = "run" /\ c \in talks /\ step[c] = 5)
    BY <1>0, <1>3, <1>6 DEF MessageInv, At
  <2>2. c \in talked => step[c] >= 6
    BY <1>0, <1>6 DEF MessageInv
  <2>3. ASSUME c \in talked PROVE Server \in talked'
    <3>1. CASE Server \in talked
      BY <1>6, <3>1 DEF Went, Failed
    <3>2. CASE Server \notin talked
      <4>1. step[Server] = 5 /\ Head(ToServer(c)) = "message"
        BY <1>0, <1>6, <2>3, <3>2 DEF MessageInv
      <4>2. Bears(Server, "message")
        BY <1>4, <4>1
      <4>3. QED  BY <1>3, <4>1, <4>2 DEF Went
    <3>3. QED  BY <3>1, <3>2
  <2>4. QED  BY <1>2, <2>1, <2>2, <2>3
<1>8. CASE GivenUp(c)
  BY <1>2, <1>7, <1>8 DEF HandshakeInv
<1>9. CASE Greeting(c)
  <2>1. At(c, 2, 1, <<"ClientHello">>, <<>>) /\ step[Server] = 1
    BY <1>3, <1>4, <1>5, <1>9 DEF Greeting, At
  <2>2. Bears(Server, "ClientHello")
    BY <1>4, <1>5, <2>1
  <2>3. step[c] = 2 /\ Head(ToServer(c)) = "ClientHello" /\ Tail(ToServer(c)) = <<>> /\ ToClient(c) = <<>>
    BY <2>1, OneRecord DEF At
  <2>4. Went(Server)
    BY <1>3, <2>2, <2>3
  <2>5. step'[Server] = 2 /\ status'[Server] = "run"
    BY <1>5, <2>1, <2>4 DEF Went
  <2>6. Greeting(c)'
    BY <1>1, <1>2, <1>3, <1>9, <2>3, <2>5 DEF Greeting, At, Running, Open
  <2>7. QED  BY <1>2, <1>7, <2>6 DEF HandshakeInv
<1>10. CASE ClientLast(c)
  <2>1. At(c, 4, 3, <<"ClientFinished">>, <<>>) /\ step[Server] = 3 /\ version = "1.2"
    BY <1>3, <1>4, <1>5, <1>10 DEF ClientLast, At
  <2>2. Bears(Server, "ClientFinished")
    BY <1>4, <1>5, <2>1
  <2>3. /\ step[c] = 4 /\ Head(ToServer(c)) = "ClientFinished" /\ Tail(ToServer(c)) = <<>>
        /\ ToClient(c) = <<>>
    BY <2>1, OneRecord DEF At
  <2>4. Went(Server)
    BY <1>3, <2>2, <2>3
  <2>5. step'[Server] = 4 /\ status'[Server] = "run"
    BY <1>5, <2>1, <2>4 DEF Went
  <2>6. Open(c, "client") /\ Open(c, "server") /\ Running(c)
    BY <1>3, <1>10 DEF ClientLast
  <2>7. ClientLast(c)'
    BY <1>1, <1>2, <1>3, <2>1, <2>3, <2>5, <2>6 DEF ClientLast, At, Running, Open
  <2>8. QED  BY <1>2, <1>7, <2>7 DEF HandshakeInv
<1>11. CASE ServerLast(c)
  <2>1. version = "1.3" /\ step[Server] = 3 /\ Head(ToServer(c)) = "ClientFinished"
    BY <1>4, <1>5, <1>11 DEF ServerLast
  <2>2. Bears(Server, "ClientFinished")
    BY <1>4, <1>5, <2>1
  <2>3. Went(Server)
    BY <1>3, <2>1, <2>2
  <2>4. step'[Server] = 4 /\ status'[Server] = "run"
    BY <1>5, <2>1, <2>3 DEF Went
  <2>5. ServerLast(c)'
    BY <1>2, <1>11, <2>4 DEF ServerLast, Running
  <2>6. QED  BY <1>2, <1>7, <2>5 DEF HandshakeInv
<1>12. CASE Established(c) /\ Established(Server)
  <2>1. Established(Server)'
    BY <1>2, <1>5, <1>6, <1>12 DEF Established, Went, Failed
  <2>2. QED  BY <1>2, <1>7, <1>12, <2>1 DEF HandshakeInv
<1>13. QED  BY <1>0, <1>6, <1>8, <1>9, <1>10, <1>11, <1>12 DEF HandshakeInv

\* It reads the end of the stream, or an error: once its client has given up,
\* or after the handshake.
LEMMA ServerReadsNothing ==
  ASSUME HelloInv, NEW c \in Clients, c = peer, GetNothing(Server)
  PROVE  HandshakeInv' /\ MessageInv'
<1>0. HelloTypeOK /\ StatusInv /\ HandshakeInv /\ MessageInv /\ Server \in Processes
  BY DEF HelloInv, Processes
<1>1. /\ status[Server] = "run" /\ Reading(Server) /\ Alone(Server) /\ Failed(Server)
      /\ \/ Arrived(Server) = <<>> /\ Mine(Server) \in {"fin", "gone"}
         \/ Mine(Server) = "rst"
  BY <1>0, GetNothingStep
<1>2. /\ peer' = c /\ version' = version /\ talks' = talks
      /\ status'[c] = status[c] /\ step'[c] = step[c]
      /\ c \in talked' <=> c \in talked
      /\ Conn(Server) = c /\ SideOf(Server) = "server" /\ Other(Server) = "client"
      /\ GivenUp(c)' <=> GivenUp(c)
      /\ Established(c)' <=> Established(c)
      /\ Established(Server)' <=> step'[Server] > Len(Handshake(Server))
  BY <1>0, <1>1, ServerMoves
<1>3. /\ ~Open(c, "server")
      /\ ToServer(c) = <<>> \/ end[c]["server"] \notin {"open", "fin"}
  BY <1>1, <1>2 DEF Arrived, Mine, Open, ToServer
<1>4. \/ step[Server] \in {1, 3}
      \/ step[Server] = Len(Handshake(Server)) + 1
  BY <1>0, <1>1, ServerAt
<1>5. /\ Len(Handshake(Server)) = IF version = "1.2" THEN 4 ELSE 5
      /\ Len(Calls(Server)) = Len(Handshake(Server)) + (IF Server \in talks THEN 2 ELSE 1)
      /\ version \in {"1.2", "1.3"} /\ step[Server] \in Nat
  BY <1>0, ServerTable DEF HelloTypeOK
<1>6. ~GivenUp(Server)
  BY <1>1 DEF GivenUp
<1>7. MessageInv'
  <2> SUFFICES ASSUME version = "1.2", Server \in talks
               PROVE  /\ ~(status'[c] = "run" /\ c \in talks /\ step'[c] = 5)
                      /\ c \in talked' => step'[c] >= 6
                      /\ c \in talked' => Server \in talked'
    BY <1>2 DEF MessageInv
  <2>1. ~(status[c] = "run" /\ c \in talks /\ step[c] = 5)
    BY <1>0, <1>3, <1>6 DEF MessageInv
  <2>2. c \in talked => step[c] >= 6
    BY <1>0, <1>6 DEF MessageInv
  <2>3. c \in talked => Server \in talked
    BY <1>0, <1>3, <1>6 DEF MessageInv
  <2>4. QED  BY <1>1, <1>2, <2>1, <2>2, <2>3 DEF Failed
<1>8. ~Greeting(c) /\ ~ClientLast(c)
  BY <1>3 DEF Greeting, ClientLast
<1>9. ~ServerLast(c)
  BY <1>3, <1>4, <1>5 DEF ServerLast
<1>10. GivenUp(c) \/ (Established(c) /\ Established(Server))
  BY <1>0, <1>6, <1>8, <1>9 DEF HandshakeInv
<1>11. Established(Server) => Established(Server)'
  BY <1>1, <1>2, <1>5 DEF Established, Failed
<1>12. QED  BY <1>2, <1>7, <1>10, <1>11 DEF HandshakeInv

\* It writes.
LEMMA ServerWrites ==
  ASSUME HelloInv, NEW c \in Clients, c = peer, Put(Server)
  PROVE  HandshakeInv' /\ MessageInv'
<1>0. HelloTypeOK /\ StatusInv /\ HandshakeInv /\ MessageInv /\ Server \in Processes
  BY DEF HelloInv, Processes
<1>1. /\ status[Server] = "run" /\ Writing(Server) /\ Alone(Server)
      /\ wire'[Conn(Server)][SideOf(Server)] = Arrived(Server)
      /\ \A m : Mine(Server) = "open" /\ Bears(Server, m) => Sends(Server, m)
      /\ end'[Conn(Server)][Other(Server)] = end[Conn(Server)][Other(Server)]
      /\ Mine(Server) = "open" => end'[Conn(Server)][SideOf(Server)] = "open"
      /\ Mine(Server) # "rst" \/ Bears(Server, "ticket") => Went(Server)
      /\ Went(Server) \/ Failed(Server)
  BY <1>0, PutStep
<1>2. /\ peer' = c /\ version' = version /\ talks' = talks
      /\ status'[c] = status[c] /\ step'[c] = step[c]
      /\ c \in talked' <=> c \in talked
      /\ Conn(Server) = c /\ SideOf(Server) = "server" /\ Other(Server) = "client"
      /\ GivenUp(c)' <=> GivenUp(c)
      /\ Running(c)' <=> Running(c)
      /\ Established(c)' <=> Established(c)
      /\ Established(Server)' <=> step'[Server] > Len(Handshake(Server))
  BY <1>0, <1>1, ServerMoves
<1>3. /\ ToServer(c)' = ToServer(c)
      /\ end'[c]["client"] = end[c]["client"]
      /\ Open(c, "client")' <=> Open(c, "client")
      /\ Open(c, "server") => Open(c, "server")' /\ Went(Server)
      /\ \A m : Open(c, "server") /\ Bears(Server, m) => ToClient(c)' = Append(ToClient(c), m)
  BY <1>1, <1>2 DEF Arrived, Mine, Open, ToClient, ToServer, Sends
<1>4. \/ step[Server] = 2 /\ Bears(Server, "ServerHello")
      \/ version = "1.2" /\ step[Server] = 4 /\ Bears(Server, "ServerFinished")
      \/ version = "1.3" /\ step[Server] \in {4, 5} /\ Bears(Server, "ticket")
      \/ /\ step[Server] = Len(Calls(Server)) /\ step[Server] > Len(Handshake(Server))
         /\ Bears(Server, "CloseNotify")
  BY <1>0, <1>1, ServerAt
<1>5. /\ Len(Handshake(Server)) = IF version = "1.2" THEN 4 ELSE 5
      /\ Len(Calls(Server)) = Len(Handshake(Server)) + (IF Server \in talks THEN 2 ELSE 1)
      /\ version \in {"1.2", "1.3"} /\ step[Server] \in Nat
  BY <1>0, ServerTable DEF HelloTypeOK
<1>6. ~GivenUp(Server)
  BY <1>1 DEF GivenUp
<1>7. MessageInv'
  <2> SUFFICES ASSUME version = "1.2", Server \in talks
               PROVE  /\ ~(status'[c] = "run" /\ c \in talks /\ step'[c] = 5)
                      /\ c \in talked' => step'[c] >= 6
                      /\ c \in talked' => Server \in talked'
    BY <1>2 DEF MessageInv
  <2>0. step[Server] # 5
    BY <1>4, <1>5
  <2>1. ~(status[c] = "run" /\ c \in talks /\ step[c] = 5)
    BY <1>0, <1>6, <2>0 DEF MessageInv, At
  <2>2. c \in talked => step[c] >= 6
    BY <1>0, <1>6 DEF MessageInv
  <2>3. c \in talked => Server \in talked
    BY <1>0, <1>6, <2>0 DEF MessageInv
  <2>4. Server \in talked => Server \in talked'
    BY <1>1 DEF Went, Failed
  <2>5. QED  BY <1>2, <2>1, <2>2, <2>3, <2>4
<1>8. CASE GivenUp(c)
  BY <1>2, <1>7, <1>8 DEF HandshakeInv
<1>9. CASE Greeting(c)
  <2>1. At(c, 2, 2, <<>>, <<>>) /\ step[Server] = 2
    BY <1>4, <1>5, <1>9 DEF Greeting, At
  <2>2. Bears(Server, "ServerHello")
    BY <1>4, <1>5, <2>1
  <2>3. Open(c, "server") /\ Open(c, "client") /\ Running(c)
    BY <1>9 DEF Greeting
  <2>4. Went(Server) /\ ToClient(c)' = Append(ToClient(c), "ServerHello")
    BY <1>3, <2>2, <2>3
  <2>5. step'[Server] = 3 /\ status'[Server] = "run"
    BY <1>5, <2>1, <2>4 DEF Went
  <2>6. At(c, 2, 3, <<>>, <<"ServerHello">>)'
    BY <1>2, <1>3, <2>1, <2>4, <2>5, OneRecord DEF At
  <2>7. Greeting(c)'
    BY <1>2, <1>3, <2>3, <2>5, <2>6 DEF Greeting, Running
  <2>8. QED  BY <1>2, <1>7, <2>7 DEF HandshakeInv
<1>10. CASE ClientLast(c)
  <2>1. version = "1.2" /\ Open(c, "server") /\ Running(c) /\ Went(Server) /\ Open(c, "server")'
    BY <1>3, <1>10 DEF ClientLast
  <2>2. CASE step[Server] = 4
    <3>1. Bears(Server, "ServerFinished")
      BY <1>4, <1>5, <2>1, <2>2
    <3>2. At(c, 4, 4, <<>>, <<>>) /\ Open(c, "client")
      BY <1>5, <1>10, <2>1, <2>2 DEF ClientLast, At, Established
    <3>3. step'[Server] = 5 /\ (Server \in talks => status'[Server] = "run")
      BY <1>5, <2>1, <2>2 DEF Went
    <3>4. ToClient(c)' = Append(ToClient(c), "ServerFinished")
      BY <1>3, <2>1, <3>1
    <3>5. At(c, 4, 5, <<>>, <<"ServerFinished">>)'
      BY <1>2, <1>3, <3>2, <3>3, <3>4, OneRecord DEF At
    <3>6. Established(Server)' /\ Open(c, "client")' /\ Running(c)'
      BY <1>2, <1>3, <1>5, <2>1, <3>2, <3>3
    <3>7. step'[c] = 4 /\ ToServer(c)' = <<>> /\ end'[c]["client"] \in {"open", "fin"}
      BY <3>5, <3>6 DEF At, Open
    <3>8. ToClient(c)' # <<>> /\ Head(ToClient(c)') = "ServerFinished"
      BY <3>5, OneRecord DEF At
    <3>9. ClientLast(c)'
      BY <1>2, <2>1, <3>3, <3>5, <3>6, <3>7, <3>8 DEF ClientLast
    <3>10. QED  BY <1>2, <1>7, <3>9 DEF HandshakeInv
  <2>3. CASE step[Server] # 4
    <3>1. /\ step[c] = 4 /\ Established(Server) /\ ToServer(c) = <<>>
          /\ ToClient(c) # <<>> /\ Head(ToClient(c)) = "ServerFinished"
          /\ end[c]["client"] \in {"open", "fin"}
          /\ Server \in talks => step[Server] = 5
      BY <1>4, <1>5, <1>10, <2>1, <2>3 DEF ClientLast, At
    <3>2. Server \notin talks /\ Bears(Server, "CloseNotify")
      BY <1>4, <1>5, <2>1, <2>3, <3>1 DEF Established
    <3>3. ToClient(c)' = Append(ToClient(c), "CloseNotify")
      BY <1>3, <2>1, <3>2
    <3>4. ToClient(c) \in Seq(Message)
      BY <1>0 DEF HelloTypeOK, ToClient, Side
    <3>5. ToClient(c)' # <<>> /\ Head(ToClient(c)') = "ServerFinished"
      BY <3>1, <3>3, <3>4
    <3>6. Established(Server)'
      BY <1>2, <1>5, <2>1, <3>1 DEF Established, Went
    <3>7. ClientLast(c)'
      BY <1>2, <1>3, <2>1, <3>1, <3>2, <3>5, <3>6 DEF ClientLast
    <3>8. QED  BY <1>2, <1>7, <3>7 DEF HandshakeInv
  <2>4. QED  BY <2>2, <2>3
<1>11. CASE ServerLast(c)
  <2>1. version = "1.3" /\ Established(c) /\ step[Server] \in {4, 5} /\ Bears(Server, "ticket")
    BY <1>4, <1>5, <1>11 DEF ServerLast
  <2>2. Went(Server)
    BY <1>1, <2>1
  <2>3. CASE step[Server] = 4
    <3>1. step'[Server] = 5 /\ status'[Server] = "run"
      BY <1>5, <2>1, <2>2, <2>3 DEF Went
    <3>2. ServerLast(c)'
      BY <1>2, <2>1, <3>1 DEF ServerLast, Running
    <3>3. QED  BY <1>2, <1>7, <3>2 DEF HandshakeInv
  <2>4. CASE step[Server] = 5
    <3>1. step'[Server] = 6
      BY <2>2, <2>4 DEF Went
    <3>2. Established(Server)'
      BY <1>2, <1>5, <2>1, <3>1
    <3>3. QED  BY <1>2, <1>7, <2>1, <3>2 DEF HandshakeInv
  <2>5. QED  BY <2>1, <2>3, <2>4
<1>12. CASE Established(c) /\ Established(Server)
  <2>1. Established(Server)'
    BY <1>1, <1>2, <1>5, <1>12 DEF Established, Went, Failed
  <2>2. QED  BY <1>2, <1>7, <1>12, <2>1 DEF HandshakeInv
<1>13. QED  BY <1>0, <1>6, <1>8, <1>9, <1>10, <1>11, <1>12 DEF HandshakeInv

-----------------------------------------------------------------------------
(***************************************************************************)
(* A client that the server has not accepted takes a step.                 *)
(***************************************************************************)

\* What it must keep to for the others to be as they were.
LEMMA UnacceptedMoves ==
  ASSUME HelloTypeOK, UnacceptedInv, NEW c \in Clients, c # peer, Alone(c),
         step'[c] <= 2, ToClient(c)' = <<>>, c \notin talked',
         status[Server] \in {"start", "accept"} /\ ~GivenUp(c)' =>
           /\ Open(c, "server")' /\ Open(c, "client")'
           /\ status'[c] = "start" \/ Running(c)'
           /\ ToServer(c)' = IF step'[c] = 1 THEN <<>> ELSE <<"ClientHello">>
  PROVE  UnacceptedInv'
<1>1. status'[Server] = status[Server] /\ peer' = peer
  BY SslHelloAssumption DEF Alone, Processes
<1>2. \A d \in Clients \ {c} : d \in Processes \ {c} /\ d \in Clients \ {Conn(c)}
  BY SslHelloAssumption DEF Processes, Conn
<1>3. \A d \in Clients \ {c} :
         /\ status'[d] = status[d] /\ step'[d] = step[d] /\ (d \in talked' <=> d \in talked)
         /\ wire'[d] = wire[d] /\ end'[d] = end[d]
  BY <1>2 DEF Alone
<1>4. ASSUME NEW d \in Clients \ {peer}
      PROVE  /\ step'[d] <= 2 /\ ToClient(d)' = <<>> /\ d \notin talked'
             /\ status'[Server] \in {"start", "accept"} /\ ~GivenUp(d)' =>
                  /\ Open(d, "server")' /\ Open(d, "client")'
                  /\ status'[d] = "start" \/ Running(d)'
                  /\ ToServer(d)' = IF step'[d] = 1 THEN <<>> ELSE <<"ClientHello">>
  <2>1. CASE d = c
    BY <1>1, <2>1
  <2>2. CASE d # c
    BY <1>1, <1>3, <2>2 DEF UnacceptedInv, ToServer, ToClient, Open, Running, GivenUp
  <2>3. QED  BY <2>1, <2>2
<1>5. QED  BY <1>1, <1>4 DEF UnacceptedInv

\* It has nothing to read.
LEMMA OtherReads ==
  ASSUME HelloInv, NEW c \in Clients, c # peer
  PROVE  ~GetRecord(c)
<1>0. c \in Processes /\ c # Server
  BY SslHelloAssumption DEF Processes
<1>1. ToClient(c) = <<>>
  BY DEF HelloInv, UnacceptedInv
<1>2. Arrived(c) = <<>>
  BY <1>0, <1>1 DEF Arrived, ToClient, Conn, SideOf
<1>3. QED  BY <1>2 DEF GetRecord

\* It sees the server end.
LEMMA OtherReadsNothing ==
  ASSUME HelloInv, NEW c \in Clients, c # peer, GetNothing(c)
  PROVE  HelloInv'
<1>0. /\ HelloTypeOK /\ StatusInv /\ UnacceptedInv /\ HandshakeInv /\ MessageInv
      /\ c \in Processes /\ c # Server
  BY SslHelloAssumption DEF HelloInv, Processes
<1>1. /\ Alone(c) /\ HelloTypeOK' /\ StatusInv' /\ Failed(c) /\ wire' = wire
      /\ \/ Arrived(c) = <<>> /\ Mine(c) \in {"fin", "gone"}
         \/ Mine(c) = "rst"
  BY <1>0, GetNothingStep
<1>2. HandshakeInv' /\ MessageInv'
  BY <1>0, <1>1, PairStays
<1>3. /\ step[c] <= 2 /\ ToClient(c) = <<>> /\ c \notin talked
      /\ status[Server] \in {"start", "accept"} /\ ~GivenUp(c) => Open(c, "client")
  BY <1>0 DEF UnacceptedInv
<1>4. ~Open(c, "client") /\ status[c] = "run"
  BY <1>0, <1>1, GetNothingStep DEF Mine, Conn, SideOf, Open
<1>5. Len(Handshake(c)) = (IF version = "1.2" THEN 4 ELSE 3) /\ step[c] \in Nat
  BY <1>0, ClientTable DEF HelloTypeOK
<1>6. ~Established(c)
  BY <1>3, <1>5 DEF Established
<1>7. step'[c] = step[c] /\ status'[c] = "close" /\ c \notin talked'
  BY <1>1, <1>3, <1>6 DEF Failed
<1>8. ToClient(c)' = <<>> /\ status[Server] \notin {"start", "accept"}
  BY <1>1, <1>3, <1>4 DEF ToClient, GivenUp
<1>9. UnacceptedInv'
  BY <1>0, <1>1, <1>3, <1>7, <1>8, UnacceptedMoves
<1>10. QED  BY <1>1, <1>2, <1>9 DEF HelloInv

\* It says hello.
LEMMA OtherWrites ==
  ASSUME HelloInv, NEW c \in Clients, c # peer, Put(c)
  PROVE  HelloInv'
<1>0. /\ HelloTypeOK /\ StatusInv /\ UnacceptedInv /\ HandshakeInv /\ MessageInv
      /\ c \in Processes /\ c # Server /\ Conn(c) = c /\ SideOf(c) = "client" /\ Other(c) = "server"
  BY SslHelloAssumption DEF HelloInv, Processes, Conn, SideOf, Other
<1>1. /\ status[c] = "run" /\ Writing(c) /\ Alone(c) /\ HelloTypeOK' /\ StatusInv'
      /\ wire'[Conn(c)][SideOf(c)] = Arrived(c)
      /\ \A m : Mine(c) = "open" /\ Bears(c, m) => Sends(c, m)
      /\ end'[Conn(c)][Other(c)] = end[Conn(c)][Other(c)]
      /\ Mine(c) = "open" => end'[Conn(c)][SideOf(c)] = "open"
      /\ Mine(c) # "rst" => Went(c)
      /\ Went(c) \/ Failed(c)
  BY <1>0, PutStep
<1>2. HandshakeInv' /\ MessageInv'
  BY <1>0, <1>1, PairStays
<1>3. /\ step[c] <= 2 /\ ToClient(c) = <<>> /\ c \notin talked
      /\ status[Server] \in {"start", "accept"} =>
           /\ Open(c, "server") /\ Open(c, "client")
           /\ ToServer(c) = IF step[c] = 1 THEN <<>> ELSE <<"ClientHello">>
  BY <1>0, <1>1 DEF UnacceptedInv, GivenUp
<1>4. /\ Len(Handshake(c)) = IF version = "1.2" THEN 4 ELSE 3
      /\ Len(Calls(c)) = Len(Handshake(c)) + (IF c \in talks THEN 2 ELSE 1)
      /\ step[c] \in Nat
  BY <1>0, ClientTable DEF HelloTypeOK
<1>5. step[c] = 1 /\ Bears(c, "ClientHello")
  <2>1. \/ step[c] = 1 /\ Bears(c, "ClientHello")
        \/ step[c] = 3
        \/ step[c] = Len(Handshake(c)) + 1
        \/ step[c] > Len(Handshake(c))
    BY <1>0, <1>1, ClientAt
  <2>2. step[c] <= 2
    BY <1>3
  <2>3. QED  BY <1>4, <2>1, <2>2
<1>6. ~Bears(c, "message")
  BY <1>5, BearsOne
<1>7. c \notin talked' /\ step'[c] <= 2 /\ ToClient(c)' = <<>>
  <2>1. ToClient(c)' = <<>>
    BY <1>0, <1>1, <1>3 DEF Arrived, ToClient
  <2>2. c \notin talked'
    BY <1>1, <1>3, <1>6 DEF Went, Failed
  <2>3. step'[c] <= 2
    BY <1>1, <1>4, <1>5 DEF Went, Failed, Established
  <2>4. QED  BY <2>1, <2>2, <2>3
<1>8. ASSUME status[Server] \in {"start", "accept"}
      PROVE  /\ Open(c, "server")' /\ Open(c, "client")' /\ Running(c)'
             /\ step'[c] = 2 /\ ToServer(c)' = <<"ClientHello">>
  <2>1. Mine(c) = "open" /\ Went(c)
    BY <1>0, <1>1, <1>3, <1>8 DEF Mine, Open
  <2>2. ToServer(c)' = Append(ToServer(c), "ClientHello") /\ ToServer(c) = <<>>
    BY <1>0, <1>1, <1>3, <1>5, <1>8, <2>1 DEF Sends, ToServer
  <2>3. ToServer(c)' = <<"ClientHello">>
    BY <2>2, OneRecord
  <2>4. step'[c] = 2 /\ status'[c] = "run"
    BY <1>4, <1>5, <2>1 DEF Went
  <2>5. Open(c, "server")' /\ Open(c, "client")'
    BY <1>0, <1>1, <1>3, <1>8, <2>1 DEF Open
  <2>6. QED  BY <2>3, <2>4, <2>5 DEF Running
<1>9. UnacceptedInv'
  BY <1>0, <1>1, <1>7, <1>8, UnacceptedMoves
<1>10. QED  BY <1>1, <1>2, <1>9 DEF HelloInv

-----------------------------------------------------------------------------
(***************************************************************************)
(* A process ends.                                                         *)
(***************************************************************************)
EndStatus == {"exit0", "exit1", "sigpipe", "sigint"}

\* What its end does to the connections.
LEMMA EndsStep ==
  ASSUME HelloTypeOK, StatusInv, NEW p \in Processes, NEW how \in EndStatus, Ends(p, how),
         how = "exit0" => status[p] = "close",
         UNCHANGED <<setting, step, talked, peer, queue, wire>>
  PROVE  /\ status' = [status EXCEPT ![p] = how] /\ HelloTypeOK' /\ StatusInv'
         /\ p \in Clients =>
              /\ Alone(p) /\ end'[p]["client"] = end[p]["client"]
              /\ ToClient(p) = <<>> /\ end[p]["server"] \in {"open", "fin"} =>
                   end'[p]["server"] \in {"open", "fin"}
         /\ p = Server /\ peer \in Clients =>
              /\ end'[peer]["server"] = end[peer]["server"]
              /\ ToServer(peer) = <<>> /\ end[peer]["client"] \in {"open", "fin"} =>
                   end'[peer]["client"] \in {"open", "fin"}
<1> DEFINE k == Conn(p)
           o == Other(p)
<1>1. /\ status' = [status EXCEPT ![p] = how]
      /\ \E other \in IF k = Nobody THEN {"open"} ELSE AfterClose(end[k][o], wire[k][SideOf(p)]) :
           end' = [c \in Clients |->
                     IF c = k THEN [end[c] EXCEPT ![o] = other]
                     ELSE IF p = Server /\ c \in Range(queue) THEN [end[c] EXCEPT !["client"] = "rst"]
                     ELSE end[c]]
  BY DEF Ends
<1>2. PICK other \in IF k = Nobody THEN {"open"} ELSE AfterClose(end[k][o], wire[k][SideOf(p)]) :
           end' = [c \in Clients |->
                     IF c = k THEN [end[c] EXCEPT ![o] = other]
                     ELSE IF p = Server /\ c \in Range(queue) THEN [end[c] EXCEPT !["client"] = "rst"]
                     ELSE end[c]]
  BY <1>1
<1>3. /\ k \in Clients \cup {Nobody} /\ o \in Side /\ SideOf(p) \in Side /\ "client" \in Side
      /\ "server" \in Side /\ Nobody \notin Clients
  BY SslHelloAssumption DEF HelloTypeOK, Conn, Other, SideOf, Side, Processes
<1>4. end \in [Clients -> [Side -> EndState]] /\ "rst" \in EndState /\ "open" \in EndState
  BY DEF HelloTypeOK, EndState
<1>5. /\ other \in EndState
      /\ k # Nobody /\ wire[k][SideOf(p)] = <<>> /\ end[k][o] \in {"open", "fin"} =>
           other \in {"open", "fin"}
  <2>1. CASE k = Nobody
    BY <1>2, <1>4, <2>1
  <2>2. CASE k # Nobody
    <3>1. end[k][o] \in EndState
      BY <1>3, <1>4, <2>2
    <3>2. other \in AfterClose(end[k][o], wire[k][SideOf(p)])
      BY <1>2, <2>2
    <3>3. QED  BY <3>1, <3>2 DEF AfterClose, EndState
  <2>3. QED  BY <2>1, <2>2
<1> HIDE DEF k, o
<1>6. end' \in [Clients -> [Side -> EndState]]
  BY <1>2, <1>3, <1>4, <1>5
<1>7. /\ k \in Clients => /\ end'[k][o] = other
                          /\ \A s \in Side \ {o} : end'[k][s] = end[k][s]
      /\ p # Server => \A c \in Clients \ {k} : end'[c] = end[c]
  BY <1>2, <1>3, <1>4
<1>8. Setting /\ UNCHANGED <<peer, queue, wire>>
  BY DEF setting, Setting
<1>9. StepTypes(p)
  <2>1. status' = [status EXCEPT ![p] = status'[p]] /\ status'[p] = how
    BY <1>1 DEF HelloTypeOK
  <2>2. step' = [step EXCEPT ![p] = step'[p]] /\ step'[p] \in Nat \ {0} /\ talked' = talked
    BY DEF HelloTypeOK
  <2>3. wire' \in [Clients -> [Side -> Seq(Message)]]
    BY DEF HelloTypeOK
  <2>4. how \in Status
    BY DEF EndStatus, Status
  <2>5. QED  BY <1>6, <2>1, <2>2, <2>3, <2>4 DEF StepTypes
<1>10. HelloTypeOK'
  BY <1>8, <1>9, TypesStay
<1>11. StatusInv'
  <2>1. status'[p] = how
    BY <1>1 DEF HelloTypeOK
  <2>2. QED  BY <1>8, <1>9, <2>1, StatusStays DEF EndStatus
<1>12. ASSUME p \in Clients
       PROVE  /\ Alone(p) /\ end'[p]["client"] = end[p]["client"]
              /\ ToClient(p) = <<>> /\ end[p]["server"] \in {"open", "fin"} =>
                   end'[p]["server"] \in {"open", "fin"}
  <2>1. p # Server /\ k = p /\ o = "server" /\ SideOf(p) = "client" /\ k # Nobody
    BY <1>12, SslHelloAssumption DEF k, o, Conn, Other, SideOf
  <2>2. \A q \in Processes \ {p} : status'[q] = status[q] /\ step'[q] = step[q]
    BY <1>1 DEF HelloTypeOK
  <2>3. Alone(p)
    BY <1>7, <1>8, <2>1, <2>2 DEF Alone, k
  <2>4. end'[p]["client"] = end[p]["client"]
    BY <1>3, <1>7, <1>12, <2>1
  <2>5. QED  BY <1>5, <1>7, <1>12, <2>1, <2>3, <2>4 DEF ToClient
<1>13. ASSUME p = Server, peer \in Clients
       PROVE  /\ end'[peer]["server"] = end[peer]["server"]
              /\ ToServer(peer) = <<>> /\ end[peer]["client"] \in {"open", "fin"} =>
                   end'[peer]["client"] \in {"open", "fin"}
  <2>1. k = peer /\ o = "client" /\ SideOf(p) = "server" /\ k # Nobody
    BY <1>3, <1>13 DEF k, o, Conn, Other, SideOf
  <2>2. QED  BY <1>3, <1>5, <1>7, <1>13, <2>1 DEF ToServer
<1>14. QED  BY <1>1, <1>10, <1>11, <1>12, <1>13

\* A client ends.
LEMMA ClientEnds ==
  ASSUME HelloInv, NEW c \in Clients, NEW how \in EndStatus, Ends(c, how),
         how = "exit0" => status[c] = "close",
         UNCHANGED <<setting, step, talked, peer, queue, wire>>
  PROVE  HelloInv'
<1>0. /\ HelloTypeOK /\ StatusInv /\ UnacceptedInv /\ HandshakeInv /\ MessageInv
      /\ c \in Processes /\ c # Server
  BY SslHelloAssumption DEF HelloInv, Processes
<1>1. /\ status'[c] = how /\ HelloTypeOK' /\ StatusInv' /\ Alone(c)
      /\ end'[c]["client"] = end[c]["client"]
      /\ ToClient(c) = <<>> /\ end[c]["server"] \in {"open", "fin"} =>
           end'[c]["server"] \in {"open", "fin"}
  <2>1. status' = [status EXCEPT ![c] = how] => status'[c] = how
    BY <1>0 DEF HelloTypeOK
  <2>2. QED  BY <1>0, <2>1, EndsStep
<1>2. GivenUp(c)' \/ (how = "exit0" /\ status[c] = "close")
  BY <1>1 DEF GivenUp, EndStatus
<1>3. wire' = wire /\ step' = step /\ talked' = talked
  OBVIOUS
<1>4. CASE c # peer
  <2>1. HandshakeInv' /\ MessageInv'
    BY <1>0, <1>1, <1>4, PairStays
  <2>2. /\ step'[c] <= 2 /\ ToClient(c)' = <<>> /\ c \notin talked'
        /\ status[Server] \in {"start", "accept"} => GivenUp(c)'
    BY <1>0, <1>2, <1>3, <1>4 DEF UnacceptedInv, ToClient, GivenUp, Running
  <2>3. UnacceptedInv'
    BY <1>0, <1>1, <1>4, <2>2, UnacceptedMoves
  <2>4. QED  BY <1>1, <2>1, <2>3 DEF HelloInv
<1>5. CASE c = peer
  <2>1. /\ peer' = c /\ version' = version /\ talks' = talks
        /\ status'[Server] = status[Server]
        /\ GivenUp(Server)' <=> GivenUp(Server)
        /\ Running(Server)' <=> Running(Server)
        /\ Established(Server)' <=> Established(Server)
        /\ Established(c)' <=> Established(c)
    BY <1>0, <1>1, <1>3, <1>5, ClientMoves DEF Established
  <2>2. UnacceptedInv'
    BY <1>0, <1>1, <1>5, <2>1, UnacceptedStays
  <2>3. /\ ToServer(c)' = ToServer(c) /\ ToClient(c)' = ToClient(c)
        /\ Open(c, "client")' <=> Open(c, "client")
    BY <1>1, <1>3 DEF ToServer, ToClient, Open
  <2>4. MessageInv'
    <3> SUFFICES ASSUME version = "1.2", Server \in talks, ~GivenUp(Server)
                 PROVE  /\ status'[c] # "run"
                        /\ c \in talked => step[c] >= 6
                        /\ c \in talked /\ Server \notin talked =>
                             /\ status[Server] = "run" /\ step[Server] = 5
                             /\ ToServer(c) # <<>> /\ Head(ToServer(c)) = "message"
                             /\ ToClient(c) = <<>> /\ Open(c, "client")
                             /\ end'[c]["server"] \in {"open", "fin"}
      BY <1>3, <2>1, <2>3 DEF MessageInv
    <3>1. status'[c] # "run"
      BY <1>1 DEF EndStatus
    <3>2. QED  BY <1>0, <1>1, <1>5, <3>1 DEF MessageInv
  <2>5. HandshakeInv'
    <3>1. CASE GivenUp(c)' \/ GivenUp(Server)
      BY <2>1, <3>1 DEF HandshakeInv
    <3>2. CASE ~GivenUp(c)' /\ ~GivenUp(Server)
      <4>1. ~GivenUp(c) /\ ~Running(c)
        BY <1>2, <3>2 DEF GivenUp, Running
      <4>2. ServerLast(c) \/ (Established(c) /\ Established(Server))
        BY <1>0, <1>5, <3>2, <4>1 DEF HandshakeInv, Greeting, ClientLast
      <4>3. ServerLast(c) => ServerLast(c)'
        BY <1>1, <1>3, <2>1, <2>3 DEF ServerLast
      <4>4. QED  BY <2>1, <4>2, <4>3 DEF HandshakeInv
    <3>3. QED  BY <3>1, <3>2
  <2>6. QED  BY <1>1, <2>2, <2>4, <2>5 DEF HelloInv
<1>6. QED  BY <1>4, <1>5

\* The server ends: the clients in its queue are reset.
LEMMA ServerEnds ==
  ASSUME HelloInv, NEW how \in EndStatus, Ends(Server, how),
         how = "exit0" => status[Server] = "close",
         UNCHANGED <<setting, step, talked, peer, queue, wire>>
  PROVE  HelloInv'
<1>0. /\ HelloTypeOK /\ StatusInv /\ UnacceptedInv /\ HandshakeInv /\ MessageInv
      /\ Server \in Processes
  BY DEF HelloInv, Processes
<1>1. /\ status' = [status EXCEPT ![Server] = how] /\ HelloTypeOK' /\ StatusInv'
      /\ peer \in Clients =>
           /\ end'[peer]["server"] = end[peer]["server"]
           /\ ToServer(peer) = <<>> /\ end[peer]["client"] \in {"open", "fin"} =>
                end'[peer]["client"] \in {"open", "fin"}
  BY <1>0, EndsStep
<1>2. status'[Server] = how /\ \A c \in Clients : status'[c] = status[c]
  BY <1>0, <1>1, SslHelloAssumption DEF HelloTypeOK, Processes
<1>3. GivenUp(Server)' \/ (how = "exit0" /\ status[Server] = "close")
  BY <1>2 DEF GivenUp, EndStatus
<1>4. /\ wire' = wire /\ step' = step /\ talked' = talked /\ peer' = peer
      /\ version' = version /\ talks' = talks
  BY DEF setting
<1>5. UnacceptedInv'
  BY <1>0, <1>2, <1>4 DEF UnacceptedInv, ToClient, EndStatus
<1>6. CASE peer \notin Clients \/ GivenUp(Server)'
  BY <1>1, <1>4, <1>5, <1>6 DEF HelloInv, HandshakeInv, MessageInv
<1>7. CASE peer \in Clients /\ ~GivenUp(Server)'
  <2>1. status[Server] = "close" /\ ~GivenUp(Server) /\ ~Running(Server)
    BY <1>3, <1>7 DEF GivenUp, Running
  <2>2. MessageInv'
    BY <1>0, <1>2, <1>4, <1>7, <2>1 DEF MessageInv
  <2>3. ASSUME GivenUp(peer) PROVE HandshakeInv'
    BY <1>2, <1>4, <1>7, <2>3 DEF HandshakeInv, GivenUp
  <2>4. ASSUME ClientLast(peer) PROVE HandshakeInv'
    <3>1. /\ version = "1.2" /\ Running(peer) /\ Open(peer, "server")
          /\ step[peer] = 4 /\ Established(Server) /\ ToServer(peer) = <<>>
          /\ ToClient(peer) # <<>> /\ Head(ToClient(peer)) = "ServerFinished"
          /\ end[peer]["client"] \in {"open", "fin"}
          /\ Server \notin talks
      BY <2>1, <2>4 DEF ClientLast
    <3>2. end'[peer]["client"] \in {"open", "fin"} /\ Open(peer, "server")'
      BY <1>1, <1>4, <1>7, <3>1 DEF Open
    <3>3. Established(Server)'
      BY <1>4, <3>1 DEF Established, Handshake, SSL_accept, SSL_connect
    <3>4. Running(peer)' /\ ToServer(peer)' = ToServer(peer) /\ ToClient(peer)' = ToClient(peer)
      BY <1>2, <1>4, <1>7, <3>1 DEF Running, ToServer, ToClient
    <3>5. ClientLast(peer)'
      BY <1>4, <3>1, <3>2, <3>3, <3>4 DEF ClientLast
    <3>6. QED  BY <3>5 DEF HandshakeInv
  <2>5. ASSUME Established(peer) /\ Established(Server) PROVE HandshakeInv'
    BY <1>4, <2>5 DEF HandshakeInv, Established, Handshake, SSL_accept, SSL_connect
  <2>6. HandshakeInv'
    BY <1>0, <1>7, <2>1, <2>3, <2>4, <2>5 DEF HandshakeInv, Greeting, ServerLast
  <2>7. QED  BY <1>1, <1>5, <2>2, <2>6 DEF HelloInv
<1>8. QED  BY <1>6, <1>7

-----------------------------------------------------------------------------
(***************************************************************************)
(* Every action keeps the invariant.                                       *)
(***************************************************************************)

\* The calls of the library.
LEMMA LibraryCalls ==
  ASSUME HelloInv, NEW p \in Processes, GetRecord(p) \/ GetNothing(p) \/ Put(p)
  PROVE  HelloInv'
<1>0. /\ HelloTypeOK /\ StatusInv /\ UnacceptedInv
      /\ p = Server \/ p \in Clients
  BY DEF HelloInv, Processes
<1>1. CASE p \in Clients /\ p # peer
  BY <1>1, OtherReads, OtherReadsNothing, OtherWrites
<1>2. CASE p = Server \/ (p \in Clients /\ p = peer)
  <2>1. Alone(p) /\ HelloTypeOK' /\ StatusInv' /\ status[p] = "run" /\ (Went(p) \/ Failed(p))
    BY <1>0, GetRecordStep, GetNothingStep, PutStep
  <2>2. status'[p] \in {"run", "close"}
    BY <2>1 DEF Went, Failed
  <2>3. UnacceptedInv'
    <3>1. CASE p = Server
      BY <1>0, <2>1, <2>2, <3>1, UnacceptedStays
    <3>2. CASE p \in Clients /\ p = peer
      BY <1>0, <2>1, <3>2, ClientMoves, UnacceptedStays
    <3>3. QED  BY <1>2, <3>1, <3>2
  <2>4. HandshakeInv' /\ MessageInv'
    <3>1. CASE p = Server
      <4>1. peer \in Clients
        BY <1>0, <2>1, <3>1 DEF StatusInv
      <4>2. QED  BY <3>1, <4>1, ServerReads, ServerReadsNothing, ServerWrites
    <3>2. CASE p \in Clients /\ p = peer
      BY <3>2, ClientReads, ClientReadsNothing, ClientWrites
    <3>3. QED  BY <1>2, <3>1, <3>2
  <2>5. QED  BY <2>1, <2>3, <2>4 DEF HelloInv
<1>3. QED  BY <1>0, <1>1, <1>2

\* The end of any process.
LEMMA ProcessEnds ==
  ASSUME HelloInv, NEW p \in Processes, NEW how \in EndStatus, Ends(p, how),
         how = "exit0" => status[p] = "close",
         UNCHANGED <<setting, step, talked, peer, queue, wire>>
  PROVE  HelloInv'
  BY ClientEnds, ServerEnds DEF Processes

\* The server listens.
LEMMA ListenKeeps ==
  ASSUME HelloInv, Listen
  PROVE  HelloInv'
<1>0. /\ HelloTypeOK /\ StatusInv /\ UnacceptedInv /\ HandshakeInv /\ MessageInv
      /\ Server \in Processes /\ Server \notin Clients /\ Nobody \notin Clients
  BY SslHelloAssumption DEF HelloInv, Processes
<1>1. /\ status[Server] = "start" /\ status'[Server] \in {"accept", "exit1"}
      /\ status' = [status EXCEPT ![Server] = status'[Server]]
      /\ \A p \in Processes \ {Server} : status'[p] = status[p]
  BY <1>0 DEF Listen, HelloTypeOK
<1>2. /\ version' = version /\ talks' = talks /\ certified' = certified /\ step' = step
      /\ talked' = talked /\ peer' = peer /\ queue' = queue /\ wire' = wire /\ end' = end
  BY DEF Listen, setting
<1>3. peer = Nobody
  BY <1>0, <1>1 DEF StatusInv
<1>4. \A c \in Clients : status'[c] = status[c]
  BY <1>0, <1>1 DEF Processes
<1>5. HelloTypeOK'
  BY <1>0, <1>1, <1>2 DEF HelloTypeOK, Status
<1>6. StatusInv'
  <2>1. \A p \in Processes : Calls(p)' = Calls(p)
    BY <1>2, SettingStays DEF Setting
  <2>2. \A p \in Processes : /\ status'[p] \in {"start", "accept", "context"} => step'[p] = 1
                             /\ status'[p] = "run" => step'[p] <= Len(Calls(p)')
    BY <1>0, <1>1, <1>2, <2>1 DEF StatusInv
  <2>3. QED  BY <1>0, <1>1, <1>2, <1>3, <1>4, <2>2 DEF StatusInv, Range
<1>7. UnacceptedInv'
  BY <1>0, <1>1, <1>2, <1>4 DEF UnacceptedInv, ToServer, ToClient, Open, Running, GivenUp
<1>8. HandshakeInv' /\ MessageInv'
  BY <1>0, <1>2, <1>3 DEF HandshakeInv, MessageInv
<1>9. QED  BY <1>5, <1>6, <1>7, <1>8 DEF HelloInv

\* The server accepts the first of its queue, who may have said hello.
LEMMA AcceptKeeps ==
  ASSUME HelloInv, Accept
  PROVE  HelloInv'
<1>0. /\ HelloTypeOK /\ StatusInv /\ UnacceptedInv
      /\ Server \in Processes /\ Server \notin Clients /\ Nobody \notin Clients
  BY SslHelloAssumption DEF HelloInv, Processes
<1>1. CASE Ends(Server, "exit1") /\ UNCHANGED <<peer, queue>>
  <2>1. UNCHANGED <<setting, step, talked, peer, queue, wire>>
    BY <1>1 DEF Accept
  <2>2. QED  BY <1>1, <2>1, ServerEnds DEF EndStatus
<1>2. CASE /\ peer' = Head(queue) /\ queue' = Tail(queue)
           /\ status' = [status EXCEPT ![Server] = "context"]
           /\ UNCHANGED end
  <2>1. status[Server] = "accept" /\ queue # <<>> /\ queue \in Seq(Clients)
    BY <1>0 DEF Accept, HelloTypeOK
  <2>2. PICK c \in Clients : c = Head(queue) /\ c \in Range(queue)
    <3>1. Len(queue) \in Nat \ {0} /\ Head(queue) = queue[1] /\ 1 \in DOMAIN queue
      BY <2>1
    <3>2. Head(queue) \in Clients /\ Head(queue) \in Range(queue)
      BY <2>1, <3>1 DEF Range
    <3>3. QED  BY <3>2
  <2>3. \A d \in Range(Tail(queue)) : d \in Range(queue)
    <3>1. /\ Len(queue) \in Nat \ {0} /\ Len(Tail(queue)) = Len(queue) - 1
          /\ DOMAIN queue = 1..Len(queue) /\ DOMAIN Tail(queue) = 1..(Len(queue) - 1)
          /\ \A i \in 1..(Len(queue) - 1) : Tail(queue)[i] = queue[i + 1]
      BY <2>1
    <3>2. \A i \in DOMAIN Tail(queue) : i + 1 \in DOMAIN queue /\ Tail(queue)[i] = queue[i + 1]
      BY <3>1
    <3>3. QED  BY <3>2 DEF Range
  <2>4. /\ version' = version /\ talks' = talks /\ certified' = certified /\ step' = step
        /\ talked' = talked /\ wire' = wire /\ end' = end /\ peer' = c /\ queue' = Tail(queue)
    BY <1>2, <2>2 DEF Accept, setting
  <2>5. /\ peer = Nobody /\ status[c] # "start" /\ step[Server] = 1
    BY <1>0, <2>1, <2>2 DEF StatusInv
  <2>6. status'[Server] = "context" /\ \A p \in Processes \ {Server} : status'[p] = status[p]
    BY <1>0, <1>2 DEF HelloTypeOK
  <2>7. \A d \in Clients : status'[d] = status[d]
    BY <1>0, <2>6 DEF Processes
  <2>8. HelloTypeOK'
    BY <1>0, <1>2, <2>1, <2>2, <2>4 DEF HelloTypeOK, Status
  <2>9. StatusInv'
    <3>1. \A p \in Processes : Calls(p)' = Calls(p)
      BY <2>4, SettingStays DEF Setting
    <3>2. \A p \in Processes : /\ status'[p] \in {"start", "accept", "context"} => step'[p] = 1
                               /\ status'[p] = "run" => step'[p] <= Len(Calls(p)')
      BY <1>0, <2>4, <2>5, <2>6, <3>1 DEF StatusInv
    <3>3. \A d \in Clients : d = c \/ d \in Range(Tail(queue)) => status'[d] # "start"
      BY <1>0, <2>3, <2>5, <2>7 DEF StatusInv
    <3>4. QED  BY <1>0, <2>2, <2>4, <2>6, <2>7, <3>2, <3>3 DEF StatusInv, Range
  <2>10. UnacceptedInv'
    BY <1>0, <2>4, <2>5, <2>6 DEF UnacceptedInv, ToClient
  <2>11. /\ step[c] <= 2 /\ ToClient(c) = <<>> /\ c \notin talked
         /\ GivenUp(c) \/ /\ Open(c, "server") /\ Open(c, "client") /\ Running(c)
                          /\ ToServer(c) = IF step[c] = 1 THEN <<>> ELSE <<"ClientHello">>
    BY <1>0, <2>1, <2>2, <2>5 DEF UnacceptedInv
  <2>12. HandshakeInv'
    <3>1. CASE GivenUp(c)
      BY <2>2, <2>4, <2>7, <3>1 DEF HandshakeInv, GivenUp
    <3>2. CASE ~GivenUp(c)
      <4>1. step[c] = 1 \/ step[c] = 2
        <5>1. step[c] \in Nat \ {0} /\ step[c] <= 2
          BY <1>0, <2>11 DEF HelloTypeOK, Processes
        <5>2. QED  BY <5>1
      <4>2. At(c, 1, 1, <<>>, <<>>) \/ At(c, 2, 1, <<"ClientHello">>, <<>>)
        BY <2>5, <2>11, <3>2, <4>1 DEF At
      <4>3. Running(c)' /\ Running(Server)' /\ Open(c, "server")' /\ Open(c, "client")'
        BY <2>2, <2>4, <2>6, <2>7, <2>11, <3>2 DEF Running, Open
      <4>4. At(c, 1, 1, <<>>, <<>>)' \/ At(c, 2, 1, <<"ClientHello">>, <<>>)'
        BY <2>4, <4>2 DEF At, ToServer, ToClient
      <4>5. Greeting(c)'
        BY <4>3, <4>4 DEF Greeting
      <4>6. QED  BY <2>4, <4>5 DEF HandshakeInv
    <3>3. QED  BY <3>1, <3>2
  <2>13. MessageInv'
    BY <1>0, <2>2, <2>4, <2>11 DEF MessageInv, HelloTypeOK, Processes
  <2>14. QED  BY <2>8, <2>9, <2>10, <2>12, <2>13 DEF HelloInv
<1>3. QED  BY <1>1, <1>2 DEF Accept

\* A client connects, or does not find the server.
LEMMA ConnectKeeps ==
  ASSUME HelloInv, NEW c \in Clients, Connect(c)
  PROVE  HelloInv'
<1>0. /\ HelloTypeOK /\ StatusInv /\ UnacceptedInv /\ HandshakeInv /\ MessageInv
      /\ c \in Processes /\ c # Server /\ Server \in Processes
  BY SslHelloAssumption DEF HelloInv, Processes
<1>1. /\ status[c] = "start" /\ status'[c] \in {"context", "exit1"}
      /\ status' = [status EXCEPT ![c] = status'[c]]
      /\ \A p \in Processes \ {c} : status'[p] = status[p]
      /\ queue' \in {queue, Append(queue, c)}
  BY <1>0 DEF Connect, HelloTypeOK
<1>2. /\ version' = version /\ talks' = talks /\ certified' = certified /\ step' = step
      /\ talked' = talked /\ peer' = peer /\ wire' = wire /\ end' = end
  BY DEF Connect, setting
<1>3. c # peer /\ step[c] = 1
  BY <1>0, <1>1 DEF StatusInv
<1>4. queue \in Seq(Clients) /\ queue' \in Seq(Clients)
  <2>1. queue \in Seq(Clients)
    BY <1>0 DEF HelloTypeOK
  <2>2. Append(queue, c) \in Seq(Clients)
    BY <2>1
  <2>3. QED  BY <1>1, <2>1, <2>2
<1>5. \A d \in Range(queue') : d \in Range(queue) \/ d = c
  <2>1. CASE queue' = queue
    BY <2>1 DEF Range
  <2>2. CASE queue' = Append(queue, c)
    <3>1. /\ Len(queue) \in Nat /\ DOMAIN queue = 1..Len(queue) /\ DOMAIN queue' = 1..(Len(queue) + 1)
          /\ \A i \in 1..(Len(queue) + 1) : queue'[i] = IF i <= Len(queue) THEN queue[i] ELSE c
      BY <1>4, <2>2
    <3>2. \A i \in DOMAIN queue' : queue'[i] = c \/ (i \in DOMAIN queue /\ queue'[i] = queue[i])
      BY <3>1
    <3>3. QED  BY <3>2 DEF Range
  <2>3. QED  BY <1>1, <2>1, <2>2
<1>6. Alone(c)
  BY <1>1, <1>2 DEF Alone, Setting
<1>7. HelloTypeOK'
  BY <1>0, <1>1, <1>2, <1>4 DEF HelloTypeOK, Status
<1>8. StatusInv'
  <2>1. \A p \in Processes : Calls(p)' = Calls(p)
    BY <1>2, SettingStays DEF Setting
  <2>2. \A p \in Processes : /\ status'[p] \in {"start", "accept", "context"} => step'[p] = 1
                             /\ status'[p] = "run" => step'[p] <= Len(Calls(p)')
    BY <1>0, <1>1, <1>2, <1>3, <2>1 DEF StatusInv
  <2>3. \A d \in Clients : /\ status'[d] # "accept"
                           /\ d = peer \/ d \in Range(queue') => status'[d] # "start"
    <3> TAKE d \in Clients
    <3>1. d = c \/ status'[d] = status[d]
      BY <1>0, <1>1 DEF Processes
    <3>2. QED  BY <1>0, <1>1, <1>5, <3>1 DEF StatusInv
  <2>4. status'[Server] = status[Server]
    BY <1>0, <1>1
  <2>5. QED  BY <1>0, <1>2, <2>2, <2>3, <2>4 DEF StatusInv, Range
<1>9. HandshakeInv' /\ MessageInv'
  BY <1>0, <1>3, <1>6, PairStays
<1>10. /\ ToClient(c) = <<>> /\ c \notin talked
       /\ status[Server] \in {"start", "accept"} =>
            Open(c, "server") /\ Open(c, "client") /\ ToServer(c) = <<>>
  BY <1>0, <1>1, <1>3 DEF UnacceptedInv, GivenUp
<1>11. /\ step'[c] = 1 /\ ToClient(c)' = <<>> /\ c \notin talked'
       /\ status[Server] \in {"start", "accept"} =>
            Open(c, "server")' /\ Open(c, "client")' /\ ToServer(c)' = <<>>
  BY <1>2, <1>3, <1>10 DEF ToServer, ToClient, Open
<1>12. ~GivenUp(c)' => Running(c)'
  BY <1>1 DEF GivenUp, Running
<1>13. UnacceptedInv'
  BY <1>0, <1>3, <1>6, <1>11, <1>12, UnacceptedMoves
<1>14. QED  BY <1>7, <1>8, <1>9, <1>13 DEF HelloInv

\* The server or a client creates its context, or fails to.
LEMMA CreateContextKeeps ==
  ASSUME HelloInv, NEW p \in Processes, CreateContext(p)
  PROVE  HelloInv'
<1>0. /\ HelloTypeOK /\ StatusInv /\ UnacceptedInv /\ HandshakeInv /\ MessageInv
      /\ status[p] = "context" /\ UNCHANGED <<setting, step, talked, peer, queue, wire>>
  BY DEF HelloInv, CreateContext
<1>1. CASE Ends(p, "exit1")
  BY <1>0, <1>1, ProcessEnds DEF EndStatus
<1>2. CASE status' = [status EXCEPT ![p] = "run"] /\ UNCHANGED end
  <2>1. /\ version' = version /\ talks' = talks /\ certified' = certified /\ step' = step
        /\ talked' = talked /\ peer' = peer /\ queue' = queue /\ wire' = wire /\ end' = end
    BY <1>0, <1>2 DEF setting
  <2>2. /\ status'[p] = "run" /\ step[p] = 1
        /\ \A q \in Processes \ {p} : status'[q] = status[q]
    BY <1>0, <1>2 DEF HelloTypeOK, StatusInv
  <2>3. \A q \in Processes : /\ GivenUp(q)' <=> GivenUp(q)
                             /\ Running(q)' <=> Running(q)
    BY <1>0, <2>2 DEF GivenUp, Running
  <2>4. Setting /\ Alone(p) /\ StepTypes(p)
    <3>1. status' = [status EXCEPT ![p] = status'[p]] /\ status'[p] \in Status
      BY <1>2, <2>2 DEF Status
    <3>2. step' = [step EXCEPT ![p] = step'[p]] /\ step'[p] \in Nat \ {0}
      BY <1>0, <2>1 DEF HelloTypeOK
    <3>3. QED  BY <1>0, <2>1, <2>2, <3>1, <3>2 DEF Setting, Alone, StepTypes, HelloTypeOK, EndState
  <2>5. HelloTypeOK'
    BY <1>0, <2>1, <2>4, TypesStay
  <2>6. step'[p] <= Len(Calls(p))
    <3>1. Len(Calls(p)) = HandshakeLength(p) + (IF p \in talks THEN 2 ELSE 1)
      BY <1>0, LaterCalls
    <3>2. Len(Calls(p)) \in Nat /\ Len(Calls(p)) >= 1
      BY <3>1 DEF HandshakeLength
    <3>3. QED  BY <2>1, <2>2, <3>2
  <2>7. StatusInv'
    BY <1>0, <2>1, <2>2, <2>4, <2>6, StatusStays
  <2>8. /\ Server \in Processes /\ \A c \in Clients : c \in Processes /\ c # Server
        /\ status'[Server] \in {"start", "accept"} <=> status[Server] \in {"start", "accept"}
    BY <1>0, <2>2, SslHelloAssumption DEF Processes
  <2>9. \A q : Handshake(q)' = Handshake(q)
    BY <2>4, SettingStays
  <2>10. \A c \in Clients : status'[c] = "start" <=> status[c] = "start"
    BY <1>0, <2>2, <2>8
  <2>11. UnacceptedInv'
    BY <1>0, <2>1, <2>3, <2>8, <2>10 DEF UnacceptedInv, ToServer, ToClient, Open
  <2>12. ASSUME peer \in Clients
         PROVE  HandshakeInv'
    <3>1. /\ Established(peer)' <=> Established(peer)
          /\ Established(Server)' <=> Established(Server)
      BY <2>1, <2>9 DEF Established
    <3>2. /\ GivenUp(peer)' <=> GivenUp(peer)
          /\ GivenUp(Server)' <=> GivenUp(Server)
          /\ Running(peer)' <=> Running(peer)
          /\ Running(Server)' <=> Running(Server)
      <4>1. \A q \in {peer, Server} :
              /\ status'[q] \in {"exit1", "sigpipe", "sigint"} <=> GivenUp(q)
              /\ status'[q] \in {"context", "run"} <=> Running(q)
        BY <1>0, <2>2, <2>8, <2>12 DEF GivenUp, Running
      <4>2. QED  BY <2>1, <4>1 DEF GivenUp, Running
    <3>3. /\ ToServer(peer)' = ToServer(peer) /\ ToClient(peer)' = ToClient(peer)
          /\ Open(peer, "client")' <=> Open(peer, "client")
          /\ Open(peer, "server")' <=> Open(peer, "server")
      BY <2>1 DEF ToServer, ToClient, Open
    <3>4. \A i, j, up, down : At(peer, i, j, up, down)' <=> At(peer, i, j, up, down)
      BY <2>1, <3>3 DEF At
    <3>5. Greeting(peer) => Greeting(peer)'
      BY <3>2, <3>3, <3>4 DEF Greeting
    <3>6. ServerLast(peer) => ServerLast(peer)'
      BY <2>1, <3>1, <3>2, <3>3 DEF ServerLast
    <3>7. ClientLast(peer) => ClientLast(peer)'
      <4>1. status[Server] = "run" => status'[Server] = "run"
        BY <1>0, <2>2, <2>8
      <4>2. QED  BY <2>1, <3>1, <3>2, <3>3, <3>4, <4>1 DEF ClientLast
    <3>8. QED  BY <1>0, <2>1, <3>1, <3>2, <3>5, <3>6, <3>7 DEF HandshakeInv
  <2>13. ASSUME peer \in Clients
         PROVE  MessageInv'
    <3>1. /\ GivenUp(Server)' <=> GivenUp(Server)
          /\ status[Server] = "run" => status'[Server] = "run"
      BY <1>0, <2>2, <2>3, <2>8
    <3>2. /\ ToServer(peer)' = ToServer(peer) /\ ToClient(peer)' = ToClient(peer)
          /\ Open(peer, "client")' <=> Open(peer, "client")
          /\ Open(peer, "server")' <=> Open(peer, "server")
      BY <2>1 DEF ToServer, ToClient, Open
    <3>3. At(peer, 5, 5, <<>>, <<>>)' <=> At(peer, 5, 5, <<>>, <<>>)
      BY <2>1, <3>2 DEF At
    <3>4. status'[peer] = "run" /\ step[peer] = 5 => status[peer] = "run"
      BY <2>2, <2>8, <2>13
    <3>5. QED  BY <1>0, <2>1, <2>13, <3>1, <3>2, <3>3, <3>4 DEF MessageInv
  <2>14. peer \notin Clients => HandshakeInv' /\ MessageInv'
    BY <2>1 DEF HandshakeInv, MessageInv
  <2>15. QED  BY <2>5, <2>7, <2>11, <2>12, <2>13, <2>14 DEF HelloInv
<1>3. QED  BY <1>1, <1>2 DEF CreateContext

-----------------------------------------------------------------------------
(***************************************************************************)
(* The theorems.                                                           *)
(***************************************************************************)

\* The invariant holds when nobody has started.
LEMMA InitHello ==
  Init => HelloInv
<1> SUFFICES ASSUME Init
             PROVE  HelloInv
  OBVIOUS
<1>1. Server \in Processes /\ Nobody \notin Clients
  BY SslHelloAssumption DEF Processes
<1>2. HelloTypeOK
  BY DEF Init, HelloTypeOK, Status, Side
<1>3. StatusInv
  BY <1>1 DEF Init, StatusInv, Range, Processes
<1>4. UnacceptedInv
  BY <1>1 DEF Init, UnacceptedInv, ToClient, ToServer, Open, Side, Processes
<1>5. HandshakeInv /\ MessageInv
  BY <1>1 DEF Init, HandshakeInv, MessageInv
<1>6. QED  BY <1>2, <1>3, <1>4, <1>5 DEF HelloInv

\* Every step keeps it.
LEMMA StepHello ==
  HelloInv /\ [Next]_vars => HelloInv'
<1> SUFFICES ASSUME HelloInv, [Next]_vars
             PROVE  HelloInv'
  OBVIOUS
<1>1. CASE Listen
  BY <1>1, ListenKeeps
<1>2. CASE Accept
  BY <1>2, AcceptKeeps
<1>3. CASE \E c \in Clients : Connect(c)
  BY <1>3, ConnectKeeps
<1>4. ASSUME NEW p \in Processes, Works(p) \/ Interrupt(p)
      PROVE  HelloInv'
  <2>1. CASE CreateContext(p)
    BY <2>1, CreateContextKeeps
  <2>2. CASE GetRecord(p) \/ GetNothing(p) \/ Put(p)
    BY <2>2, LibraryCalls
  <2>3. CASE PutBreaks(p)
    BY <2>3, ProcessEnds DEF PutBreaks, EndStatus
  <2>4. CASE Close(p)
    BY <2>4, ProcessEnds DEF Close, EndStatus
  <2>5. CASE Interrupt(p)
    BY <2>5, ProcessEnds DEF Interrupt, EndStatus
  <2>6. QED  BY <1>4, <2>1, <2>2, <2>3, <2>4, <2>5 DEF Works
<1>5. CASE UNCHANGED vars
  <2>1. UNCHANGED <<version, talks, certified, status, step, talked, peer, queue, wire, end>>
    BY <1>5 DEF vars, setting
  <2>2. HelloTypeOK'
    BY <2>1 DEF HelloInv, HelloTypeOK
  <2>3. StatusInv'
    BY <2>1 DEF HelloInv, StatusInv, Range, Calls, Handshake, Talk, SSL_accept, SSL_connect
  <2>4. UnacceptedInv'
    BY <2>1 DEF HelloInv, UnacceptedInv, ToServer, ToClient, Open, Running, GivenUp
  <2>5. HandshakeInv'
    BY <2>1 DEF HelloInv, HandshakeInv, Greeting, ClientLast, ServerLast, At, ToServer, ToClient,
                Open, Running, GivenUp, Established, Handshake, SSL_accept, SSL_connect
  <2>6. MessageInv'
    BY <2>1 DEF HelloInv, MessageInv, At, ToServer, ToClient, Open, GivenUp
  <2>7. QED  BY <2>2, <2>3, <2>4, <2>5, <2>6 DEF HelloInv
<1>6. QED  BY <1>1, <1>2, <1>3, <1>4, <1>5 DEF Next, Quiet

(***************************************************************************)
(* As long as neither has been interrupted or given up, the two sides of a *)
(* handshake are a call or two apart, with what one has written and the    *)
(* other not read between them.                                            *)
(***************************************************************************)
THEOREM HelloCorrect == Spec => []HelloInv
  BY InitHello, StepHello, PTL DEF Spec

(***************************************************************************)
(* A client and the server that both end with 0 have both completed the    *)
(* handshake: no order of their calls, no write after the last read and no *)
(* early close makes it fail.                                              *)
(***************************************************************************)
THEOREM HandshakesAgree == Spec => []BothEstablish
<1>1. HelloInv => BothEstablish
  <2> SUFFICES ASSUME HelloInv, NEW c \in Clients, peer = c,
                      status[c] = "exit0", status[Server] = "exit0"
               PROVE  Established(c) /\ Established(Server)
    BY DEF BothEstablish
  <2>1. ~Running(c) /\ ~Running(Server) /\ ~GivenUp(c) /\ ~GivenUp(Server)
    BY DEF Running, GivenUp
  <2>2. QED  BY <2>1 DEF HelloInv, HandshakeInv, Greeting, ClientLast, ServerLast
<1>2. QED  BY <1>1, HelloCorrect, PTL

\* With TLS 1.2 what a client has sent is received by a server that ends by itself.
THEOREM MessagesArrive == Spec => []SentIsReceived
<1>1. HelloInv => SentIsReceived
  <2> SUFFICES ASSUME HelloInv, version = "1.2", Server \in talks, status[Server] = "exit0",
                      talked # {}
               PROVE  Server \in talked
    BY DEF SentIsReceived
  <2>1. peer \in Clients /\ ~GivenUp(Server)
    BY DEF HelloInv, StatusInv, GivenUp
  <2>2. peer \in talked => Server \in talked
    BY <2>1 DEF HelloInv, MessageInv
  <2>3. \A p \in talked : p = peer \/ p = Server
    BY DEF HelloInv, UnacceptedInv, HelloTypeOK, Processes
  <2>4. QED  BY <2>2, <2>3
<1>2. QED  BY <1>1, HelloCorrect, PTL
=============================================================================
