----------------------------- MODULE TalkProofs -----------------------------
(***************************************************************************)
(* Theorems about the echo exercise, for any number of clients and of      *)
(* lines: which answer belongs to which line, and when the server leaves.  *)
(***************************************************************************)
EXTENDS SimplexTalk, SequenceTheorems, WellFoundedInduction, TLAPS

-----------------------------------------------------------------------------
(***************************************************************************)
(* What string functions see.                                              *)
(***************************************************************************)
EndState == {"open", "fin", "rst", "gone"}

\* Numbers have a smallest one.
LEMMA Smallest ==
  ASSUME NEW I \in SUBSET Nat, I # {}
  PROVE  \E i \in I : \A j \in I : i <= j
<1> DEFINE less == OpToRel(<, Nat)
<1>1. PICK i \in I : \A j \in I : ~(<<j, i>> \in less)
  <2>1. IsWellFoundedOn(less, Nat)
    BY NatLessThanWellFounded
  <2> HIDE DEF less
  <2>2. QED  BY <2>1, WFMin
<1>2. \A j \in I : j < i => <<j, i>> \in less
  BY DEF OpToRel
<1> HIDE DEF less
<1>3. ASSUME NEW j \in I
      PROVE  i <= j
  <2>1. i \in Nat /\ j \in Nat /\ ~(j < i)
    BY <1>1, <1>2
  <2>2. QED  BY <2>1
<1>4. QED  BY <1>3

\* Pieces are pieces.
LEMMA PieceTypes ==
  /\ \A l \in Texts : Line(l) \in Seq(Pieces) /\ Append(Line(l), Stamp) \in Seq(Pieces)
  /\ Stamp \in Pieces /\ Bye \in Pieces /\ Rest \in Pieces
  BY DEF Texts, Line, Piece, Pieces, Stamp, Bye, Rest

\* A part of a stream is made of pieces.
LEMMA PartTypes ==
  ASSUME NEW s \in Seq(Pieces), NEW i \in Nat \ {0}, NEW j \in 0..Len(s)
  PROVE  SubSeq(s, i, j) \in Seq(Pieces)
<1>1. i \in Int /\ j \in Int /\ \A k \in i..j : s[k] \in Pieces
  <2>1. Len(s) \in Nat /\ \A k \in 1..Len(s) : s[k] \in Pieces
    OBVIOUS
  <2>2. QED  BY <2>1
<1>2. QED  BY <1>1, SubSeqProperties

\* The first piece that ends a text, if one does.
LEMMA FirstEnder ==
  ASSUME NEW read \in Seq(Pieces), NEW enders
  PROVE  LET end == SelectInSeq(read, LAMBDA p : p.part \in enders)
         IN  \/ end = 0 /\ \A i \in 1..Len(read) : read[i].part \notin enders
             \/ /\ end \in 1..Len(read) /\ read[end].part \in enders
                /\ \A i \in 1..(end - 1) : read[i].part \notin enders
<1> DEFINE I == {i \in 1..Len(read) : read[i].part \in enders}
           end == SelectInSeq(read, LAMBDA p : p.part \in enders)
<1>1. end = IF I # {} THEN CHOOSE i \in I : \A j \in I : i <= j ELSE 0
  BY DEF SelectInSeq, Min
<1>2. Len(read) \in Nat
  OBVIOUS
<1>3. CASE I = {}
  BY <1>1, <1>3
<1>4. CASE I # {}
  <2>1. I \in SUBSET Nat
    BY <1>2
  <2>2. \E i \in I : \A j \in I : i <= j
    BY <1>4, <2>1, Smallest
  <2>3. end \in I /\ \A j \in I : end <= j
    BY <1>1, <1>4, <2>2
  <2> HIDE DEF end
  <2>4. end \in 1..Len(read) /\ read[end].part \in enders
    BY <2>3
  <2>5. \A i \in 1..(end - 1) : read[i].part \notin enders
    BY <1>2, <2>3, <2>4
  <2>6. QED  BY <2>4, <2>5 DEF end
<1>5. QED  BY <1>3, <1>4

\* They see pieces.
LEMMA SeenTypes ==
  ASSUME NEW read \in Seq(Pieces), NEW enders
  PROVE  Seen(read, enders) \in Seq(Pieces)
<1> DEFINE end == SelectInSeq(read, LAMBDA p : p.part \in enders)
<1>1. \/ end = 0 /\ \A i \in 1..Len(read) : read[i].part \notin enders
      \/ /\ end \in 1..Len(read) /\ read[end].part \in enders
         /\ \A i \in 1..(end - 1) : read[i].part \notin enders
  BY FirstEnder
<1>2. Seen(read, enders) = IF end = 0 THEN Append(read, Rest) ELSE SubSeq(read, 1, end)
  BY DEF Seen
<1> HIDE DEF end
<1>3. Append(read, Rest) \in Seq(Pieces)
  BY PieceTypes
<1>4. end \in 1..Len(read) => SubSeq(read, 1, end) \in Seq(Pieces)
  BY PartTypes
<1>5. QED  BY <1>1, <1>2, <1>3, <1>4

\* They see all of a text that is whole.
LEMMA SeenWhole ==
  ASSUME NEW read \in Seq(Pieces), NEW enders, read # <<>>, read[Len(read)].part \in enders,
         \A i \in 1..(Len(read) - 1) : read[i].part \notin enders
  PROVE  Seen(read, enders) = read
<1> DEFINE end == SelectInSeq(read, LAMBDA p : p.part \in enders)
<1>1. Len(read) \in Nat /\ Len(read) # 0
  OBVIOUS
<1>2. \/ end = 0 /\ \A i \in 1..Len(read) : read[i].part \notin enders
      \/ /\ end \in 1..Len(read) /\ read[end].part \in enders
         /\ \A i \in 1..(end - 1) : read[i].part \notin enders
  BY FirstEnder
<1>3. Seen(read, enders) = IF end = 0 THEN Append(read, Rest) ELSE SubSeq(read, 1, end)
  BY DEF Seen
<1> HIDE DEF end
<1>4. end = Len(read)
  BY <1>1, <1>2
<1>5. SubSeq(read, 1, Len(read)) = read
  BY SubSeqFull
<1>6. QED  BY <1>1, <1>3, <1>4, <1>5

-----------------------------------------------------------------------------
(***************************************************************************)
(* Types.                                                                  *)
(***************************************************************************)

\* What ends a program leaves on its connections.
LEMMA ClientEndTypes ==
  ASSUME TalkTypeOK, NEW c \in Clients, NEW how \in End, ClientEnds(c, how)
  PROVE  /\ cpc' = [cpc EXCEPT ![c] = how]
         /\ far' = [far EXCEPT ![c] = far'[c]] /\ far'[c] \in EndState
         /\ far[c] = "open" /\ down[c] = <<>> => far'[c] = "fin"
<1>1. far \in [Clients -> EndState]
  BY DEF TalkTypeOK, EndState
<1>2. PICK end \in AfterClose(far[c], down[c]) : far' = [far EXCEPT ![c] = end]
  BY DEF ClientEnds
<1>3. end \in EndState /\ (far[c] = "open" /\ down[c] = <<>> => end = "fin")
  BY <1>1, <1>2 DEF AfterClose, EndState
<1>4. QED  BY <1>1, <1>2, <1>3 DEF ClientEnds

\* A server that ends leaves states of ends to the clients.
LEMMA ServerLeaveTypes ==
  ASSUME TalkTypeOK, NEW how \in End, NEW p, ServerLeaves(p, how)
  PROVE  spc' = how /\ near' \in [Clients -> EndState]
<1>1. near \in [Clients -> EndState]
  BY DEF TalkTypeOK, EndState
<1>2. PICK end \in IF p \in Clients THEN AfterClose(near[p], up[p]) ELSE {"open"} :
        near' = [c \in Clients |-> IF c = p THEN end
                                   ELSE IF c \in Range(queue) THEN "rst" ELSE near[c]]
  BY DEF ServerLeaves
<1>3. end \in EndState
  BY <1>1, <1>2 DEF AfterClose, EndState
<1>4. QED  BY <1>1, <1>2, <1>3 DEF ServerLeaves, EndState

\* So does one that ends with the connection of the client it serves.
LEMMA ServerEndTypes ==
  ASSUME TalkTypeOK, NEW how \in End, ServerEnds(how)
  PROVE  spc' = how /\ near' \in [Clients -> EndState]
  BY ServerLeaveTypes DEF ServerEnds

\* What a call of send() makes of an end.
LEMMA SendEnd ==
  ASSUME NEW s \in EndState, NEW end \in AfterSend(s)
  PROVE  end \in EndState /\ (s = "open" => end = "open")
  BY DEF AfterSend, EndState

\* How much a recv() returns.
LEMMA ReadsTypes ==
  ASSUME TalkTypeOK, NEW s \in Seq(Pieces), s # <<>>, NEW n \in Reads(s)
  PROVE  /\ n \in 1..Len(s) /\ SubSeq(s, 1, n) \in Seq(Pieces) /\ From(s, n) \in Seq(Pieces)
         /\ ~rough => SubSeq(s, 1, n) = s /\ From(s, n) = <<>>
<1>1. Len(s) \in Nat \ {0}
  OBVIOUS
<1>2. n \in 1..Len(s) /\ (~rough => n = Len(s))
  BY <1>1 DEF Reads
<1>3. SubSeq(s, 1, n) \in Seq(Pieces) /\ From(s, n) \in Seq(Pieces)
  BY <1>1, <1>2, PartTypes DEF From
<1>4. SubSeq(s, 1, Len(s)) = s /\ SubSeq(s, Len(s) + 1, Len(s)) = <<>>
  BY <1>1, SubSeqFull, SubSeqEmpty
<1>5. QED  BY <1>2, <1>3, <1>4 DEF From

\* The server receives.
LEMMA ReceiveTypes ==
  ASSUME TalkTypeOK, Receive, peer \in Clients
  PROVE  TalkTypeOK'
<1> USE DEF serverVars, clientVars
<1>1. up \in [Clients -> Seq(Pieces)] /\ far \in [Clients -> EndState] /\ buf \in Seq(Pieces)
  BY DEF TalkTypeOK, EndState
<1>2. /\ up' \in [Clients -> Seq(Pieces)] /\ far' \in [Clients -> EndState] /\ buf' \in Seq(Pieces)
      /\ spc' \in {"echo", "bye"}
  <2>1. CASE /\ up[peer] # <<>>
             /\ \E n \in Reads(up[peer]) :
                  /\ buf' = Seen(SubSeq(up[peer], 1, n), {"tail"})
                  /\ up' = [up EXCEPT ![peer] = From(@, n)]
                  /\ \E kill \in KillTests(buf') : spc' = IF kill THEN "bye" ELSE "echo"
             /\ UNCHANGED far
    <3>1. PICK n \in Reads(up[peer]) :
            /\ buf' = Seen(SubSeq(up[peer], 1, n), {"tail"})
            /\ up' = [up EXCEPT ![peer] = From(up[peer], n)]
      BY <1>1, <2>1
    <3>2. SubSeq(up[peer], 1, n) \in Seq(Pieces) /\ From(up[peer], n) \in Seq(Pieces)
      BY <1>1, <2>1, ReadsTypes
    <3>3. QED  BY <1>1, <2>1, <3>1, <3>2, SeenTypes
  <2>2. CASE up[peer] = <<>> /\ spc' = "bye" /\ UNCHANGED <<rough, buf, up, far>>
    BY <1>1, <2>2
  <2>3. CASE spc' = "echo" /\ far' = [far EXCEPT ![peer] = "gone"] /\ UNCHANGED <<rough, buf, up>>
    BY <1>1, <2>3 DEF EndState
  <2>4. QED  BY <2>1, <2>2, <2>3 DEF Receive
<1>3. UNCHANGED <<rough, peer, queue, cpc, said, shown, down, near>>
  BY DEF Receive
<1>4. QED  BY <1>2, <1>3 DEF TalkTypeOK, EndState

\* It sends an answer, or its last word.
LEMMA SendTypes ==
  ASSUME TalkTypeOK, peer \in Clients, NEW text \in Seq(Pieces), Send(text)
  PROVE  /\ down' \in [Clients -> Seq(Pieces)] /\ far' \in [Clients -> EndState]
         /\ far[peer] = "open" =>
              /\ down' = [down EXCEPT ![peer] = down[peer] \o text]
              /\ far' = far
<1>1. down \in [Clients -> Seq(Pieces)] /\ far \in [Clients -> EndState]
  BY DEF TalkTypeOK, EndState
<1>2. PICK end \in AfterSend(far[peer]) : far' = [far EXCEPT ![peer] = end]
  BY DEF Send
<1>3. end \in EndState /\ (far[peer] = "open" => end = "open")
  BY <1>1, <1>2, SendEnd
<1>4. down[peer] \o text \in Seq(Pieces)
  BY <1>1
<1>5. QED  BY <1>1, <1>2, <1>3, <1>4 DEF Send

\* An answer keeps the types.
LEMMA EchoTypes ==
  ASSUME TalkTypeOK, Echo \/ SayBye, peer \in Clients
  PROVE  TalkTypeOK'
<1> USE DEF serverVars, clientVars
<1>1. UNCHANGED <<rough, peer, buf, queue, cpc, said, shown, up>>
  BY DEF Echo, SayBye
<1>2. Append(buf, Stamp) \in Seq(Pieces) /\ <<Bye>> \in Seq(Pieces)
  BY PieceTypes DEF TalkTypeOK
<1>3. /\ down' \in [Clients -> Seq(Pieces)] /\ far' \in [Clients -> EndState]
      /\ near' \in [Clients -> EndState] /\ spc' \in {"recv"} \cup End
  <2>1. near \in [Clients -> EndState] /\ far \in [Clients -> EndState] /\ down \in [Clients -> Seq(Pieces)]
    BY DEF TalkTypeOK, EndState
  <2>2. \/ Send(Append(buf, Stamp)) /\ spc' = "recv" /\ UNCHANGED near
        \/ Send(<<Bye>>) /\ ServerEnds("exit0")
        \/ ServerEnds("sigpipe") /\ UNCHANGED <<down, far>>
    BY DEF Echo, SayBye
  <2>3. QED  BY <1>2, <2>1, <2>2, SendTypes, ServerEndTypes DEF End
<1>4. QED  BY <1>1, <1>3 DEF TalkTypeOK, EndState

-----------------------------------------------------------------------------
(***************************************************************************)
(* A client takes a step.                                                  *)
(***************************************************************************)

\* The others, and the server, are as they were.
Apart(c) ==
  /\ UNCHANGED <<rough, spc, peer, buf>>
  /\ \A d \in Clients \ {c} :
       /\ cpc'[d] = cpc[d] /\ said'[d] = said[d] /\ shown'[d] = shown[d]
       /\ up'[d] = up[d] /\ down'[d] = down[d] /\ near'[d] = near[d] /\ far'[d] = far[d]

\* So the invariant is about the client itself.
LEMMA ClientKeeps ==
  ASSUME TalkInv, NEW c \in Clients, Apart(c), TalkTypeOK',
         \A d \in Range(queue') : d \in Range(queue) \/ d = c,
         ~rough /\ spc \in {"start", "accept"} =>
           Unserved(c)' /\ (c \in Range(queue') => cpc'[c] \notin {"start", "exit1"}),
         ~rough /\ spc \notin {"start", "accept"} /\ c = peer =>
           Typing(c)' \/ Listens(c)' \/ Left(c)'
  PROVE  TalkInv'
<1>1. rough' = rough /\ spc' = spc /\ peer' = peer /\ buf' = buf
  BY DEF Apart
<1>2. CASE rough
  BY <1>1, <1>2 DEF TalkInv
<1>3. CASE ~rough /\ spc \in {"start", "accept"}
  <2>1. AcceptInv
    BY <1>3 DEF TalkInv
  <2>2. ASSUME NEW d \in Clients
        PROVE  Unserved(d)' /\ (d \in Range(queue') => cpc'[d] \notin {"start", "exit1"})
    <3>1. CASE d = c
      BY <1>3, <3>1
    <3>2. CASE d # c
      <4>1. /\ cpc'[d] = cpc[d] /\ said'[d] = said[d] /\ up'[d] = up[d] /\ down'[d] = down[d]
            /\ near'[d] = near[d] /\ far'[d] = far[d]
        BY <3>2 DEF Apart
      <4>2. Unserved(d) /\ (d \in Range(queue) => cpc[d] \notin {"start", "exit1"})
        BY <1>3, <2>1 DEF AcceptInv
      <4>3. Unserved(d)'
        BY <4>1, <4>2 DEF Unserved, Quietly, Asking, Open
      <4>4. QED  BY <3>2, <4>1, <4>2, <4>3
    <3>3. QED  BY <3>1, <3>2
  <2>3. AcceptInv'
    BY <1>1, <1>3, <2>1, <2>2 DEF AcceptInv, Range
  <2>4. QED  BY <1>1, <1>3, <2>3 DEF TalkInv, ServedInv
<1>4. CASE ~rough /\ spc \notin {"start", "accept"}
  <2>1. peer \in Clients /\ (Typing(peer) \/ Listens(peer) \/ Left(peer))
    BY <1>4 DEF TalkInv, ServedInv
  <2>2. CASE c = peer
    BY <1>1, <1>4, <2>1, <2>2 DEF TalkInv, ServedInv, AcceptInv
  <2>3. CASE c # peer
    <3>1. /\ cpc'[peer] = cpc[peer] /\ said'[peer] = said[peer] /\ shown'[peer] = shown[peer]
          /\ up'[peer] = up[peer] /\ down'[peer] = down[peer]
          /\ near'[peer] = near[peer] /\ far'[peer] = far[peer]
      BY <2>1, <2>3 DEF Apart
    <3>2. Typing(peer)' \/ Listens(peer)' \/ Left(peer)'
      BY <1>1, <2>1, <3>1 DEF Typing, Listens, Left, Quietly, Asking, Answering, Open, ClientEnded
    <3>3. QED  BY <1>1, <1>4, <2>1, <3>2 DEF TalkInv, ServedInv, AcceptInv
  <2>4. QED  BY <2>2, <2>3
<1>5. QED  BY <1>2, <1>3, <1>4 DEF TalkInv, TalkTypeOK

\* A client connects, or does not find the server.
LEMMA ConnectKeeps ==
  ASSUME TalkInv, NEW c \in Clients, Connect(c)
  PROVE  TalkInv'
<1> USE DEF serverVars, clientVars
<1>0. TalkTypeOK /\ cpc \in [Clients -> {"start", "fgets", "recv"} \cup End] /\ queue \in Seq(Clients)
  BY DEF TalkInv, TalkTypeOK
<1>1. /\ cpc[c] = "start" /\ cpc' = [cpc EXCEPT ![c] = cpc'[c]]
      /\ \/ cpc'[c] = "fgets" /\ queue' = Append(queue, c)
         \/ cpc'[c] = "exit1" /\ queue' = queue
      /\ UNCHANGED <<rough, spc, peer, buf, said, shown, up, down, near, far>>
  BY <1>0 DEF Connect
<1>2. queue' \in Seq(Clients)
  BY <1>0, <1>1, AppendProperties
<1>3. \A d \in Range(queue') : d \in Range(queue) \/ d = c
  <2>1. CASE queue' = queue
    BY <2>1 DEF Range
  <2>2. CASE queue' = Append(queue, c)
    <3>1. /\ Len(queue) \in Nat /\ DOMAIN queue = 1..Len(queue) /\ DOMAIN queue' = 1..(Len(queue) + 1)
          /\ \A i \in 1..(Len(queue) + 1) : queue'[i] = IF i <= Len(queue) THEN queue[i] ELSE c
      BY <1>0, <2>2
    <3>2. \A i \in DOMAIN queue' : queue'[i] = c \/ (i \in DOMAIN queue /\ queue'[i] = queue[i])
      BY <3>1
    <3>3. QED  BY <3>2 DEF Range
  <2>3. QED  BY <1>1, <2>1, <2>2
<1>4. TalkTypeOK'
  BY <1>0, <1>1, <1>2 DEF TalkTypeOK, End
<1>5. Apart(c)
  BY <1>0, <1>1 DEF Apart
<1>6. ASSUME ~rough, spc \in {"start", "accept"}
      PROVE  Unserved(c)' /\ (c \in Range(queue') => cpc'[c] \notin {"start", "exit1"})
  <2>1. Unserved(c) /\ c \notin Range(queue)
    BY <1>1, <1>6 DEF TalkInv, AcceptInv
  <2>2. Quietly(c) /\ said[c] = [n |-> 0, kind |-> "text"]
    BY <1>1, <2>1 DEF Unserved
  <2>3. Unserved(c)'
    BY <1>1, <2>2 DEF Unserved, Quietly, Open
  <2>4. QED  BY <1>1, <2>1, <2>3
<1>7. ~rough /\ spc \notin {"start", "accept"} => c # peer
  BY <1>1 DEF TalkInv, ServedInv, Typing, Listens, Left, ClientEnded, End
<1>8. QED  BY <1>3, <1>4, <1>5, <1>6, <1>7, ClientKeeps

\* A client says a line.
LEMMA SayStep ==
  ASSUME TalkTypeOK, NEW c \in Clients, Say(c)
  PROVE  /\ TalkTypeOK' /\ Apart(c) /\ queue' = queue
         /\ cpc[c] = "fgets" /\ shown' = shown /\ down' = down
         /\ near[c] = "open" => /\ cpc'[c] = "recv" /\ up'[c] = up[c] \o Line(said'[c])
                                /\ near'[c] = "open" /\ far' = far
<1> USE DEF serverVars, clientVars
<1>1. /\ cpc[c] = "fgets" /\ UNCHANGED <<rough, spc, peer, buf, queue, shown, down>>
  BY DEF Say
<1>2. PICK kind \in Kinds : said' = [said EXCEPT ![c] = [n |-> said[c].n + 1, kind |-> kind]]
  BY DEF Say, TalkTypeOK
<1>3. /\ said' \in [Clients -> Texts] /\ said' = [said EXCEPT ![c] = said'[c]]
  <2>1. said \in [Clients -> Texts] /\ said[c] \in Texts
    BY DEF TalkTypeOK
  <2>2. [n |-> said[c].n + 1, kind |-> kind] \in Texts
    <3>1. said[c].n \in Nat /\ said[c].n + 1 \in Nat
      BY <2>1 DEF Texts
    <3>2. kind \in {"text", "exit", "endsInExit"}
      BY SimplexTalkAssumption
    <3>3. QED  BY <3>1, <3>2 DEF Texts
  <2>3. QED  BY <1>2, <2>1, <2>2
<1>4. Line(said'[c]) \in Seq(Pieces)
  BY <1>3, PieceTypes
<1>5. /\ up \in [Clients -> Seq(Pieces)] /\ near \in [Clients -> EndState] /\ far \in [Clients -> EndState]
      /\ cpc \in [Clients -> {"start", "fgets", "recv"} \cup End]
  BY DEF TalkTypeOK, EndState
<1>6. CASE near[c] = "gone"
  <2>1. ClientEnds(c, "sigpipe") /\ up' = up /\ near' = near
    BY <1>6 DEF Say
  <2>2. /\ cpc' = [cpc EXCEPT ![c] = "sigpipe"]
        /\ far' = [far EXCEPT ![c] = far'[c]] /\ far'[c] \in EndState
    BY <2>1, ClientEndTypes DEF End
  <2>3. TalkTypeOK'
    BY <1>1, <1>3, <1>5, <2>1, <2>2 DEF TalkTypeOK, EndState, End
  <2>4. Apart(c)
    BY <1>1, <1>3, <1>5, <2>1, <2>2 DEF Apart, TalkTypeOK
  <2>5. QED  BY <1>1, <1>6, <2>3, <2>4
<1>7. CASE near[c] # "gone"
  <2>1. /\ up' = [up EXCEPT ![c] = IF near[c] = "open" THEN up[c] \o Line(said'[c]) ELSE up[c]]
        /\ \E end \in AfterSend(near[c]) : near' = [near EXCEPT ![c] = end]
        /\ cpc' = [cpc EXCEPT ![c] = "recv"]
        /\ far' = far
    BY <1>5, <1>7 DEF Say, Bytes
  <2>2. PICK end \in AfterSend(near[c]) : near' = [near EXCEPT ![c] = end]
    BY <2>1
  <2>3. end \in EndState /\ (near[c] = "open" => end = "open")
    BY <1>5, <2>2, SendEnd
  <2>4. up[c] \o Line(said'[c]) \in Seq(Pieces)
    BY <1>4, <1>5
  <2>5. up' \in [Clients -> Seq(Pieces)] /\ near' \in [Clients -> EndState]
    BY <1>5, <2>1, <2>2, <2>3, <2>4
  <2>6. TalkTypeOK'
    BY <1>1, <1>3, <1>5, <2>1, <2>5 DEF TalkTypeOK, EndState, End
  <2>7. Apart(c)
    BY <1>1, <1>3, <1>5, <2>1, <2>2 DEF Apart, TalkTypeOK
  <2>8. QED  BY <1>1, <1>5, <2>1, <2>2, <2>3, <2>6, <2>7
<1>8. QED  BY <1>6, <1>7

\* In smooth times it has heard the answer to the line before, or it is its first.
LEMMA SayKeeps ==
  ASSUME TalkInv, NEW c \in Clients, Say(c)
  PROVE  TalkInv'
<1>0. TalkTypeOK
  BY DEF TalkInv
<1>1. /\ TalkTypeOK' /\ Apart(c) /\ queue' = queue
      /\ cpc[c] = "fgets" /\ shown' = shown /\ down' = down
      /\ near[c] = "open" => /\ cpc'[c] = "recv" /\ up'[c] = up[c] \o Line(said'[c])
                             /\ near'[c] = "open" /\ far' = far
  BY <1>0, SayStep
<1>2. Line(said'[c]) \in Seq(Pieces)
  BY <1>1, PieceTypes DEF TalkTypeOK
<1>3. ASSUME Quietly(c)
      PROVE  Asking(c)' /\ cpc'[c] = "recv"
  <2>1. up'[c] = <<>> \o Line(said'[c]) /\ near'[c] = "open" /\ far'[c] = "open" /\ down'[c] = <<>>
    BY <1>1, <1>3 DEF Quietly, Open
  <2>2. up'[c] = Line(said'[c])
    BY <1>2, <2>1
  <2>3. Asking(c)'
    BY <2>1, <2>2 DEF Asking, Open, Line
  <2>4. QED  BY <1>1, <1>3, <2>3 DEF Quietly, Open
<1>4. ASSUME ~rough, spc \in {"start", "accept"}
      PROVE  Unserved(c)' /\ (c \in Range(queue') => cpc'[c] \notin {"start", "exit1"})
  <2>1. Unserved(c)
    BY <1>4 DEF TalkInv, AcceptInv
  <2>2. Quietly(c)
    BY <1>1, <2>1 DEF Unserved
  <2>3. QED  BY <1>3, <2>2 DEF Unserved
<1>5. ASSUME ~rough, spc \notin {"start", "accept"}, c = peer
      PROVE  Typing(c)' \/ Listens(c)' \/ Left(c)'
  <2>1. Typing(c)
    BY <1>1, <1>5 DEF TalkInv, ServedInv, Listens, Left, ClientEnded, End
  <2>2. Asking(c)' /\ cpc'[c] = "recv" /\ spc' = "recv"
    BY <1>1, <1>3, <2>1 DEF Typing, Apart
  <2>3. QED  BY <2>2 DEF Listens
<1>6. \A d \in Range(queue') : d \in Range(queue) \/ d = c
  BY <1>1 DEF Range
<1>7. QED  BY <1>1, <1>4, <1>5, <1>6, ClientKeeps

\* A client whose user has typed no more, or Ctrl-C.
LEMMA ClientEndKeeps ==
  ASSUME TalkInv, NEW c \in Clients, NEW how \in {"exit0", "sigint"}, ClientEnds(c, how),
         how = "exit0" => cpc[c] = "fgets", how = "sigint" => rough,
         UNCHANGED <<rough, spc, peer, buf, queue, said, shown, up, down, near>>
  PROVE  TalkInv'
<1>0. TalkTypeOK /\ how \in End
  BY DEF TalkInv, End
<1>1. /\ cpc' = [cpc EXCEPT ![c] = how]
      /\ far' = [far EXCEPT ![c] = far'[c]] /\ far'[c] \in EndState
      /\ far[c] = "open" /\ down[c] = <<>> => far'[c] = "fin"
  BY <1>0, ClientEndTypes
<1>2. /\ cpc \in [Clients -> {"start", "fgets", "recv"} \cup End] /\ far \in [Clients -> EndState]
  BY <1>0 DEF TalkTypeOK, EndState
<1>3. TalkTypeOK'
  BY <1>0, <1>1, <1>2 DEF TalkTypeOK, EndState
<1>4. Apart(c) /\ cpc'[c] = how
  BY <1>1, <1>2 DEF Apart
<1>5. ASSUME ~rough, Quietly(c)
      PROVE  how = "exit0" /\ far'[c] = "fin" /\ up'[c] = <<>>
  BY <1>1, <1>5 DEF Quietly, Open
<1>6. ASSUME ~rough, spc \in {"start", "accept"}
      PROVE  Unserved(c)' /\ (c \in Range(queue') => cpc'[c] \notin {"start", "exit1"})
  <2>1. Unserved(c) /\ cpc[c] = "fgets"
    BY <1>6 DEF TalkInv, AcceptInv
  <2>2. Quietly(c)
    BY <2>1 DEF Unserved
  <2>3. QED  BY <1>4, <1>5, <1>6, <2>2 DEF Unserved
<1>7. ASSUME ~rough, spc \notin {"start", "accept"}, c = peer
      PROVE  Typing(c)' \/ Listens(c)' \/ Left(c)'
  <2>1. Typing(c)
    BY <1>7 DEF TalkInv, ServedInv, Listens, Left, ClientEnded, End
  <2>2. QED  BY <1>4, <1>5, <1>7, <2>1 DEF Typing, Left
<1>8. \A d \in Range(queue') : d \in Range(queue) \/ d = c
  BY DEF Range
<1>9. QED  BY <1>3, <1>4, <1>6, <1>7, <1>8, ClientKeeps

\* After what it has heard, a client closes or reads the next line.
LEMMA HeardStep ==
  ASSUME TalkTypeOK, NEW c \in Clients, NEW stream, Heard(c, stream)
  PROVE  /\ cpc' = [cpc EXCEPT ![c] = cpc'[c]]
         /\ cpc'[c] = IF said[c].kind = "exit" THEN "exit0" ELSE "fgets"
         /\ far' = [far EXCEPT ![c] = far'[c]] /\ far'[c] \in EndState
         /\ said[c].kind # "exit" => far' = far
<1>1. /\ cpc \in [Clients -> {"start", "fgets", "recv"} \cup End] /\ far \in [Clients -> EndState]
  BY DEF TalkTypeOK, EndState
<1>2. CASE said[c].kind = "exit"
  <2>1. PICK end \in AfterClose(far[c], stream) : far' = [far EXCEPT ![c] = end]
    BY <1>2 DEF Heard
  <2>2. end \in EndState
    BY <1>1, <2>1 DEF AfterClose, EndState
  <2>3. QED  BY <1>1, <1>2, <2>1, <2>2 DEF Heard
<1>3. CASE said[c].kind # "exit"
  BY <1>1, <1>3 DEF Heard
<1>4. QED  BY <1>2, <1>3

\* The whole answer to a line is what a client shows.
LEMMA AnswerSeen ==
  ASSUME NEW l \in Texts
  PROVE  /\ Seen(Append(Line(l), Stamp), {"stamp", "bye"}) = Append(Line(l), Stamp)
         /\ Append(Line(l), Stamp) # <<>>
<1> DEFINE answer == Append(Line(l), Stamp)
<1>1. answer \in Seq(Pieces)
  BY PieceTypes
<1>2. /\ Len(answer) = 3 /\ answer[3].part = "stamp" /\ answer # <<>>
      /\ answer[1].part = "head" /\ answer[2].part = "tail"
  BY DEF Line, Stamp, Piece
<1> HIDE DEF answer
<1>3. Seen(answer, {"stamp", "bye"}) = answer
  <2>1. \A i \in 1..(Len(answer) - 1) : i = 1 \/ i = 2
    BY <1>2
  <2>2. answer[Len(answer)].part \in {"stamp", "bye"}
    BY <1>2
  <2>3. \A i \in 1..(Len(answer) - 1) : answer[i].part \notin {"stamp", "bye"}
    BY <1>2, <2>1
  <2>4. QED  BY <1>1, <1>2, <2>2, <2>3, SeenWhole
<1>4. QED  BY <1>2, <1>3 DEF answer

\* A client hears the answer, or that there is none.
LEMMA HearStep ==
  ASSUME TalkTypeOK, NEW c \in Clients, Hear(c)
  PROVE  /\ TalkTypeOK' /\ Apart(c) /\ queue' = queue /\ said' = said /\ up' = up
         /\ cpc[c] = "recv" /\ (down[c] # <<>> \/ near[c] # "open")
         /\ cpc'[c] = IF said[c].kind = "exit" THEN "exit0" ELSE "fgets"
         /\ said[c].kind # "exit" => far' = far
         /\ ~rough /\ Answering(c) => /\ shown'[c] = Append(Line(said[c]), Stamp)
                                      /\ down'[c] = <<>> /\ near' = near
<1> USE DEF serverVars, clientVars
<1>0. /\ down \in [Clients -> Seq(Pieces)] /\ near \in [Clients -> EndState] /\ far \in [Clients -> EndState]
      /\ cpc \in [Clients -> {"start", "fgets", "recv"} \cup End] /\ shown \in [Clients -> Seq(Pieces)]
  BY DEF TalkTypeOK, EndState
<1>1. cpc[c] = "recv" /\ UNCHANGED <<rough, spc, peer, buf, queue, said, up>>
  BY DEF Hear
<1>2. PICK stream : Heard(c, stream)
  BY DEF Hear
<1>3. /\ cpc' = [cpc EXCEPT ![c] = cpc'[c]]
      /\ cpc'[c] = IF said[c].kind = "exit" THEN "exit0" ELSE "fgets"
      /\ far' = [far EXCEPT ![c] = far'[c]] /\ far'[c] \in EndState
      /\ said[c].kind # "exit" => far' = far
  BY <1>2, HeardStep
<1>4. /\ shown' = [shown EXCEPT ![c] = shown'[c]] /\ shown'[c] \in Seq(Pieces)
      /\ down' = [down EXCEPT ![c] = down'[c]] /\ down'[c] \in Seq(Pieces)
      /\ near' = [near EXCEPT ![c] = near'[c]] /\ near'[c] \in EndState
      /\ down[c] # <<>> \/ near[c] # "open"
      /\ ~rough /\ Answering(c) => /\ shown'[c] = Append(Line(said[c]), Stamp)
                                   /\ down'[c] = <<>> /\ near' = near
  <2>1. CASE /\ down[c] # <<>>
             /\ \E n \in Reads(down[c]) :
                  /\ shown' = [shown EXCEPT ![c] = Seen(SubSeq(down[c], 1, n), {"stamp", "bye"})]
                  /\ down' = [down EXCEPT ![c] = From(@, n)]
             /\ UNCHANGED near
    <3>1. PICK n \in Reads(down[c]) :
            /\ shown' = [shown EXCEPT ![c] = Seen(SubSeq(down[c], 1, n), {"stamp", "bye"})]
            /\ down' = [down EXCEPT ![c] = From(down[c], n)]
      BY <1>0, <2>1
    <3>2. /\ SubSeq(down[c], 1, n) \in Seq(Pieces) /\ From(down[c], n) \in Seq(Pieces)
          /\ ~rough => SubSeq(down[c], 1, n) = down[c] /\ From(down[c], n) = <<>>
      BY <1>0, <2>1, ReadsTypes
    <3>3. Seen(SubSeq(down[c], 1, n), {"stamp", "bye"}) \in Seq(Pieces)
      BY <3>2, SeenTypes
    <3>4. /\ shown'[c] = Seen(SubSeq(down[c], 1, n), {"stamp", "bye"})
          /\ down'[c] = From(down[c], n)
      BY <1>0, <3>1
    <3>5. ASSUME ~rough, Answering(c)
          PROVE  shown'[c] = Append(Line(said[c]), Stamp) /\ down'[c] = <<>>
      <4>1. said[c] \in Texts /\ down[c] = Append(Line(said[c]), Stamp)
        BY <3>5 DEF TalkTypeOK, Answering
      <4>2. QED  BY <3>2, <3>4, <3>5, <4>1, AnswerSeen
    <3>6. QED  BY <1>0, <2>1, <3>1, <3>2, <3>3, <3>4, <3>5
  <2>2. CASE down[c] = <<>> /\ near[c] \in {"fin", "gone"} /\ UNCHANGED <<rough, shown, down, near>>
    BY <1>0, <2>2, AnswerSeen DEF Answering, Open
  <2>3. CASE /\ near[c] = "rst" /\ near' = [near EXCEPT ![c] = "gone"]
             /\ shown' = [shown EXCEPT ![c] = <<Rest>>] /\ UNCHANGED down
    BY <1>0, <2>3, PieceTypes DEF Answering, Open, EndState
  <2>4. QED  BY <2>1, <2>2, <2>3 DEF Hear
<1>5. TalkTypeOK'
  <2>1. cpc' \in [Clients -> {"start", "fgets", "recv"} \cup End]
    BY <1>0, <1>3 DEF End
  <2>2. shown' \in [Clients -> Seq(Pieces)] /\ down' \in [Clients -> Seq(Pieces)]
    BY <1>0, <1>4
  <2>3. near' \in [Clients -> EndState] /\ far' \in [Clients -> EndState]
    BY <1>0, <1>3, <1>4
  <2>4. QED  BY <1>1, <2>1, <2>2, <2>3 DEF TalkTypeOK, EndState
<1>6. Apart(c)
  BY <1>0, <1>1, <1>3, <1>4 DEF Apart
<1>7. QED  BY <1>1, <1>3, <1>4, <1>5, <1>6

\* In smooth times it is the answer to its last line.
LEMMA HearKeeps ==
  ASSUME TalkInv, NEW c \in Clients, Hear(c)
  PROVE  TalkInv'
<1>0. TalkTypeOK
  BY DEF TalkInv
<1>1. /\ TalkTypeOK' /\ Apart(c) /\ queue' = queue /\ said' = said /\ up' = up
      /\ cpc[c] = "recv" /\ (down[c] # <<>> \/ near[c] # "open")
      /\ cpc'[c] = IF said[c].kind = "exit" THEN "exit0" ELSE "fgets"
      /\ said[c].kind # "exit" => far' = far
      /\ ~rough /\ Answering(c) => /\ shown'[c] = Append(Line(said[c]), Stamp)
                                   /\ down'[c] = <<>> /\ near' = near
  BY <1>0, HearStep
<1>2. ~Asking(c) /\ ~Quietly(c)
  BY <1>1 DEF Asking, Quietly, Open
<1>3. ~rough => spc \notin {"start", "accept"}
  BY <1>1, <1>2 DEF TalkInv, AcceptInv, Unserved
<1>4. ASSUME ~rough, spc \notin {"start", "accept"}, c = peer
      PROVE  Typing(c)' \/ Listens(c)' \/ Left(c)'
  <2>1. Listens(c)
    BY <1>1, <1>4 DEF TalkInv, ServedInv, Typing, Left, ClientEnded, End
  <2>2. CASE spc = "recv" /\ Answering(c) /\ said[c].kind # "exit"
    <3>1. Quietly(c)'
      BY <1>1, <1>4, <2>2 DEF Quietly, Answering, Open
    <3>2. QED  BY <1>1, <1>4, <2>2, <3>1 DEF Typing, Apart
  <2>3. CASE spc = "exit0" /\ said[c].kind = "exit"
    BY <1>1, <2>3 DEF Left, ClientEnded, Apart
  <2>4. QED  BY <1>2, <2>1, <2>2, <2>3 DEF Listens
<1>5. \A d \in Range(queue') : d \in Range(queue) \/ d = c
  BY <1>1 DEF Range
<1>6. QED  BY <1>1, <1>3, <1>4, <1>5, ClientKeeps

-----------------------------------------------------------------------------
(***************************************************************************)
(* The server takes a step.                                                *)
(***************************************************************************)

\* It begins to listen.
LEMMA LaunchKeeps ==
  ASSUME TalkInv, Launch
  PROVE  TalkInv'
<1> USE DEF serverVars, clientVars
<1>1. /\ spc = "start" /\ spc' = "accept"
      /\ UNCHANGED <<rough, peer, buf, queue, cpc, said, shown, up, down, near, far>>
  BY DEF Launch
<1>2. TalkTypeOK'
  BY <1>1 DEF TalkInv, TalkTypeOK
<1>3. AcceptInv => AcceptInv'
  BY <1>1 DEF AcceptInv, Unserved, Quietly, Asking, Open, Range
<1>4. ServedInv'
  BY <1>1 DEF ServedInv
<1>5. QED  BY <1>1, <1>2, <1>3, <1>4 DEF TalkInv

\* It accepts the first of its queue.
LEMMA AcceptKeeps ==
  ASSUME TalkInv, Accept
  PROVE  TalkInv'
<1> USE DEF serverVars, clientVars
<1>0. TalkTypeOK /\ queue \in Seq(Clients) /\ queue # <<>>
  BY DEF TalkInv, TalkTypeOK, Accept
<1>1. PICK c \in Clients : c = Head(queue) /\ c \in Range(queue)
  <2>1. Len(queue) \in Nat \ {0} /\ Head(queue) = queue[1] /\ 1 \in DOMAIN queue
    BY <1>0
  <2>2. Head(queue) \in Clients /\ Head(queue) \in Range(queue)
    BY <1>0, <2>1 DEF Range
  <2>3. QED  BY <2>2
<1>2. /\ spc = "accept" /\ spc' = "recv" /\ peer' = c /\ queue' = Tail(queue)
      /\ UNCHANGED <<rough, buf, cpc, said, shown, up, down, near, far>>
  BY <1>1 DEF Accept
<1>3. TalkTypeOK'
  <2>1. queue' \in Seq(Clients)
    BY <1>0, <1>2
  <2>2. QED  BY <1>0, <1>2, <2>1 DEF TalkTypeOK
<1>4. ASSUME ~rough
      PROVE  ServedInv'
  <2>1. Unserved(c) /\ cpc[c] \notin {"start", "exit1"}
    BY <1>1, <1>2, <1>4 DEF TalkInv, AcceptInv
  <2>2. CASE cpc[c] = "fgets" /\ said[c] = [n |-> 0, kind |-> "text"] /\ Quietly(c)
    <3>1. Typing(c)'
      BY <1>2, <2>2 DEF Typing, Quietly, Open
    <3>2. QED  BY <1>2, <3>1 DEF ServedInv
  <2>3. CASE cpc[c] = "recv" /\ Asking(c)
    <3>1. Listens(c)'
      BY <1>2, <2>3 DEF Listens, Asking, Open
    <3>2. QED  BY <1>2, <3>1 DEF ServedInv
  <2>4. CASE cpc[c] = "exit0" /\ far[c] = "fin" /\ up[c] = <<>>
    <3>1. Left(c)'
      BY <1>2, <2>4 DEF Left
    <3>2. QED  BY <1>2, <3>1 DEF ServedInv
  <2>5. QED  BY <2>1, <2>2, <2>3, <2>4 DEF Unserved
<1>5. AcceptInv'
  BY <1>2 DEF AcceptInv
<1>6. QED  BY <1>2, <1>3, <1>4, <1>5 DEF TalkInv

\* A whole line is what the server tests and sends back.
LEMMA LineSeen ==
  ASSUME NEW l \in Texts
  PROVE  /\ Line(l) # <<>> /\ Seen(Line(l), {"tail"}) = Line(l)
         /\ \A kill \in KillTests(Line(l)) : kill <=> l.kind = "exit"
<1> DEFINE line == Line(l)
<1>1. line \in Seq(Pieces)
  BY PieceTypes
<1>2. /\ Len(line) = 2 /\ line # <<>>
      /\ line[1] = Piece(l.n, l.kind, "head") /\ line[2] = Piece(l.n, l.kind, "tail")
  BY DEF Line
<1>3. /\ line[1].kind = l.kind /\ line[1].part = "head" /\ line[2].part = "tail" /\ line[2] # Rest
  BY <1>2 DEF Piece, Rest
<1> HIDE DEF line
<1>4. Seen(line, {"tail"}) = line
  <2>1. \A i \in 1..(Len(line) - 1) : i = 1
    BY <1>2
  <2>2. line[Len(line)].part \in {"tail"}
    BY <1>2, <1>3
  <2>3. \A i \in 1..(Len(line) - 1) : line[i].part \notin {"tail"}
    BY <1>3, <2>1
  <2>4. QED  BY <1>1, <1>2, <2>2, <2>3, SeenWhole
<1>5. \A kill \in KillTests(line) : kill <=> Exit(line)
  <2>1. ~(line[1].kind = "exit" /\ Len(line) = 2 /\ line[2] = Rest)
    BY <1>3
  <2>2. QED  BY <2>1, Zenon DEF KillTests
<1>6. Exit(line) <=> l.kind = "exit"
  BY <1>2, <1>3 DEF Exit
<1>7. QED  BY <1>2, <1>4, <1>5, <1>6 DEF line

\* It receives the line that its client has said, or its end.
LEMMA ReceiveKeeps ==
  ASSUME TalkInv, Receive
  PROVE  TalkInv'
<1> USE DEF serverVars, clientVars
<1>0. TalkTypeOK /\ spc = "recv" /\ peer \in Clients
  BY DEF TalkInv, Receive
<1>1. TalkTypeOK'
  BY <1>0, ReceiveTypes
<1>2. /\ UNCHANGED <<rough, peer, queue, cpc, said, shown, down, near>> /\ spc' \in {"echo", "bye"}
  <2>1. \A kill : (IF kill THEN "bye" ELSE "echo") \in {"echo", "bye"}
    OBVIOUS
  <2>2. QED  BY <2>1 DEF Receive
<1>3. PICK c \in Clients : c = peer
  BY <1>0
<1>4. ASSUME ~rough
      PROVE  Listens(c)' \/ Left(c)'
  <2>1. Typing(c) \/ Listens(c) \/ Left(c)
    BY <1>0, <1>3, <1>4 DEF TalkInv, ServedInv
  <2>2. CASE up[c] # <<>>
    <3>1. cpc[c] = "recv" /\ Asking(c)
      BY <1>0, <2>1, <2>2 DEF Typing, Listens, Left, Quietly, Answering
    <3>2. said[c] \in Texts /\ up \in [Clients -> Seq(Pieces)] /\ up[c] = Line(said[c])
      BY <1>0, <3>1 DEF TalkTypeOK, Asking
    <3>3. far' = far /\
          \E n \in Reads(up[c]) :
            /\ buf' = Seen(SubSeq(up[c], 1, n), {"tail"})
            /\ up' = [up EXCEPT ![c] = From(up[c], n)]
            /\ \E kill \in KillTests(buf') : spc' = IF kill THEN "bye" ELSE "echo"
      BY <1>0, <1>3, <2>2, <3>1 DEF Receive, Asking, Open
    <3>4. PICK n \in Reads(up[c]) :
            /\ buf' = Seen(SubSeq(up[c], 1, n), {"tail"})
            /\ up' = [up EXCEPT ![c] = From(up[c], n)]
            /\ \E kill \in KillTests(buf') : spc' = IF kill THEN "bye" ELSE "echo"
      BY <3>3
    <3>5. SubSeq(up[c], 1, n) = up[c] /\ From(up[c], n) = <<>>
      BY <1>0, <1>4, <2>2, <3>2, ReadsTypes
    <3>6. buf' = Line(said[c]) /\ up'[c] = <<>>
      BY <3>2, <3>4, <3>5, LineSeen
    <3>7. spc' = IF said[c].kind = "exit" THEN "bye" ELSE "echo"
      BY <3>2, <3>4, <3>6, LineSeen
    <3>8. Quietly(c)'
      BY <1>2, <3>1, <3>3, <3>6 DEF Quietly, Asking, Open
    <3>9. QED  BY <1>2, <3>1, <3>6, <3>7, <3>8 DEF Listens, Line
  <2>3. CASE up[c] = <<>>
    <3>1. far[c] # "open" /\ (far[c] = "rst" \/ (spc' = "bye" /\ UNCHANGED <<buf, up, far>>))
      BY <1>3, <2>3 DEF Receive
    <3>2. Left(c)
      <4>1. ~Asking(c) /\ ~Quietly(c) /\ ~Answering(c)
        BY <3>1 DEF Asking, Quietly, Answering, Open
      <4>2. QED  BY <1>0, <2>1, <4>1 DEF Typing, Listens
    <3>3. QED  BY <1>0, <1>2, <3>1, <3>2 DEF Left
  <2>4. QED  BY <2>2, <2>3
<1>5. QED  BY <1>0, <1>1, <1>2, <1>3, <1>4 DEF TalkInv, AcceptInv, ServedInv

\* It sends the line back, with a stamp.
LEMMA EchoKeeps ==
  ASSUME TalkInv, Echo
  PROVE  TalkInv'
<1> USE DEF serverVars, clientVars
<1>0. TalkTypeOK /\ spc = "echo" /\ peer \in Clients
  BY DEF TalkInv, Echo
<1>1. TalkTypeOK' /\ UNCHANGED <<rough, peer, buf, queue, cpc, said, shown, up>>
  BY <1>0, EchoTypes DEF Echo
<1>2. spc' \in {"recv", "sigpipe"}
  BY <1>0, ServerEndTypes DEF Echo, End
<1>3. PICK c \in Clients : c = peer
  BY <1>0
<1>4. ASSUME ~rough
      PROVE  Listens(c)' /\ spc' = "recv"
  <2>1. /\ cpc[c] = "recv" /\ Quietly(c) /\ buf = Line(said[c]) /\ said[c].kind # "exit"
        /\ said[c] \in Texts
    BY <1>0, <1>3, <1>4 DEF TalkInv, ServedInv, Typing, Listens, Left, TalkTypeOK
  <2>2. Send(Append(buf, Stamp)) /\ spc' = "recv" /\ near' = near
    BY <1>3, <2>1 DEF Echo, Quietly, Open
  <2>3. Append(buf, Stamp) \in Seq(Pieces)
    BY <2>1, PieceTypes
  <2>4. down' = [down EXCEPT ![c] = down[c] \o Append(buf, Stamp)] /\ far' = far
    BY <1>0, <1>3, <2>1, <2>2, <2>3, SendTypes DEF Quietly, Open
  <2>5. down'[c] = Append(buf, Stamp)
    <3>1. down \in [Clients -> Seq(Pieces)] /\ down[c] = <<>>
      BY <1>0, <2>1 DEF TalkTypeOK, Quietly
    <3>2. <<>> \o Append(buf, Stamp) = Append(buf, Stamp)
      BY <2>3, ConcatEmptySeq
    <3>3. QED  BY <2>4, <3>1, <3>2
  <2>6. Answering(c)'
    BY <1>1, <2>1, <2>2, <2>4, <2>5 DEF Answering, Quietly, Open, Line
  <2>7. QED  BY <1>1, <2>1, <2>2, <2>6 DEF Listens
<1>5. QED  BY <1>0, <1>1, <1>2, <1>3, <1>4 DEF TalkInv, AcceptInv, ServedInv

\* It says goodbye, and ends.
LEMMA SayByeKeeps ==
  ASSUME TalkInv, SayBye
  PROVE  TalkInv'
<1> USE DEF serverVars, clientVars
<1>0. TalkTypeOK /\ spc = "bye" /\ peer \in Clients
  BY DEF TalkInv, SayBye
<1>1. TalkTypeOK' /\ UNCHANGED <<rough, peer, buf, queue, cpc, said, shown, up>>
  BY <1>0, EchoTypes DEF SayBye
<1>2. spc' \in {"exit0", "sigpipe"} /\ (spc' = "sigpipe" => far[peer] = "gone")
  BY <1>0, ServerEndTypes DEF SayBye, End
<1>3. ASSUME ~rough
      PROVE  spc' = "exit0" /\ (Listens(peer)' \/ Left(peer)')
  <2>1. Listens(peer) \/ Left(peer)
    BY <1>0, <1>3 DEF TalkInv, ServedInv, Typing
  <2>2. far[peer] # "gone"
    BY <1>0, <2>1 DEF Listens, Left, Quietly, Open
  <2>3. spc' = "exit0"
    BY <1>2, <2>2
  <2>4. (cpc[peer] = "recv" /\ said[peer].kind = "exit") \/ ClientEnded(peer)
    BY <1>0, <2>1 DEF Listens, Left, ClientEnded
  <2>5. QED  BY <1>1, <2>3, <2>4 DEF Listens, Left, ClientEnded
<1>4. QED  BY <1>0, <1>1, <1>2, <1>3 DEF TalkInv, AcceptInv, ServedInv

\* It fails, or is interrupted: only in rough times.
LEMMA ServerEndKeeps ==
  ASSUME TalkInv, AcceptFails \/ InterruptServer
  PROVE  TalkInv'
<1> USE DEF serverVars, clientVars
<1>1. /\ TalkTypeOK /\ rough /\ UNCHANGED <<rough, peer, buf, queue, cpc, said, shown, up, down, far>>
      /\ ServerLeaves(Head(queue), "exit1") \/ ServerEnds("sigint")
  BY DEF TalkInv, AcceptFails, InterruptServer
<1>2. spc' \in {"exit1", "sigint"} /\ near' \in [Clients -> EndState]
  BY <1>1, ServerLeaveTypes, ServerEndTypes DEF End
<1>3. TalkTypeOK'
  BY <1>1, <1>2 DEF TalkTypeOK, EndState, End
<1>4. QED  BY <1>1, <1>2, <1>3 DEF TalkInv

-----------------------------------------------------------------------------
(***************************************************************************)
(* The theorems.                                                           *)
(***************************************************************************)

\* The invariant holds when nobody has started.
LEMMA InitTalk ==
  Init => TalkInv
<1> SUFFICES ASSUME Init
             PROVE  TalkInv
  OBVIOUS
<1>1. TalkTypeOK
  BY DEF Init, TalkTypeOK, Texts
<1>2. AcceptInv /\ ServedInv
  BY DEF Init, AcceptInv, ServedInv, Unserved, Quietly, Open, Range
<1>3. QED  BY <1>1, <1>2 DEF TalkInv, Init

\* Every step keeps it.
LEMMA StepTalk ==
  TalkInv /\ [Next]_vars => TalkInv'
<1> SUFFICES ASSUME TalkInv, [Next]_vars
             PROVE  TalkInv'
  OBVIOUS
<1> USE DEF serverVars, clientVars
<1>1. CASE Launch
  BY <1>1, LaunchKeeps
<1>2. CASE ServerRuns
  BY <1>2, AcceptKeeps, ServerEndKeeps, ReceiveKeeps, EchoKeeps, SayByeKeeps DEF ServerRuns
<1>3. CASE InterruptServer
  BY <1>3, ServerEndKeeps
<1>4. ASSUME NEW c \in Clients,
             Connect(c) \/ Say(c) \/ TypeNothing(c) \/ Hear(c) \/ InterruptClient(c)
      PROVE  TalkInv'
  <2>1. CASE TypeNothing(c)
    <3>1. /\ cpc[c] = "fgets" /\ ClientEnds(c, "exit0")
          /\ UNCHANGED <<rough, spc, peer, buf, queue, said, shown, up, down, near>>
      BY <2>1 DEF TypeNothing
    <3>2. QED  BY <3>1, ClientEndKeeps
  <2>2. CASE InterruptClient(c)
    <3>1. /\ rough /\ ClientEnds(c, "sigint")
          /\ UNCHANGED <<rough, spc, peer, buf, queue, said, shown, up, down, near>>
      BY <2>2 DEF InterruptClient
    <3>2. QED  BY <3>1, ClientEndKeeps
  <2>3. QED  BY <1>4, <2>1, <2>2, ConnectKeeps, SayKeeps, HearKeeps
<1>5. CASE UNCHANGED vars
  <2>1. UNCHANGED <<rough, spc, peer, buf, queue, cpc, said, shown, up, down, near, far>>
    BY <1>5 DEF vars
  <2>2. TalkTypeOK'
    BY <2>1 DEF TalkInv, TalkTypeOK
  <2>3. AcceptInv => AcceptInv'
    BY <2>1 DEF AcceptInv, Unserved, Quietly, Asking, Open, Range
  <2>4. ServedInv => ServedInv'
    BY <2>1 DEF ServedInv, Typing, Listens, Left, Quietly, Asking, Answering, Open, ClientEnded
  <2>5. QED  BY <2>1, <2>2, <2>3, <2>4 DEF TalkInv
<1>6. QED  BY <1>1, <1>2, <1>3, <1>4, <1>5 DEF Next, Quiet

(***************************************************************************)
(* In smooth times a line, its answer or nothing is under way between the  *)
(* server and the client it serves, and who has not been accepted has not  *)
(* said more than one line.                                                *)
(***************************************************************************)
THEOREM TalkCorrect == Spec => []TalkInv
  BY InitTalk, StepTalk, PTL DEF Spec

(***************************************************************************)
(* What the accepted client shows is its last line, and all of it, with a  *)
(* stamp.                                                                  *)
(***************************************************************************)
THEOREM EchoesAnswer == Spec => []EchoAnswersLine
<1>1. TalkInv => EchoAnswersLine
  <2> SUFFICES ASSUME TalkInv, ~rough, NEW c \in Clients, c = peer, cpc[c] = "fgets", said[c].n > 0
               PROVE  shown[c] = Append(Line(said[c]), Stamp)
    BY DEF EchoAnswersLine
  <2>1. spc \notin {"start", "accept"}
    BY SimplexTalkAssumption DEF TalkInv, AcceptInv
  <2>2. Typing(c)
    BY <2>1 DEF TalkInv, ServedInv, Listens, Left, ClientEnded
  <2>3. QED  BY <2>2 DEF Typing
<1>2. QED  BY <1>1, TalkCorrect, PTL

\* The server ends a conversation only after the command, or its client's end.
THEOREM LeavesOnExit == Spec => []ServerLeavesOnExit
<1>1. TalkInv => ServerLeavesOnExit
  BY DEF TalkInv, ServedInv, Typing, Listens, Left, ClientEnded, ServerLeavesOnExit
<1>2. QED  BY <1>1, TalkCorrect, PTL
=============================================================================
