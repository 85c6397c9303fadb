---------------------------- MODULE SimplexTalk ----------------------------
(***************************************************************************)
(* The exercise that the guides try the topology with: a server that sends *)
(* back each line with a time stamp, and clients that print what comes     *)
(* back (doc/guide_mininet/examples/server.c and client.c).                *)
(*                                                                         *)
(* A stream is a sequence of pieces: a line is a head and a tail with its  *)
(* terminator.  The text of a line is one of three kinds: "exit" is the    *)
(* command, "endsInExit" a line such as "no exit" whose tail reads like    *)
(* it, "text" any other.  Lines are short: with its stamp one fits         *)
(* MAX_LINE.                                                               *)
(***************************************************************************)
EXTENDS Streams

CONSTANTS
  Clients,
  Kinds,          \* the kinds of lines a user types
  SmoothLines,    \* how many lines a user types before the last
  RoughLines,     \* the same in rough times
  Interruptible   \* the programs a user may stop with Ctrl-C in rough times

Server == "server"
NoClient == "none"

ASSUME SimplexTalkAssumption ==
  /\ Clients \cap {Server, NoClient} = {} /\ Interruptible \subseteq Clients \cup {Server}
  /\ Kinds \subseteq {"text", "exit", "endsInExit"}
  /\ {SmoothLines, RoughLines} \subseteq Nat

VARIABLES
  rough,  \* recv() may return parts, accept() fail, users press Ctrl-C
  spc,    \* the server's next call
  peer,   \* whom it has accepted
  buf,    \* what it has read last
  queue,  \* the connections it has not accepted yet
  cpc,    \* each client's next call
  said,   \* the line each has sent last
  shown,  \* what each has printed last
  up,     \* the bytes sent to the server and not yet read
  down,   \* the bytes sent to each client and not yet read
  near,   \* the state of each connection, as the client's kernel has it
  far     \* the same at the server

serverVars == <<spc, peer, buf, queue>>
clientVars == <<cpc, said, shown>>
vars == <<rough, serverVars, clientVars, up, down, near, far>>

-----------------------------------------------------------------------------
Piece(n, kind, part) == [n |-> n, kind |-> kind, part |-> part]
Line(l) == <<Piece(l.n, l.kind, "head"), Piece(l.n, l.kind, "tail")>>
Stamp == Piece(0, "server", "stamp")
Bye == Piece(0, "server", "bye")
Rest == Piece(0, "server", "rest")  \* what was in a buffer before

\* What string functions see of the bytes that recv() has put into a buffer:
\* up to the first terminator, or with the rest of what was there before.
Seen(read, enders) ==
  LET end == SelectInSeq(read, LAMBDA p : p.part \in enders)
  IN  IF end = 0 THEN Append(read, Rest) ELSE SubSeq(read, 1, end)

\* How many pieces a recv() may return.
Reads(stream) == IF rough THEN 1..Len(stream) ELSE {Len(stream)}

From(stream, n) == SubSeq(stream, n + 1, Len(stream))

Exit(text) ==
  \/ text[1].kind = "exit" /\ text[1].part = "head" /\ Len(text) > 1 /\ text[2] # Rest
  \/ text[1].kind = "endsInExit" /\ text[1].part = "tail"

\* Slip: strstr() in the place of strncmp().
ExitAnywhere(text) ==
  {\E i \in DOMAIN text : text[i].kind # "text" /\ text[i].part = "tail"}

\* strncmp() with "exit\n": its first part with the rest of a line before it may
\* read like it or not.
KillTests(text) ==
  IF text[1].kind = "exit" /\ Len(text) = 2 /\ text[2] = Rest THEN BOOLEAN ELSE {Exit(text)}

-----------------------------------------------------------------------------
ClientEnds(c, how) ==
  /\ cpc' = [cpc EXCEPT ![c] = how]
  /\ \E end \in AfterClose(far[c], down[c]) : far' = [far EXCEPT ![c] = end]

\* The server ends with the connection of p, if any; those in the queue are reset.
ServerLeaves(p, how) ==
  /\ spc' = how
  /\ \E end \in IF p \in Clients THEN AfterClose(near[p], up[p]) ELSE {"open"} :
       near' = [c \in Clients |-> IF c = p THEN end
                                  ELSE IF c \in Range(queue) THEN "rst" ELSE near[c]]

ServerEnds(how) == ServerLeaves(peer, how)

-----------------------------------------------------------------------------
Init ==
  /\ rough \in BOOLEAN
  /\ spc = "start" /\ peer = NoClient /\ buf = <<>> /\ queue = <<>>
  /\ cpc = [c \in Clients |-> "start"]
  /\ said = [c \in Clients |-> [n |-> 0, kind |-> "text"]]
  /\ shown = [c \in Clients |-> <<>>]
  /\ up = [c \in Clients |-> <<>>] /\ down = up
  /\ near = [c \in Clients |-> "open"] /\ far = near

Launch ==
  /\ spc = "start"
  /\ spc' = "accept"
  /\ UNCHANGED <<rough, peer, buf, queue, clientVars, up, down, near, far>>

\* The server accepts one connection only, for all its loop.
Accept ==
  /\ spc = "accept" /\ queue # <<>>
  /\ peer' = Head(queue) /\ queue' = Tail(queue)
  /\ spc' = "recv"
  /\ UNCHANGED <<rough, buf, clientVars, up, down, near, far>>

\* accept() is told an uninitialised size for the address: when it is negative the
\* kernel takes the connection out of the queue, closes it and returns EINVAL.
AcceptFails ==
  /\ rough
  /\ spc = "accept" /\ queue # <<>>
  /\ ServerLeaves(Head(queue), "exit1")
  /\ UNCHANGED <<rough, peer, buf, queue, clientVars, up, down, far>>

\* Slip: at the end of the stream the server goes on reading.
ReceivesForEver ==
  /\ spc = "recv"
  /\ \/ /\ up[peer] # <<>>
        /\ \E n \in Reads(up[peer]) :
             /\ buf' = Seen(SubSeq(up[peer], 1, n), {"tail"})
             /\ up' = [up EXCEPT ![peer] = From(@, n)]
             /\ \E kill \in KillTests(buf') : spc' = IF kill THEN "bye" ELSE "echo"
        /\ UNCHANGED far
     \/ up[peer] = <<>> /\ far[peer] \in {"fin", "gone"} /\ UNCHANGED <<rough, spc, buf, up, far>>
     \/ /\ far[peer] = "rst"
        /\ spc' = "echo" /\ far' = [far EXCEPT ![peer] = "gone"]
        /\ UNCHANGED <<rough, buf, up>>
  /\ UNCHANGED <<rough, peer, queue, clientVars, down, near>>

(***************************************************************************)
(* recv() with the test for "exit": 0 ends the conversation, -1 counts as  *)
(* a line, and what was read before it is sent back once more.             *)
(***************************************************************************)
Receive ==
  /\ spc = "recv"
  /\ \/ /\ up[peer] # <<>>
        /\ \E n \in Reads(up[peer]) :
             /\ buf' = Seen(SubSeq(up[peer], 1, n), {"tail"})
             /\ up' = [up EXCEPT ![peer] = From(@, n)]
             /\ \E kill \in KillTests(buf') : spc' = IF kill THEN "bye" ELSE "echo"
        /\ UNCHANGED far
     \/ /\ up[peer] = <<>> /\ far[peer] \in {"fin", "gone"}
        /\ spc' = "bye"
        /\ UNCHANGED <<rough, buf, up, far>>
     \/ /\ far[peer] = "rst"
        /\ spc' = "echo" /\ far' = [far EXCEPT ![peer] = "gone"]
        /\ UNCHANGED <<rough, buf, up>>
  /\ UNCHANGED <<rough, peer, queue, clientVars, down, near>>

\* The server's send(): the bytes arrive while the client's end is there.
Send(text) ==
  /\ down' = [down EXCEPT ![peer] = IF far[peer] = "open" THEN @ \o text ELSE @]
  /\ \E end \in AfterSend(far[peer]) : far' = [far EXCEPT ![peer] = end]

Echo ==
  /\ spc = "echo"
  /\ \/ /\ far[peer] # "gone"
        /\ Send(Append(buf, Stamp))
        /\ spc' = "recv"
        /\ UNCHANGED near
     \/ far[peer] = "gone" /\ ServerEnds("sigpipe") /\ UNCHANGED <<rough, down, far>>
  /\ UNCHANGED <<rough, peer, buf, queue, clientVars, up>>

SayBye ==
  /\ spc = "bye"
  /\ \/ far[peer] # "gone" /\ Send(<<Bye>>) /\ ServerEnds("exit0")
     \/ far[peer] = "gone" /\ ServerEnds("sigpipe") /\ UNCHANGED <<rough, down, far>>
  /\ UNCHANGED <<rough, peer, buf, queue, clientVars, up>>

-----------------------------------------------------------------------------
Listening == spc \in {"accept", "recv", "echo", "bye"}

Connect(c) ==
  /\ cpc[c] = "start"
  /\ \/ Listening /\ cpc' = [cpc EXCEPT ![c] = "fgets"] /\ queue' = Append(queue, c)
     \/ (~Listening \/ rough) /\ cpc' = [cpc EXCEPT ![c] = "exit1"] /\ UNCHANGED queue
  /\ UNCHANGED <<rough, spc, peer, buf, said, shown, up, down, near, far>>

\* Slip: the line is sent without its terminator.
Unterminated(l) == <<Piece(l.n, l.kind, "head")>>

Bytes(l) == Line(l)

MaxLines == IF rough THEN RoughLines ELSE SmoothLines

\* The user types a line, and the client sends it; the last is "exit" or none.
Say(c) ==
  /\ cpc[c] = "fgets"
  /\ \E kind \in Kinds :
       /\ said[c].n < MaxLines \/ kind = "exit"
       /\ said' = [said EXCEPT ![c] = [n |-> @.n + 1, kind |-> kind]]
  /\ IF near[c] = "gone"
     THEN ClientEnds(c, "sigpipe") /\ UNCHANGED <<rough, up, near>>
     ELSE /\ up' = [up EXCEPT ![c] = IF near[c] = "open" THEN @ \o Bytes(said'[c]) ELSE @]
          /\ \E end \in AfterSend(near[c]) : near' = [near EXCEPT ![c] = end]
          /\ cpc' = [cpc EXCEPT ![c] = "recv"]
          /\ UNCHANGED far
  /\ UNCHANGED <<rough, serverVars, shown, down>>

\* The end of input: main() returns.
TypeNothing(c) ==
  /\ cpc[c] = "fgets"
  /\ ClientEnds(c, "exit0")
  /\ UNCHANGED <<rough, serverVars, said, shown, up, down, near>>

\* After "exit" the client closes, otherwise it reads the next line.
Heard(c, stream) ==
  IF said[c].kind = "exit"
  THEN /\ cpc' = [cpc EXCEPT ![c] = "exit0"]
       /\ \E end \in AfterClose(far[c], stream) : far' = [far EXCEPT ![c] = end]
  ELSE cpc' = [cpc EXCEPT ![c] = "fgets"] /\ UNCHANGED far

\* One recv(): its -1 counts as a text too, and what receive_buf held is printed.
Hear(c) ==
  /\ cpc[c] = "recv"
  /\ \/ /\ down[c] # <<>>
        /\ \E n \in Reads(down[c]) :
             /\ shown' = [shown EXCEPT ![c] = Seen(SubSeq(down[c], 1, n), {"stamp", "bye"})]
             /\ down' = [down EXCEPT ![c] = From(@, n)]
             /\ Heard(c, From(down[c], n))
        /\ UNCHANGED near
     \/ /\ down[c] = <<>> /\ near[c] \in {"fin", "gone"}
        /\ Heard(c, <<>>)
        /\ UNCHANGED <<rough, shown, down, near>>
     \/ /\ near[c] = "rst"
        /\ near' = [near EXCEPT ![c] = "gone"]
        /\ shown' = [shown EXCEPT ![c] = <<Rest>>]
        /\ Heard(c, <<>>)
        /\ UNCHANGED down
  /\ UNCHANGED <<rough, serverVars, said, up>>

\* Ctrl-C.
InterruptServer ==
  /\ rough /\ Server \in Interruptible /\ Listening
  /\ ServerEnds("sigint")
  /\ UNCHANGED <<rough, peer, buf, queue, clientVars, up, down, far>>

InterruptClient(c) ==
  /\ rough /\ c \in Interruptible /\ cpc[c] \in {"fgets", "recv"}
  /\ ClientEnds(c, "sigint")
  /\ UNCHANGED <<rough, serverVars, said, shown, up, down, near>>

-----------------------------------------------------------------------------
ServerEnded == spc \in {"exit0", "exit1", "sigpipe", "sigint"}
ClientEnded(c) == cpc[c] \in {"exit0", "exit1", "sigpipe", "sigint"}

Quiet ==
  /\ \A c \in Clients : ClientEnded(c)
  /\ ServerEnded \/ (spc = "accept" /\ queue = <<>>)
  /\ UNCHANGED vars

ServerRuns == Accept \/ AcceptFails \/ Receive \/ Echo \/ SayBye

Next ==
  \/ Launch \/ ServerRuns \/ InterruptServer
  \/ \E c \in Clients :
       Connect(c) \/ Say(c) \/ TypeNothing(c) \/ Hear(c) \/ InterruptClient(c)
  \/ Quiet

Spec == Init /\ [][Next]_vars

\* The programs run; users type, start and interrupt them when they like.
FairSpec == Spec /\ WF_vars(ServerRuns) /\ \A c \in Clients : WF_vars(Hear(c))

-----------------------------------------------------------------------------
(***************************************************************************)
(* When recv() finds what one send() sent, the answer to each line of the  *)
(* accepted client is that line with a stamp: neither the rest of a longer *)
(* line in buf, nor the answer to an earlier line.                         *)
(***************************************************************************)
EchoAnswersLine ==
  ~rough => \A c \in Clients :
    c = peer /\ cpc[c] = "fgets" /\ said[c].n > 0 =>
      shown[c] = Append(Line(said[c]), Stamp)

(***************************************************************************)
(* When lines arrive whole, the server ends a conversation only because    *)
(* its client has said "exit" or has ended: a line that only contains the  *)
(* command does not end it.                                                *)
(***************************************************************************)
ServerLeavesOnExit ==
  ~rough /\ spc \in {"bye", "exit0"} => said[peer].kind = "exit" \/ ClientEnded(peer)

(***************************************************************************)
(* Whatever arrives in pieces, fails or is interrupted, nobody waits for   *)
(* an answer for ever but a client whose server serves another one, whose  *)
(* user is silent.                                                         *)
(***************************************************************************)
ConversationGoesOn ==
  \A c \in Clients :
    <>[](cpc[c] = "recv") => <>[](peer \in Clients \ {c} /\ cpc[peer] = "fgets")

(***************************************************************************)
(* The end of a client, however it comes, is the end of the server that    *)
(* has accepted it: recv() returns 0, or send() raises SIGPIPE after it    *)
(* returned -1.                                                            *)
(***************************************************************************)
ServerFollows == \A c \in Clients : (peer = c /\ ClientEnded(c)) ~> ServerEnded

-----------------------------------------------------------------------------
(***************************************************************************)
(* Inductive strengthening of EchoAnswersLine and of ServerLeavesOnExit:   *)
(* in smooth times a line, its answer or nothing is under way between the  *)
(* server and the client it serves, and each side knows which.             *)
(***************************************************************************)
End == {"exit0", "exit1", "sigpipe", "sigint"}
Pieces == [n : Nat, kind : {"text", "exit", "endsInExit", "server"},
           part : {"head", "tail", "stamp", "bye", "rest"}]
Texts == [n : Nat, kind : {"text", "exit", "endsInExit"}]

TalkTypeOK ==
  /\ rough \in BOOLEAN
  /\ spc \in {"start", "accept", "recv", "echo", "bye"} \cup End
  /\ peer \in Clients \cup {NoClient} /\ queue \in Seq(Clients) /\ buf \in Seq(Pieces)
  /\ cpc \in [Clients -> {"start", "fgets", "recv"} \cup End]
  /\ said \in [Clients -> Texts] /\ shown \in [Clients -> Seq(Pieces)]
  /\ up \in [Clients -> Seq(Pieces)] /\ down \in [Clients -> Seq(Pieces)]
  /\ near \in [Clients -> {"open", "fin", "rst", "gone"}]
  /\ far \in [Clients -> {"open", "fin", "rst", "gone"}]

\* What is under way on the connection of c, which nobody has closed.
Open(c) == near[c] = "open" /\ far[c] = "open"
Quietly(c) == Open(c) /\ up[c] = <<>> /\ down[c] = <<>>
Asking(c) == Open(c) /\ up[c] = Line(said[c]) /\ down[c] = <<>>
Answering(c) == Open(c) /\ up[c] = <<>> /\ down[c] = Append(Line(said[c]), Stamp)

\* A client that has not been accepted by a server that still may: it has not
\* said more than one line, whatever it did then.
Unserved(c) ==
  \/ /\ cpc[c] = "start" \/ cpc[c] = "fgets"
     /\ said[c] = [n |-> 0, kind |-> "text"] /\ Quietly(c)
  \/ cpc[c] = "recv" /\ Asking(c)
  \/ cpc[c] = "exit0" /\ far[c] = "fin" /\ up[c] = <<>>
  \/ cpc[c] = "exit1"

AcceptInv ==
  spc \in {"start", "accept"} =>
    /\ peer = NoClient
    /\ \A c \in Clients : Unserved(c) /\ (c \in Range(queue) => cpc[c] \notin {"start", "exit1"})

\* The client the server has accepted.
Typing(c) ==
  /\ spc = "recv" /\ cpc[c] = "fgets" /\ Quietly(c) /\ said[c].kind # "exit"
  /\ said[c].n > 0 => shown[c] = Append(Line(said[c]), Stamp)

Listens(c) ==
  /\ cpc[c] = "recv"
  /\ \/ spc = "recv" /\ Asking(c)
     \/ spc = "echo" /\ Quietly(c) /\ buf = Line(said[c]) /\ said[c].kind # "exit"
     \/ spc = "recv" /\ Answering(c) /\ said[c].kind # "exit"
     \/ spc = "bye" /\ Quietly(c) /\ said[c].kind = "exit"
     \/ spc = "exit0" /\ said[c].kind = "exit"

Left(c) ==
  \/ spc \in {"recv", "bye"} /\ cpc[c] = "exit0" /\ far[c] = "fin" /\ up[c] = <<>>
  \/ spc = "exit0" /\ ClientEnded(c)

ServedInv ==
  spc \notin {"start", "accept"} =>
    peer \in Clients /\ (Typing(peer) \/ Listens(peer) \/ Left(peer))

TalkInv ==
  /\ TalkTypeOK
  /\ spc \in {"recv", "echo", "bye"} => peer \in Clients
  /\ ~rough => AcceptInv /\ ServedInv
=============================================================================
