# A verification of simpleVPN in TLA+

simpleVPN is three C programs. A client (`vpn_client`) wraps a TCP/IP packet
in a GRE header, encrypts it by XOR and sends it to a VPN server; the server
(`vpn_server`) unwraps it, puts its own IP address in the place of the
client's, and sends it in clear to a destination (`vpn_destination`), which
answers with a greeting; the server wraps and encrypts the answer for the
client. Each program handles one conversation and ends.

## Inventory of the system

| component | state it keeps | operations | talks to |
|---|---|---|---|
| client (`client.c`) | the destination's name, one socket, `resp_pkt` | read names, connect, send, receive, print, close | server, by TCP |
| server (`server.c`) | listening socket, client's socket, socket to the destination, packet buffer, `client_ip` | listen, accept, receive, save the client's address, rewrite, connect, send on, receive, rewrite, reply, close | client and destination |
| destination (`destination.c`) | listening socket, caller's socket, packet buffer | listen, accept, receive, answer, close | server |
| packets (`packet.c`, `encap.c`, `decap.c`, `protocol.h`) | none (they rewrite their callers' buffers in place) | create, encapsulate, rewrite, send, receive | called by all three |
| encryption (`encrypt.c`) | the constant key | `xor_encrypt_decrypt` | `packet.c` |
| checksums (`utils.c`) | none | `cksum`, `verify_checksum` | `packet.c`; nobody verifies |
| host table (`host_info.c`) | the constant table `hosts[]` | look up, parse, format addresses | all |
| Mininet network (`vpn_topo/simple_vpn.py`) | switches, hosts, addresses, links | set up; frames travel over it | carries all of the above |
| echo exercise (`doc/guide_mininet/examples/server.c`, `client.c`) | sockets, line buffers | accept, receive, stamp and send back; type, send, print | each other, by TCP |
| raw socket exercise (`client_packet.c`, `server_packet.c`) | one packet buffer each | build headers and checksums, send; receive, print | each other, by raw IP |
| OpenSSL exercise (`doc/guide_openssl/example/`) | sockets, SSL contexts | accept or connect, handshake, one message, shutdown | each other, by TLS over TCP |
| environment | TCP connections and accept queues of the kernel | socket calls | all |

What is hard here is not in any one function. Processes interleave: several
clients may dial a server that will accept one, several servers a destination
that will accept one. Calls fail at any point, peers end early, and an early
end reaches the peer as an orderly close or as a reset, depending on what was
unread. One `recv()` is taken for a whole message, its 0 for a message too.
`recv()` has no timeout, and all programs listen on one port, so that servers
can wait for each other. Buffers pass between functions, of which some free
what they are given only when they succeed; texts are found by `strlen()` in
buffers that a cut `recv()` may have left without an end. The exercises add
conversations of several turns on one connection, where a process that ends can
reset its peer or kill it by `SIGPIPE`. `PROJECT.json` lists the hazards at their lines.

What makes each part correct:

* client: it shows nothing but the answer of the destination it asked for, and ends;
* server: it never shows the client's address outside, returns the answer to
  the client it serves, and ends;
* destination: it answers one caller, with its own address;
* packets: the rewriting changes the address it should and nothing else;
* encryption, checksums, table: round trips; what a reader of the wrong form gets;
* heap: nothing used after it is freed, nothing accessed outside but the one
  byte described below, nothing kept after success;
* network: the host that answers is the one whose name was typed, every host is
  reached, and no flood lasts;
* exercises: an answer belongs to its line, both sides of a handshake end the
  same way, whoever waits is woken by the end of the other, a checksum tells damage
  where it verifies at all.

## The modules

| module | models |
|---|---|
| `Packets` | the packets of `packet.c`: form (in the tunnel or plain), addresses, kind of payload; creation, rewriting, and what a complete, cut or empty `recv()` leaves in a buffer |
| `Sockets` | the TCP connections the programs use (external to `src/`) |
| `VpnClient`, `VpnServer`, `VpnDestination` | the three `main()`s, one action per blocking system call |
| `SimpleVPN` | the three composed; properties; inductive invariants; the refinement mapping |
| `PacketBytes` | the same packets byte by byte: layout, byte orders, sums, XOR, sizes, and every function of `packet.c` that makes, rewrites, sends or receives one |
| `PacketLife` | one request and its answer in bytes, next to the packet of `Packets` that stands for them |
| `Checksums` | memory read and added in words of two bytes, `cksum` and `verify_checksum` (`utils.c`), `calculate_checksum` (`client_packet.c`) |
| `Buffers` | the heap of each of the three programs on every path |
| `HostNames` | the way from the line typed at a client to the address a server dials |
| `Topology` | the Mininet network that this address is dialled on; extends `HostNames` |
| `Streams` | the kernel's part of a TCP connection used more than once (external to `src/`) |
| `SimplexTalk` | the echo exercise of `doc/guide_mininet` |
| `RawPacket` | the raw socket exercise of `doc/guide_mininet` |
| `SslHello` | the OpenSSL exercise of `doc/guide_openssl/example` |
| `VpnService` | the abstract specification: what a user of clients is promised |
| `SimpleVPNProofs` | theorems about `SimpleVPN` and their proofs |
| `ChecksumProofs`, `PacketLifeProofs`, `BuffersProofs`, `TopologyProofs`, `RawPacketProofs`, `TalkProofs`, `SslHelloProofs` | the same of the modules they are named after |
| `MC...` | processes, texts, cuts, lines and sizes for TLC |

`Packets` <- `Sockets` <- `VpnClient`, `VpnServer`, `VpnDestination` <-
`SimpleVPN` <- `MCSimpleVPN`; `SimpleVPN` instantiates `VpnService`. `Checksums`
<- `PacketBytes` <- `PacketLife` <- `MCPacketLife`; `PacketLife` instantiates
`Packets`, and so ties the bytes to what `SimpleVPN` routes. `Checksums` <-
`RawPacket`; `HostNames` <- `Topology`; `Streams` <- `SimplexTalk`, `SslHello`;
`Buffers` stands alone. Each proof module extends the module it is about, and
`PacketLifeProofs` and `RawPacketProofs` extend `ChecksumProofs` too.

### How state and actions correspond to the code

Program counters `cpc`, `spc`, `dpc` name the next system call of `main()`.
An action is one such call with everything `main()` does until the next one;
what happens in between touches only memory of the process. Thus
`ReceiveRequest` is `serv_rec_from_cli`, `save_client_ip`, `serv_handle_pkt`
and `create_client_socket` in that order. `asked`, `reply`, `spkt`,
`clientIp`, `dpkt` are the variables `dest_host_name`, `resp_pkt`,
`rec_packet`/`enc_pkt`, `client_ip` and the destination's `rec_packet`;
`accepted` and `caller` say whose connection `new_socket` is. Ends are kept
apart: `exit0`, `exit1` (return -1 or `EXIT_FAILURE`), `segv` (the null
pointer that `client.c:126` and `server.c:197` dereference), `sigint`
(`doc/guide_runPrograms.txt` tells users to press Ctrl-C).

Failing paths that end the process close its sockets, since the kernel does:
`HangUp`. Where `main()` goes on after an error (`client.c:116`,
`server.c:206`), so does the model.

Definitions whose comment begins with "Slip:" are no part of the model: each
is a plausible mistake in the definition after it, used to show that a
property would notice. `PROJECT.json` names the property.

### Packets

An address is one of the table's hosts or `NoHost`. Reading a packet in the
wrong form (a destination that reads a tunnel packet, a server that reads
another's encrypted reply as a response) takes addresses from the wrong offset
and through the key: it gives no host's address. A cut read leaves zeroes, or
in the tunnel key bytes, where bytes are missing, and gives no host's address
either: every address in the table begins with 10, which is the last byte of
the field in memory. What arrives is counted in fields, in the order source,
destination, text and, in a plain packet, the zeroes after the text; `Reads`
says how many one `recv()` may return, from 0 to 4. A tunnel packet is sent
without the zeroes: its text is complete only with its last byte.

### PacketBytes and PacketLife

What the section above claims is checked on the bytes. `PacketBytes` writes and
reads buffers as the code does on a little-endian machine (the Mininet hosts);
`BitXor` is a parameter, given by the community module `Bitwise` to TLC.
`PacketLife` sends one packet through `create_packets`, `serv_rec_from_cli`,
`serv_handle_pkt`, `dest_rec_pkt`, `create_packets_des`, `serv_rec_from_des`,
`serv_handle_pkt_dest`, `serv_cli_encrypt_free` and back into
`serv_rec_from_cli`, with a `recv()` that cuts wherever `Cuts` says, or into the
wrong reader. The ghost variable `pkt` follows it with the operators of
`Packets`; `BytesMatchPackets` says that both always have the same addresses and
the same text. So `SimpleVPN` may use the short packets.

It says so of texts that show whether they came through, `Telling`: the tunnel
keeps all of such a text, it differs from the destination's greeting where both
have bytes, and it does not begin with one of the few bytes that a reader in the
wrong form gets in its place. The client's text is one (`ClientTextsTell`).

What the programs print is part of it: `print_packet` and
`print_packet_unencap` take both addresses through `parse_ip_addr_to_str` and
the text up to its zero byte, and `Shown` compares them with what `Packets`
says the reader has. `TextsEnd` states that each such walk ends inside its
buffer. Besides the programs' two texts, `Probes` are texts that other callers
of `create_packets` might pass; they travel whole and on one host pair.

### Buffers

A buffer is named after the variable that first holds it, and an action is a
stretch of `main()` with the functions of `packet.c` it calls, as a sequence of
`calloc`, `access` (up to a byte of the buffer) and `free`, which `Executed` carries
out one after the other. Every failing call is a disjunct. `heap` keeps the sizes of what is allocated, what was used after
it had been freed, and the accesses that reached outside. Texts are lengths:
those a program sends, those found in received buffers. The assumption
`BuffersAssumption` bounds them by what the code can take: a longer message
would already be written behind the buffer by `strncpy()` (`packet.c:155`).
A destination receives into a buffer of the plain size (`packet.c:285`), the
others into one with room for the GRE header.

The byte behind the buffer: `packet.c:221-230` allocates header and payload and
stores a terminator at the payload's size; `OnlyTerminatorOutside` says that
this is the only one. On success everything is freed. When `send()` fails,
`send_and_free_packet_vpn` and `serv_cli_encrypt_free` return before their
frees, and the server, which ignores the result (`server.c:206`), reaches
"Freeing any allocs" (`server.c:211`) with the two packets of the reply still
allocated; the process ends there.

### HostNames and Topology

`HostNames` follows one name: `fgets` into five bytes, `strcspn`, `hosts[]`, the
text of an address into the packet by `parse_ip_addr`, and back into text for
`inet_pton`. Texts are sequences of character codes. A line may have a byte 0 in
it: `fgets` reads on behind it, `strcspn` and the comparison with the table stop
at it, so that the line h1, 0, x dials h1 (`Stripped`). At the end of input the
buffer is uninitialised: any of `Leftovers`. `Cuts` are the addresses that a
packet cut on its way may yield. The names in `argv` are those of
`doc/guide_runPrograms.txt`: the host a program runs on, and hosts of the table.

`Topology` continues where the server has called `connect()`: its kernel asks
for the address, switches flood the question and learn where its sender is, the
host that has the address answers. Switches, hosts, addresses and links are those
of `simple_vpn.py`; the behaviour of switches and hosts (OVS under Mininet's
`Controller`, ARP) is external. Frames are delivered in any order, each once.

### Streams, SimplexTalk and SslHello

In `Streams` each kernel has its end of a connection: "open", "fin" after the
peer closed it, "rst" when a reset has not been told yet, "gone" when it has:
then `recv()` returns 0 and `send()` raises `SIGPIPE`. Bytes unread at `close()`
reset the peer; a reset may overtake bytes sent before it, since the kernel
drops what it has queued.

`SimplexTalk` has one action per call: the server accepts one connection and
leaves after the conversation (its `return 0` is inside the `while (1)`), and
both sides take -1 from `recv()` for data. A stream is a sequence of pieces, two
per line, so that a `recv()` in rough times returns half a line; `buf` is what
string functions then see, with the rest of what was in the buffer before.
`rough` is drawn at the start: smooth runs have whole reads and no failures, and
carry the two properties that need them. A second client that has connected
meanwhile is reset when the server ends and prints its uninitialised
`receive_buf`, where `doc/guide_runPrograms.txt:119-120` promises "a same message and
a timestamp"; `ConversationGoesOn` says that it does not wait for ever. `AcceptFails` is
`server.c:53`: `accept()` is told an uninitialised size, and when it is negative the
kernel closes the connection it has taken; whether its client sees an orderly end
or a reset depends on what was unread.

In `SslHello` the calls of a process are a sequence of records read and written:
those of its handshake, its message, and the notification of `ssl_shutdown`.
What a handshake exchanges is the library's; the model has the order of records
in TLS 1.2 and in TLS 1.3, where the server writes two tickets at the end that
the client does not wait for. `talks` says who runs `server.c` or `client.c`
(one message) and who `runner.c` (none). `ssl_accept_connection`
(`encrypt.c:130-140`) never gives its SSL the socket; no program calls it, and
the slip `NoDescriptor` shows what would happen. `socket()` and `connect()` of a
client may fail at any time; `listen()` is told 1, with which two connections
wait (`CanConnect`). A failing handshake is printed, and the program ends with 0.

### RawPacket

Sender and receiver in bytes: headers, the sum over the IP header taken while
the rest of the buffer is zero, the pseudo header, the payload, what the kernel
fills in (`OnWire`), a network that loses the packet or damages a byte, and what
`print_packet` shows. `ChecksumsAgree` compares `calculate_checksum` of this
exercise with `cksum` of the VPN.

The sender takes the TCP sum over header and payload
(`client_packet.c:99`), but sends `packet_length` bytes, 1023
(`client_packet.c:135-138`), and the kernel writes that number into the IP
header. A receiver knows no other length: in its pseudo header the segment has
1003 bytes, the sender's had 47. So `SumsVerify` has two halves: over the sender's
own length the sum verifies; over the length that arrives it verifies only if
there is no padding. The packet of `main()` has 956 bytes of it, and a receiver
that followed the RFCs would refuse it undamaged. Nobody notices because
`server_packet.c` reads from a raw socket, which gets such packets, and verifies nothing.
`DamageIsDetectable` says what the sum is worth at the receiver (`Verified`): it
tells each damaged byte of a packet without padding; with padding it refuses
undamaged packets and damaged ones alike.

`packet_length` is a CONSTANT. TLC has 330, since it adds words by recursion and
its stack has room for no more; that is more than 255 bytes of padding for the
guide's payload (`BeyondOneByte`), none and one for the longest. The theorems
hold for each value from 40 to 1024.

### Sockets

A connection has two ends and at most one packet per direction, since no
program sends twice on a connection. `connect()` succeeds when the kernel has
queued the connection. Closing with unread bytes, or a listening socket with
queued connections, resets; any other close is orderly. A reset makes the
peer's next call fail; if `send()` has reported it, `recv()` then returns 0. A
call may also fail for a reason outside the model when `Faults` holds. `UpReady` and
`DownReady` say that something has arrived for which `recv()` returns.
`SIGPIPE` cannot occur: it takes a second `send()` on a connection that is
known to be broken, and no program sends twice on one.

## Runs

Bounds are the CONSTANTS of each `.cfg`. Two clients, two servers and two
destinations are enough for every contest in the code (two dialling one), and
for the smallest cycle of servers; each process runs `main()` once, so that
state spaces are finite without other bounds.

| run | question | instance |
|---|---|---|
| `one_server` | Do types, secrecy, the reply's origin and the service survive every failure, and who can then wait for ever? | 2 clients, 1 server, 1 destination; accept queue of 1; all cuts; faults; Ctrl-C; names of a client's host, an empty host, no host |
| `two_servers` | The same when servers dial servers; is the proofs' invariant one; what can keep a process waiting for ever? | 2 clients, 2 servers, 1 destination; server hosts among the names; cuts at 0, 1, 3 and all fields; a client and the destination interrupted |
| `undisturbed` | With no failure at all, who crashes, does a circuit deliver, is it the service? Does the proofs' invariant hold? No deadlock. | 2, 2, 2; both destinations on one host |
| `packet_life` | Do the bytes hold what `Packets` says, does rewriting touch nothing else, what does the tunnel do to a text? | the programs' texts; client, server and destination on any of h1, h2, h7; cuts at, inside and next to each field; probes of 0 to 3 bytes over the key's bytes and one other, and of 126 to 128 bytes |
| `topology` | Who is dialled, and who answers? | all lines of up to 5 characters of h, 1, 7, and some with a byte 0 in or after a name, with and without newline; octets of 1 to 3 digits; the network as it is |
| `buffers` | What happens to the heap on each path? | each program; every failure; every length of a request's text up to 128 and of a response's up to 122 |
| `talk` | Which answer belongs to which line, and who waits? | 2 clients; 3 lines each in smooth times, 2 in rough ones |
| `raw_packet` | Over which length do the hand-made sums hold, and what would a receiver see by them? | 330 bytes sent; the guide's payload, those of 0 to 3 bytes of 0, 1 and 255, and the longest that leave one byte of padding or none; damage by 0, 1 or 255 to bytes of the TCP header, a payload and the padding |
| `ssl_hello` | Who misses the handshake or the message, and who waits? | 2 clients, 1 server; both versions; each mix of programs |
| `reply_is_a_packet`, `errors_are_handled`, `gre_sum` | expected violations, below | 1 or 2 clients, no faults; one round trip |

Properties of the VPN (in `SimpleVPN`): `ProxyHidesClient`, `ReplyHasCircuit`
(the greeting came from the destination asked for, over a server that worked
for this client alone), `CrashOnlyIfPassedOver`, `CircuitDelivers`,
`ConversationsEnd`, `ImplementsService`. Of its parts: `BytesMatchPackets`,
`RewritingIsLocal`, `TunnelKeepsPrefix`, `TextsEnd` (`PacketLife`);
`NothingStale`, `OnlyTerminatorOutside`, `SuccessFreesAll` (`Buffers`);
`DialsTypedHost`, `AddressesSurviveText` (`HostNames`); `NamedHostAnswers`,
`FloodsEnd`, `DialsAreAnswered` (`Topology`). Of the exercises:
`EchoAnswersLine`, `ServerLeavesOnExit`, `ConversationGoesOn`, `ServerFollows`
(`SimplexTalk`); `SumsVerify`, `ChecksumsAgree`, `DamageIsDetectable`
(`RawPacket`); `BothEstablish`, `SentIsReceived`, `HandshakesEnd` (`SslHello`).
The runs also check the inductive invariants of the proofs: `ProxyInv` and
`CircuitInv` (`two_servers`), `UndisturbedInv`, `LifeInv`, `MatchInv`,
`TopologyInv`, `TalkInv`, `RawInv` and `HelloInv`.

The probes of `packet_life` are not sent by the programs: `create_packets` takes
any message, and the run states what its next caller has to know. A byte equal
to the key's at its place becomes the zero at which `serv_rec_from_cli` stops.

`SentIsReceived` is stated for TLS 1.2. With TLS 1.3 it fails: a client that
closes with the tickets unread resets the connection, and the server may lose
the message ("Sent 14 bytes" at one side, nothing at the other) or be killed by
`SIGPIPE` while it writes the second ticket. `doc/CSCD58_Report.md:87` calls the
authors' experience "unstable, with success and failures mixed" without a cause.

`two_servers` switches the deadlock check off: there the system really stops, in
the cycle of servers that `ConversationsEnd` allows and that `server.c:169-190`
makes possible. In the others a state in which nothing can happen is an error,
except that all have ended or wait for programs that nobody starts.

Why the bounds are enough: each process of the VPN runs `main()` once, and a
contest in it is between two; cuts are at every field, which is all that
distinguishes readers; two clients of an exercise are one that is served and one
that is not; a second line follows a first one into the same buffer, and a third
one the other way round; the network and the table are the real ones.

### Fairness

`FairSpec` assumes that the scheduler runs a process that can run: weak
fairness of each process's own steps (`ClientRuns`, `ServerRuns`,
`DestinationRuns`) while it is not in a call that waits for another process.
`ClientBlocked`, `ServerBlocked` and `DestinationBlocked` are those calls:
`accept()` with an empty queue and `recv()` with nothing arrived. They have no
timeout, so nothing promises that they return or that they fail. Where `Faults`
holds such a call may fail of itself, without a promise. Starting a program,
typing a name and Ctrl-C are the user's and carry no fairness.

This is what lets `one_server` see the standoff of `client.c:116-124`. The
client's `send()` fails with the connection intact; the client only prints that
and goes on to `recv()`, while the server that accepted it is in `recv()` for
the request. Both wait for ever, and so does whoever is queued behind them.
`ImplementsService` says that this is all that keeps a request from ending:
either a `Standoff` lasts from some time on, or `VpnService.RequestsEnd` holds. In
`undisturbed`, where no call fails of itself, no `Standoff` can come up, and the
same formula says that requests end.

In `SimplexTalk` the server's steps and each client's `recv()` are fair, typing
and Ctrl-C are not; in `SslHello` `accept()` and the steps of each process after
its connection; in `Topology` programs run and links deliver what they carry.

### Expected violations

* `ReplyIsAPacket`: `serv_rec_from_cli` treats `recv() == 0` as a packet.
  Shortest trace: no destination listens, the server gives up, the client
  prints an empty packet and exits with 0.
* `ErrorsAreHandled`: the null pointer that `packet.h` announces is not
  tested in `client.c` and not for the response in `server.c`. Shortest trace:
  two clients, one server, which ends without accepting the second.
* `GreSumInNetworkOrder`: `cksum` returns network byte order, and
  `packet_encapsulate` converts it once more.

## Proofs

TLC checks the runs above; the proof modules state what holds for every value
of the constants. Every safety property of the passing runs is proved, from an
inductive invariant that is itself a property of a run, so that TLC has checked
it first. (`BuffersInv` is in no `.cfg`, since it contains the three properties of
`buffers`; as an invariant of `MCBuffers.cfg` it passes in the same states.)

| module | theorems | invariant |
|---|---|---|
| `SimpleVPNProofs` | `TypeCorrect`, `TypesHold`, `ClientsStayHidden` | `TypeInv`, `ProxyInv` |
| | `ProxyCorrect`, `RepliesHaveCircuits`, `CircuitsCorrect`, `ServiceImplemented` | `CircuitInv` |
| | `CrashesExplained`, `UndisturbedCorrect` | `UndisturbedInv` |
| `ChecksumProofs` | `SumsOfBothOrders` and the lemmas on sums | none, it is about operators |
| `PacketLifeProofs` | `TextsAlwaysEnd`, `TunnelAlwaysKeepsPrefix`, `RewritingAlwaysLocal`, `LifeCorrect` | `LifeInv` |
| | `BytesAlwaysMatch`, `MatchCorrect` | `MatchInv` |
| `BuffersProofs` | `NothingEverStale`, `OnlyTerminatorEverOutside`, `SuccessAlwaysFreesAll`, `BuffersCorrect` | `BuffersInv` |
| `TopologyProofs` | `TypedHostDialled`, `AddressesSurvive` | `NamesInv` |
| | `FloodsDoEnd`, `OnlyNamedHostAnswers`, `TopologyCorrect` | `TopologyInv` |
| `RawPacketProofs` | `SumsAlwaysVerify`, `ChecksumsAlwaysAgree`, `DamageAlwaysDetectable`, `RawCorrect` | `RawInv` |
| `TalkProofs` | `EchoesAnswer`, `LeavesOnExit`, `TalkCorrect` | `TalkInv` |
| `SslHelloProofs` | `HandshakesAgree`, `MessagesArrive`, `HelloCorrect` | `HelloInv` |

### The VPN: any number of processes, any placement on hosts, any failure

* `TypesHold`. `TypeOK` is not inductive: a server's step uses the connection
  it accepted and the packet it holds. `TypeInv` adds that these exist wherever
  `spc` and `dpc` say so.
* `ClientsStayHidden`. Clients send tunnel packets only and servers plain ones
  only (`FormInv`), so that a destination that a client dials, or a server that
  a server dials, reads nobody's address; hence a server that finds its
  destination has accepted a client, not a server, and its packet bears its own
  address as source and an acceptor's as destination (`ServerInv`); hence what
  it sends on is clean, what the destination answers is clean, and the tunnel
  packet with the client's address goes onto the client's connection.
  `HostsApart` (no server or destination runs on a client's host) is a
  hypothesis inside the property.
* `RepliesHaveCircuits`. That a reply came over the client's own circuit says
  nothing of the steps before it came. `WireInv` says who is connected to whom:
  who is queued or accepted has a connection to that process, nobody is queued
  twice or queued and accepted. `RouteInv` follows the request: what is on a
  client's connection, or in the server that accepted it, names what the client
  asked for. `AnswerInv` follows the greeting back: on the connection of a
  server there is a destination behind it, and on a client's a whole circuit.
  Connections only grow (`Grows`), so that a circuit once there stays.
* `ServiceImplemented`: the refinement `Spec => Service!Spec`. A client's answer
  is the process two connections away (`AnswersAtEnd`), which `CircuitInv` makes
  unique, so that no two clients show one destination's answer (`AnswersDiffer`),
  and each step asks, is answered, ends or stutters. `Service!Spec` is the
  safety part; that requests end but for a standoff stays with TLC
  (`ImplementsService`).
* `CrashesExplained`. When nothing fails from outside, only a reset makes
  `recv()` fail, for which its callers get the null pointer. `ResetInv` says whence a reset can come:
  who has one has been passed over by a one-shot program, and whoever is being
  served has its bytes read before its server closes.

### Bytes: every buffer, text and cut

* Lemmas on sums. `cksum` and `calculate_checksum` are recursive functions over
  the words of a buffer. The provers cannot instantiate the library's induction theorems, so
  the lemmas look at the first offset at which a claim would fail
  (`SmallestNumber`, from the well-foundedness of <). They turn the sum over
  words into one over bytes, each with its weight (`WordsAndBytes`), and show
  that a sum depends on its bytes only, that the
  sums of the two byte orders are each other's bytes swapped
  (`SumsOfBothOrders`), and that storing the complement makes it verify.
* `SumsAlwaysVerify`, `ChecksumsAlwaysAgree`, `DamageAlwaysDetectable`, for
  every payload and every number of bytes sent: `RawInv` says at each step which
  bytes are still zero, which are summed, that zeroes follow the payload, and
  that what has arrived differs in one byte at most.
  The first sum is over a header whose sum field is zero, the second over a
  pseudo header; the invariant carries both until the packet is damaged. The
  receiver's sum is the sender's with another length in the pseudo header and
  the padding, which adds nothing, behind it (`SegmentSum`, `SumOnWire`): modulo
  65535 it is 256 per byte of padding away from verifying. No padding up to 1024
  makes that a multiple of 65535 (`OnlyWithoutPadding`), and one damaged byte,
  which moves the sum by at most 255 * 256, does not bring it to one from where
  `BeyondOneByte` says it is (`WrongByPadding`).
* `TextsAlwaysEnd`, `TunnelAlwaysKeepsPrefix`, `RewritingAlwaysLocal`: `TextsEnd`
  alone is not inductive, since decrypting moves the zeroes. `LifeInv` adds the
  size of the buffer at each stage (`MemoryInv`), the form the reader takes the
  packet for (`FormInv`), that a request is as it was made until it is read, and
  the zeroes behind a response (`ZeroesInv`). A reader through the tunnel stores
  its own terminator; a reader in clear relies on what was sent.
* `TunnelAlwaysKeepsPrefix` holds for every text of at most 128 bytes without a
  zero: `KeptIs` finds its first byte equal to the key's.
* `BytesAlwaysMatch`, for every telling text, host and cut. That the bytes match
  now does not say that they will after the next step, for that step may read them
  in the other form: six bytes further on or nearer, decrypted or not. `MatchInv`
  therefore also says what a few header bytes are that such a reader would take for
  the last octet of an address or the beginning of a text (`RequestTraces`,
  `ResponseTraces`): the checksums, the ports and the protocol as `create_packets`
  leaves them, whole, cut to zeroes, or encrypted. No host's address has another
  octet there than 10, and no text begins so. To see that two given bytes differ
  after XOR the proof needs what XOR is, not only that it undoes itself:
  `BitsAssumption`. The request goes through two rounds of XOR with `strlen()` in
  between, which a text survives that no byte of the key equals (`Survives`).
* `NothingEverStale`, `OnlyTerminatorEverOutside`, `SuccessAlwaysFreesAll`. `Leaves`
  says from which set of allocated buffers to which a sequence of heap operations
  leads, and sequences that follow each other compose (`LeavesNext`); each function
  of `packet.c` has a lemma of its own, and each path of a program is put together
  from these. `BuffersInv` says which packet is left between two calls: it is a call's
  successor that frees it. A program none of whose calls failed may keep nothing,
  one that failed may keep anything, so the invariant has to say too where
  something may have failed before the program has ended: in the client only, whose
  `main()` goes on after a failed `send()` (`client.c:116`).

### Names and network: every line, every order of frames

* `AddressesSurvive`: `parse_ip_addr` is a recursive function over a text; the
  lemmas read it digit by digit (`ReadDigit`, `ReadDecimal`, `ReadNext`), for every
  address of four octets.
* `TypedHostDialled`: what `fgets` stores and `strcspn` strips of a line of any
  length, of any bytes, is a name of the table only if the line up to its newline or
  its first byte 0 is that name (`ShortNamesAreTyped`): a longer one is cut to four
  characters, which no name has.
  `NamesInv` says of each stage which address is sought and that it is that name's.
* `FloodsDoEnd`, `OnlyNamedHostAnswers`: the links of `simple_vpn.py` are a tree, of
  which `Up` gives each node's parent, so that a question goes over each link away
  from who asked (`Flood`). That no switch has the question twice is not inductive:
  `TopologyInv` adds that it is under way only on these links, to switches that have
  not handled it, from ones that have, and that whoever has handled it has it from
  one that had before.

### The exercises: any number of clients

* `EchoesAnswer` (of the client that was accepted) and `LeavesOnExit` (the server
  leaves with its "bye" only after a line "exit" or the client's end) hold in
  smooth times; `TalkInv` says for
  every client whether it types, listens or has left, and what lies in buffers
  and streams then; `AcceptInv` is what a client finds that has not been
  accepted. It has to hold in rough times too that a serving server has a client.
* `HandshakesAgree` and `MessagesArrive`: `HelloInv` relates how far the two
  sides of a connection are (`step`) and the records under way, for both
  versions and for programs that talk or only shake hands, as long as neither
  side has given up. `StatusInv` needs that who is queued or accepted has
  connected.

### Assumptions

The named ones of the modules, and no others: `PacketsAssumption`,
`SocketsAssumption`, `ClientAssumption`, `RawPacketAssumption`,
`PacketLifeAssumption`, `SimplexTalkAssumption`, `SslHelloAssumption`,
`BuffersAssumption`, `HostNamesAssumption` (texts are sequences of bytes, and the
null pointer is neither a name nor an address), `BitXorAssumption` (the operator `^`
on bytes undoes itself, and gives zero for equal bytes only) and `BitsAssumption`
(its lowest bit is that of the sum, its other bits are the operator on the other
bits); TLC confirms the last two for all pairs of bytes. TLC evaluates each in a run
of the module that declares it.

### What the proofs found

* That a long text ends when its request is misread in clear is a coincidence.
  A text of 122 bytes or more (the programs send shorter ones) has its zero
  behind the 168 bytes that a destination reads. What ends it there is byte 43 of
  the packet: a byte of the TCP header's checksum, which for the SYN packet of
  `create_packets` is 0x78, the key's byte at that place, and so is sent as zero
  (`CreatedAt`). With other flags, another port or another key the text could
  run out of its buffer.
* Which texts `BytesMatchPackets` holds of. The run has the programs' texts and
  short probes; the proof asked for the conditions of `Telling` one by one. A text
  that begins with the byte that the key gives for a zero, say, cannot be told from
  the zeroes of a cut packet, and so `SimpleVPN`'s kinds of payload would not
  describe it.
* How little the sum of the raw socket exercise says at a receiver. That the
  packet's own length decides came out of the source; how far from verifying the
  padding puts the sum, and for which paddings a damaged byte could bring it back,
  came out of the proof (`BeyondOneByte`).
* Two cases of `NearClosed` in `Sockets` overlapped; a destination needs its
  connection at "close" too; `StatusInv` and `TalkInv` each lacked the condition
  named above. TLC's instances did not tell the difference.

### What is only model-checked

* Liveness (`ConversationsEnd`, `CircuitDelivers`, `ConversationGoesOn`,
  `ServerFollows`, `HandshakesEnd`, `DialsAreAnswered`, the liveness of
  `ImplementsService`): out of the prover's reach.

Everything else that a passing run checks is proved.

## Not modelled

* The wording of what is printed, and the fields that are only printed.
* Memory behind a buffer: what a byte stored there does to the heap, messages
  longer than the payload (`packet.c:155`), lines that overflow the echo server's
  buffer (`server.c:72` gives `strncat` the size of the whole buffer). The models
  bound texts by named assumptions instead.
* `project_network.py`, a network of the guide on which no program of the VPN
  runs; `extract.py` and the saved `ifconfig` outputs of `vpn_topo/`, from which
  `host_info.h` was once made (run today it would overwrite the declarations in
  it); `HelloWorld.c`; `sample_code/`, an earlier copy of the OpenSSL wrappers.
* Cryptography of TLS; the TLS library beyond the order of its records.
* What an IP checksum of a rewritten header should be: it is taken with length
  and addresses swapped and modelled as computed, but nothing states or verifies
  it.

## Plan

1. (done) `Packets`, `Sockets`, the three programs, `SimpleVPN`, `VpnService`.
2. (done) `PacketBytes`, `PacketLife`: `Packets` is a faithful abstraction.
3. (done) `HostNames` with `Topology`, `Buffers`, printing, `Checksums`.
4. (done) The exercises: `SimplexTalk`, `RawPacket`, `SslHello`.
5. (done) Proofs: the VPN's safety properties and the refinement, the byte
   operators and the sums, `PacketLife` with `BytesMatchPackets`, the heap, names and
   network, the exercises.
6. What could follow: `FloodsEnd` for any network without a ring (the proof uses
   `Up`, the parents in the one of `simple_vpn.py`); that a client's packet arrives
   with both addresses unless it is cut before them.
