----------------------------- MODULE HostNames -----------------------------
(***************************************************************************)
(* From the line a user types at a client to the addresses the programs    *)
(* dial: fgets() into a short buffer, the table of host_info.c, addresses  *)
(* written as text and read back, by the code and by inet_pton().          *)
(*                                                                         *)
(* A text is a sequence of character codes without its terminator; what    *)
(* is typed may have bytes 0 in it.  An address is the sequence of its     *)
(* four octets.                                                            *)
(***************************************************************************)
EXTENDS Integers, Sequences, SequencesExt

CONSTANTS
  Arguments,  \* the names in a client's argv: its own and the server's
  Lines,      \* what may be typed, with the newline or up to the end of input
  Leftovers,  \* what the memory of dest_host_name may hold when nothing is typed
  Cuts,       \* addresses that a packet which was cut or misread may yield
  Null

VARIABLES
  stage,      \* the next thing the program does
  line,       \* what was typed
  name,       \* dest_host_name
  own,        \* the names in the client's argv
  sought,     \* the address the program starts from
  ip          \* the address as a text

vars == <<stage, line, name, own, sought, ip>>

Terminator == 0
Newline == 10
Dot == 46
Zero == 48
H == 104

\* Slip: the buffer has room for the names of the table only.
RoomForNames == 3

MAX_NAME_LENGTH == 5

\* The buffers for an address: malloc(4 * 4).
StringSize == 16

hosts == [n \in {<<H, Zero + k>> : k \in 1..7} |-> <<10, 0, 0, n[2] - Zero>>]

ASSUME HostNamesAssumption ==
  /\ Arguments \subseteq [client : Seq(0..255), server : Seq(0..255)]
  /\ Lines \cup Leftovers \subseteq Seq(0..255)
  /\ Cuts \subseteq [1..4 -> 0..255]
  /\ Null \notin DOMAIN hosts \cup {hosts[n] : n \in DOMAIN hosts}

get_host_ip(host) == IF host \in DOMAIN hosts THEN hosts[host] ELSE Null

-----------------------------------------------------------------------------
\* The conversion %d of an octet.
Decimal(octet) ==
  LET hundreds == IF octet >= 100 THEN <<Zero + octet \div 100>> ELSE <<>>
      tens == IF octet >= 10 THEN <<Zero + ((octet \div 10) % 10)>> ELSE <<>>
  IN  hundreds \o tens \o <<Zero + (octet % 10)>>

\* Slip: the bytes are taken in the order they lie in memory.
BytesAsTheyLie(a) ==
  Decimal(a[4]) \o <<Dot>> \o Decimal(a[3]) \o <<Dot>> \o Decimal(a[2]) \o <<Dot>>
    \o Decimal(a[1])

parse_ip_addr_to_str(a) ==
  Decimal(a[1]) \o <<Dot>> \o Decimal(a[2]) \o <<Dot>> \o Decimal(a[3]) \o <<Dot>>
    \o Decimal(a[4])

(***************************************************************************)
(* Each octet is read up to a dot or the end, also when it has no digits.  *)
(* Only texts of parse_ip_addr_to_str() and of the table are parsed: no    *)
(* octet exceeds a byte.                                                   *)
(***************************************************************************)
parse_ip_addr(text) ==
  LET octets[n \in 0..Len(text)] ==
        IF n = 0 THEN <<0>>
        ELSE IF text[n] = Dot THEN Append(octets[n - 1], 0)
        ELSE [octets[n - 1] EXCEPT ![Len(octets[n - 1])] = 10 * @ + (text[n] - Zero)]
      read == octets[Len(text)]
  IN  [i \in 1..4 |-> IF i <= Len(read) THEN read[i] ELSE 0]

\* Where the first of some characters is in a text, or 0.
FirstOf(text, chars) == SelectInSeq(text, LAMBDA c : c \in chars)

\* One less than the size of the buffer, or up to and with the newline: a byte 0
\* does not end the reading.
fgets(size, input) ==
  LET n == FirstOf(input, {Newline})
      upto == IF n = 0 THEN Len(input) ELSE n
  IN  SubSeq(input, 1, IF upto < size THEN upto ELSE size - 1)

\* The string that strcspn() leaves and strcmp() compares: up to the newline or
\* to a byte 0 before it.
Stripped(text) ==
  LET n == FirstOf(text, {Terminator, Newline})
  IN  IF n = 0 THEN text ELSE SubSeq(text, 1, n - 1)

Init ==
  /\ stage = "prompt"
  /\ line \in Lines
  /\ own \in Arguments
  /\ name = <<>> /\ sought = Null /\ ip = <<>>

\* At the end of input fgets() stores nothing.
ReadName ==
  /\ stage = "prompt"
  /\ IF line = <<>> THEN name' \in Leftovers
     ELSE name' = Stripped(fgets(MAX_NAME_LENGTH, line))
  /\ stage' = "names"
  /\ UNCHANGED <<line, own, sought, ip>>

\* Slip: the names in argv are not looked at.
LookUpTyped ==
  /\ stage = "names"
  /\ LET found == get_host_ip(name)
     IN  IF found # Null THEN sought' = found /\ stage' = "request"
                         ELSE sought' = Null /\ stage' = "refused"
  /\ UNCHANGED <<line, name, own, ip>>

LookUpNames ==
  /\ stage = "names"
  /\ LET ips == <<get_host_ip(own.client), get_host_ip(own.server), get_host_ip(name)>>
         usable == \A i, j \in 1..3 : ips[i] # Null /\ (i # j => ips[i] # ips[j])
     IN  IF usable THEN sought' = ips[3] /\ stage' = "request"
                   ELSE sought' = Null /\ stage' = "refused"
  /\ UNCHANGED <<line, name, own, ip>>

\* set_ip() parses the table's text into the packet, which may be cut on its way.
SendAddress ==
  /\ stage = "request"
  /\ \/ sought' = parse_ip_addr(parse_ip_addr_to_str(sought)) /\ stage' = "packet"
     \/ sought' \in Cuts /\ stage' = "cut_packet"
  /\ UNCHANGED <<line, name, own, ip>>

\* The server formats an address to dial it, the destination and the server to
\* put it into an answer.
FormatAddress ==
  /\ stage \in {"packet", "cut_packet"}
  /\ ip' = parse_ip_addr_to_str(sought)
  /\ stage' = IF stage = "packet" THEN "dialled" ELSE "formatted"
  /\ UNCHANGED <<line, name, own, sought>>

Next ==
  \/ ReadName \/ LookUpNames \/ SendAddress \/ FormatAddress
  \/ stage \in {"refused", "dialled", "formatted"} /\ UNCHANGED vars

Spec == Init /\ [][Next]_vars

-----------------------------------------------------------------------------
\* The name is the line as C reads it: all of it but its newline and, if a byte
\* 0 was typed, but what follows that.
Typed == line # <<>> /\ Stripped(line) = name

(***************************************************************************)
(* A server dials only the host whose name is the line typed at the        *)
(* client, as far as it is a string: no longer line is cut to a host's     *)
(* name on its way through fgets(), and parsing and formatting the address *)
(* on the way keep it.                                                     *)
(***************************************************************************)
DialsTypedHost ==
  stage = "dialled" /\ line # <<>> => Typed /\ parse_ip_addr(ip) = get_host_ip(name)

(***************************************************************************)
(* Any address, also one of a packet that was cut or read in the wrong     *)
(* form, survives the way through text by which the server and the         *)
(* destination put it into the next packet, and its text has room with the *)
(* terminator in the 16 bytes they allocate.                               *)
(***************************************************************************)
AddressesSurviveText ==
  stage \in {"dialled", "formatted"} =>
    parse_ip_addr(ip) = sought /\ Len(ip) < StringSize

-----------------------------------------------------------------------------
(***************************************************************************)
(* The inductive invariant: what is sought is the address of the name that *)
(* fgets() stored, from the table to the text, unless the packet was cut.  *)
(***************************************************************************)
NamesInv ==
  /\ stage \in {"prompt", "names", "refused", "request", "packet", "cut_packet",
                "dialled", "formatted"}
  /\ line \in Lines /\ own \in Arguments
  /\ stage # "prompt" =>
       IF line = <<>> THEN name \in Leftovers
       ELSE name = Stripped(fgets(MAX_NAME_LENGTH, line))
  /\ stage \in {"request", "packet", "dialled"} =>
       {own.client, own.server, name} \subseteq DOMAIN hosts /\ sought = hosts[name]
  /\ stage \in {"cut_packet", "formatted"} => sought \in [1..4 -> 0..255]
  /\ stage \in {"dialled", "formatted"} => ip = parse_ip_addr_to_str(sought)
=============================================================================
