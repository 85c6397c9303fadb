----------------------------- MODULE VpnService -----------------------------
(***************************************************************************)
(* What the three programs together promise to the users of clients, with  *)
(* the VPN servers, the connections and the packets left out.  A client    *)
(* asks for a host and shows at most one answer, by a destination process  *)
(* on that host, while it runs; a destination process gives at most one    *)
(* answer; and a client that has asked ends.                               *)
(***************************************************************************)
CONSTANTS
  Client, Destination,
  HostOf,   \* the host of each process
  Name,     \* the names a user may type
  NoName,   \* what a client has asked for before a name is typed
  Nobody    \* no destination

VARIABLES
  phase,   \* "idle", "asking" or "over", by client
  wanted,  \* the name typed
  shown    \* the destination whose answer the client shows

serviceVars == <<phase, wanted, shown>>

Init ==
  /\ phase = [c \in Client |-> "idle"]
  /\ wanted = [c \in Client |-> NoName]
  /\ shown = [c \in Client |-> Nobody]

\* A client that cannot use the name ends at once.
Ask(c) ==
  /\ phase[c] = "idle"
  /\ \E name \in Name, next \in {"asking", "over"} :
       /\ wanted' = [wanted EXCEPT ![c] = name]
       /\ phase' = [phase EXCEPT ![c] = next]
  /\ UNCHANGED shown

Show(c) ==
  /\ phase[c] = "asking"
  /\ shown[c] = Nobody
  /\ \E d \in Destination :
       /\ HostOf[d] = wanted[c]
       /\ \A b \in Client : shown[b] # d
       /\ shown' = [shown EXCEPT ![c] = d]
  /\ UNCHANGED <<phase, wanted>>

End(c) ==
  /\ phase[c] # "over"
  /\ phase' = [phase EXCEPT ![c] = "over"]
  /\ UNCHANGED <<wanted, shown>>

Next == \E c \in Client : Ask(c) \/ Show(c) \/ End(c)

Spec == Init /\ [][Next]_serviceVars

\* A user may leave the prompt open for ever; a request ends.
RequestsEnd ==
  \A c \in Client : WF_serviceVars(phase[c] = "asking" /\ End(c))
=============================================================================
