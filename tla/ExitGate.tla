------------------------------ MODULE ExitGate ------------------------------
(***************************************************************************)
(* What the router promises about the traffic of its clients, without      *)
(* chains, tables, tunnels or processes.                                   *)
(*                                                                         *)
(* A client's packets leave through a proxy that the routes file assigns   *)
(* to it, or they do not leave at all; the assignment itself is replaced   *)
(* only while nobody's packets leave.  The one exception is the unguarded  *)
(* instant at the start of a boot, before router-start.sh has closed the   *)
(* FORWARD chain, when a packet may cross to the uplink.                   *)
(***************************************************************************)
CONSTANTS Client, Proxy, Blocked, Uplink

VARIABLES
  guarded,   \* FALSE from a container start until the FORWARD policy is DROP
  assigned,  \* client -> the proxies its routes lines name
  exit       \* client -> where its TCP packets leave: a proxy, Uplink or Blocked

vars == <<guarded, assigned, exit>>

AllBlocked == [c \in Client |-> Blocked]

Init ==
  /\ guarded = TRUE
  /\ assigned \in [Client -> SUBSET Proxy]
  /\ exit = AllBlocked

\* A container start: the new network namespace forwards whatever it routes.
Unguard ==
  /\ guarded /\ exit = AllBlocked
  /\ guarded' = FALSE
  /\ exit' \in [Client -> {Blocked, Uplink}]
  /\ UNCHANGED assigned

\* The FORWARD policy becomes DROP, or the container dies.
Guard ==
  /\ ~guarded
  /\ guarded' = TRUE
  /\ exit' = AllBlocked
  /\ UNCHANGED assigned

\* Rules, tunnels and processes come and go: a client gains or loses its exit.
Flow ==
  /\ guarded
  /\ \A c \in Client : exit'[c] \in assigned[c] \cup {Blocked}
  /\ DOMAIN exit' = Client
  /\ UNCHANGED <<guarded, assigned>>

\* A boot opens the routes file: only while no client has an exit.
Reassign ==
  /\ guarded /\ exit = AllBlocked
  /\ assigned' \in [Client -> SUBSET Proxy]
  /\ UNCHANGED <<guarded, exit>>

Next == Unguard \/ Guard \/ Flow \/ Reassign

Spec == Init /\ [][Next]_vars
=============================================================================
