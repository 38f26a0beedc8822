------------------------------ MODULE Tunnels ------------------------------
(***************************************************************************)
(* One connect message of a proxyjs server and the tunnels that the agent  *)
(* then asks for: client_connect, _client_connect, cmd_tun, cmd_tun_close  *)
(* and track_open_socket of multiplatform-earnapp/sdk/client.js.           *)
(*                                                                         *)
(* The client dials the agent of the message and, if that fails, its       *)
(* alternatives (host_a1, host_a2, ...) one after the other.  A tunnel     *)
(* joins a stream of that connection to a socket of its own.  Everything   *)
(* between two awaits is one step: the awaits are the lookup of the target *)
(* and the connection to it.                                               *)
(*                                                                         *)
(* Abstractions.  The websocket, its mux and its streams are library code: *)
(* a stream is open, closed by mux.close, or broken by the loss of the     *)
(* connection.  Bytes, milestones and reports are left out, and so is the  *)
(* choice of a local address.  A socket's error is one step with the close *)
(* that follows it.                                                        *)
(***************************************************************************)
EXTENDS Integers, FiniteSets

CONSTANTS
  Tuns,        \* requests of the agent, each with an id of its own
  Addresses,   \* what a target may be or resolve to
  Blocked,     \* those that blocked_ip or the IPv6 rules forbid
  MaxGiven,    \* the most alternatives a message carries
  RetryLimit,  \* get_client_connect_fallback ends here: 10
  None

ASSUME TunnelsAssumption ==
  /\ Blocked \subseteq Addresses /\ None \notin Addresses
  /\ MaxGiven \in Nat /\ RetryLimit \in Nat \ {0}

VARIABLES
  proc,   \* the worker: "up", "failing" (shutdown(1) was called) or "down"
  given,  \* how many alternatives the message carries
  link,   \* the agent connections, the first and its alternatives
  tun     \* the tunnels

vars == <<proc, given, link, tun>>

Attempts == 0..(RetryLimit - 1)
Links == {"unused", "dialling", "connected", "closed"}
Tunnel == [
  at : {"idle", "dns", "connecting", "open", "refused", "failed", "broken"},
  udp : BOOLEAN, vfd : BOOLEAN, to : Addresses \cup {None},
  stream : {"none", "open", "closed", "broken"},
  sock : {"none", "connecting", "open", "destroyed", "closed"},
  listed : BOOLEAN, destroys : 0..1]
NoTunnel == [at |-> "idle", udp |-> FALSE, vfd |-> FALSE, to |-> None,
             stream |-> "none", sock |-> "none", listed |-> FALSE, destroys |-> 0]

Init ==
  /\ proc = "up" /\ given = 0
  /\ link = [k \in Attempts |-> "unused"]
  /\ tun = [t \in Tuns |-> NoTunnel]

(***************************************************************************)
(* The agent connection.                                                   *)
(***************************************************************************)
Connect ==
  /\ proc # "down" /\ link[0] = "unused"
  /\ given' \in 0..MaxGiven
  /\ link' = [link EXCEPT ![0] = "dialling"]
  /\ UNCHANGED <<proc, tun>>

\* The chain ends with the message's alternatives or at the limit.
Fallback(k) == k <= given /\ k < RetryLimit

AgentAnswers(k) ==
  /\ proc # "down" /\ link[k] = "dialling"
  /\ link' = [link EXCEPT ![k] = "connected"]
  /\ UNCHANGED <<proc, given, tun>>

Redial(k) ==
  [j \in Attempts |-> CASE j = k -> "closed"
                       [] j = k + 1 /\ Fallback(j) -> "dialling"
                       [] OTHER -> link[j]]

\* retry_fn() is not awaited: nobody takes the rejection of an alternative,
\* and the worker answers unhandledRejection with shutdown(1).
AgentFails(k) ==
  /\ proc # "down" /\ link[k] = "dialling"
  /\ link' = Redial(k)
  /\ proc' = IF k > 0 THEN "failing" ELSE proc
  /\ UNCHANGED <<given, tun>>

\* Mutant: the loss is reported, and then again when the socket closes.
StreamBrokenReports(r) ==
  [r EXCEPT !.stream = "broken", !.sock = IF @ = "open" THEN "destroyed" ELSE @,
            !.destroys = IF r.at = "open" THEN @ + 1 ELSE @]

\* Mutant: the next alternative is dialled although this one had connected.
LostRetries(k) == Redial(k)

\* Only a tunnel that is open has the listener that destroys its socket.
StreamBroken(r) ==
  IF r.stream = "open"
  THEN [r EXCEPT !.stream = "broken",
                 !.sock = IF r.at = "open" /\ @ = "open" THEN "destroyed" ELSE @]
  ELSE r

Lost(k) == [link EXCEPT ![k] = "closed"]

AgentLost(k) ==
  /\ proc # "down" /\ link[k] = "connected"
  /\ link' = Lost(k)
  /\ tun' = [t \in Tuns |-> StreamBroken(tun[t])]
  /\ UNCHANGED <<proc, given>>

AgentUp == \E k \in Attempts : link[k] = "connected"

(***************************************************************************)
(* A tunnel.  With msg.vfd the stream is opened before the lookup.         *)
(***************************************************************************)
Become(t, r) == tun' = [tun EXCEPT ![t] = r] /\ UNCHANGED <<proc, given, link>>
Runs(t, where) == proc # "down" /\ tun[t].at = where

\* mux.close of a stream that is already gone does nothing.
MuxClose(r) == [r EXCEPT !.stream = IF @ = "open" THEN "closed" ELSE @]

\* Mutant: only what the message names is tested, not what it resolves to.
LookedUntested(r, a) ==
  [r EXCEPT !.at = "connecting", !.sock = "connecting", !.to = a]

\* The address that was resolved is the one that is tested and dialled.  A
\* refusal leaves the stream as it is.  Without msg.vfd there is no stream to
\* pipe: the TypeError leaves a socket that has no listener for errors.
Dial(r, a) ==
  IF a \in Blocked
  THEN [r EXCEPT !.at = "refused"]
  ELSE [r EXCEPT !.at = IF r.vfd THEN "connecting" ELSE "broken",
                 !.sock = "connecting", !.to = a]

Looked(r, a) == Dial(r, a)

BlockedPort(t) ==
  /\ Runs(t, "idle") /\ AgentUp
  /\ Become(t, [NoTunnel EXCEPT !.at = "refused"])

Requested(udp, vfd) ==
  [NoTunnel EXCEPT !.udp = udp, !.vfd = vfd, !.stream = IF vfd THEN "open" ELSE "none"]

TunToAddress(t) ==
  /\ Runs(t, "idle") /\ AgentUp
  /\ \E udp, vfd \in BOOLEAN, a \in Addresses : Become(t, Dial(Requested(udp, vfd), a))

TunToName(t) ==
  /\ Runs(t, "idle") /\ AgentUp
  /\ \E udp, vfd \in BOOLEAN :
       Become(t, [Requested(udp, vfd) EXCEPT !.at = "dns"])

DnsAnswers(t) ==
  Runs(t, "dns") /\ \E a \in Addresses : Become(t, Looked(tun[t], a))

\* An error, or an answer without addresses.
DnsFails(t) ==
  Runs(t, "dns") /\ Become(t, [MuxClose(tun[t]) EXCEPT !.at = "failed"])

\* track_open_socket and the listeners of cmd_tun's end.
Opened(r) == [r EXCEPT !.at = "open", !.sock = "open", !.listed = TRUE]

\* What is done when the socket of an open tunnel closes: untrack_socket,
\* stream.emit('_close') and tun_destroy.
Closed(r) ==
  [MuxClose(r) EXCEPT !.sock = "closed", !.listed = FALSE, !.destroys = @ + 1]

\* Mutant: the close listener is registered before the connection is awaited.
ConnectFailedReports(r) == [Closed(r) EXCEPT !.at = "failed"]

\* A connection that failed is answered with an error and nothing else.
ConnectFailed(r) == [MuxClose(r) EXCEPT !.at = "failed", !.sock = "closed"]

SockConnects(t) ==
  /\ tun[t].sock = "connecting"
  /\ \/ Runs(t, "connecting") /\ Become(t, Opened(tun[t]))
     \/ Runs(t, "broken") /\ Become(t, [tun[t] EXCEPT !.sock = "open"])

\* The error of a socket without a listener is an uncaughtException.
SockFails(t) ==
  /\ tun[t].sock = "connecting"
  /\ \/ Runs(t, "connecting") /\ Become(t, ConnectFailed(tun[t]))
     \/ /\ Runs(t, "broken") /\ proc' = "failing"
        /\ tun' = [tun EXCEPT ![t].sock = "closed"]
        /\ UNCHANGED <<given, link>>

\* The other end closes, or the socket fails.
RemoteCloses(t) ==
  /\ tun[t].sock = "open"
  /\ \/ Runs(t, "open") /\ Become(t, Closed(tun[t]))
     \/ Runs(t, "broken") /\ Become(t, [tun[t] EXCEPT !.sock = "closed"])

\* Mutant: no socket is given a timeout.
TimedOutNever(t) == FALSE

\* One minute without a byte; UDP sockets have no such limit.
TimedOut(t) == tun[t].listed /\ ~tun[t].udp

IdleTimeout(t) ==
  /\ Runs(t, "open") /\ tun[t].sock = "open" /\ TimedOut(t)
  /\ Become(t, [tun[t] EXCEPT !.sock = "destroyed"])

SocketCloses(t) ==
  Runs(t, "open") /\ tun[t].sock = "destroyed" /\ Become(t, Closed(tun[t]))

\* The agent knows a vfd from its request; a socket that is still to connect
\* goes on without its stream.
TunClose(t) ==
  /\ proc # "down" /\ AgentUp /\ tun[t].vfd /\ tun[t].stream = "open"
  /\ Become(t, MuxClose(tun[t]))

\* The 250 ms of shutdown are over.
Exit ==
  /\ proc = "failing" /\ proc' = "down"
  /\ link' = [k \in Attempts |-> IF link[k] = "unused" THEN "unused" ELSE "closed"]
  /\ tun' = [t \in Tuns |->
       [tun[t] EXCEPT !.sock = IF @ = "none" THEN @ ELSE "closed",
                      !.stream = IF @ = "open" THEN "broken" ELSE @,
                      !.listed = FALSE]]
  /\ UNCHANGED given

(***************************************************************************)
(* The specification.  Lookups and connections end, the one or the other   *)
(* way, by the timeouts of the resolver and of TCP; a socket is idle in    *)
(* the end, since nobody reads what its peer sends once the agent is gone. *)
(***************************************************************************)
Agent == Connect \/ \E k \in Attempts : AgentAnswers(k) \/ AgentFails(k) \/ AgentLost(k)
Request(t) == BlockedPort(t) \/ TunToAddress(t) \/ TunToName(t) \/ TunClose(t)
Lookup(t) == DnsAnswers(t) \/ DnsFails(t)
Dialled(t) == SockConnects(t) \/ SockFails(t)
Ends(t) == RemoteCloses(t) \/ IdleTimeout(t) \/ SocketCloses(t)

Next == Agent \/ Exit \/ \E t \in Tuns : Request(t) \/ Lookup(t) \/ Dialled(t) \/ Ends(t)

Spec == Init /\ [][Next]_vars

FairSpec ==
  /\ Spec
  /\ WF_vars(Exit)
  /\ \A k \in Attempts : WF_vars(AgentAnswers(k) \/ AgentFails(k))
  /\ \A t \in Tuns :
       WF_vars(Lookup(t)) /\ WF_vars(Dialled(t)) /\ WF_vars(IdleTimeout(t)) /\ WF_vars(SocketCloses(t))

(***************************************************************************)
(* Properties.                                                             *)
(***************************************************************************)

\* The tunnels are well formed.
TypeOK ==
  /\ proc \in {"up", "failing", "down"} /\ given \in 0..MaxGiven
  /\ link \in [Attempts -> Links] /\ tun \in [Tuns -> Tunnel]

\* No tunnel is connected to a forbidden address, whatever its name resolves
\* to: blocked_ip is tested after the lookup.
OnlyAllowedDialled == \A t \in Tuns : tun[t].sock # "none" => tun[t].to \notin Blocked

\* The table behind num_streams holds the sockets that are open for the agent
\* and no others, and the agent is told that a tunnel was destroyed once if
\* the tunnel had been opened and its socket has closed, else never: one that
\* failed has been answered with an error.
TunnelsAccounted ==
  \A t \in Tuns : LET r == tun[t] IN
    /\ r.listed <=> r.at = "open" /\ r.sock \in {"open", "destroyed"}
    /\ r.destroys > 0 => r.at = "open" /\ r.sock = "closed"
    /\ proc # "down" /\ r.at = "open" /\ r.sock = "closed" => r.destroys = 1

\* The alternatives of a message are dialled in order, each once, each
\* because the one before could not be reached; one agent at most is
\* connected, and after it no other is dialled.
AlternativesInOrder ==
  [][\A k \in Attempts : link'[k] = "dialling" /\ link[k] # "dialling" =>
       /\ link[k] = "unused"
       /\ \A j \in Attempts : j # k /\ link'[j] # "unused" => j < k /\ link'[j] = "closed"
       /\ k > 0 => link[k - 1] = "dialling"]_vars

AgentGone == link[0] = "closed" /\ \A k \in Attempts : link[k] \in {"unused", "closed"}
SocketMayLive(t) == tun[t].vfd /\ tun[t].at \in {"dns", "connecting", "open"} /\ tun[t].sock # "closed"

\* When the agent is gone for good its TCP tunnels end, also those that were
\* still being looked up or connected and that nobody else will ever close.
TcpTunnelsEnd ==
  \A t \in Tuns :
    (AgentGone /\ SocketMayLive(t) /\ ~tun[t].udp) ~> (proc = "down" \/ ~SocketMayLive(t))
=============================================================================
