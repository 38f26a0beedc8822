--------------------------- MODULE TunnelsProofs ---------------------------
(***************************************************************************)
(* Tunnels for any number of requests, addresses and alternatives: the     *)
(* types, the accounting of the tunnels, and the order of the agents.      *)
(*                                                                         *)
(* TunnelsAccounted is inductive together with the types: that a tunnel is *)
(* reported once rests on its being open when its socket closes.  The      *)
(* order of the alternatives is not: that the next one is still unused     *)
(* rests on Chain, which says that all before it were given up.            *)
(***************************************************************************)
EXTENDS Tunnels, TLAPS

Accounted(r) ==
  /\ r.listed <=> r.at = "open" /\ r.sock \in {"open", "destroyed"}
  /\ r.destroys > 0 => r.at = "open" /\ r.sock = "closed"

Allowed(r) == r.sock # "none" => r.to \notin Blocked

Good(r) == r \in Tunnel /\ Accounted(r) /\ Allowed(r)

\* While the worker runs, a tunnel whose socket has closed was reported.
Reported(r) == r.at = "open" /\ r.sock = "closed" => r.destroys = 1

Chain == \A i, j \in Attempts : i < j /\ link[j] # "unused" => link[i] = "closed"

IInv ==
  /\ proc \in {"up", "failing", "down"} /\ given \in 0..MaxGiven
  /\ link \in [Attempts -> Links] /\ Chain
  /\ DOMAIN tun = Tuns /\ tun = [t \in Tuns |-> tun[t]]
  /\ \A t \in Tuns : Good(tun[t]) /\ (proc # "down" => Reported(tun[t]))

-----------------------------------------------------------------------------
\* What the steps make of one tunnel.

LEMMA BrokenIsGood ==
  ASSUME NEW r, Good(r), Reported(r)
  PROVE  Good(StreamBroken(r)) /\ Reported(StreamBroken(r))
<1>1. CASE r.stream # "open"
  BY <1>1 DEF StreamBroken
<1>2. CASE r.stream = "open"
  BY <1>2 DEF StreamBroken, Good, Reported, Accounted, Allowed, Tunnel
<1>3. QED
  BY <1>1, <1>2

LEMMA MuxClosed ==
  ASSUME NEW r, r \in Tunnel
  PROVE  /\ MuxClose(r) \in Tunnel
         /\ \A f \in {"at", "udp", "vfd", "to", "sock", "listed", "destroys"} : MuxClose(r)[f] = r[f]
BY DEF MuxClose, Tunnel

\* A tunnel before its socket is dialled.
LEMMA UndialledIsGood ==
  ASSUME NEW r, r \in Tunnel, r.listed = FALSE, r.sock = "none", r.destroys = 0
  PROVE  Good(r) /\ Reported(r)
BY DEF Good, Reported, Accounted, Allowed

LEMMA NoTunnelIsTunnel == NoTunnel \in Tunnel
BY DEF NoTunnel, Tunnel

LEMMA RequestedIsTunnel ==
  ASSUME NEW udp \in BOOLEAN, NEW vfd \in BOOLEAN
  PROVE  Good(Requested(udp, vfd)) /\ Requested(udp, vfd).at = "idle"
<1>1. Requested(udp, vfd) \in Tunnel
  BY NoTunnelIsTunnel DEF Requested, Tunnel
<1>2. /\ Requested(udp, vfd).listed = FALSE /\ Requested(udp, vfd).sock = "none"
      /\ Requested(udp, vfd).destroys = 0 /\ Requested(udp, vfd).at = "idle"
  BY DEF Requested, NoTunnel
<1>3. QED
  BY <1>1, <1>2, UndialledIsGood

LEMMA DialIsGood ==
  ASSUME NEW r, Good(r), r.at \in {"idle", "dns"}, NEW a \in Addresses
  PROVE  Good(Dial(r, a)) /\ Reported(Dial(r, a))
<1>1. CASE a \in Blocked
  BY <1>1 DEF Dial, Good, Reported, Accounted, Allowed, Tunnel
<1>2. CASE a \notin Blocked /\ r.vfd
  BY <1>2 DEF Dial, Good, Reported, Accounted, Allowed, Tunnel
<1>3. CASE a \notin Blocked /\ ~r.vfd
  BY <1>3 DEF Dial, Good, Reported, Accounted, Allowed, Tunnel
<1>4. QED
  BY <1>1, <1>2, <1>3

LEMMA ClosedIsGood ==
  ASSUME NEW r, Good(r), r.at = "open", r.sock \in {"open", "destroyed"}
  PROVE  Good(Closed(r)) /\ Reported(Closed(r))
<1>1. r.destroys = 0
  BY DEF Good, Accounted, Tunnel
<1> DEFINE m == MuxClose(r)
<1>2. m \in Tunnel /\ m.at = "open" /\ m.destroys = 0 /\ m.to \notin Blocked
  BY <1>1, MuxClosed DEF Good, Allowed
<1> DEFINE s == [m EXCEPT !.sock = "closed", !.listed = FALSE, !.destroys = 1]
<1>3. s \in Tunnel
  <2>1. 1 \in 0..1 /\ FALSE \in BOOLEAN
    OBVIOUS
  <2>2. QED
    BY <1>2, <2>1, Zenon DEF Tunnel
<1>4. s.at = "open" /\ s.sock = "closed" /\ s.listed = FALSE /\ s.destroys = 1 /\ s.to \notin Blocked
  BY <1>2 DEF Tunnel
<1>5. Good(s) /\ Reported(s)
  <2> HIDE DEF s
  <2> QED  BY <1>3, <1>4 DEF Good, Reported, Accounted, Allowed
<1>6. QED
  <2>1. Closed(r) = s
    BY <1>2 DEF Closed
  <2>2. QED
    BY <1>5, <2>1

-----------------------------------------------------------------------------
LEMMA InitIInv == Init => IInv
BY TunnelsAssumption DEF Init, IInv, Chain, Attempts, Links, NoTunnel, Tunnel, Good, Accounted,
     Allowed, Reported

\* A step that replaces one tunnel by a good one.
LEMMA BecomeIInv ==
  ASSUME IInv, NEW t \in Tuns, NEW r, Become(t, r), Good(r), Reported(r)
  PROVE  IInv'
<1>1. tun' = [u \in Tuns |-> IF u = t THEN r ELSE tun[u]]
  BY DEF Become, IInv
<1>2. \A u \in Tuns : Good(tun'[u]) /\ (proc' # "down" => Reported(tun'[u]))
  BY <1>1 DEF Become, IInv
<1>3. DOMAIN tun' = Tuns /\ tun' = [u \in Tuns |-> tun'[u]]
  BY <1>1
<1>4. QED
  BY <1>2, <1>3 DEF Become, IInv, Chain, Good, Reported, Accounted, Allowed

\* The agent connections.
LEMMA AgentIInv == IInv /\ Agent => IInv'
<1> SUFFICES ASSUME IInv, Agent PROVE IInv'
  OBVIOUS
<1> USE TunnelsAssumption
<1>1. CASE Connect
  <2>1. Chain'
    BY <1>1 DEF Connect, IInv, Chain, Attempts
  <2>2. QED
    BY <1>1, <2>1 DEF Connect, IInv, Links, Good, Reported, Accounted, Allowed
<1>2. ASSUME NEW k \in Attempts, AgentAnswers(k) PROVE IInv'
  <2>1. Chain'
    BY <1>2 DEF AgentAnswers, IInv, Chain, Attempts
  <2>2. QED
    BY <1>2, <2>1 DEF AgentAnswers, IInv, Links, Good, Reported, Accounted, Allowed
<1>3. ASSUME NEW k \in Attempts, AgentFails(k) PROVE IInv'
  <2>1. link' \in [Attempts -> Links]
    BY <1>3 DEF AgentFails, Redial, IInv, Links
  <2>2. Chain'
    <3>1. \A j \in Attempts : (j < k => link[j] = "closed") /\ (j > k => link[j] = "unused")
      BY <1>3 DEF AgentFails, IInv, Chain, Attempts
    <3>2. \A j \in Attempts : (j <= k => link'[j] = "closed") /\ (j > k + 1 => link'[j] = "unused")
      BY <1>3, <3>1 DEF AgentFails, Redial, Attempts
    <3>3. QED
      BY <3>2 DEF Chain, Attempts
  <2>3. proc' \in {"up", "failing"} /\ proc # "down"
    BY <1>3 DEF AgentFails, IInv
  <2>4. QED
    BY <1>3, <2>1, <2>2, <2>3 DEF AgentFails, IInv, Good, Reported, Accounted, Allowed
<1>4. ASSUME NEW k \in Attempts, AgentLost(k) PROVE IInv'
  <2>1. link' \in [Attempts -> Links] /\ Chain'
    BY <1>4 DEF AgentLost, Lost, IInv, Chain, Links, Attempts
  <2>2. \A t \in Tuns : Good(tun'[t]) /\ Reported(tun'[t])
    BY <1>4, BrokenIsGood DEF AgentLost, IInv
  <2>3. DOMAIN tun' = Tuns /\ tun' = [t \in Tuns |-> tun'[t]]
    BY <1>4 DEF AgentLost
  <2>4. QED
    BY <1>4, <2>1, <2>2, <2>3 DEF AgentLost, IInv, Good, Reported, Accounted, Allowed
<1>5. QED
  BY <1>1, <1>2, <1>3, <1>4 DEF Agent

LEMMA ExitIInv == IInv /\ Exit => IInv'
<1> SUFFICES ASSUME IInv, Exit PROVE IInv'
  OBVIOUS
<1>1. link' \in [Attempts -> Links] /\ Chain'
  BY DEF Exit, IInv, Chain, Links
<1>2. ASSUME NEW t \in Tuns PROVE Good(tun'[t])
  <2> DEFINE s == [tun[t] EXCEPT !.sock = IF @ = "none" THEN @ ELSE "closed",
                                 !.stream = IF @ = "open" THEN "broken" ELSE @,
                                 !.listed = FALSE]
  <2>1. Good(tun[t])
    BY DEF IInv
  <2>2. s \in Tunnel
    BY ZenonT(30), <2>1 DEF Good, Tunnel
  <2>3. /\ s.at = tun[t].at /\ s.to = tun[t].to /\ s.listed = FALSE /\ s.destroys = tun[t].destroys
        /\ s.sock = IF tun[t].sock = "none" THEN "none" ELSE "closed"
    BY <2>1 DEF Good, Tunnel
  <2>4. Good(s)
    <3> HIDE DEF s
    <3> QED  BY <2>1, <2>2, <2>3 DEF Good, Accounted, Allowed, Tunnel
  <2>5. QED
    BY <2>4 DEF Exit
<1>3. DOMAIN tun' = Tuns /\ tun' = [t \in Tuns |-> tun'[t]]
  BY DEF Exit
<1>4. QED
  BY ZenonT(30), <1>1, <1>2, <1>3 DEF Exit, IInv, Good, Accounted, Allowed

-----------------------------------------------------------------------------
\* The steps of one tunnel.

LEMMA RequestIInv ==
  ASSUME IInv, NEW t \in Tuns, Request(t)
  PROVE  IInv'
<1>1. CASE BlockedPort(t)
  <2> DEFINE r == [NoTunnel EXCEPT !.at = "refused"]
  <2>1. r \in Tunnel
    BY NoTunnelIsTunnel DEF Tunnel
  <2>2. r.listed = FALSE /\ r.sock = "none" /\ r.destroys = 0
    BY DEF NoTunnel
  <2>3. Good(r) /\ Reported(r)
    BY <2>1, <2>2, UndialledIsGood
  <2>4. QED
    BY <1>1, <2>3, BecomeIInv DEF BlockedPort
<1>2. CASE TunToAddress(t)
  <2>1. PICK udp \in BOOLEAN, vfd \in BOOLEAN, a \in Addresses : Become(t, Dial(Requested(udp, vfd), a))
    BY <1>2 DEF TunToAddress
  <2>2. QED
    BY <2>1, RequestedIsTunnel, DialIsGood, BecomeIInv
<1>3. CASE TunToName(t)
  <2>1. PICK udp \in BOOLEAN, vfd \in BOOLEAN :
          Become(t, [Requested(udp, vfd) EXCEPT !.at = "dns"])
    BY <1>3 DEF TunToName
  <2> DEFINE r == [Requested(udp, vfd) EXCEPT !.at = "dns"]
  <2>2. r \in Tunnel
    BY RequestedIsTunnel DEF Good, Tunnel
  <2>3. r.listed = FALSE /\ r.sock = "none" /\ r.destroys = 0
    BY DEF Requested, NoTunnel
  <2>4. Good(r) /\ Reported(r)
    BY <2>2, <2>3, UndialledIsGood
  <2>5. QED
    BY <2>1, <2>4, BecomeIInv
<1>4. CASE TunClose(t)
  <2>1. Good(MuxClose(tun[t])) /\ Reported(MuxClose(tun[t]))
    BY <1>4, MuxClosed DEF TunClose, IInv, Good, Reported, Accounted, Allowed
  <2>2. QED
    BY <1>4, <2>1, BecomeIInv DEF TunClose
<1>5. QED
  BY <1>1, <1>2, <1>3, <1>4 DEF Request

LEMMA LookupIInv ==
  ASSUME IInv, NEW t \in Tuns, Lookup(t)
  PROVE  IInv'
<1>1. CASE DnsAnswers(t)
  <2>1. PICK a \in Addresses : Become(t, Dial(tun[t], a))
    BY <1>1 DEF DnsAnswers, Looked
  <2>2. Good(tun[t]) /\ tun[t].at = "dns"
    BY <1>1 DEF DnsAnswers, Runs, IInv
  <2>3. QED
    BY <2>1, <2>2, DialIsGood, BecomeIInv
<1>2. CASE DnsFails(t)
  <2> DEFINE r == [MuxClose(tun[t]) EXCEPT !.at = "failed"]
  <2>1. Good(tun[t]) /\ tun[t].at = "dns"
    BY <1>2 DEF DnsFails, Runs, IInv
  <2>2. Good(r) /\ Reported(r)
    BY <2>1, MuxClosed DEF Good, Reported, Accounted, Allowed, Tunnel
  <2>3. QED
    BY <1>2, <2>2, BecomeIInv DEF DnsFails
<1>3. QED
  BY <1>1, <1>2 DEF Lookup

LEMMA DialledIInv ==
  ASSUME IInv, NEW t \in Tuns, Dialled(t)
  PROVE  IInv'
<1>0. Good(tun[t]) /\ tun[t].sock = "connecting"
  BY DEF Dialled, SockConnects, SockFails, IInv
<1>1. CASE Runs(t, "connecting") /\ Become(t, Opened(tun[t]))
  <2>1. Good(Opened(tun[t])) /\ Reported(Opened(tun[t]))
    BY <1>0, <1>1 DEF Runs, Opened, Good, Reported, Accounted, Allowed, Tunnel
  <2>2. QED
    BY <1>1, <2>1, BecomeIInv
<1>2. CASE Runs(t, "broken") /\ Become(t, [tun[t] EXCEPT !.sock = "open"])
  <2>1. Good([tun[t] EXCEPT !.sock = "open"]) /\ Reported([tun[t] EXCEPT !.sock = "open"])
    BY <1>0, <1>2 DEF Runs, Good, Reported, Accounted, Allowed, Tunnel
  <2>2. QED
    BY <1>2, <2>1, BecomeIInv
<1>3. CASE Runs(t, "connecting") /\ Become(t, ConnectFailed(tun[t]))
  <2>1. Good(ConnectFailed(tun[t])) /\ Reported(ConnectFailed(tun[t]))
    BY ZenonT(30), <1>0, <1>3, MuxClosed DEF Runs, ConnectFailed, Good, Reported, Accounted, Allowed, Tunnel
  <2>2. QED
    BY <1>3, <2>1, BecomeIInv
<1>4. CASE /\ Runs(t, "broken") /\ proc' = "failing"
           /\ tun' = [tun EXCEPT ![t].sock = "closed"] /\ UNCHANGED <<given, link>>
  <2> DEFINE r == [tun[t] EXCEPT !.sock = "closed"]
  <2>1. Good(r) /\ Reported(r)
    BY <1>0, <1>4 DEF Runs, Good, Reported, Accounted, Allowed, Tunnel
  <2>2. tun' = [u \in Tuns |-> IF u = t THEN r ELSE tun[u]]
    BY <1>4 DEF IInv
  <2>3. \A u \in Tuns : Good(tun'[u]) /\ Reported(tun'[u])
    BY <1>4, <2>1, <2>2 DEF Runs, IInv
  <2>4. DOMAIN tun' = Tuns /\ tun' = [u \in Tuns |-> tun'[u]]
    BY <2>2
  <2>5. QED
    BY <1>4, <2>3, <2>4 DEF IInv, Chain, Good, Reported, Accounted, Allowed
<1>5. QED
  BY <1>1, <1>2, <1>3, <1>4 DEF Dialled, SockConnects, SockFails

LEMMA EndsIInv ==
  ASSUME IInv, NEW t \in Tuns, Ends(t)
  PROVE  IInv'
<1>0. Good(tun[t])
  BY DEF IInv
<1>1. CASE Runs(t, "open") /\ tun[t].sock \in {"open", "destroyed"} /\ Become(t, Closed(tun[t]))
  BY <1>0, <1>1, ClosedIsGood, BecomeIInv DEF Runs
<1>2. CASE Runs(t, "broken") /\ Become(t, [tun[t] EXCEPT !.sock = "closed"]) /\ tun[t].sock = "open"
  <2>1. Good([tun[t] EXCEPT !.sock = "closed"]) /\ Reported([tun[t] EXCEPT !.sock = "closed"])
    BY <1>0, <1>2 DEF Runs, Good, Reported, Accounted, Allowed, Tunnel
  <2>2. QED
    BY <1>2, <2>1, BecomeIInv
<1>3. CASE IdleTimeout(t)
  <2>1. Good([tun[t] EXCEPT !.sock = "destroyed"]) /\ Reported([tun[t] EXCEPT !.sock = "destroyed"])
    BY <1>0, <1>3 DEF IdleTimeout, Runs, Good, Reported, Accounted, Allowed, Tunnel
  <2>2. QED
    BY <1>3, <2>1, BecomeIInv DEF IdleTimeout
<1>4. QED
  BY <1>1, <1>2, <1>3 DEF Ends, RemoteCloses, SocketCloses

LEMMA NextIInv == IInv /\ [Next]_vars => IInv'
<1> SUFFICES ASSUME IInv, [Next]_vars PROVE IInv'
  OBVIOUS
<1>1. CASE Agent \/ Exit
  BY <1>1, AgentIInv, ExitIInv
<1>2. ASSUME NEW t \in Tuns, Request(t) \/ Lookup(t) \/ Dialled(t) \/ Ends(t) PROVE IInv'
  BY <1>2, RequestIInv, LookupIInv, DialledIInv, EndsIInv
<1>3. CASE UNCHANGED vars
  BY <1>3 DEF vars, IInv, Chain, Good, Reported, Accounted, Allowed
<1>4. QED
  BY <1>1, <1>2, <1>3 DEF Next

-----------------------------------------------------------------------------
\* The strengthened invariant holds in every reachable state, for every set of
\* requests and addresses and every number of alternatives.
THEOREM Inductive == Spec => []IInv
BY InitIInv, NextIInv, PTL DEF Spec

\* The tunnels are well formed (cmd_tun, track_open_socket).
THEOREM TunnelTypes == Spec => []TypeOK
<1>1. IInv => TypeOK
  BY DEF IInv, TypeOK, Good
<1>2. QED
  BY <1>1, Inductive, PTL

\* No name leads a tunnel to a forbidden address: what was resolved is tested
\* before it is dialled (client.js:231-246).
THEOREM NoForbiddenTarget == Spec => []OnlyAllowedDialled
<1>1. IInv => OnlyAllowedDialled
  BY DEF IInv, OnlyAllowedDialled, Good, Allowed
<1>2. QED
  BY <1>1, Inductive, PTL

\* The table of sockets and the reports to the agent agree with the sockets,
\* however their ends interleave (client.js:153-170, 341-380).
THEOREM SocketsAccounted == Spec => []TunnelsAccounted
<1>1. IInv => TunnelsAccounted
  BY DEF IInv, TunnelsAccounted, Good, Accounted, Reported
<1>2. QED
  BY <1>1, Inductive, PTL

\* The alternatives are dialled in order, each once, and no other after one
\* that was connected (client.js:539-588).
THEOREM AgentsInOrder == Spec => AlternativesInOrder
<1> USE TunnelsAssumption
<1> DEFINE Orderly ==
      \A k \in Attempts : link'[k] = "dialling" /\ link[k] # "dialling" =>
        /\ link[k] = "unused"
        /\ \A j \in Attempts : j # k /\ link'[j] # "unused" => j < k /\ link'[j] = "closed"
        /\ k > 0 => link[k - 1] = "dialling"
<1>1. IInv /\ [Next]_vars => [Orderly]_vars
  <2> SUFFICES ASSUME IInv, Next PROVE Orderly
    OBVIOUS
  <2>1. CASE Connect
    BY <2>1 DEF Connect, IInv, Chain, Attempts
  <2>2. ASSUME NEW n \in Attempts, AgentFails(n) PROVE Orderly
    <3>1. \A j \in Attempts : (j < n => link[j] = "closed") /\ (j > n => link[j] = "unused")
      BY <2>2 DEF AgentFails, IInv, Chain, Attempts
    <3>2. QED
      BY <2>2, <3>1 DEF AgentFails, Redial, IInv, Attempts
  <2>3. CASE \E n \in Attempts : AgentAnswers(n) \/ AgentLost(n)
    BY <2>3 DEF AgentAnswers, AgentLost, Lost, IInv
  <2>4. CASE Exit
    BY <2>4 DEF Exit
  <2>5. CASE \E t \in Tuns : Request(t) \/ Lookup(t) \/ Dialled(t) \/ Ends(t)
    <3>1. UNCHANGED link
      BY <2>5 DEF Request, Lookup, Dialled, Ends, BlockedPort, TunToAddress, TunToName, TunClose,
           DnsAnswers, DnsFails, SockConnects, SockFails, RemoteCloses, IdleTimeout, SocketCloses, Become
    <3>2. QED
      BY <3>1
  <2>6. QED
    BY <2>1, <2>2, <2>3, <2>4, <2>5 DEF Next, Agent
<1>2. QED
  BY <1>1, Inductive, PTL DEF Spec, AlternativesInOrder
=============================================================================
