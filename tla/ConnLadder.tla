----------------------------- MODULE ConnLadder -----------------------------
(***************************************************************************)
(* conn_open_single of multiplatform-earnapp/sdk/client.js: how one network *)
(* device keeps a connection to a proxyjs server.                          *)
(*                                                                         *)
(* The loop climbs three rungs: the named hosts ("direct"), the            *)
(* alternative hosts at fixed addresses ("ip"), the agents ("agent").  A   *)
(* dial is one call of proxyjs_client_conn; it returns when the connection *)
(* could not be made or, if it was made, when it ends.                     *)
(*                                                                         *)
(* Abstractions.  fallback_ip and fallback_agent are one variable: the     *)
(* second is only ever set under the first.  Which of a host's addresses   *)
(* is picked is left out, and so are reports and log lines.  next_wait is  *)
(* counted in doublings.  Of what the cloud configuration may change, only *)
(* the list of agent addresses is kept, which is empty as shipped.  The    *)
(* name of an agent is made from its address; there is none to make it     *)
(* from when the list is empty, and the exception ends the loop (NoAgent). *)
(***************************************************************************)
EXTENDS Naturals

CONSTANTS
  Hosts, Ports,        \* how many lum_proxy_domains, lum_proxy_ports
  AltHosts, AltPorts,  \* how many lum_proxy_domains_a1, ports for them
  AltIps,              \* how many lum_proxy_ips_a1
  AgentSizes,          \* how many lum_zagent_ips_ssl: none as shipped, more from the cloud
  MaxDoublings,        \* proxy_retry_interval to proxy_retry_max
  None

ASSUME SizesAssumption ==
  /\ Hosts \in Nat \ {0} /\ Ports \in Nat \ {0}
  /\ AltHosts \in Nat \ {0} /\ AltPorts \in Nat \ {0}
  /\ AltIps \in Nat \ {0} /\ AgentSizes \subseteq Nat /\ MaxDoublings \in Nat
  /\ None \notin [rung : {"direct", "ip", "agent", "redirect"}, host : Nat, port : Nat]

Rungs == {"direct", "ip", "agent"}
At(r, i, j) == [rung |-> r, host |-> i, port |-> j]
DirectServers == {At("direct", i, j) : i \in 0..(Hosts - 1), j \in 0..(Ports - 1)}
AltServers == {At("ip", i, j) : i \in 0..(AltHosts - 1), j \in 0..(AltPorts - 1)}
Elsewhere == At("redirect", 0, 0)
Agent == At("agent", 0, 0)
Servers == DirectServers \cup AltServers \cup {Elsewhere, Agent}

VARIABLES
  pc,      \* "top", "resolve", "dial", "open", "pause", "sleep", "end" or "thrown"
  rung, host, port,  \* fallback_ip and fallback_agent; host_idx, port_idx
  tries,   \* ip_try_count
  wait,    \* next_wait, in doublings
  force,   \* force_ip, force_host, force_port, force_proxy; or None
  target,  \* what the last dial went to
  agents,  \* lum_zagent_ips_ssl.length
  dev,     \* the device is connected
  tried,   \* alternatives dialled since this climb of the rung (history)
  calm, up, named  \* nothing changes any more: servers that answer, hosts that resolve

place == <<rung, host, port, tries>>
world == <<agents, dev, calm, up, named>>
vars == <<pc, place, wait, force, target, tried, world>>

Goto(from, to) == pc = from /\ pc' = to

(***************************************************************************)
(* Choosing a target.                                                      *)
(***************************************************************************)
Offline ==
  /\ ~dev /\ Goto("top", "end")
  /\ UNCHANGED <<place, wait, force, target, tried, world>>

Indexed == IF rung = "agent" THEN Agent ELSE At(rung, host, port)

Dial(t) ==
  /\ pc' = "dial" /\ target' = t
  /\ tried' = IF rung = "ip" THEN tried \cup {t} ELSE tried
  /\ UNCHANGED <<place, wait, force, world>>

\* Mutant: the retry of a server that answered comes before the test of the device.
DialForcedUntested == pc = "top" /\ force # None /\ Dial(force)

\* A forced target has its address with it.
DialForced == pc = "top" /\ dev /\ force # None /\ Dial(force)
DialIndexed ==
  /\ pc = "top" /\ dev /\ force = None
  /\ rung = "ip" \/ (rung = "agent" /\ agents # 0)
  /\ Dial(Indexed)

\* gen_servername of no address throws, and nothing in the loop catches it: the Task that
\* runs the loop logs the error.
NoAgent ==
  /\ dev /\ force = None /\ rung = "agent" /\ agents = 0 /\ Goto("top", "thrown")
  /\ UNCHANGED <<place, wait, force, target, tried, world>>

Resolve ==
  /\ dev /\ force = None /\ rung = "direct" /\ Goto("top", "resolve")
  /\ UNCHANGED <<place, wait, force, target, tried, world>>

Resolved == pc = "resolve" /\ (calm => host \in named) /\ Dial(Indexed)

\* No answer, or an address that is not allowed.
Unresolved ==
  /\ (calm => host \notin named) /\ Goto("resolve", "top")
  /\ host' = host + 1
  /\ rung' = IF host + 1 >= Hosts THEN "ip" ELSE rung
  /\ tried' = IF host + 1 >= Hosts THEN {} ELSE tried
  /\ UNCHANGED <<port, tries, wait, force, target, world>>

(***************************************************************************)
(* The outcome of a dial.                                                  *)
(***************************************************************************)
Answers == calm => target \in up
Refuses == calm => target \notin up

Connected ==
  /\ Answers /\ Goto("dial", "open")
  /\ UNCHANGED <<place, wait, force, target, tried, world>>

\* A connection ended: by itself, or by a redirect or a decline of the server.
Lost ==
  /\ Goto("open", "sleep")
  /\ tries' = 0 /\ wait' = 0 /\ force' = target
  /\ UNCHANGED <<rung, host, port, target, tried, world>>

\* tunnel_redirect: the agent is still needed, the alternative addresses are not.
Redirected ==
  /\ Goto("open", "sleep")
  /\ tries' = 0 /\ wait' = 0 /\ force' = Elsewhere
  /\ rung' = IF rung = "agent" THEN rung ELSE "direct"
  /\ UNCHANGED <<host, port, target, tried, world>>

\* tunnel_init_decline: its cooldown is slept instead of next_wait.
Declined ==
  /\ Goto("open", "pause")
  /\ tries' = 0 /\ wait' = 0 /\ force' = target
  /\ UNCHANGED <<rung, host, port, target, tried, world>>

\* The pair after this one; the list is done when its host is beyond the end.
NextHost(ports) == IF port + 1 >= ports THEN host + 1 ELSE host
NextPort(ports) == IF port + 1 >= ports THEN 0 ELSE port + 1
Advance(ports) == host' = NextHost(ports) /\ port' = NextPort(ports)
Restart == host' = 0 /\ port' = 0

DirectFailed ==
  /\ rung = "direct"
  /\ IF NextHost(Ports) >= Hosts
     THEN rung' = "ip" /\ Restart /\ tried' = {}
     ELSE rung' = rung /\ Advance(Ports) /\ tried' = tried
  /\ pc' = "pause" /\ UNCHANGED <<tries, wait>>

EnoughIps == tries + 1 > 2 \/ tries + 1 >= AltIps

\* Mutant: every failure moves on to the next host.
IpFailedSkipsPorts ==
  /\ rung = "ip"
  /\ IF host + 1 < AltHosts
     THEN rung' = rung /\ tries' = tries + 1 /\ host' = host + 1 /\ port' = port
     ELSE IF EnoughIps
     THEN rung' = "agent" /\ tries' = 0 /\ Advance(AltPorts)
     ELSE rung' = rung /\ tries' = tries + 1 /\ Restart
  /\ pc' = "pause" /\ UNCHANGED <<wait, tried>>

\* Mutant: the indices are not set back for another round.
IpFailedRunsOn ==
  /\ rung = "ip"
  /\ IF NextHost(AltPorts) >= AltHosts /\ EnoughIps
     THEN rung' = "agent" /\ tries' = 0
     ELSE rung' = rung /\ tries' = tries + 1
  /\ Advance(AltPorts)
  /\ pc' = "pause" /\ UNCHANGED <<wait, tried>>

IpFailed ==
  /\ rung = "ip"
  /\ IF NextHost(AltPorts) < AltHosts
     THEN rung' = rung /\ tries' = tries + 1 /\ Advance(AltPorts)
     ELSE IF EnoughIps
     THEN rung' = "agent" /\ tries' = 0 /\ Advance(AltPorts)
     ELSE rung' = rung /\ tries' = tries + 1 /\ Restart
  /\ pc' = "pause" /\ UNCHANGED <<wait, tried>>

AgentRetry ==
  /\ rung = "agent" /\ tries + 1 <= 2 /\ tries + 1 < agents
  /\ tries' = tries + 1
  /\ pc' = "pause" /\ UNCHANGED <<rung, host, port, wait, tried>>

\* Mutant: the reset starts over with the alternative addresses.
AgentFailedStaysUp ==
  /\ rung = "agent" /\ (tries + 1 > 2 \/ tries + 1 >= agents)
  /\ tries' = 0 /\ host' = 0 /\ port' = 0 /\ rung' = "ip" /\ tried' = {}
  /\ pc' = "sleep" /\ UNCHANGED wait

\* The end of a climb: back to the named hosts, after next_wait.
AgentFailed ==
  /\ rung = "agent" /\ (tries + 1 > 2 \/ tries + 1 >= agents)
  /\ tries' = 0 /\ host' = 0 /\ port' = 0 /\ rung' = "direct"
  /\ pc' = "sleep" /\ UNCHANGED <<wait, tried>>

DialFailed ==
  /\ pc = "dial" /\ Refuses
  /\ DirectFailed \/ IpFailed \/ AgentRetry \/ AgentFailed
  /\ force' = None
  /\ UNCHANGED <<target, world>>

(***************************************************************************)
(* Waiting.                                                                *)
(***************************************************************************)
\* One second between two dials of a climb, or a cooldown.
Paused ==
  /\ Goto("pause", "top")
  /\ UNCHANGED <<place, wait, force, target, tried, world>>

Slept ==
  /\ Goto("sleep", "top")
  /\ wait' = IF wait < MaxDoublings THEN wait + 1 ELSE wait
  /\ UNCHANGED <<place, force, target, tried, world>>

(***************************************************************************)
(* The device and the network.                                             *)
(***************************************************************************)
DeviceGone ==
  /\ dev /\ dev' = FALSE
  /\ UNCHANGED <<pc, place, wait, force, target, tried, agents, calm, up, named>>

\* cloud_conf writes what it downloads over the list, entry by entry: it never gets shorter.
CloudConf ==
  /\ agents' \in AgentSizes /\ agents' > agents
  /\ UNCHANGED <<pc, place, wait, force, target, tried, dev, calm, up, named>>

\* Bound: one server answers from then on.
Calm ==
  /\ ~calm /\ dev /\ calm' = TRUE
  /\ \E s \in DirectServers \cup AltServers \cup {Agent} : up' = {s}
  /\ named' \in SUBSET (0..(Hosts - 1))
  /\ UNCHANGED <<pc, place, wait, force, target, tried, agents, dev>>

(***************************************************************************)
(* The specification.                                                      *)
(***************************************************************************)
Init ==
  /\ pc = "top" /\ rung = "direct" /\ host = 0 /\ port = 0 /\ tries = 0
  /\ wait = 0 /\ force = None /\ target = None
  /\ agents \in AgentSizes
  /\ dev = TRUE /\ tried = {} /\ calm = FALSE /\ up = {} /\ named = {}

Loop ==
  \/ Offline \/ DialForced \/ DialIndexed \/ NoAgent \/ Resolve \/ Resolved \/ Unresolved
  \/ Connected \/ DialFailed
  \/ Lost \/ Redirected \/ Declined \/ Paused \/ Slept

Next == Loop \/ DeviceGone \/ CloudConf \/ Calm

Spec == Init /\ [][Next]_vars

\* Timers fire and every connection ends some day; nothing makes a device leave or a
\* network settle.
FairSpec == Spec /\ WF_vars(Loop)

(***************************************************************************)
(* Properties.                                                             *)
(***************************************************************************)
MaxHost == IF Hosts > AltHosts THEN Hosts ELSE AltHosts
MaxPort == IF Ports > AltPorts THEN Ports ELSE AltPorts
Target == [rung : Rungs \cup {"redirect"}, host : 0..(MaxHost + 1), port : 0..(MaxPort - 1)]

\* host_idx runs over the end of its list when names fail, and a redirect then takes it
\* back to the first rung: it never gets further than one beyond that.  ip_try_count
\* starts a round over the alternatives with two at most, whatever their number.
TypeOK ==
  /\ pc \in {"top", "resolve", "dial", "open", "pause", "sleep", "end", "thrown"}
  /\ agents \in AgentSizes /\ rung \in Rungs
  /\ host \in 0..(MaxHost + 1) /\ port \in 0..(MaxPort - 1)
  /\ tries \in 0..(AltHosts * AltPorts + 1) /\ wait \in 0..MaxDoublings
  /\ force \in Target \cup {None} /\ target \in Target \cup {None}
  /\ (pc \in {"dial", "open"}) => target # None

\* "we want to go over all alt_hosts/alt_ports permutations" (line 974): the agents are
\* turned to only when every alternative has been dialled in this climb, whatever
\* successes, redirects and name failures came between.
AlternativesExhausted ==
  [][rung # "agent" /\ rung' = "agent" => AltServers \subseteq tried]_vars

Reachable ==
  {s \in up : (s.rung = "direct" => s.host \in named) /\ (s = Agent => agents # 0)}

\* The first dial of a climb.
Foot == pc = "top" /\ rung = "direct" /\ host = 0 /\ port = 0 /\ force = None

\* Once the network is settled, a device that can reach some server has a connection
\* again and again: no mixture of earlier failures leaves the loop on a rung, or at an
\* index, from which that server is not dialled.  With no agent addresses a climb is
\* followed by none, so that only a climb from its beginning is sure to find the server.
Served ==
  calm /\ Reachable # {} /\ pc # "thrown" /\ (agents # 0 \/ Foot) ~> pc = "open" \/ ~dev

\* The loop of a device that is gone ends: no rung, sleep or forced retry keeps it.
OfflineEnds == ~dev ~> pc \in {"end", "thrown"}

\* Expected to fail.  What is dialled on the second rung is one of the "alt_hosts/alt_ports
\* permutations" (line 974).
AltDialIsPermutation ==
  pc = "dial" /\ target.rung = "ip" => target \in AltServers
=============================================================================
