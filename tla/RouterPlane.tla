---------------------------- MODULE RouterPlane ----------------------------
(***************************************************************************)
(* The router container: router-start.sh closes the FORWARD chain, then    *)
(* entrypoint.sh builds one tunnel per line of the routes file, starts the *)
(* DNS forwarder, declares itself ready and supervises what it started;    *)
(* health.sh is Docker's probe.  At any point a command may fail (set -e), *)
(* a process may die, the container may be killed, stopped, removed or     *)
(* restarted, and the launcher may replace the routes file.                *)
(*                                                                         *)
(* The network state of the container is what a packet meets: policy rules *)
(* and tables, the FORWARD chain in order, and the processes behind the    *)
(* tunnel devices.  It lives in the container's own namespace, so a stop   *)
(* discards it; the files under /run are on the container's disk and stay. *)
(*                                                                         *)
(* Abstractions.  Addresses are members of Client; a proxy URL is a member *)
(* of Proxy.  Lines are numbered from 1 (the code counts from 0).  A line  *)
(* the code would reject is a Fail step.  INPUT rules are left out, as are *)
(* the address of a tunnel, its MTU, and logging.  kill takes effect at    *)
(* once.  Every client of the LAN is in the subnet the block rules name.   *)
(***************************************************************************)
EXTENDS Naturals, Sequences, FiniteSets

CONSTANTS
  Client,          \* worker addresses on the LAN, in the routes file or not
  Proxy,           \* upstream proxies
  Socks5,          \* the proxies whose scheme is socks5 or socks5h
  MaxVersion,      \* versions of the routes file (bounds the launcher)
  Routes,          \* version -> sequence of [client, proxy] lines
  Options,         \* what the container may be created with
  Blocked, Uplink  \* where a packet ends that no proxy carries

\* ENGINE, UDP_POLICY and UNMAPPED_POLICY of the container.
AllOptions == [engine : {"tun2socks", "hev"}, udp : {"tunnel", "reject", "drop"},
               unmapped : {"block", "direct"}]

Version == 1..MaxVersion
Entry == [client : Client, proxy : Proxy]

ASSUME ConstantsAssumption ==
  /\ MaxVersion \in Nat \ {0}
  /\ Socks5 \subseteq Proxy
  /\ Routes \in [Version -> Seq(Entry)]
  /\ Options \subseteq AllOptions
  /\ Blocked \notin Proxy /\ Uplink \notin Proxy /\ Blocked # Uplink

VARIABLES
  opt,      \* the options of this deployment's container
  fileVer,  \* version of the routes file on disk
  pc,       \* next command of the script, "down" when the container is not running
  ver,      \* version the running script opened
  line,     \* INDEX: the line the loop is at; I in cleanup
  policy,   \* FORWARD policy of the namespace
  chain,    \* TUN2SOCKS_FWD, in order
  jump,     \* FORWARD jumps to TUN2SOCKS_FWD
  rule,     \* lines whose ip rule exists
  table,    \* lines whose table holds a default route through a live device
  proc,     \* line -> state of its tunnel process
  dns,      \* state of dnsrouter, and in dnsVer the version it loaded
  dnsVer,
  ready,    \* /run/ea-ready exists
  pids,     \* /run/ea-pids: "none", "current", or "stale" from an earlier boot
  health,   \* Docker's health status
  wanted,   \* Docker is to keep the container running
  calm      \* nothing fails any more (assumed only by the liveness properties)

net == <<ver, line, policy, chain, jump, rule, table, proc, dns, dnsVer>>
run == <<ready, pids, health>>
env == <<opt, fileVer, wanted, calm>>
vars == <<pc, net, run, env>>

ProcState == {"none", "run", "dead"}
Lines(v) == DOMAIN Routes[v]
ClientOf(i) == Routes[ver][i].client

\* Mutant: the loop looks a line up in the file as it is now.
ProxyOfReread(i) == Routes[fileVer][IF i \in Lines(fileVer) THEN i ELSE 1].proxy

ProxyOf(i) == Routes[ver][i].proxy

(***************************************************************************)
(* Program counters.                                                       *)
(***************************************************************************)
Building == {"chain", "device", "rule", "udp", "accept", "start", "dns", "block", "ready"}
Booting == {"clean", "policy"} \cup Building
Cleaning == {"drop", "unhook"}
Trapped == {"watch", "stop"} \cup Cleaning
PC == {"down", "arm"} \cup Booting \cup Trapped

Goto(from, to) == pc = from /\ pc' = to

(***************************************************************************)
(* What a packet meets.                                                    *)
(***************************************************************************)
\* ip rule: the lowest priority whose table answers; table 0 stands for main.
FirstOf(S) == CHOOSE i \in S : \A j \in S : i <= j

RouteOut(c) ==
  LET hit == {i \in rule \cap table : ClientOf(i) = c}
  IN  IF hit = {} THEN 0 ELSE FirstOf(hit)

Matches(r, c, proto, out) ==
  \/ r.kind = "udp" /\ ClientOf(r.line) = c /\ proto = "udp"
  \/ r.kind = "accept" /\ ClientOf(r.line) = c /\ r.line = out
  \/ r.kind = "block"

Accepts(r) == r.kind = "accept"

\* The first rule of the chain that matches decides; then the policy does.
Forwarded(c, proto, out) ==
  LET hit == {k \in DOMAIN chain : Matches(chain[k], c, proto, out)}
  IN  IF jump /\ hit # {} THEN Accepts(chain[FirstOf(hit)]) ELSE policy = "ACCEPT"

\* A tunnel device whose process is gone swallows the packet.
Through(out) ==
  IF out = 0 THEN Uplink
  ELSE IF proc[out] = "run" THEN ProxyOf(out) ELSE Blocked

ExitOf(c, proto) ==
  LET out == RouteOut(c)
  IN  IF pc # "down" /\ Forwarded(c, proto, out) THEN Through(out) ELSE Blocked

Reply(i) == [kind |-> "reply", line |-> i]
RepliesReach(c) == \E k \in DOMAIN chain : jump /\ chain[k] = Reply(RouteOut(c))

(***************************************************************************)
(* Container start and stop (Docker; --restart unless-stopped).            *)
(***************************************************************************)
NoNamespace ==
  /\ policy' = "ACCEPT" /\ chain' = <<>> /\ jump' = FALSE
  /\ rule' = {} /\ table' = {}
  /\ proc' = [i \in Lines(ver) |-> "none"]
  /\ dns' = "none" /\ line' = 1
  /\ UNCHANGED <<ver, dnsVer>>

Exit ==
  /\ pc' = "down"
  /\ NoNamespace
  /\ health' = "unhealthy"
  /\ UNCHANGED <<ready, pids>>

\* ip_forward is on from the first instant (--sysctl net.ipv4.ip_forward=1).
Start ==
  /\ wanted /\ Goto("down", "clean")
  /\ health' = "starting"
  /\ pids' = IF pids = "current" THEN "stale" ELSE pids
  /\ UNCHANGED <<net, ready, env>>

\* docker stop: TERM runs the trap if it is set, and kills the shell if not.
DockerStop ==
  /\ wanted /\ ~calm /\ wanted' = FALSE
  /\ IF pc = "watch" THEN pc' = "stop" /\ UNCHANGED <<net, run>>
     ELSE IF pc \in Trapped \cup {"down"} THEN UNCHANGED <<pc, net, run>>
     ELSE Exit
  /\ UNCHANGED <<opt, fileVer, calm>>

DockerStart ==
  /\ ~wanted /\ wanted' = TRUE
  /\ UNCHANGED <<pc, net, run, opt, fileVer, calm>>

\* docker rm -f and a new container: the files under /run go with the old one.
DockerRecreate ==
  /\ ~calm
  /\ pc' = "down" /\ NoNamespace
  /\ ready' = FALSE /\ pids' = "none" /\ health' = "unhealthy"
  /\ UNCHANGED env

\* SIGKILL, out of memory, host power loss: anywhere.
Kill ==
  /\ ~calm /\ pc # "down"
  /\ Exit
  /\ UNCHANGED env

\* A command of the script fails under set -e, or die: no cleanup is armed yet.
Fail ==
  /\ ~calm /\ pc \in Booting
  /\ Exit
  /\ UNCHANGED env

WriteRoutes ==
  /\ ~calm /\ fileVer < MaxVersion
  /\ fileVer' = fileVer + 1
  /\ UNCHANGED <<pc, net, run, opt, wanted, calm>>

Calm ==
  /\ ~calm /\ calm' = TRUE
  /\ UNCHANGED <<pc, net, run, opt, fileVer, wanted>>

(***************************************************************************)
(* router-start.sh                                                         *)
(***************************************************************************)
RemoveRunFiles ==
  /\ Goto("clean", "policy")
  /\ ready' = FALSE /\ pids' = "none"
  /\ UNCHANGED <<net, health, env>>

\* Mutant: the FORWARD policy is left as the namespace came with it.
BootPolicyOpen == "ACCEPT"

BootPolicy == "DROP"

ClosePolicy ==
  /\ Goto("policy", "chain")
  /\ policy' = BootPolicy
  /\ UNCHANGED <<ver, line, chain, jump, rule, table, proc, dns, dnsVer, run, env>>

(***************************************************************************)
(* entrypoint.sh: the chain, then one pass of the loop per line.           *)
(***************************************************************************)
\* The loop's redirection opens the routes file once, here.
InitChain ==
  /\ Goto("chain", "device")
  /\ chain' = <<>> /\ jump' = TRUE
  /\ ver' = fileVer /\ line' = 1
  /\ proc' = [i \in Lines(fileVer) |-> "none"]
  /\ UNCHANGED <<policy, rule, table, dns, dnsVer, run, env>>

\* Mutant: the loop body runs once more at the end of the file.
TunnelDevicePastEnd ==
  /\ Goto("device", "rule")
  /\ table' = IF opt.engine = "tun2socks" THEN table \cup {line} ELSE table
  /\ UNCHANGED <<ver, line, policy, chain, jump, rule, proc, dns, dnsVer, run, env>>

\* hev creates its device itself, so the route command fails and is ignored.
TunnelDevice ==
  /\ line \in Lines(ver) /\ Goto("device", "rule")
  /\ table' = IF opt.engine = "tun2socks" THEN table \cup {line} ELSE table
  /\ UNCHANGED <<ver, line, policy, chain, jump, rule, proc, dns, dnsVer, run, env>>

AddRule ==
  /\ Goto("rule", "udp")
  /\ rule' = rule \cup {line}
  /\ UNCHANGED <<ver, line, policy, chain, jump, table, proc, dns, dnsVer, run, env>>

\* Mutant: iptables -I for -A, so later rules come first.
Inserted(rs) ==
  /\ chain' = rs \o chain
  /\ UNCHANGED <<ver, line, policy, jump, rule, table, proc, dns, dnsVer, run, env>>

Appended(rs) ==
  /\ chain' = chain \o rs
  /\ UNCHANGED <<ver, line, policy, jump, rule, table, proc, dns, dnsVer, run, env>>

UdpRules(i) == IF opt.udp = "tunnel" THEN <<>> ELSE <<[kind |-> "udp", line |-> i]>>
AcceptRules(i) == <<[kind |-> "accept", line |-> i], Reply(i)>>
BlockRules == IF opt.unmapped = "block" THEN <<[kind |-> "block", line |-> 0]>> ELSE <<>>

UdpRule == Goto("udp", "accept") /\ Appended(UdpRules(line))
AcceptRule == Goto("accept", "start") /\ Appended(AcceptRules(line))

\* hev speaks SOCKS5 only: any other scheme ends the script.
StartTunnel ==
  /\ pc = "start"
  /\ IF opt.engine = "hev" /\ ProxyOf(line) \notin Socks5
     THEN Exit
     ELSE /\ pc' = "device" /\ line' = line + 1
          /\ proc' = [proc EXCEPT ![line] = "run"]
          /\ UNCHANGED <<ver, policy, chain, jump, rule, table, dns, dnsVer, run>>
  /\ UNCHANGED env

\* Mutant: read without "|| [ -n "$LINE" ]", so a last line with no newline is lost.
EndOfRoutesLosesLast ==
  /\ pc = "device" /\ line >= Cardinality(Lines(ver))
  /\ pc' = "dns"
  /\ UNCHANGED <<net, run, env>>

\* End of file; a routes file without a usable line is fatal.
EndOfRoutes ==
  /\ pc = "device" /\ line \notin Lines(ver)
  /\ IF line = 1 THEN Exit ELSE pc' = "dns" /\ UNCHANGED <<net, run>>
  /\ UNCHANGED env

StartDns ==
  /\ Goto("dns", "block")
  /\ dns' = "starting"
  /\ UNCHANGED <<ver, line, policy, chain, jump, rule, table, proc, dnsVer, run, env>>

BlockUnmapped == Goto("block", "ready") /\ Appended(BlockRules)

\* Mutant: the pids are never written.
DeclareReadyWithoutPids ==
  /\ Goto("ready", "arm")
  /\ ready' = TRUE
  /\ UNCHANGED <<net, pids, health, env>>

DeclareReady ==
  /\ Goto("ready", "arm")
  /\ pids' = "current" /\ ready' = TRUE
  /\ UNCHANGED <<net, health, env>>

ArmTrap == Goto("arm", "watch") /\ UNCHANGED <<net, run, env>>

(***************************************************************************)
(* The processes behind the devices.                                       *)
(***************************************************************************)
\* hev's post-up script installs the route once the device exists.
HevUp(i) ==
  /\ opt.engine = "hev" /\ proc[i] = "run" /\ i \notin table
  /\ table' = table \cup {i}
  /\ UNCHANGED <<pc, ver, line, policy, chain, jump, rule, proc, dns, dnsVer, run, env>>

\* A tun2socks device outlives its process; a hev device goes with it.
TunnelDies(i) ==
  /\ ~calm /\ proc[i] = "run"
  /\ proc' = [proc EXCEPT ![i] = "dead"]
  /\ table' = IF opt.engine = "hev" THEN table \ {i} ELSE table
  /\ UNCHANGED <<pc, ver, line, policy, chain, jump, rule, dns, dnsVer, run, env>>

\* dnsrouter reads the routes file for itself, when it gets to run.
DnsLoads ==
  /\ dns = "starting"
  /\ dns' = "run" /\ dnsVer' = fileVer
  /\ UNCHANGED <<pc, ver, line, policy, chain, jump, rule, table, proc, run, env>>

DnsDies ==
  /\ ~calm /\ dns \in {"starting", "run"}
  /\ dns' = "dead"
  /\ UNCHANGED <<pc, ver, line, policy, chain, jump, rule, table, proc, dnsVer, run, env>>

(***************************************************************************)
(* Supervision and cleanup.                                                *)
(***************************************************************************)
\* Mutant: the pid of dnsrouter is missing from PIDS.
AllAliveTunnelsOnly == \A i \in Lines(ver) : proc[i] # "dead"

\* kill -0 on every member of PIDS, which lists only what was started.
AllAlive == dns # "dead" /\ \A i \in Lines(ver) : proc[i] # "dead"

\* Both ways into cleanup: a component is gone, or the trap of TERM runs.
CleanupStart ==
  /\ \/ pc = "watch" /\ ~AllAlive
     \/ pc = "stop"
  /\ pc' = "drop" /\ line' = 1
  /\ ready' = FALSE
  /\ proc' = [i \in Lines(ver) |-> "dead"] /\ dns' = "dead"
  /\ table' = IF opt.engine = "hev" THEN {} ELSE table
  /\ UNCHANGED <<ver, policy, chain, jump, rule, dnsVer, pids, health, env>>

\* The rule, the table and the device of one index.
CleanupLine ==
  /\ pc = "drop" /\ line \in Lines(ver)
  /\ rule' = rule \ {line} /\ table' = table \ {line}
  /\ line' = line + 1
  /\ UNCHANGED <<pc, ver, policy, chain, jump, proc, dns, dnsVer, run, env>>

CleanupDone ==
  /\ line \notin Lines(ver) /\ Goto("drop", "unhook")
  /\ jump' = FALSE /\ chain' = <<>>
  /\ UNCHANGED <<ver, line, policy, rule, table, proc, dns, dnsVer, run, env>>

CleanupExit == pc = "unhook" /\ Exit /\ UNCHANGED env

(***************************************************************************)
(* health.sh under HEALTHCHECK; a stale pid belongs to a namespace that is *)
(* gone.  Docker's retry count is abstracted: a failing probe may or may   *)
(* not be the one that turns the status.                                   *)
(***************************************************************************)
\* Mutant: only the ready file is looked at.
HealthOkReadyOnly == ready /\ AllAlive

HealthOk == ready /\ pids = "current" /\ AllAlive

Probe ==
  /\ pc # "down"
  /\ IF HealthOk THEN health' = "healthy"
                 ELSE health' \in {health, "unhealthy"}
  /\ UNCHANGED <<pc, net, ready, pids, env>>

(***************************************************************************)
(* The specification.                                                      *)
(***************************************************************************)
Init ==
  /\ opt \in Options
  /\ pc = "down" /\ fileVer = 1 /\ wanted = TRUE /\ calm = FALSE
  /\ ver = 1 /\ line = 1 /\ dnsVer = 1
  /\ policy = "ACCEPT" /\ chain = <<>> /\ jump = FALSE
  /\ rule = {} /\ table = {} /\ proc = [i \in Lines(1) |-> "none"]
  /\ dns = "none" /\ ready = FALSE /\ pids = "none" /\ health = "unhealthy"

Script ==
  \/ RemoveRunFiles \/ ClosePolicy \/ InitChain
  \/ TunnelDevice \/ AddRule \/ UdpRule \/ AcceptRule \/ StartTunnel \/ EndOfRoutes
  \/ StartDns \/ BlockUnmapped \/ DeclareReady \/ ArmTrap
  \/ CleanupStart \/ CleanupLine \/ CleanupDone \/ CleanupExit

Docker == Start \/ DockerStop \/ DockerStart \/ DockerRecreate \/ Kill \/ Probe
Processes == \E i \in Lines(ver) : HevUp(i) \/ TunnelDies(i)

Next == Script \/ Docker \/ Processes \/ DnsLoads \/ DnsDies \/ Fail \/ WriteRoutes \/ Calm

Spec == Init /\ [][Next]_vars

\* The shell keeps running its script, Docker restarts and probes the container.
Fairness ==
  /\ WF_vars(Script) /\ WF_vars(Start) /\ WF_vars(Probe) /\ WF_vars(DnsLoads)
  /\ WF_vars(\E i \in Lines(ver) : HevUp(i))

FairSpec == Spec /\ Fairness

(***************************************************************************)
(* Properties.                                                             *)
(***************************************************************************)
ChainRule == [kind : {"udp", "accept", "reply", "block"}, line : Nat]

TypeOK ==
  /\ opt \in Options
  /\ fileVer \in Version /\ ver \in Version /\ dnsVer \in Version
  /\ pc \in PC
  /\ line \in Nat \ {0}
  /\ policy \in {"ACCEPT", "DROP"}
  /\ chain \in Seq(ChainRule)
  /\ rule \subseteq Lines(ver) /\ table \subseteq Lines(ver)
  /\ proc \in [Lines(ver) -> ProcState]
  /\ dns \in {"none", "starting", "run", "dead"}
  /\ pids \in {"none", "current", "stale"}
  /\ health \in {"starting", "healthy", "unhealthy"}
  /\ jump \in BOOLEAN /\ ready \in BOOLEAN /\ wanted \in BOOLEAN /\ calm \in BOOLEAN

Protocols == {"tcp", "udp"}
Unguarded == pc \in {"clean", "policy"}

\* A packet of any client crosses to the uplink only in the first instants of a
\* boot: once router-start.sh has closed the FORWARD policy, no order of rules
\* added, processes dying and rules removed by cleanup opens a way around the
\* tunnels (entrypoint.sh, the comment above its supervision loop).
UplinkOnlyUnguarded ==
  \A c \in Client, p \in Protocols : ExitOf(c, p) = Uplink => Unguarded

\* A packet that leaves through a proxy leaves through one the routes file opened
\* by this boot assigns to its sender: never through another client's, and never
\* through one that a replaced file names.
ExitIsAssigned ==
  \A c \in Client, p \in Protocols : ExitOf(c, p) \in Proxy =>
    \E i \in Lines(ver) : Routes[ver][i] = [client |-> c, proxy |-> ExitOf(c, p)]

\* With UDP_POLICY reject or drop no UDP packet leaves by a tunnel, whatever has
\* been appended to the chain so far (the UDP rule must come before the ACCEPT).
UdpNeverTunnelled ==
  opt.udp # "tunnel" => \A c \in Client : ExitOf(c, "udp") \notin Proxy

Mapped(c) == {i \in Lines(ver) : ClientOf(i) = c}
Serves(c) ==
  /\ ExitOf(c, "tcp") = ProxyOf(FirstOf(Mapped(c)))
  /\ RepliesReach(c)

\* A ready router whose tunnels all run and have their devices carries the TCP
\* traffic of every client of the routes file, both ways: no line was skipped,
\* and no rule that blocks comes before the one that accepts.
ReadyServesEveryLine ==
  (ready /\ pc \in {"arm", "watch"}
     /\ \A i \in Lines(ver) : proc[i] # "dead" /\ (proc[i] = "run" => i \in table))
  => \A c \in Client : Mapped(c) # {} => Serves(c)

\* The status on which the launcher releases the workers is never one that files
\* of an earlier boot produced: a healthy container has finished building.
HealthyMeansBuilt == health = "healthy" => pc \in {"arm"} \cup Trapped

\* The order of exits a client can observe is the abstract one: an assignment is
\* replaced only while everything is blocked, for every boot, crash and restart.
Gate == INSTANCE ExitGate WITH
  guarded <- ~Unguarded,
  assigned <- [c \in Client |-> {ProxyOf(i) : i \in Mapped(c)}],
  exit <- [c \in Client |-> ExitOf(c, "tcp")]
RefinesExitGate == Gate!Spec

\* When nothing fails any more, a router Docker is to run ends up healthy and
\* serving every line, from whatever state the failures left.
Recovers ==
  (calm /\ wanted) ~> [](health = "healthy" /\ dns = "run"
                          /\ \A c \in Client : Mapped(c) # {} => Serves(c))

\* Expected to fail.  entrypoint.sh takes the router down and lets Docker restart it
\* when a tunnel dies, so that clients do not fall back to the host's own route and
\* leak.  Stale pids mark the restart of a container that had been ready, whose
\* workers are still running.
RestartNeverLeaks ==
  pids = "stale" => \A c \in Client, p \in Protocols : ExitOf(c, p) # Uplink
=============================================================================
