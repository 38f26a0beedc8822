-------------------------- MODULE ConnLadderProofs --------------------------
(***************************************************************************)
(* ConnLadder for every value of its constants: the indices of the loop    *)
(* stay in range, and, with the sizes of sdk_conf.js, the agents are the   *)
(* last resort.                                                            *)
(*                                                                         *)
(* Both depend on what a forced retry is aimed at: the place at which the  *)
(* indices stand (Aimed).  A round over the alternatives may begin beyond  *)
(* the end of their list, where Unresolved leaves host_idx; that does no   *)
(* harm only because such a round has had no try yet (Swept).              *)
(***************************************************************************)
EXTENDS ConnLadder, TLAPS

\* On the first rung nothing has been counted, and host_idx is in the list of hosts unless
\* a redirect has brought it there.
Grounded ==
  /\ rung = "direct" => tries = 0 /\ host <= MaxHost /\ (force = None => host < Hosts)
  /\ rung = "ip" => host <= MaxHost
  /\ pc = "resolve" => rung = "direct" /\ force = None

\* The count runs at most two ahead of the place in the list.
Counted ==
  /\ rung = "ip" => tries <= host * AltPorts + port + 2 /\ (port >= AltPorts => tries = 0)
  /\ rung = "agent" => tries <= 2

\* On the second rung every target is the place where the indices stand.
Aimed ==
  rung = "ip" =>
    /\ force \in {None, Indexed}
    /\ pc \in {"dial", "open"} => target = Indexed /\ target \in tried

IInv == TypeOK /\ Grounded /\ Counted /\ Aimed

-----------------------------------------------------------------------------
\* The rows before a row of a table do not reach into it.
LEMMA RowsBefore ==
  ASSUME NEW a \in Nat, NEW b \in Nat, NEW c \in Nat, a < b
  PROVE  a * c + c <= b * c
<1>1. PICK d \in Nat : b = a + 1 + d
  <2>1. b - a - 1 \in Nat /\ b = a + 1 + (b - a - 1)
    OBVIOUS
  <2>2. QED
    BY <2>1
<1>2. b * c = a * c + c + d * c
  BY <1>1
<1>3. d * c >= 0 /\ a * c \in Nat /\ d * c \in Nat
  OBVIOUS
<1>4. QED
  BY <1>2, <1>3

LEMMA Sizes ==
  /\ Hosts \in Nat \ {0} /\ Ports \in Nat \ {0} /\ AltHosts \in Nat \ {0} /\ AltPorts \in Nat \ {0}
  /\ MaxHost \in Nat /\ Hosts <= MaxHost /\ AltHosts <= MaxHost
  /\ MaxPort \in Nat /\ Ports <= MaxPort /\ AltPorts <= MaxPort
  /\ AltHosts * AltPorts \in Nat /\ AltHosts * AltPorts >= 1
<1>1. Hosts \in Nat \ {0} /\ Ports \in Nat \ {0} /\ AltHosts \in Nat \ {0} /\ AltPorts \in Nat \ {0}
  BY SizesAssumption
<1>2. AltHosts * AltPorts \in Nat
  BY <1>1
<1>3. 0 * AltPorts + AltPorts <= AltHosts * AltPorts
  BY <1>1, RowsBefore
<1>4. AltHosts * AltPorts >= 1
  BY <1>1, <1>2, <1>3
<1>5. QED
  BY <1>1, <1>2, <1>4 DEF MaxHost, MaxPort

\* What is dialled is a target, and no target is None.
LEMMA Targets ==
  /\ \A r \in Rungs, i \in 0..(MaxHost + 1), j \in 0..(MaxPort - 1) : At(r, i, j) \in Target
  /\ Agent \in Target /\ Elsewhere \in Target
  /\ None \notin Target
<1>1. MaxHost \in Nat /\ MaxPort \in Nat \ {0}
  BY Sizes
<1>2. Target \subseteq [rung : {"direct", "ip", "agent", "redirect"}, host : Nat, port : Nat]
  BY <1>1 DEF Target, Rungs
<1>3. 0 \in 0..(MaxHost + 1) /\ 0 \in 0..(MaxPort - 1)
  BY <1>1
<1>4. QED
  BY <1>2, <1>3, SizesAssumption DEF Target, At, Agent, Elsewhere, Rungs

\* The place after this one: one try further in the list, or beyond its end.
LEMMA NextPlace ==
  ASSUME TypeOK, NEW n \in {Ports, AltPorts}
  PROVE  /\ NextPort(n) \in 0..(MaxPort - 1)
         /\ NextHost(n) \in {host, host + 1}
         /\ NextPort(n) < n
         /\ port < n => NextHost(n) * n + NextPort(n) = host * n + port + 1
         /\ port >= n => NextHost(n) = host + 1 /\ NextPort(n) = 0
<1>1. /\ n \in Nat \ {0} /\ n <= MaxPort /\ MaxPort \in Nat
      /\ host \in Nat /\ port \in 0..(MaxPort - 1)
  BY Sizes DEF TypeOK
<1>2. CASE port + 1 >= n
  <2>1. NextHost(n) = host + 1 /\ NextPort(n) = 0
    BY <1>2 DEF NextHost, NextPort
  <2>2. port < n => port + 1 = n
    BY <1>1, <1>2
  <2>3. (host + 1) * n = host * n + n /\ host * n \in Nat
    BY <1>1
  <2>4. QED
    BY <1>1, <2>1, <2>2, <2>3
<1>3. CASE ~(port + 1 >= n)
  <2>1. NextHost(n) = host /\ NextPort(n) = port + 1 /\ port + 1 < n
    BY <1>1, <1>3 DEF NextHost, NextPort
  <2>2. host * n \in Nat
    BY <1>1
  <2>3. QED
    BY <1>1, <2>1, <2>2
<1>4. QED
  BY <1>2, <1>3

\* A step that leaves the place and the counters alone.
LEMMA InPlace ==
  ASSUME IInv, UNCHANGED <<rung, host, port>>, agents' \in AgentSizes, tries' = tries \/ tries' = 0,
         pc' \in {"top", "resolve", "dial", "open", "pause", "sleep", "end", "thrown"},
         wait' \in 0..MaxDoublings, force' \in Target \cup {None}, target' \in Target \cup {None},
         pc' \in {"dial", "open"} => target' # None,
         rung = "direct" => (force' = None => host < Hosts),
         pc' = "resolve" => rung = "direct" /\ force' = None,
         rung = "ip" => /\ force' \in {None, Indexed}
                        /\ pc' \in {"dial", "open"} => target' = Indexed /\ target' \in tried'
  PROVE  IInv'
<1>1. TypeOK'
  BY Sizes DEF IInv, TypeOK
<1>2. Grounded'
  BY DEF IInv, Grounded, MaxHost
<1>3. Counted'
  <2>1. 0 <= host * AltPorts + port + 2
    BY Sizes DEF IInv, TypeOK
  <2>2. QED
    BY <2>1 DEF IInv, Counted
<1>4. Indexed' = Indexed
  BY DEF Indexed
<1>5. Aimed'
  BY <1>4 DEF Aimed
<1>6. QED
  BY <1>1, <1>2, <1>3, <1>5 DEF IInv

LEMMA IndexedIsTarget == ASSUME IInv PROVE Indexed \in Target
BY Targets DEF IInv, TypeOK, Indexed

LEMMA DialStep ==
  ASSUME IInv, NEW t \in Target, Dial(t), rung = "ip" => t = Indexed
  PROVE  IInv'
<1>1. /\ pc' = "dial" /\ target' = t /\ t # None /\ UNCHANGED <<place, wait, force, agents>>
      /\ rung = "ip" => tried' = tried \cup {t}
  BY Targets DEF Dial, world
<1>2. QED
  BY <1>1, InPlace DEF IInv, TypeOK, Grounded, Aimed, place

\* A name without an address: the first rung is left at the end of its list, and never
\* later, so that host_idx is at most the number of hosts then.
LEMMA UnresolvedStep == IInv /\ Unresolved => IInv'
<1> SUFFICES ASSUME IInv, Unresolved PROVE IInv'
  OBVIOUS
<1>1. /\ pc = "resolve" /\ pc' = "top" /\ host' = host + 1 /\ force = None
      /\ rung' = IF host + 1 >= Hosts THEN "ip" ELSE rung
      /\ rung = "direct" /\ tries = 0 /\ host < Hosts /\ host \in Nat /\ port \in 0..(MaxPort - 1)
      /\ UNCHANGED <<port, tries, wait, force, target, agents>>
  BY Sizes DEF Unresolved, Goto, world, IInv, TypeOK, Grounded
<1>2. host' <= MaxHost /\ host' \in 0..(MaxHost + 1)
  BY <1>1, Sizes
<1>3. TypeOK'
  BY <1>1, <1>2 DEF IInv, TypeOK, Rungs
<1>4. Grounded'
  BY <1>1, <1>2, Sizes DEF Grounded, MaxHost
<1>5. Counted'
  <2>1. host' * AltPorts \in Nat
    BY <1>1, <1>2, Sizes
  <2>2. QED
    BY <1>1, <2>1, Sizes DEF Counted
<1>6. Aimed'
  BY <1>1 DEF Aimed
<1>7. QED
  BY <1>3, <1>4, <1>5, <1>6 DEF IInv

LEMMA RedirectedStep == IInv /\ Redirected => IInv'
<1> SUFFICES ASSUME IInv, Redirected PROVE IInv'
  OBVIOUS
<1>1. /\ pc' = "sleep" /\ tries' = 0 /\ wait' = 0 /\ force' = Elsewhere
      /\ rung' = IF rung = "agent" THEN rung ELSE "direct"
      /\ UNCHANGED <<host, port, target, agents>>
  BY DEF Redirected, Goto, world
<1>2. Elsewhere \in Target /\ Elsewhere # None /\ MaxDoublings \in Nat
  BY Targets, SizesAssumption
<1>3. TypeOK'
  BY <1>1, <1>2, Sizes DEF IInv, TypeOK, Rungs
<1>4. Grounded'
  BY <1>1, <1>2 DEF IInv, TypeOK, Rungs, Grounded, MaxHost
<1>5. Counted' /\ Aimed'
  BY <1>1 DEF Counted, Aimed
<1>6. QED
  BY <1>3, <1>4, <1>5 DEF IInv

\* A failed dial: four ways on, one for each rung and one for another try of an agent.
LEMMA DirectFailedStep == IInv /\ DialFailed /\ DirectFailed => IInv'
<1> SUFFICES ASSUME IInv, DialFailed, DirectFailed PROVE IInv'
  OBVIOUS
<1>1. /\ pc' = "pause" /\ force' = None /\ UNCHANGED <<tries, wait, target, agents>>
      /\ rung = "direct" /\ tries = 0
  BY DEF DialFailed, DirectFailed, world, IInv, Grounded
<1>2. \/ rung' = "ip" /\ host' = 0 /\ port' = 0
      \/ /\ rung' = "direct" /\ host' = NextHost(Ports) /\ port' = NextPort(Ports)
         /\ NextHost(Ports) < Hosts
  <2>1. NextHost(Ports) \in Nat /\ Hosts \in Nat
    BY NextPlace, Sizes DEF IInv, TypeOK
  <2>2. QED
    BY <1>1, <2>1 DEF DirectFailed, Restart, Advance
<1>3. NextHost(Ports) \in Nat /\ NextPort(Ports) \in 0..(MaxPort - 1)
  BY NextPlace, Sizes DEF IInv, TypeOK
<1>4. host' \in 0..(MaxHost + 1) /\ port' \in 0..(MaxPort - 1) /\ rung' \in Rungs /\ host' <= MaxHost
  BY <1>2, <1>3, Sizes DEF Rungs
<1>5. TypeOK'
  BY <1>1, <1>4 DEF IInv, TypeOK
<1>6. Grounded'
  BY <1>1, <1>2, <1>4 DEF Grounded, MaxHost
<1>7. Counted'
  <2>1. 0 * AltPorts = 0 /\ AltPorts > 0
    BY Sizes
  <2>2. QED
    BY <1>1, <1>2, <2>1 DEF Counted
<1>8. Aimed'
  BY <1>1 DEF Aimed
<1>9. QED
  BY <1>5, <1>6, <1>7, <1>8 DEF IInv

LEMMA IpFailedStep == IInv /\ DialFailed /\ IpFailed => IInv'
<1> SUFFICES ASSUME IInv, DialFailed, IpFailed PROVE IInv'
  OBVIOUS
<1>1. /\ pc' = "pause" /\ force' = None /\ UNCHANGED <<wait, target, agents>>
      /\ rung = "ip" /\ host <= MaxHost /\ host \in Nat /\ port \in Nat
      /\ tries \in Nat /\ tries <= host * AltPorts + port + 2 /\ (port >= AltPorts => tries = 0)
  BY Sizes DEF DialFailed, IpFailed, world, IInv, TypeOK, Grounded, Counted
<1> DEFINE h == NextHost(AltPorts)
           p == NextPort(AltPorts)
<1>2. /\ h \in {host, host + 1} /\ p \in 0..(MaxPort - 1) /\ p < AltPorts
      /\ port < AltPorts => h * AltPorts + p = host * AltPorts + port + 1
      /\ port >= AltPorts => h = host + 1 /\ p = 0
  BY NextPlace DEF IInv
<1>3. \/ /\ h < AltHosts /\ rung' = "ip" /\ tries' = tries + 1 /\ host' = h /\ port' = p
      \/ /\ EnoughIps /\ rung' = "agent" /\ tries' = 0 /\ host' = h /\ port' = p
      \/ /\ ~EnoughIps /\ rung' = "ip" /\ tries' = tries + 1 /\ host' = 0 /\ port' = 0
  BY <1>1 DEF IpFailed, Advance, Restart
<1> HIDE DEF h, p
<1>4. CASE h < AltHosts /\ rung' = "ip" /\ tries' = tries + 1 /\ host' = h /\ port' = p
  <2>1. h \in Nat /\ p \in Nat /\ h * AltPorts \in Nat /\ host * AltPorts \in Nat /\ AltPorts \in Nat \ {0}
    BY <1>1, <1>2, Sizes
  <2>2. h * AltPorts + AltPorts <= AltHosts * AltPorts
    BY <1>4, <2>1, Sizes, RowsBefore
  <2>3. tries + 1 <= h * AltPorts + p + 2
    <3>1. CASE port < AltPorts
      BY <1>1, <1>2, <2>1, <3>1
    <3>2. CASE port >= AltPorts
      BY <1>1, <2>1, <3>2
    <3>3. QED
      BY <1>1, <2>1, <3>1, <3>2
  <2>4. tries + 1 \in 0..(AltHosts * AltPorts + 1)
    BY <1>1, <1>2, <2>1, <2>2, <2>3, Sizes
  <2>5. TypeOK'
    BY <1>1, <1>2, <1>4, <2>1, <2>4, Sizes DEF IInv, TypeOK, Rungs
  <2>6. Grounded' /\ Counted' /\ Aimed'
    BY <1>1, <1>2, <1>4, <2>1, <2>3, Sizes DEF Grounded, Counted, Aimed, MaxHost
  <2>7. QED
    BY <2>5, <2>6 DEF IInv
<1>5. CASE EnoughIps /\ rung' = "agent" /\ tries' = 0 /\ host' = h /\ port' = p
  <2>1. TypeOK'
    BY <1>1, <1>2, <1>5, Sizes DEF IInv, TypeOK, Rungs
  <2>2. Grounded' /\ Counted' /\ Aimed'
    BY <1>1, <1>5 DEF Grounded, Counted, Aimed
  <2>3. QED
    BY <2>1, <2>2 DEF IInv
<1>6. CASE ~EnoughIps /\ rung' = "ip" /\ tries' = tries + 1 /\ host' = 0 /\ port' = 0
  <2>1. tries + 1 <= 2
    BY <1>1, <1>6 DEF EnoughIps
  <2>2. TypeOK'
    BY <1>1, <1>6, <2>1, Sizes DEF IInv, TypeOK, Rungs
  <2>3. 0 * AltPorts = 0 /\ AltPorts > 0
    BY Sizes
  <2>4. Grounded' /\ Counted' /\ Aimed'
    BY <1>1, <1>6, <2>1, <2>3, Sizes DEF Grounded, Counted, Aimed, MaxHost
  <2>5. QED
    BY <2>2, <2>4 DEF IInv
<1>7. QED
  BY <1>3, <1>4, <1>5, <1>6

LEMMA AgentFailedStep == IInv /\ DialFailed /\ (AgentRetry \/ AgentFailed) => IInv'
<1> SUFFICES ASSUME IInv, DialFailed, AgentRetry \/ AgentFailed PROVE IInv'
  OBVIOUS
<1>1. force' = None /\ UNCHANGED <<target, agents>>
  BY DEF DialFailed, world
<1>2. CASE AgentRetry
  <2>1. /\ rung' = "agent" /\ tries' <= 2 /\ tries' \in Nat /\ pc' = "pause"
        /\ UNCHANGED <<host, port, wait>>
    BY <1>2 DEF AgentRetry, IInv, TypeOK
  <2>2. TypeOK'
    BY <1>1, <2>1, Sizes DEF IInv, TypeOK, Rungs
  <2>3. Grounded' /\ Counted' /\ Aimed'
    BY <2>1 DEF Grounded, Counted, Aimed
  <2>4. QED
    BY <2>2, <2>3 DEF IInv
<1>3. CASE AgentFailed
  <2>1. /\ rung' = "direct" /\ tries' = 0 /\ host' = 0 /\ port' = 0 /\ pc' = "sleep" /\ wait' = wait
    BY <1>3 DEF AgentFailed
  <2>2. TypeOK'
    BY <1>1, <2>1, Sizes DEF IInv, TypeOK, Rungs
  <2>3. Grounded'
    BY <2>1, Sizes DEF Grounded, MaxHost
  <2>4. Counted' /\ Aimed'
    BY <2>1 DEF Counted, Aimed
  <2>5. QED
    BY <2>2, <2>3, <2>4 DEF IInv
<1>4. QED
  BY <1>2, <1>3

LEMMA Step == IInv /\ [Next]_vars => IInv'
<1> SUFFICES ASSUME IInv, [Next]_vars PROVE IInv'
  OBVIOUS
<1> USE DEF Goto, place, world
<1>0. /\ TypeOK /\ MaxDoublings \in Nat
      /\ rung = "direct" => (force = None => host < Hosts)
      /\ pc = "resolve" => rung = "direct" /\ force = None
  BY SizesAssumption DEF IInv, Grounded
<1>1. CASE DialForced \/ DialIndexed \/ Resolved
  <2>1. force # None => force \in Target /\ (rung = "ip" => force = Indexed)
    BY <1>0 DEF IInv, TypeOK, Aimed
  <2>2. QED
    BY <1>1, <2>1, IndexedIsTarget, DialStep DEF DialForced, DialIndexed, Resolved
<1>2. CASE Offline \/ NoAgent
  BY <1>0, <1>2, InPlace DEF Offline, NoAgent, TypeOK, IInv, Aimed
<1>3. CASE Resolve
  BY <1>0, <1>3, InPlace DEF Resolve, TypeOK, IInv, Aimed
<1>4. CASE Unresolved
  BY <1>4, UnresolvedStep
<1>5. CASE Connected
  BY <1>0, <1>5, InPlace DEF Connected, TypeOK, IInv, Aimed
<1>6. CASE Lost \/ Declined
  <2>1. target # None /\ target \in Target /\ (rung = "ip" => target = Indexed)
    BY <1>0, <1>6 DEF Lost, Declined, TypeOK, IInv, Aimed
  <2>2. CASE Lost
    BY <1>0, <2>1, <2>2, InPlace DEF Lost, TypeOK
  <2>3. CASE Declined
    BY <1>0, <2>1, <2>3, InPlace DEF Declined, TypeOK
  <2>4. QED
    BY <1>6, <2>2, <2>3
<1>7. CASE Redirected
  BY <1>7, RedirectedStep
<1>8. CASE DialFailed
  BY <1>8, DirectFailedStep, IpFailedStep, AgentFailedStep DEF DialFailed
<1>9. CASE Paused
  BY <1>0, <1>9, InPlace DEF Paused, TypeOK, IInv, Aimed
<1>10. CASE Slept
  <2>1. wait' \in 0..MaxDoublings
    BY <1>0, <1>10 DEF Slept, TypeOK
  <2>2. QED
    BY <1>0, <1>10, <2>1, InPlace DEF Slept, TypeOK, IInv, Aimed
<1>11. CASE DeviceGone \/ CloudConf \/ Calm \/ UNCHANGED vars
  BY <1>0, <1>11, InPlace DEF DeviceGone, CloudConf, Calm, vars, TypeOK, IInv, Aimed
<1>12. QED
  BY <1>1, <1>2, <1>3, <1>4, <1>5, <1>6, <1>7, <1>8, <1>9, <1>10, <1>11 DEF Next, Loop

THEOREM Inductive == Spec => []IInv
<1>1. Init => IInv
  <2> SUFFICES ASSUME Init PROVE IInv
    OBVIOUS
  <2>1. TypeOK
    BY Sizes, SizesAssumption DEF Init, TypeOK, Rungs
  <2>2. Grounded /\ Counted /\ Aimed
    BY Sizes DEF Init, Grounded, Counted, Aimed
  <2>3. QED
    BY <2>1, <2>2 DEF IInv
<1>2. QED
  BY <1>1, Step, PTL DEF Spec

\* The indices, the count and the targets of the loop stay in range, for any numbers of
\* hosts, ports, alternatives and agents.
THEOREM TypeCorrect == Spec => []TypeOK
<1>1. IInv => TypeOK
  BY DEF IInv
<1>2. QED
  BY <1>1, Inductive, PTL

-----------------------------------------------------------------------------
(* The agents are the last resort.                                         *)

\* What sdk_conf.js ships with: no more alternative hosts than hosts, and more than one
\* alternative address.  With more alternative hosts than hosts, names that fail start the
\* round in the middle of the list, and three tries there are enough for the agents.
ShippedSizes == AltHosts <= Hosts /\ AltIps >= 2

Before(s) == s.host < host \/ (s.host = host /\ s.port < port)

\* A round that began beyond the end of the list has not been counted; any other has
\* dialled all that lies before its place.
Swept ==
  rung = "ip" =>
    \/ host >= AltHosts /\ tries = 0
    \/ \A s \in AltServers : Before(s) => s \in tried

\* At the end of the list a round is over that has dialled it all, or one that began there.
LEMMA RoundOver ==
  ASSUME IInv, Swept, DialFailed, rung = "ip", NextHost(AltPorts) >= AltHosts
  PROVE  AltServers \subseteq tried \/ tries = 0
<1>1. pc = "dial" /\ target = At("ip", host, port) /\ target \in tried
  BY DEF DialFailed, IInv, Aimed, Indexed
<1>2. CASE host >= AltHosts /\ tries = 0
  BY <1>2
<1>3. CASE \A s \in AltServers : Before(s) => s \in tried
  <2> SUFFICES ASSUME NEW i \in 0..(AltHosts - 1), NEW j \in 0..(AltPorts - 1)
               PROVE  At("ip", i, j) \in tried
    BY DEF AltServers
  <2>1. At("ip", i, j) \in AltServers /\ At("ip", i, j).host = i /\ At("ip", i, j).port = j
    BY DEF AltServers, At
  <2>2. host \in Nat /\ port \in Nat /\ NextHost(AltPorts) \in {host, host + 1}
        /\ (NextHost(AltPorts) = host + 1 => port + 1 >= AltPorts)
    BY Sizes, NextPlace DEF IInv, TypeOK, NextHost
  <2>3. i < host \/ (i = host /\ j < port) \/ (i = host /\ j = port)
    BY <2>2, Sizes
  <2>4. CASE i = host /\ j = port
    BY <1>1, <2>4
  <2>5. CASE i < host \/ (i = host /\ j < port)
    BY <1>3, <2>1, <2>5 DEF Before
  <2>6. QED
    BY <2>3, <2>4, <2>5
<1>4. QED
  BY <1>2, <1>3 DEF Swept

LEMMA SweptStep ==
  ASSUME ShippedSizes, IInv, Swept, [Next]_vars
  PROVE  Swept'
<1> USE DEF Goto, place, world
<1>1. CASE UNCHANGED <<rung, host, port>> /\ (tries' = tries \/ tries' = 0) /\ tried \subseteq tried'
  BY <1>1 DEF Swept, Before
<1>2. CASE DialForced \/ DialIndexed \/ Resolved
  BY <1>1, <1>2 DEF DialForced, DialIndexed, Resolved, Dial
<1>3. CASE Offline \/ NoAgent \/ Resolve \/ Connected \/ Lost \/ Declined \/ Paused \/ Slept
  BY <1>1, <1>3 DEF Offline, NoAgent, Resolve, Connected, Lost, Declined, Paused, Slept
<1>4. CASE DeviceGone \/ CloudConf \/ Calm \/ UNCHANGED vars
  BY <1>1, <1>4 DEF DeviceGone, CloudConf, Calm, vars
<1>5. CASE Redirected
  BY <1>5 DEF Redirected, Swept
<1>6. CASE Unresolved
  <2>1. rung = "direct" /\ tries' = 0 /\ host' = host + 1 /\ rung' = IF host + 1 >= Hosts THEN "ip" ELSE rung
    BY <1>6 DEF Unresolved, IInv, Grounded
  <2>2. rung' = "ip" => host' >= AltHosts
    BY <2>1, Sizes DEF ShippedSizes, IInv, TypeOK
  <2>3. QED
    BY <2>1, <2>2 DEF Swept
<1>7. ASSUME host' = 0, port' = 0 PROVE Swept'
  <2>1. \A s \in AltServers : s.host >= 0 /\ s.port >= 0
    BY Sizes DEF AltServers, At
  <2>2. \A s \in AltServers : ~ (s.host < 0) /\ ~ (s.port < 0)
    <3>1. \A s \in AltServers : s.host \in Nat /\ s.port \in Nat
      BY Sizes DEF AltServers, At
    <3>2. QED
      BY <3>1
  <2>3. QED
    BY <1>7, <2>2 DEF Swept, Before
<1>8. CASE DialFailed
  <2>1. CASE DirectFailed
    BY <1>7, <2>1 DEF DirectFailed, Restart, Swept
  <2>2. CASE AgentRetry \/ AgentFailed
    BY <2>2 DEF AgentRetry, AgentFailed, Swept
  <2>3. CASE IpFailed
    <3>1. rung = "ip" /\ tried' = tried
      BY <2>3 DEF IpFailed
    <3>2. CASE rung' = "agent" \/ (host' = 0 /\ port' = 0)
      BY <1>7, <3>2 DEF Swept
    <3>3. CASE NextHost(AltPorts) < AltHosts /\ host' = NextHost(AltPorts) /\ port' = NextPort(AltPorts)
      <4>1. host \in Nat /\ port \in Nat /\ AltHosts \in Nat /\ AltPorts \in Nat
            /\ NextHost(AltPorts) \in {host, host + 1} /\ NextPort(AltPorts) \in Nat
        BY Sizes, NextPlace DEF IInv, TypeOK
      <4>2. ~ (host >= AltHosts)
        BY <3>3, <4>1
      <4>3. \A s \in AltServers : Before(s) => s \in tried
        BY <3>1, <4>2 DEF Swept
      <4>4. At("ip", host, port) \in tried
        BY <1>8, <3>1 DEF DialFailed, IInv, Aimed, Indexed
      <4>5. ASSUME NEW i \in 0..(AltHosts - 1), NEW j \in 0..(AltPorts - 1),
                   i < host' \/ (i = host' /\ j < port')
            PROVE  At("ip", i, j) \in tried
        <5>1. At("ip", i, j) \in AltServers /\ At("ip", i, j).host = i /\ At("ip", i, j).port = j
          BY DEF AltServers, At
        <5>2. i < host \/ (i = host /\ j < port) \/ (i = host /\ j = port)
          BY <3>3, <4>1, <4>5 DEF NextHost, NextPort
        <5>3. CASE i = host /\ j = port
          BY <4>4, <5>3
        <5>4. CASE i < host \/ (i = host /\ j < port)
          BY <4>3, <5>1, <5>4 DEF Before
        <5>5. QED
          BY <5>2, <5>3, <5>4
      <4>6. \A s \in AltServers : s.host < host' \/ (s.host = host' /\ s.port < port') => s \in tried
        BY <4>5 DEF AltServers, At
      <4>7. QED
        BY <3>1, <4>6 DEF Swept, Before
    <3>4. QED
      BY <2>3, <3>2, <3>3 DEF IpFailed, Advance, Restart
  <2>4. QED
    BY <1>8, <2>1, <2>2, <2>3 DEF DialFailed
<1>9. QED
  BY <1>2, <1>3, <1>4, <1>5, <1>6, <1>8 DEF Next, Loop

\* With the sizes of sdk_conf.js the loop turns to the agents only when every alternative
\* has been dialled in this climb, whatever successes, redirects, forced retries and name
\* failures came between.
THEOREM AgentsAreLast == ASSUME ShippedSizes PROVE Spec => AlternativesExhausted
<1>1. Init => Swept
  BY DEF Init, Swept
<1>2. IInv /\ Swept /\ [Next]_vars => Swept'
  BY SweptStep
<1>3. IInv /\ Swept /\ [Next]_vars => [rung # "agent" /\ rung' = "agent" => AltServers \subseteq tried]_vars
  <2> SUFFICES ASSUME IInv, Swept, Next, rung # "agent", rung' = "agent" PROVE AltServers \subseteq tried
    OBVIOUS
  <2>1. DialFailed /\ IpFailed
    BY DEF Next, Loop, Offline, DialForced, DialIndexed, NoAgent, Resolve, Resolved, Unresolved, Connected,
           DialFailed, Lost, Redirected, Declined, Paused, Slept, DeviceGone, CloudConf, Calm, Dial, Goto, place,
           DirectFailed, AgentRetry, AgentFailed
  <2>2. rung = "ip" /\ EnoughIps /\ ~ (NextHost(AltPorts) < AltHosts)
    BY <2>1 DEF IpFailed
  <2>3. NextHost(AltPorts) >= AltHosts /\ tries \in Nat
    BY <2>2, Sizes, NextPlace DEF IInv, TypeOK
  <2>4. tries # 0
    BY <2>2, SizesAssumption DEF EnoughIps, ShippedSizes
  <2>5. QED
    BY <2>1, <2>2, <2>3, <2>4, RoundOver
<1>4. QED
  BY <1>1, <1>2, <1>3, Inductive, PTL DEF Spec, AlternativesExhausted
=============================================================================
