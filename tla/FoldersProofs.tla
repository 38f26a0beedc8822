--------------------------- MODULE FoldersProofs ---------------------------
(***************************************************************************)
(* Theorems about the folders that share a Docker daemon, for every number *)
(* of folders, users, names and subnets, every action and every cut.       *)
(*                                                                         *)
(* What an action still has to do is always the rest of one of the five    *)
(* plans of the menu.  The first part of the module reads the plans off    *)
(* once; after it, a state is described by Left(todo[f]), the commands a   *)
(* setup has left until it is done, which is 0 once the setup has let go   *)
(* of the lock and in every other plan, whose end it shares.               *)
(***************************************************************************)
EXTENDS Folders, SequenceTheorems, TLAPS

Op == {"lock", "name", "subnet", "prefix", "tests", "save", "check", "make", "unlock", "start", "attached",
       "stop", "rm", "rm_f", "forget", "build", "renew"}
Entry == Op \X (Kinds \cup {None})
Plans == {setup, deploy, worker_stop, rebuild_deployment, remove_deployment}

\* s is what is left of the plan c.
Rest(s, c) == Len(s) <= Len(c) /\ \A i \in 1..Len(s) : s[i] = c[Len(c) - Len(s) + i]
Planned(s) == s \in Seq(Entry) /\ \E c \in Plans : Rest(s, c)

\* From "lock" to "unlock", a setup has 23 to 15 commands left.
Left(s) == IF Len(s) >= 15 /\ Rest(s, setup) THEN Len(s) ELSE 0

Touching == {"start", "stop", "rm", "rm_f", "renew"}
TestedAt(s, i) == \E j \in 1..(i - 1) : s[j] = Do("check", s[i][2])

(***************************************************************************)
(* The inductive invariant.                                                *)
(***************************************************************************)
Types ==
  /\ obj \in [Objects -> Object \cup {None}] /\ cfg \in [Folder -> Config]
  /\ path \in [Folder -> Folder \cup {None}] /\ mem \in [Folder -> Config]
  /\ open \subseteq Folder /\ orderly \in BOOLEAN /\ user \in [Folder -> Users]
  /\ lock \in [Users -> Folder \cup {None}] /\ test \in [Folder -> [Objects -> Found]]
  /\ DOMAIN todo = Folder /\ \A f \in Folder : Planned(todo[f])
  /\ \A f \in Folder : todo[f] # <<>> => f \in open

\* The lock is held by the setups that have taken it and have not let go of it.
Held ==
  /\ \A u \in Users, f \in Folder : lock[u] = f => u = user[f] /\ Left(todo[f]) \in 15..22
  /\ \A f \in Folder : Left(todo[f]) \in 15..22 => lock[user[f]] = f

\* An object that a test found and that is still there is the tester's own.
ThereIsOwn ==
  \A f \in Folder, o \in Objects : test[f][o] = "there" => Exists(o) /\ obj[o].owner = f

\* What a command will touch has been tested, or will be before.
Tested(f, k) == The(k, mem[f]) \in Objects => test[f][The(k, mem[f])] # "untested"
TouchesTested(f) ==
  \A i \in 1..Len(todo[f]) :
    todo[f][i][1] \in Touching => TestedAt(todo[f], i) \/ Tested(f, todo[f][i][2])
TouchTested == \A f \in Folder : TouchesTested(f)

\* The configuration in the launcher's variables against the one in the file.
Own(f) == cfg[f] # NoConfig /\ cfg[f].owner \in {None, f}
Session ==
  \A f \in Folder :
    /\ f \in open => path[f] # None
    /\ \A g \in Folder : cfg[g].owner = f => path[f] # None
    /\ Left(todo[f]) >= 18 => cfg[f] = NoConfig /\ mem[f].owner = f
    /\ todo[f] # <<>> /\ Left(todo[f]) < 18 => Own(f) /\ mem[f] = [cfg[f] EXCEPT !.owner = f]
    /\ Left(todo[f]) \in 15..21 => mem[f].name \in Names
    /\ Left(todo[f]) \in 15..20 => mem[f].subnet \in Subnets

\* The network of a configuration, from the end of the setup to the removal;
\* before it, nobody else can take the name or the subnet.
Net(f) == Lan(cfg[f]) \in Objects /\ Exists(Lan(cfg[f])) /\ obj[Lan(cfg[f])].owner = f
Reserved ==
  orderly /\ OneUser => \A f \in Folder :
    /\ Own(f) /\ Left(todo[f]) < 16 /\ ~At(f, "forget") => Net(f)
    /\ Left(todo[f]) \in 16..21 => ~Exists(Lan(mem[f]))
    /\ Left(todo[f]) \in 16..20 => Available(mem[f].subnet)

IInv == Types /\ Held /\ ThereIsOwn /\ TouchTested /\ Session /\ Reserved

(***************************************************************************)
(* The plans, command by command.                                          *)
(***************************************************************************)
LEMMA OpNames ==
  /\ "lock" \in Op /\ "name" \in Op /\ "subnet" \in Op /\ "prefix" \in Op /\ "tests" \in Op /\ "save" \in Op
  /\ "check" \in Op /\ "make" \in Op /\ "unlock" \in Op /\ "start" \in Op /\ "attached" \in Op
  /\ "stop" \in Op /\ "rm" \in Op /\ "rm_f" \in Op /\ "forget" \in Op
  /\ "build" \in Op /\ "renew" \in Op
  /\ "net" \in Kinds /\ "router" \in Kinds /\ "worker" \in Kinds /\ "volume" \in Kinds
BY DEF Op, Kinds

LEMMA Entries ==
  /\ \A op \in Op, k \in Kinds : Do(op, k) \in Entry /\ Do(op, k)[1] = op /\ Do(op, k)[2] = k
  /\ \A op \in Op : Step(op) \in Entry /\ Step(op)[1] = op /\ Step(op)[2] = None
BY DEF Do, Step, Entry

\* The commands of a plan made of two parts.
LEMMA Joined ==
  ASSUME NEW s \in Seq(Entry), NEW t \in Seq(Entry)
  PROVE  /\ s \o t \in Seq(Entry) /\ Len(s \o t) = Len(s) + Len(t)
         /\ \A i \in 1..Len(s) : (s \o t)[i] = s[i]
         /\ \A i \in 1..Len(t) : (s \o t)[Len(s) + i] = t[i]
<1>1. /\ s \o t \in Seq(Entry) /\ Len(s \o t) = Len(s) + Len(t)
      /\ \A i \in 1..Len(s) : (s \o t)[i] = s[i]
  BY ConcatProperties
<1>2. ASSUME NEW i \in 1..Len(t) PROVE (s \o t)[Len(s) + i] = t[i]
  <2>1. Len(s) \in Nat /\ Len(t) \in Nat
    OBVIOUS
  <2>2. Len(s) + i \in 1..(Len(s) + Len(t)) /\ Len(s) + i > Len(s) /\ (Len(s) + i) - Len(s) = i
    BY <2>1
  <2>3. QED
    BY <2>1, <2>2, ConcatProperties
<1>3. QED
  BY <1>1, <1>2

LEMMA NetworksTable ==
  /\ networks \in Seq(Entry) /\ Len(networks) = 2
  /\ networks[1] = Do("check", "net") /\ networks[2] = Do("make", "net")
<1>1. Do("check", "net") \in Entry /\ Do("make", "net") \in Entry
  BY Entries, OpNames
<1>2. QED
  BY <1>1 DEF networks

LEMMA StopTable ==
  /\ stop_worker \in Seq(Entry) /\ Len(stop_worker) = 2
  /\ stop_worker[1] = Do("check", "worker") /\ stop_worker[2] = Do("stop", "worker")
<1>1. Do("check", "worker") \in Entry /\ Do("stop", "worker") \in Entry
  BY Entries, OpNames
<1>2. QED
  BY <1>1 DEF stop_worker

LEMMA WorkerStopTable ==
  /\ worker_stop \in Seq(Entry) /\ Len(worker_stop) = 3 /\ worker_stop[1] = Step("save")
  /\ worker_stop[2] = Do("check", "worker") /\ worker_stop[3] = Do("stop", "worker")
<1> DEFINE a == <<Step("save")>>
<1>1. a \in Seq(Entry) /\ Len(a) = 1 /\ a[1] = Step("save")
  BY Entries, OpNames
<1>2. worker_stop = a \o stop_worker
  BY DEF worker_stop
<1> HIDE DEF a
<1>3. /\ worker_stop \in Seq(Entry) /\ Len(worker_stop) = 1 + 2
      /\ \A i \in 1..1 : worker_stop[i] = a[i]
      /\ \A i \in 1..2 : worker_stop[1 + i] = stop_worker[i]
  <2>1. /\ a \o stop_worker \in Seq(Entry) /\ Len(a \o stop_worker) = Len(a) + Len(stop_worker)
        /\ \A i \in 1..Len(a) : (a \o stop_worker)[i] = a[i]
        /\ \A i \in 1..Len(stop_worker) : (a \o stop_worker)[Len(a) + i] = stop_worker[i]
    BY <1>1, StopTable, Joined
  <2>2. Len(a) = 1 /\ Len(stop_worker) = 2 /\ worker_stop = a \o stop_worker
    BY <1>1, StopTable, <1>2
  <2>3. QED
    BY ONLY <2>1, <2>2
<1>4. 1 \in 1..1 /\ 1 \in 1..2 /\ 2 \in 1..2 /\ 1 + 1 = 2 /\ 1 + 2 = 3
  OBVIOUS
<1>5. QED
  BY <1>1, <1>3, <1>4, StopTable

LEMMA RemoveTable ==
  /\ remove_deployment \in Seq(Entry) /\ Len(remove_deployment) = 7
  /\ remove_deployment[1] = Do("check", "worker") /\ remove_deployment[2] = Do("rm_f", "worker")
  /\ remove_deployment[3] = Do("check", "router") /\ remove_deployment[4] = Do("rm_f", "router")
  /\ remove_deployment[5] = Do("check", "net") /\ remove_deployment[6] = Do("rm", "net")
  /\ remove_deployment[7] = Step("forget")
<1>1. /\ Do("check", "worker") \in Entry /\ Do("rm_f", "worker") \in Entry
      /\ Do("check", "router") \in Entry /\ Do("rm_f", "router") \in Entry
      /\ Do("check", "net") \in Entry /\ Do("rm", "net") \in Entry /\ Step("forget") \in Entry
  BY Entries, OpNames
<1>2. QED
  BY <1>1 DEF remove_deployment

LEMMA DeployTable ==
  /\ deploy \in Seq(Entry) /\ Len(deploy) = 14 /\ deploy[1] = Step("build")
  /\ deploy[2] = Do("check", "net") /\ deploy[3] = Do("make", "net")
  /\ deploy[4] = Do("check", "router") /\ deploy[5] = Do("renew", "router")
  /\ deploy[6] = Do("make", "router") /\ deploy[7] = Do("start", "router")
  /\ deploy[8] = Do("check", "worker") /\ deploy[9] = Do("check", "volume")
  /\ deploy[10] = Step("attached") /\ deploy[11] = Do("renew", "worker")
  /\ deploy[12] = Do("make", "volume") /\ deploy[13] = Do("make", "worker")
  /\ deploy[14] = Do("start", "worker")
<1> DEFINE b == <<Step("build")>>
           bn == b \o networks
           a == <<Do("check", "router"), Do("renew", "router"), Do("make", "router"), Do("start", "router"),
                  Do("check", "worker"), Do("check", "volume"), Step("attached"), Do("renew", "worker"),
                  Do("make", "volume"), Do("make", "worker"), Do("start", "worker")>>
<1>1. /\ Do("check", "router") \in Entry /\ Do("renew", "router") \in Entry
      /\ Do("make", "router") \in Entry /\ Do("start", "router") \in Entry
      /\ Do("check", "worker") \in Entry /\ Do("check", "volume") \in Entry
      /\ Step("attached") \in Entry /\ Do("renew", "worker") \in Entry
      /\ Do("make", "volume") \in Entry /\ Do("make", "worker") \in Entry
      /\ Do("start", "worker") \in Entry /\ Step("build") \in Entry
  BY Entries, OpNames
<1>2. /\ a \in Seq(Entry) /\ Len(a) = 11
      /\ a[1] = Do("check", "router") /\ a[2] = Do("renew", "router") /\ a[3] = Do("make", "router")
      /\ a[4] = Do("start", "router") /\ a[5] = Do("check", "worker") /\ a[6] = Do("check", "volume")
      /\ a[7] = Step("attached") /\ a[8] = Do("renew", "worker") /\ a[9] = Do("make", "volume")
      /\ a[10] = Do("make", "worker") /\ a[11] = Do("start", "worker")
  BY <1>1
<1>3. b \in Seq(Entry) /\ Len(b) = 1 /\ b[1] = Step("build")
  BY <1>1
<1>4. bn = b \o networks /\ deploy = bn \o a
  BY DEF deploy
<1> HIDE DEF a, b, bn
<1>5. /\ bn \in Seq(Entry) /\ Len(bn) = 3
      /\ \A i \in 1..1 : bn[i] = b[i]
      /\ \A i \in 1..2 : bn[1 + i] = networks[i]
  <2>1. /\ b \o networks \in Seq(Entry) /\ Len(b \o networks) = Len(b) + Len(networks)
        /\ \A i \in 1..Len(b) : (b \o networks)[i] = b[i]
        /\ \A i \in 1..Len(networks) : (b \o networks)[Len(b) + i] = networks[i]
    BY NetworksTable, <1>3, Joined
  <2>2. Len(b) = 1 /\ Len(networks) = 2 /\ bn = b \o networks
    BY NetworksTable, <1>3, <1>4
  <2>3. /\ bn \in Seq(Entry) /\ Len(bn) = 1 + 2
        /\ \A i \in 1..1 : bn[i] = b[i]
        /\ \A i \in 1..2 : bn[1 + i] = networks[i]
    BY ONLY <2>1, <2>2
  <2>4. QED
    BY <2>3
<1>6. /\ deploy \in Seq(Entry) /\ Len(deploy) = 14
      /\ \A i \in 1..3 : deploy[i] = bn[i]
      /\ \A i \in 1..11 : deploy[3 + i] = a[i]
  <2>1. /\ bn \o a \in Seq(Entry) /\ Len(bn \o a) = Len(bn) + Len(a)
        /\ \A i \in 1..Len(bn) : (bn \o a)[i] = bn[i]
        /\ \A i \in 1..Len(a) : (bn \o a)[Len(bn) + i] = a[i]
    BY <1>5, <1>2, Joined
  <2>2. Len(bn) = 3 /\ Len(a) = 11 /\ deploy = bn \o a
    BY <1>5, <1>2, <1>4
  <2>3. /\ deploy \in Seq(Entry) /\ Len(deploy) = 3 + 11
        /\ \A i \in 1..3 : deploy[i] = bn[i]
        /\ \A i \in 1..11 : deploy[3 + i] = a[i]
    BY ONLY <2>1, <2>2
  <2>4. QED
    BY <2>3
<1>7. /\ 1 \in 1..1 /\ 1 \in 1..2 /\ 2 \in 1..2 /\ 1 \in 1..3 /\ 2 \in 1..3 /\ 3 \in 1..3
      /\ 1 \in 1..11 /\ 2 \in 1..11 /\ 3 \in 1..11 /\ 4 \in 1..11 /\ 5 \in 1..11 /\ 6 \in 1..11
      /\ 7 \in 1..11 /\ 8 \in 1..11 /\ 9 \in 1..11 /\ 10 \in 1..11 /\ 11 \in 1..11
  OBVIOUS
<1>8. /\ 1 + 1 = 2 /\ 1 + 2 = 3
      /\ 3 + 1 = 4 /\ 3 + 2 = 5 /\ 3 + 3 = 6 /\ 3 + 4 = 7 /\ 3 + 5 = 8 /\ 3 + 6 = 9 /\ 3 + 7 = 10
      /\ 3 + 8 = 11 /\ 3 + 9 = 12 /\ 3 + 10 = 13 /\ 3 + 11 = 14
  OBVIOUS
<1>9. deploy[1] = Step("build") /\ deploy[2] = Do("check", "net") /\ deploy[3] = Do("make", "net")
  BY <1>3, <1>5, <1>6, <1>7, <1>8, NetworksTable
<1>10. QED
  BY <1>2, <1>6, <1>7, <1>8, <1>9

LEMMA SetupTable ==
  /\ setup \in Seq(Entry) /\ Len(setup) = 23
  /\ setup[1] = Step("lock") /\ setup[2] = Step("name") /\ setup[3] = Step("subnet")
  /\ setup[4] = Step("prefix") /\ setup[5] = Step("tests") /\ setup[6] = Step("save")
  /\ setup[7] = Do("check", "net") /\ setup[8] = Do("make", "net") /\ setup[9] = Step("unlock")
  /\ \A i \in 1..14 : setup[9 + i] = deploy[i]
<1> DEFINE a == <<Step("lock"), Step("name"), Step("subnet"), Step("prefix"), Step("tests"), Step("save")>>
           b == <<Step("unlock")>>
           ab == a \o networks
           abc == ab \o b
<1>1. /\ Step("lock") \in Entry /\ Step("name") \in Entry /\ Step("subnet") \in Entry
      /\ Step("prefix") \in Entry /\ Step("tests") \in Entry /\ Step("save") \in Entry
      /\ Step("unlock") \in Entry
  BY Entries, OpNames
<1>2. /\ a \in Seq(Entry) /\ Len(a) = 6
      /\ a[1] = Step("lock") /\ a[2] = Step("name") /\ a[3] = Step("subnet")
      /\ a[4] = Step("prefix") /\ a[5] = Step("tests") /\ a[6] = Step("save")
  BY <1>1
<1>3. b \in Seq(Entry) /\ Len(b) = 1 /\ b[1] = Step("unlock")
  BY <1>1
<1>4. ab = a \o networks /\ abc = ab \o b /\ setup = abc \o deploy
  BY DEF setup
<1> HIDE DEF a, b, ab, abc
<1>5. /\ ab \in Seq(Entry) /\ Len(ab) = 8
      /\ \A i \in 1..6 : ab[i] = a[i]
      /\ \A i \in 1..2 : ab[6 + i] = networks[i]
  <2>1. /\ a \o networks \in Seq(Entry) /\ Len(a \o networks) = Len(a) + Len(networks)
        /\ \A i \in 1..Len(a) : (a \o networks)[i] = a[i]
        /\ \A i \in 1..Len(networks) : (a \o networks)[Len(a) + i] = networks[i]
    BY <1>2, NetworksTable, Joined
  <2>2. Len(a) = 6 /\ Len(networks) = 2 /\ ab = a \o networks
    BY <1>2, NetworksTable, <1>4
  <2>3. /\ ab \in Seq(Entry) /\ Len(ab) = 6 + 2
        /\ \A i \in 1..6 : ab[i] = a[i]
        /\ \A i \in 1..2 : ab[6 + i] = networks[i]
    BY ONLY <2>1, <2>2
  <2>4. QED
    BY <2>3
<1>6. /\ abc \in Seq(Entry) /\ Len(abc) = 9
      /\ \A i \in 1..8 : abc[i] = ab[i]
      /\ \A i \in 1..1 : abc[8 + i] = b[i]
  <2>1. /\ ab \o b \in Seq(Entry) /\ Len(ab \o b) = Len(ab) + Len(b)
        /\ \A i \in 1..Len(ab) : (ab \o b)[i] = ab[i]
        /\ \A i \in 1..Len(b) : (ab \o b)[Len(ab) + i] = b[i]
    BY <1>5, <1>3, Joined
  <2>2. Len(ab) = 8 /\ Len(b) = 1 /\ abc = ab \o b
    BY <1>5, <1>3, <1>4
  <2>3. /\ abc \in Seq(Entry) /\ Len(abc) = 8 + 1
        /\ \A i \in 1..8 : abc[i] = ab[i]
        /\ \A i \in 1..1 : abc[8 + i] = b[i]
    BY ONLY <2>1, <2>2
  <2>4. QED
    BY <2>3
<1>7. /\ setup \in Seq(Entry) /\ Len(setup) = 23
      /\ \A i \in 1..9 : setup[i] = abc[i]
      /\ \A i \in 1..14 : setup[9 + i] = deploy[i]
  <2>1. /\ abc \o deploy \in Seq(Entry) /\ Len(abc \o deploy) = Len(abc) + Len(deploy)
        /\ \A i \in 1..Len(abc) : (abc \o deploy)[i] = abc[i]
        /\ \A i \in 1..Len(deploy) : (abc \o deploy)[Len(abc) + i] = deploy[i]
    BY <1>6, DeployTable, Joined
  <2>2. Len(abc) = 9 /\ Len(deploy) = 14 /\ setup = abc \o deploy
    BY <1>6, DeployTable, <1>4
  <2>3. /\ setup \in Seq(Entry) /\ Len(setup) = 9 + 14
        /\ \A i \in 1..9 : setup[i] = abc[i]
        /\ \A i \in 1..14 : setup[9 + i] = deploy[i]
    BY ONLY <2>1, <2>2
  <2>4. QED
    BY <2>3
<1>8. /\ 1 \in 1..9 /\ 2 \in 1..9 /\ 3 \in 1..9 /\ 4 \in 1..9 /\ 5 \in 1..9 /\ 6 \in 1..9
      /\ 7 \in 1..9 /\ 8 \in 1..9 /\ 9 \in 1..9
      /\ 1 \in 1..8 /\ 2 \in 1..8 /\ 3 \in 1..8 /\ 4 \in 1..8 /\ 5 \in 1..8 /\ 6 \in 1..8
      /\ 7 \in 1..8 /\ 8 \in 1..8
      /\ 1 \in 1..6 /\ 2 \in 1..6 /\ 3 \in 1..6 /\ 4 \in 1..6 /\ 5 \in 1..6 /\ 6 \in 1..6
      /\ 1 \in 1..2 /\ 2 \in 1..2 /\ 6 + 1 = 7 /\ 6 + 2 = 8 /\ 1 \in 1..1 /\ 8 + 1 = 9
  OBVIOUS
<1>9. QED
  BY <1>2, <1>3, <1>5, <1>6, <1>7, <1>8, NetworksTable

LEMMA RebuildTable ==
  /\ rebuild_deployment \in Seq(Entry) /\ Len(rebuild_deployment) = 20
  /\ rebuild_deployment[1] = Do("check", "worker") /\ rebuild_deployment[2] = Do("stop", "worker")
  /\ rebuild_deployment[3] = Step("save") /\ rebuild_deployment[4] = Do("rm", "worker")
  /\ rebuild_deployment[5] = Do("check", "router") /\ rebuild_deployment[6] = Do("rm_f", "router")
  /\ \A i \in 1..14 : rebuild_deployment[6 + i] = deploy[i]
<1> DEFINE a == <<Step("save"), Do("rm", "worker"), Do("check", "router"), Do("rm_f", "router")>>
           sa == stop_worker \o a
<1>1. /\ Step("save") \in Entry /\ Do("rm", "worker") \in Entry /\ Do("check", "router") \in Entry
      /\ Do("rm_f", "router") \in Entry
  BY Entries, OpNames
<1>2. /\ a \in Seq(Entry) /\ Len(a) = 4 /\ a[1] = Step("save")
      /\ a[2] = Do("rm", "worker") /\ a[3] = Do("check", "router") /\ a[4] = Do("rm_f", "router")
  BY <1>1
<1>3. sa = stop_worker \o a /\ rebuild_deployment = sa \o deploy
  BY DEF rebuild_deployment
<1> HIDE DEF a, sa
<1>4. /\ sa \in Seq(Entry) /\ Len(sa) = 6
      /\ \A i \in 1..2 : sa[i] = stop_worker[i]
      /\ \A i \in 1..4 : sa[2 + i] = a[i]
  <2>1. /\ stop_worker \o a \in Seq(Entry) /\ Len(stop_worker \o a) = Len(stop_worker) + Len(a)
        /\ \A i \in 1..Len(stop_worker) : (stop_worker \o a)[i] = stop_worker[i]
        /\ \A i \in 1..Len(a) : (stop_worker \o a)[Len(stop_worker) + i] = a[i]
    BY StopTable, <1>2, Joined
  <2>2. Len(stop_worker) = 2 /\ Len(a) = 4 /\ sa = stop_worker \o a
    BY StopTable, <1>2, <1>3
  <2>3. /\ sa \in Seq(Entry) /\ Len(sa) = 2 + 4
        /\ \A i \in 1..2 : sa[i] = stop_worker[i]
        /\ \A i \in 1..4 : sa[2 + i] = a[i]
    BY ONLY <2>1, <2>2
  <2>4. QED
    BY <2>3
<1>5. /\ rebuild_deployment \in Seq(Entry) /\ Len(rebuild_deployment) = 20
      /\ \A i \in 1..6 : rebuild_deployment[i] = sa[i]
      /\ \A i \in 1..14 : rebuild_deployment[6 + i] = deploy[i]
  <2>1. /\ sa \o deploy \in Seq(Entry) /\ Len(sa \o deploy) = Len(sa) + Len(deploy)
        /\ \A i \in 1..Len(sa) : (sa \o deploy)[i] = sa[i]
        /\ \A i \in 1..Len(deploy) : (sa \o deploy)[Len(sa) + i] = deploy[i]
    BY <1>4, DeployTable, Joined
  <2>2. Len(sa) = 6 /\ Len(deploy) = 14 /\ rebuild_deployment = sa \o deploy
    BY <1>4, DeployTable, <1>3
  <2>3. /\ rebuild_deployment \in Seq(Entry) /\ Len(rebuild_deployment) = 6 + 14
        /\ \A i \in 1..6 : rebuild_deployment[i] = sa[i]
        /\ \A i \in 1..14 : rebuild_deployment[6 + i] = deploy[i]
    BY ONLY <2>1, <2>2
  <2>4. QED
    BY <2>3
<1>6. /\ 1 \in 1..6 /\ 2 \in 1..6 /\ 3 \in 1..6 /\ 4 \in 1..6 /\ 5 \in 1..6 /\ 6 \in 1..6
      /\ 1 \in 1..2 /\ 2 \in 1..2 /\ 1 \in 1..4 /\ 2 \in 1..4 /\ 3 \in 1..4 /\ 4 \in 1..4
      /\ 2 + 1 = 3 /\ 2 + 2 = 4 /\ 2 + 3 = 5 /\ 2 + 4 = 6
  OBVIOUS
<1>7. QED
  BY <1>2, <1>4, <1>5, <1>6, StopTable

LEMMA DeploySeats ==
  ASSUME NEW c, NEW n \in Nat, \A i \in 1..14 : c[n + i] = deploy[i]
  PROVE  /\ c[n + 1] = Step("build") /\ c[n + 2] = Do("check", "net")
         /\ c[n + 3] = Do("make", "net") /\ c[n + 4] = Do("check", "router")
         /\ c[n + 5] = Do("renew", "router") /\ c[n + 6] = Do("make", "router")
         /\ c[n + 7] = Do("start", "router") /\ c[n + 8] = Do("check", "worker")
         /\ c[n + 9] = Do("check", "volume") /\ c[n + 10] = Step("attached")
         /\ c[n + 11] = Do("renew", "worker") /\ c[n + 12] = Do("make", "volume")
         /\ c[n + 13] = Do("make", "worker") /\ c[n + 14] = Do("start", "worker")
<1>1. /\ 1 \in 1..14 /\ 2 \in 1..14 /\ 3 \in 1..14 /\ 4 \in 1..14 /\ 5 \in 1..14 /\ 6 \in 1..14
      /\ 7 \in 1..14 /\ 8 \in 1..14 /\ 9 \in 1..14 /\ 10 \in 1..14 /\ 11 \in 1..14 /\ 12 \in 1..14
      /\ 13 \in 1..14 /\ 14 \in 1..14
  OBVIOUS
<1>2. QED
  BY <1>1, DeployTable, Zenon

LEMMA SetupEnd ==
  /\ setup[10] = Step("build") /\ setup[11] = Do("check", "net")
  /\ setup[12] = Do("make", "net") /\ setup[13] = Do("check", "router")
  /\ setup[14] = Do("renew", "router") /\ setup[15] = Do("make", "router")
  /\ setup[16] = Do("start", "router") /\ setup[17] = Do("check", "worker")
  /\ setup[18] = Do("check", "volume") /\ setup[19] = Step("attached")
  /\ setup[20] = Do("renew", "worker") /\ setup[21] = Do("make", "volume")
  /\ setup[22] = Do("make", "worker") /\ setup[23] = Do("start", "worker")
<1>1. /\ setup[9 + 1] = Step("build") /\ setup[9 + 2] = Do("check", "net")
      /\ setup[9 + 3] = Do("make", "net") /\ setup[9 + 4] = Do("check", "router")
      /\ setup[9 + 5] = Do("renew", "router") /\ setup[9 + 6] = Do("make", "router")
      /\ setup[9 + 7] = Do("start", "router") /\ setup[9 + 8] = Do("check", "worker")
      /\ setup[9 + 9] = Do("check", "volume") /\ setup[9 + 10] = Step("attached")
      /\ setup[9 + 11] = Do("renew", "worker") /\ setup[9 + 12] = Do("make", "volume")
      /\ setup[9 + 13] = Do("make", "worker") /\ setup[9 + 14] = Do("start", "worker")
  BY SetupTable, DeploySeats, 9 \in Nat, Zenon
<1>2. QED
  BY <1>1

LEMMA RebuildEnd ==
  /\ rebuild_deployment[7] = Step("build")
  /\ rebuild_deployment[8] = Do("check", "net")
  /\ rebuild_deployment[9] = Do("make", "net")
  /\ rebuild_deployment[10] = Do("check", "router")
  /\ rebuild_deployment[11] = Do("renew", "router")
  /\ rebuild_deployment[12] = Do("make", "router")
  /\ rebuild_deployment[13] = Do("start", "router")
  /\ rebuild_deployment[14] = Do("check", "worker")
  /\ rebuild_deployment[15] = Do("check", "volume")
  /\ rebuild_deployment[16] = Step("attached")
  /\ rebuild_deployment[17] = Do("renew", "worker")
  /\ rebuild_deployment[18] = Do("make", "volume")
  /\ rebuild_deployment[19] = Do("make", "worker")
  /\ rebuild_deployment[20] = Do("start", "worker")
<1> DEFINE r == rebuild_deployment
<1>1. /\ r[6 + 1] = Step("build") /\ r[6 + 2] = Do("check", "net")
      /\ r[6 + 3] = Do("make", "net") /\ r[6 + 4] = Do("check", "router")
      /\ r[6 + 5] = Do("renew", "router") /\ r[6 + 6] = Do("make", "router")
      /\ r[6 + 7] = Do("start", "router") /\ r[6 + 8] = Do("check", "worker")
      /\ r[6 + 9] = Do("check", "volume") /\ r[6 + 10] = Step("attached")
      /\ r[6 + 11] = Do("renew", "worker") /\ r[6 + 12] = Do("make", "volume")
      /\ r[6 + 13] = Do("make", "worker") /\ r[6 + 14] = Do("start", "worker")
  BY RebuildTable, DeploySeats, 6 \in Nat, Zenon
<1>2. QED
  BY <1>1

LEMMA PlanLengths ==
  /\ Len(setup) = 23 /\ Len(deploy) = 14 /\ Len(worker_stop) = 3
  /\ Len(rebuild_deployment) = 20 /\ Len(remove_deployment) = 7
BY SetupTable, DeployTable, WorkerStopTable, RebuildTable, RemoveTable

LEMMA PlansAre ==
  /\ Plans = {setup, deploy, worker_stop, rebuild_deployment, remove_deployment}
  /\ \A c \in Plans : c \in Seq(Entry) /\ Rest(c, c) /\ Planned(c)
<1>1. ASSUME NEW c \in Plans PROVE c \in Seq(Entry)
  BY SetupTable, DeployTable, WorkerStopTable, RebuildTable, RemoveTable DEF Plans
<1>2. ASSUME NEW c \in Seq(Entry) PROVE Rest(c, c)
  BY DEF Rest
<1>3. QED
  BY <1>1, <1>2, Zenon DEF Plans, Planned

LEMMA EmptyPlanned == Planned(<<>>) /\ Left(<<>>) = 0
<1>1. <<>> \in Seq(Entry) /\ Len(<<>>) = 0
  OBVIOUS
<1>2. Rest(<<>>, setup)
  BY <1>1, SetupTable DEF Rest
<1>3. setup \in Plans
  BY DEF Plans
<1>4. Left(<<>>) = 0
  BY <1>1 DEF Left
<1>5. QED
  BY <1>1, <1>2, <1>3, <1>4, Zenon DEF Planned

(***************************************************************************)
(* What is left of a plan.                                                 *)
(***************************************************************************)
LEMMA RestSteps ==
  ASSUME NEW s \in Seq(Entry), NEW c \in Seq(Entry), Rest(s, c), s # <<>>
  PROVE  /\ Len(s) \in 1..Len(c) /\ Head(s) = c[Len(c) - Len(s) + 1]
         /\ Tail(s) \in Seq(Entry) /\ Len(Tail(s)) = Len(s) - 1 /\ Rest(Tail(s), c)
<1>1. /\ Len(s) \in Nat /\ Len(c) \in Nat /\ Len(s) >= 1 /\ Head(s) = s[1]
      /\ Tail(s) \in Seq(Entry) /\ Len(Tail(s)) = Len(s) - 1
      /\ \A i \in 1..Len(Tail(s)) : Tail(s)[i] = s[i + 1]
  OBVIOUS
<1>2. Head(s) = c[Len(c) - Len(s) + 1]
  BY <1>1 DEF Rest
<1>3. ASSUME NEW i \in 1..Len(Tail(s)) PROVE Tail(s)[i] = c[Len(c) - Len(Tail(s)) + i]
  <2>1. i + 1 \in 1..Len(s) /\ Len(c) - Len(s) + (i + 1) = Len(c) - Len(Tail(s)) + i
    BY <1>1
  <2>2. s[i + 1] = c[Len(c) - Len(s) + (i + 1)]
    BY <2>1, Zenon DEF Rest
  <2>3. QED
    BY <2>1, <2>2, <1>1
<1>4. QED
  BY <1>1, <1>2, <1>3 DEF Rest

\* The one test of a plan: fifteen commands before its end, a setup unlocks.
LEMMA LeftOf ==
  ASSUME NEW s \in Seq(Entry), NEW c \in Plans, Rest(s, c)
  PROVE  Left(s) = IF c = setup /\ Len(s) >= 15 THEN Len(s) ELSE 0
<1>1. Len(s) \in Nat
  OBVIOUS
<1>2. CASE c = setup
  BY <1>2 DEF Left
<1>3. CASE c # setup /\ Len(s) < 15
  BY <1>1, <1>3 DEF Left
<1>4. CASE c # setup /\ Len(s) >= 15
  <2>1. c = rebuild_deployment
    <3>1. Len(c) \notin {14, 3, 7}
      <4>1. Len(s) <= Len(c)
        BY DEF Rest
      <4>2. Len(c) \in Nat
        <5>1. c \in Seq(Entry)
          BY PlansAre
        <5>2. QED
          BY <5>1
      <4>3. Len(c) >= 15
        BY <4>1, <4>2, <1>1, <1>4
      <4>4. \A m \in Nat : m >= 15 => m \notin {14, 3, 7}
        OBVIOUS
      <4>5. QED
        BY <4>2, <4>3, <4>4, Zenon
    <3>2. c \in {setup, deploy, worker_stop, rebuild_deployment, remove_deployment}
      BY PlansAre
    <3>3. c # deploy /\ c # worker_stop /\ c # remove_deployment
      BY <3>1, PlanLengths, Zenon
    <3>4. QED
      BY <3>2, <3>3, <1>4
  <2>2. Len(s) - 14 \in 1..Len(s) /\ 20 - Len(s) + (Len(s) - 14) = 6 /\ 23 - Len(s) + (Len(s) - 14) = 9
    BY <1>1, <1>4
  <2>3. s[Len(s) - 14] = Do("rm_f", "router")
    BY <2>1, <2>2, RebuildTable DEF Rest
  <2>4. ASSUME Rest(s, setup) PROVE s[Len(s) - 14] = Step("unlock")
    <3>1. s[Len(s) - 14] = setup[Len(setup) - Len(s) + (Len(s) - 14)]
      BY <2>2, <2>4, Zenon DEF Rest
    <3>2. QED
      BY <3>1, <2>2, SetupTable, Zenon
  <2>5. Do("rm_f", "router") # Step("unlock")
    BY Entries, OpNames
  <2>6. QED
    BY <1>4, <2>3, <2>4, <2>5 DEF Left
<1>5. QED
  BY <1>1, <1>2, <1>3, <1>4

LEMMA PlannedTail ==
  ASSUME NEW s, Planned(s), s # <<>>
  PROVE  /\ Planned(Tail(s)) /\ Len(Tail(s)) = Len(s) - 1
         /\ Left(Tail(s)) = IF Left(s) > 15 THEN Left(s) - 1 ELSE 0
<1>1. s \in Seq(Entry)
  BY DEF Planned
<1>2. PICK c \in Plans : Rest(s, c)
  BY DEF Planned
<1>3. c \in Seq(Entry)
  BY PlansAre
<1>4. /\ Len(s) \in 1..Len(c) /\ Tail(s) \in Seq(Entry) /\ Len(Tail(s)) = Len(s) - 1
      /\ Rest(Tail(s), c)
  BY <1>1, <1>2, <1>3, RestSteps
<1>5. Left(s) = IF c = setup /\ Len(s) >= 15 THEN Len(s) ELSE 0
  BY <1>1, <1>2, LeftOf
<1>6. Left(Tail(s)) = IF c = setup /\ Len(Tail(s)) >= 15 THEN Len(Tail(s)) ELSE 0
  BY <1>4, LeftOf
<1>7. Len(s) \in Nat
  BY <1>1
<1>8. QED
  BY <1>4, <1>5, <1>6, <1>7 DEF Planned

LEMMA LeftRange ==
  ASSUME NEW s, Planned(s)
  PROVE  Left(s) \in {0} \cup 15..23 /\ (s = <<>> => Left(s) = 0)
<1>1. s \in Seq(Entry)
  BY DEF Planned
<1>2. Len(s) \in Nat
  BY <1>1
<1>3. QED
  <2>1. Len(s) >= 15 /\ Rest(s, setup) => Len(s) \in 15..23
    <3>1. Rest(s, setup) => Len(s) <= Len(setup)
      BY DEF Rest
    <3>2. QED
      <4>1. \A n \in Nat : n >= 15 /\ n <= 23 => n \in 15..23
        OBVIOUS
      <4>2. QED
        BY <1>2, <3>1, <4>1, PlanLengths, Zenon
  <2>2. Left(s) \in {0} \cup 15..23
    BY <2>1 DEF Left
  <2>3. QED
    BY <2>2, EmptyPlanned

LEMMA LeftBegins ==
  /\ Left(setup) = 23 /\ Left(deploy) = 0 /\ Left(worker_stop) = 0
  /\ Left(rebuild_deployment) = 0 /\ Left(remove_deployment) = 0
<1>1. \A c \in Plans : Left(c) = IF c = setup /\ Len(c) >= 15 THEN Len(c) ELSE 0
  BY PlansAre, LeftOf
<1>2. rebuild_deployment # setup /\ deploy # setup /\ worker_stop # setup /\ remove_deployment # setup
  BY PlanLengths
<1>3. QED
  <2>1. /\ setup \in Plans /\ deploy \in Plans /\ worker_stop \in Plans
        /\ rebuild_deployment \in Plans /\ remove_deployment \in Plans
    BY DEF Plans
  <2>2. /\ Left(deploy) = 0 /\ Left(worker_stop) = 0
        /\ Left(rebuild_deployment) = 0 /\ Left(remove_deployment) = 0
    BY <1>1, <1>2, <2>1, Zenon
  <2>3. Left(setup) = 23
    <3>1. Left(setup) = IF setup = setup /\ Len(setup) >= 15 THEN Len(setup) ELSE 0
      BY <1>1, <2>1, Zenon
    <3>2. QED
      BY <3>1, PlanLengths
  <2>4. QED
    BY <2>2, <2>3

\* While Left counts, the command that lets go of the lock is still to come.
LEMMA UnlockComes ==
  ASSUME NEW s, Planned(s), Left(s) # 0
  PROVE  \E i \in DOMAIN s : s[i] = Step("unlock")
<1>1. s \in Seq(Entry) /\ Len(s) >= 15 /\ Rest(s, setup)
  BY DEF Planned, Left
<1>2. Len(s) \in Nat /\ DOMAIN s = 1..Len(s)
  BY <1>1
<1>3. Len(s) - 14 \in 1..Len(s) /\ 23 - Len(s) + (Len(s) - 14) = 9
  BY <1>1, <1>2
<1>4. s[Len(s) - 14] = Step("unlock")
  BY <1>1, <1>3, SetupTable DEF Rest
<1>5. QED
  BY <1>2, <1>3, <1>4

\* The command at the head of a plan, and what Left says of it.
InDeploy(e) ==
  \/ e = Step("build") \/ e = Do("check", "net") \/ e = Do("make", "net") \/ e = Do("check", "router")
  \/ e = Do("renew", "router") \/ e = Do("renew", "worker") \/ e = Do("make", "router") \/ e = Do("start", "router") \/ e = Do("check", "worker")
  \/ e = Do("check", "volume") \/ e = Step("attached") \/ e = Do("make", "volume")
  \/ e = Do("make", "worker") \/ e = Do("start", "worker")
InSetup(s) ==
  \/ Left(s) = 23 /\ Head(s) = Step("lock")
  \/ Left(s) = 22 /\ Head(s) = Step("name")
  \/ Left(s) = 21 /\ Head(s) = Step("subnet")
  \/ Left(s) = 20 /\ Head(s) = Step("prefix")
  \/ Left(s) = 19 /\ Head(s) = Step("tests")
  \/ Left(s) = 18 /\ Head(s) = Step("save")
  \/ Left(s) = 17 /\ Head(s) = Do("check", "net")
  \/ Left(s) = 16 /\ Head(s) = Do("make", "net")
  \/ Left(s) = 15 /\ Head(s) = Step("unlock")
InOther(e) ==
  \/ e = Step("save") \/ e = Do("stop", "worker") \/ e = Do("rm", "worker") \/ e = Do("rm_f", "router")
  \/ e = Do("rm_f", "worker")
AtEnd(s) ==
  \/ Head(s) = Do("rm", "net") /\ Tail(s) # <<>> /\ Head(Tail(s)) = Step("forget")
  \/ Head(s) = Step("forget") /\ Tail(s) = <<>>

LEMMA HeadOfSetup ==
  ASSUME NEW s \in Seq(Entry), Rest(s, setup), s # <<>>
  PROVE  InSetup(s) \/ (Left(s) = 0 /\ InDeploy(Head(s)))
<1> DEFINE k == 23 - Len(s) + 1
<1>1. Len(s) \in 1..23 /\ Head(s) = setup[k]
  <2>1. setup \in Seq(Entry) /\ Len(setup) = 23
    BY SetupTable
  <2>2. Len(s) \in 1..Len(setup) /\ Head(s) = setup[Len(setup) - Len(s) + 1]
    BY <2>1, RestSteps, Zenon
  <2>3. QED
    BY <2>1, <2>2, Zenon
<1>2. Left(s) = IF Len(s) >= 15 THEN Len(s) ELSE 0
  BY LeftOf DEF Plans
<1>3. k \in 1..23 /\ (k <= 9 => Left(s) = 24 - k) /\ (k > 9 => Left(s) = 0)
  <2>1. \A n \in 1..23 :
          /\ 23 - n + 1 \in 1..23
          /\ 23 - n + 1 <= 9 => n >= 15 /\ n = 24 - (23 - n + 1)
          /\ 23 - n + 1 > 9 => ~(n >= 15)
    OBVIOUS
  <2>2. QED
    BY <2>1, <1>1, <1>2, Zenon
<1> HIDE DEF k
<1>4. CASE k <= 9
  <2>1. k = 1 \/ k = 2 \/ k = 3 \/ k = 4 \/ k = 5 \/ k = 6 \/ k = 7 \/ k = 8 \/ k = 9
    BY <1>3, <1>4
  <2>2. /\ 24 - 1 = 23 /\ 24 - 2 = 22 /\ 24 - 3 = 21 /\ 24 - 4 = 20 /\ 24 - 5 = 19
        /\ 24 - 6 = 18 /\ 24 - 7 = 17 /\ 24 - 8 = 16 /\ 24 - 9 = 15
    OBVIOUS
  <2>3. Left(s) = 24 - k
    BY <1>3, <1>4, Zenon
  <2>4. CASE k = 1
    <3>1. Left(s) = 23 /\ Head(s) = Step("lock")
      BY <2>4, <2>2, <2>3, <1>1, SetupTable, Zenon
    <3>2. QED
      BY <3>1, Zenon DEF InSetup
  <2>5. CASE k = 2
    <3>1. Left(s) = 22 /\ Head(s) = Step("name")
      BY <2>5, <2>2, <2>3, <1>1, SetupTable, Zenon
    <3>2. QED
      BY <3>1, Zenon DEF InSetup
  <2>6. CASE k = 3
    <3>1. Left(s) = 21 /\ Head(s) = Step("subnet")
      BY <2>6, <2>2, <2>3, <1>1, SetupTable, Zenon
    <3>2. QED
      BY <3>1, Zenon DEF InSetup
  <2>7. CASE k = 4
    <3>1. Left(s) = 20 /\ Head(s) = Step("prefix")
      BY <2>7, <2>2, <2>3, <1>1, SetupTable, Zenon
    <3>2. QED
      BY <3>1, Zenon DEF InSetup
  <2>8. CASE k = 5
    <3>1. Left(s) = 19 /\ Head(s) = Step("tests")
      BY <2>8, <2>2, <2>3, <1>1, SetupTable, Zenon
    <3>2. QED
      BY <3>1, Zenon DEF InSetup
  <2>9. CASE k = 6
    <3>1. Left(s) = 18 /\ Head(s) = Step("save")
      BY <2>9, <2>2, <2>3, <1>1, SetupTable, Zenon
    <3>2. QED
      BY <3>1, Zenon DEF InSetup
  <2>10. CASE k = 7
    <3>1. Left(s) = 17 /\ Head(s) = Do("check", "net")
      BY <2>10, <2>2, <2>3, <1>1, SetupTable, Zenon
    <3>2. QED
      BY <3>1, Zenon DEF InSetup
  <2>11. CASE k = 8
    <3>1. Left(s) = 16 /\ Head(s) = Do("make", "net")
      BY <2>11, <2>2, <2>3, <1>1, SetupTable, Zenon
    <3>2. QED
      BY <3>1, Zenon DEF InSetup
  <2>12. CASE k = 9
    <3>1. Left(s) = 15 /\ Head(s) = Step("unlock")
      BY <2>12, <2>2, <2>3, <1>1, SetupTable, Zenon
    <3>2. QED
      BY <3>1, Zenon DEF InSetup
  <2>13. QED
    BY <2>1, <2>4, <2>5, <2>6, <2>7, <2>8, <2>9, <2>10, <2>11, <2>12, Zenon
<1>5. CASE k > 9
  <2>1. \/ k = 10 \/ k = 11 \/ k = 12 \/ k = 13 \/ k = 14 \/ k = 15 \/ k = 16 \/ k = 17
        \/ k = 18 \/ k = 19 \/ k = 20 \/ k = 21 \/ k = 22 \/ k = 23
    BY <1>3, <1>5
  <2>2. InDeploy(Head(s))
    BY <2>1, <1>1, SetupEnd, ZenonT(60) DEF InDeploy
  <2>3. QED
    BY <2>2, <1>3, <1>5
<1>6. QED
  BY <1>3, <1>4, <1>5

LEMMA HeadOfOthers ==
  ASSUME NEW s \in Seq(Entry), NEW c \in Plans, c # setup, Rest(s, c), s # <<>>
  PROVE  Left(s) = 0 /\ (InDeploy(Head(s)) \/ InOther(Head(s)) \/ AtEnd(s))
<1> DEFINE k == Len(c) - Len(s) + 1
<1>1. /\ Len(s) \in 1..Len(c) /\ Head(s) = c[k]
      /\ Tail(s) \in Seq(Entry) /\ Len(Tail(s)) = Len(s) - 1 /\ Rest(Tail(s), c)
  BY PlansAre, RestSteps, Zenon
<1>2. Left(s) = 0
  BY LeftOf
<1>3. CASE c = deploy
  <2>1. k \in 1..14
    <3>1. Len(c) = 14
      BY <1>3, PlanLengths
    <3>2. \A n \in 1..14 : 14 - n + 1 \in 1..14
      OBVIOUS
    <3>3. QED
      BY <1>1, <3>1, <3>2, Zenon
  <2> HIDE DEF k
  <2>2. \/ k = 1 \/ k = 2 \/ k = 3 \/ k = 4 \/ k = 5 \/ k = 6 \/ k = 7 \/ k = 8 \/ k = 9
        \/ k = 10 \/ k = 11 \/ k = 12 \/ k = 13 \/ k = 14
    BY <2>1
  <2>3. InDeploy(Head(s))
    BY <2>2, <1>1, <1>3, DeployTable, ZenonT(60) DEF InDeploy
  <2>4. QED
    BY <1>2, <2>3
<1>4. CASE c = worker_stop
  <2>1. k \in 1..3
    <3>1. Len(c) = 3
      BY <1>4, PlanLengths
    <3>2. \A n \in 1..3 : 3 - n + 1 \in 1..3
      OBVIOUS
    <3>3. QED
      BY <1>1, <3>1, <3>2, Zenon
  <2> HIDE DEF k
  <2>2. k = 1 \/ k = 2 \/ k = 3
    BY <2>1
  <2>3. InDeploy(Head(s)) \/ InOther(Head(s))
    BY <2>2, <1>1, <1>4, WorkerStopTable, Zenon DEF InDeploy, InOther
  <2>4. QED
    BY <1>2, <2>3
<1>5. CASE c = rebuild_deployment
  <2>1. k \in 1..20
    <3>1. Len(c) = 20
      BY <1>5, PlanLengths
    <3>2. \A n \in 1..20 : 20 - n + 1 \in 1..20
      OBVIOUS
    <3>3. QED
      BY <1>1, <3>1, <3>2, Zenon
  <2> HIDE DEF k
  <2>2. \/ k = 1 \/ k = 2 \/ k = 3 \/ k = 4 \/ k = 5 \/ k = 6 \/ k = 7 \/ k = 8 \/ k = 9
        \/ k = 10 \/ k = 11 \/ k = 12 \/ k = 13 \/ k = 14 \/ k = 15 \/ k = 16 \/ k = 17
        \/ k = 18 \/ k = 19 \/ k = 20
    BY <2>1
  <2>3. InDeploy(Head(s)) \/ InOther(Head(s))
    BY <2>2, <1>1, <1>5, RebuildTable, RebuildEnd, ZenonT(60) DEF InDeploy, InOther
  <2>4. QED
    BY <1>2, <2>3
<1>6. CASE c = remove_deployment
  <2>1. Len(c) = 7 /\ Len(s) \in 1..7 /\ k = 8 - Len(s) /\ k \in 1..7
    <3>1. Len(c) = 7
      BY <1>6, PlanLengths
    <3>2. \A n \in 1..7 : 7 - n + 1 = 8 - n /\ 7 - n + 1 \in 1..7
      OBVIOUS
    <3>3. QED
      BY <1>1, <3>1, <3>2, Zenon
  <2> HIDE DEF k
  <2>2. k = 1 \/ k = 2 \/ k = 3 \/ k = 4 \/ k = 5 \/ k = 6 \/ k = 7
    BY <2>1
  <2>3. CASE k # 6 /\ k # 7
    <3>1. InDeploy(Head(s)) \/ InOther(Head(s))
      BY <2>2, <2>3, <1>1, <1>6, RemoveTable, Zenon DEF InDeploy, InOther
    <3>2. QED
      BY <3>1, <1>2
  <2>4. CASE k = 6
    <3>1. Head(s) = Do("rm", "net")
      BY <2>4, <1>1, <1>6, RemoveTable, Zenon
    <3>2. Len(Tail(s)) = 1 /\ Tail(s) # <<>>
      <4>1. \A n \in 1..7 : 8 - n = 6 => n - 1 = 1
        OBVIOUS
      <4>2. Len(Tail(s)) = 1
        BY <2>1, <2>4, <1>1, <4>1, Zenon
      <4>3. Len(<<>>) = 0 /\ 0 # 1
        OBVIOUS
      <4>4. QED
        BY <4>2, <4>3, Zenon
    <3>3. Head(Tail(s)) = c[Len(c) - Len(Tail(s)) + 1]
      BY <1>1, <3>2, PlansAre, RestSteps, Zenon
    <3>4. Len(c) - Len(Tail(s)) + 1 = 7
      <4>1. 7 - 1 + 1 = 7
        OBVIOUS
      <4>2. QED
        BY <2>1, <3>2, <4>1, Zenon
    <3>5. Head(Tail(s)) = Step("forget")
      BY <3>3, <3>4, <1>6, RemoveTable, Zenon
    <3>6. QED
      BY <3>1, <3>2, <3>5, <1>2 DEF AtEnd
  <2>5. CASE k = 7
    <3>1. Head(s) = Step("forget")
      BY <2>5, <1>1, <1>6, RemoveTable, Zenon
    <3>2. Len(Tail(s)) = 0
      <4>1. \A n \in 1..7 : 8 - n = 7 => n - 1 = 0
        OBVIOUS
      <4>2. QED
        BY <2>1, <2>5, <1>1, <4>1, Zenon
    <3>3. Tail(s) = <<>>
      BY <1>1, <3>2, EmptySeq
    <3>4. QED
      BY <3>1, <3>3, <1>2 DEF AtEnd
  <2>6. QED
    BY <2>2, <2>3, <2>4, <2>5
<1>7. QED
  BY <1>3, <1>4, <1>5, <1>6, PlansAre

LEMMA HeadCases ==
  ASSUME NEW s, Planned(s), s # <<>>
  PROVE  \/ InSetup(s)
         \/ Left(s) = 0 /\ (InDeploy(Head(s)) \/ InOther(Head(s)) \/ AtEnd(s))
<1>1. s \in Seq(Entry)
  BY DEF Planned
<1>2. PICK c \in Plans : Rest(s, c)
  BY DEF Planned
<1>3. QED
  BY <1>1, <1>2, HeadOfSetup, HeadOfOthers

(***************************************************************************)
(* Every plan tests an object before it touches it.                        *)
(***************************************************************************)
LEMMA TouchOps ==
  /\ \A k \in Kinds : Do("start", k)[1] \in Touching /\ Do("check", k)[1] \notin Touching
                      /\ Do("make", k)[1] \notin Touching
  /\ \A op \in Op \ Touching : Step(op)[1] \notin Touching
  /\ "lock" \notin Touching /\ "name" \notin Touching /\ "subnet" \notin Touching
  /\ "prefix" \notin Touching /\ "tests" \notin Touching /\ "save" \notin Touching
  /\ "unlock" \notin Touching /\ "attached" \notin Touching /\ "forget" \notin Touching
  /\ "check" \notin Touching /\ "make" \notin Touching /\ "build" \notin Touching
BY Entries, OpNames DEF Touching

LEMMA OpOf ==
  /\ \A k \in Kinds : Do("check", k)[1] = "check" /\ Do("make", k)[1] = "make" /\ Do("start", k)[1] = "start"
  /\ Do("check", "net")[1] = "check" /\ Do("make", "net")[1] = "make"
  /\ Do("check", "router")[1] = "check" /\ Do("make", "router")[1] = "make"
  /\ Do("check", "worker")[1] = "check" /\ Do("make", "worker")[1] = "make"
  /\ Do("check", "volume")[1] = "check" /\ Do("make", "volume")[1] = "make"
  /\ Step("build")[1] = "build" /\ Do("renew", "router")[2] = "router" /\ Do("renew", "worker")[2] = "worker"
  /\ Do("start", "router")[2] = "router" /\ Do("start", "worker")[2] = "worker"
  /\ Step("lock")[1] = "lock" /\ Step("name")[1] = "name" /\ Step("subnet")[1] = "subnet"
  /\ Step("prefix")[1] = "prefix" /\ Step("tests")[1] = "tests" /\ Step("save")[1] = "save"
  /\ Step("unlock")[1] = "unlock" /\ Step("attached")[1] = "attached" /\ Step("forget")[1] = "forget"
BY Entries, OpNames

LEMMA SetupTouches ==
  /\ \A k \in 1..23 : setup[k][1] \in Touching => k = 14 \/ k = 16 \/ k = 20 \/ k = 23
  /\ setup[14][2] = "router" /\ setup[16][2] = "router" /\ setup[13] = Do("check", "router")
  /\ setup[20][2] = "worker" /\ setup[23][2] = "worker" /\ setup[17] = Do("check", "worker")
<1>1. ASSUME NEW k \in 1..23, k \notin {14, 16, 20, 23} PROVE setup[k][1] \notin Touching
  <2>1. \/ k = 1 \/ k = 2 \/ k = 3 \/ k = 4 \/ k = 5 \/ k = 6 \/ k = 7 \/ k = 8 \/ k = 9 \/ k = 10
        \/ k = 11 \/ k = 12 \/ k = 13 \/ k = 15 \/ k = 17 \/ k = 18 \/ k = 19 \/ k = 21 \/ k = 22
    BY <1>1
  <2>2. setup[k][1] \in {"lock", "name", "subnet", "prefix", "tests", "save", "unlock", "attached",
                         "check", "make", "build"}
    <3>1. /\ setup[1][1] = "lock" /\ setup[2][1] = "name" /\ setup[3][1] = "subnet"
          /\ setup[4][1] = "prefix" /\ setup[5][1] = "tests" /\ setup[6][1] = "save"
          /\ setup[7][1] = "check" /\ setup[8][1] = "make" /\ setup[9][1] = "unlock"
      BY SetupTable, OpOf, ZenonT(60)
    <3>2. /\ setup[10][1] = "build" /\ setup[11][1] = "check" /\ setup[12][1] = "make"
          /\ setup[13][1] = "check" /\ setup[15][1] = "make" /\ setup[17][1] = "check"
          /\ setup[18][1] = "check" /\ setup[19][1] = "attached" /\ setup[21][1] = "make"
          /\ setup[22][1] = "make"
      BY SetupEnd, OpOf, ZenonT(60)
    <3>3. QED
      BY <2>1, <3>1, <3>2
  <2>3. QED
    BY <2>2, TouchOps
<1>2. /\ setup[14][2] = "router" /\ setup[16][2] = "router"
      /\ setup[20][2] = "worker" /\ setup[23][2] = "worker"
  BY SetupEnd, OpOf, Zenon
<1>3. QED
  BY <1>1, <1>2, SetupEnd

LEMMA DeployTouches ==
  /\ \A k \in 1..14 : deploy[k][1] \in Touching => k = 5 \/ k = 7 \/ k = 11 \/ k = 14
  /\ deploy[5][2] = "router" /\ deploy[7][2] = "router" /\ deploy[4] = Do("check", "router")
  /\ deploy[11][2] = "worker" /\ deploy[14][2] = "worker" /\ deploy[8] = Do("check", "worker")
<1>1. ASSUME NEW k \in 1..14, k \notin {5, 7, 11, 14} PROVE deploy[k][1] \notin Touching
  <2>1. \/ k = 1 \/ k = 2 \/ k = 3 \/ k = 4 \/ k = 6 \/ k = 8 \/ k = 9 \/ k = 10 \/ k = 12 \/ k = 13
    BY <1>1
  <2>2. deploy[k][1] \in {"attached", "check", "make", "build"}
    BY <2>1, DeployTable, Entries, OpNames
  <2>3. QED
    BY <2>2, TouchOps
<1>2. /\ deploy[5][2] = "router" /\ deploy[7][2] = "router"
      /\ deploy[11][2] = "worker" /\ deploy[14][2] = "worker"
  BY DeployTable, OpOf, Zenon
<1>3. QED
  BY <1>1, <1>2, DeployTable

LEMMA PlanTests ==
  ASSUME NEW c \in Plans, NEW k \in 1..Len(c), c[k][1] \in Touching
  PROVE  TestedAt(c, k)
<1>1. CASE c = setup
  <2>1. k \in 1..23
    BY <1>1, PlanLengths, Zenon
  <2>2. k = 14 \/ k = 16 \/ k = 20 \/ k = 23
    BY <2>1, <1>1, SetupTouches
  <2>3. 13 \in 1..(14 - 1) /\ 13 \in 1..(16 - 1) /\ 17 \in 1..(20 - 1) /\ 17 \in 1..(23 - 1)
    OBVIOUS
  <2>4. QED
    BY <2>2, <2>3, <1>1, SetupTouches, Zenon DEF TestedAt
<1>2. CASE c = deploy
  <2>1. k \in 1..14
    BY <1>2, PlanLengths, Zenon
  <2>2. k = 5 \/ k = 7 \/ k = 11 \/ k = 14
    BY <2>1, <1>2, DeployTouches
  <2>3. 4 \in 1..(5 - 1) /\ 4 \in 1..(7 - 1) /\ 8 \in 1..(11 - 1) /\ 8 \in 1..(14 - 1)
    OBVIOUS
  <2>4. QED
    BY <2>2, <2>3, <1>2, DeployTouches, Zenon DEF TestedAt
<1>3. CASE c = worker_stop
  <2>1. k \in 1..3
    BY <1>3, PlanLengths, Zenon
  <2>2. k = 3
    <3>1. worker_stop[1][1] \notin Touching /\ worker_stop[2][1] \notin Touching
      BY WorkerStopTable, Entries, OpNames, TouchOps
    <3>2. QED
      BY <2>1, <3>1, <1>3
  <2>3. 2 \in 1..(3 - 1) /\ worker_stop[3][2] = "worker"
    BY WorkerStopTable, Entries, OpNames
  <2>4. QED
    BY <2>2, <2>3, <1>3, WorkerStopTable, Zenon DEF TestedAt
<1>4. CASE c = rebuild_deployment
  <2>1. k \in 1..20
    BY <1>4, PlanLengths, Zenon
  <2>2. k = 2 \/ k = 4 \/ k = 6 \/ k = 11 \/ k = 13 \/ k = 17 \/ k = 20
    <3>1. ASSUME k \notin {2, 4, 6, 11, 13, 17, 20}
          PROVE  c[k][1] \in {"attached", "check", "make", "save", "build"}
      <4>1. \/ k = 1 \/ k = 3 \/ k = 5 \/ k = 7 \/ k = 8 \/ k = 9 \/ k = 10 \/ k = 12 \/ k = 14
            \/ k = 15 \/ k = 16 \/ k = 18 \/ k = 19
        BY <2>1, <3>1
      <4>2. QED
        <5> DEFINE r == rebuild_deployment
        <5>1. r[1][1] = "check" /\ r[3][1] = "save" /\ r[5][1] = "check"
          BY RebuildTable, OpOf, Zenon
        <5>2. /\ r[7][1] = "build" /\ r[8][1] = "check" /\ r[9][1] = "make" /\ r[10][1] = "check"
              /\ r[12][1] = "make" /\ r[14][1] = "check" /\ r[15][1] = "check"
              /\ r[16][1] = "attached" /\ r[18][1] = "make" /\ r[19][1] = "make"
          BY RebuildEnd, OpOf, ZenonT(60)
        <5>3. QED
          BY <4>1, <1>4, <5>1, <5>2
    <3>2. QED
      BY <3>1, TouchOps
  <2>3. /\ 1 \in 1..(2 - 1) /\ 1 \in 1..(4 - 1) /\ 5 \in 1..(6 - 1) /\ 10 \in 1..(11 - 1)
        /\ 10 \in 1..(13 - 1) /\ 14 \in 1..(17 - 1) /\ 14 \in 1..(20 - 1)
    OBVIOUS
  <2>4. /\ rebuild_deployment[2][2] = "worker" /\ rebuild_deployment[4][2] = "worker"
        /\ rebuild_deployment[6][2] = "router" /\ rebuild_deployment[11][2] = "router"
        /\ rebuild_deployment[13][2] = "router" /\ rebuild_deployment[17][2] = "worker"
        /\ rebuild_deployment[20][2] = "worker"
    BY RebuildTable, RebuildEnd, Entries, OpNames, SMTT(60)
  <2>5. QED
    <3>1. /\ rebuild_deployment[1] = Do("check", "worker") /\ rebuild_deployment[5] = Do("check", "router")
          /\ rebuild_deployment[10] = Do("check", "router") /\ rebuild_deployment[14] = Do("check", "worker")
      BY RebuildTable, RebuildEnd, Zenon
    <3>2. k = 2 \/ k = 4 => TestedAt(c, k)
      BY <2>3, <2>4, <1>4, <3>1, Zenon DEF TestedAt
    <3>3. k = 6 \/ k = 11 \/ k = 13 => TestedAt(c, k)
      BY <2>3, <2>4, <1>4, <3>1, Zenon DEF TestedAt
    <3>4. k = 17 \/ k = 20 => TestedAt(c, k)
      BY <2>3, <2>4, <1>4, <3>1, Zenon DEF TestedAt
    <3>5. QED
      BY <2>2, <3>2, <3>3, <3>4, Zenon
<1>5. CASE c = remove_deployment
  <2>1. k \in 1..7
    BY <1>5, PlanLengths, Zenon
  <2>2. k = 2 \/ k = 4 \/ k = 6
    <3>1. ASSUME k \notin {2, 4, 6} PROVE c[k][1] \in {"forget", "check"}
      <4>1. k = 1 \/ k = 3 \/ k = 5 \/ k = 7
        BY <2>1, <3>1
      <4>2. QED
        BY <4>1, <1>5, RemoveTable, Entries, OpNames
    <3>2. QED
      BY <3>1, TouchOps
  <2>3. 1 \in 1..(2 - 1) /\ 3 \in 1..(4 - 1) /\ 5 \in 1..(6 - 1)
    OBVIOUS
  <2>4. /\ remove_deployment[2][2] = "worker" /\ remove_deployment[4][2] = "router"
        /\ remove_deployment[6][2] = "net"
    BY RemoveTable, Entries, OpNames
  <2>5. QED
    BY <2>2, <2>3, <2>4, <1>5, RemoveTable, Zenon DEF TestedAt
<1>6. QED
  BY <1>1, <1>2, <1>3, <1>4, <1>5, PlansAre

\* As long as a setup still chooses what its names are, its tests are to come.
LEMMA SetupTests ==
  ASSUME NEW s, Planned(s), Left(s) # 0, NEW i \in 1..Len(s), s[i][1] \in Touching
  PROVE  TestedAt(s, i)
<1>1. s \in Seq(Entry) /\ Len(s) >= 15 /\ Rest(s, setup)
  BY DEF Planned, Left
<1>2. Len(s) \in 15..23
  BY LeftRange, <1>1 DEF Left
<1>3. \A j \in 1..Len(s) : 23 - Len(s) + j \in 1..23 /\ s[j] = setup[23 - Len(s) + j]
  <2>1. \A j \in 1..Len(s) : s[j] = setup[23 - Len(s) + j]
    BY <1>1, PlanLengths, Zenon DEF Rest
  <2>2. QED
    <3>1. \A n \in 15..23 : \A j \in 1..n : 23 - n + j \in 1..23
      OBVIOUS
    <3>2. QED
      BY <1>2, <2>1, <3>1, Zenon
<1>4. \/ 23 - Len(s) + i = 14 \/ 23 - Len(s) + i = 16
      \/ 23 - Len(s) + i = 20 \/ 23 - Len(s) + i = 23
  BY <1>3, SetupTouches
<1>5. ASSUME NEW j \in 1..Len(s), j < i, setup[23 - Len(s) + j] = Do("check", setup[23 - Len(s) + i][2])
      PROVE  TestedAt(s, i)
  <2>1. j \in 1..(i - 1)
    BY <1>5, <1>2
  <2>2. QED
    BY <1>3, <1>5, <2>1, Zenon DEF TestedAt
<1>6. \A n \in 15..23 : \A j \in 1..n :
        /\ 23 - n + j = 14 => j - 1 \in 1..n /\ j - 1 < j /\ 23 - n + (j - 1) = 13
        /\ 23 - n + j = 16 => j - 3 \in 1..n /\ j - 3 < j /\ 23 - n + (j - 3) = 13
        /\ 23 - n + j = 20 => j - 3 \in 1..n /\ j - 3 < j /\ 23 - n + (j - 3) = 17
        /\ 23 - n + j = 23 => j - 6 \in 1..n /\ j - 6 < j /\ 23 - n + (j - 6) = 17
  BY SMTT(60)
<1>7. CASE 23 - Len(s) + i = 14
  <2>1. i - 1 \in 1..Len(s) /\ i - 1 < i /\ 23 - Len(s) + (i - 1) = 13
    BY <1>2, <1>6, <1>7, Zenon
  <2>2. QED
    BY <1>5, <1>7, <2>1, SetupTouches, Zenon
<1>8. CASE 23 - Len(s) + i = 16
  <2>1. i - 3 \in 1..Len(s) /\ i - 3 < i /\ 23 - Len(s) + (i - 3) = 13
    BY <1>2, <1>6, <1>8, Zenon
  <2>2. QED
    BY <1>5, <1>8, <2>1, SetupTouches, Zenon
<1>9. CASE 23 - Len(s) + i = 20
  <2>1. i - 3 \in 1..Len(s) /\ i - 3 < i /\ 23 - Len(s) + (i - 3) = 17
    BY <1>2, <1>6, <1>9, Zenon
  <2>2. QED
    BY <1>5, <1>9, <2>1, SetupTouches, Zenon
<1>10. CASE 23 - Len(s) + i = 23
  <2>1. i - 6 \in 1..Len(s) /\ i - 6 < i /\ 23 - Len(s) + (i - 6) = 17
    BY <1>2, <1>6, <1>10, Zenon
  <2>2. QED
    BY <1>5, <1>10, <2>1, SetupTouches, Zenon
<1>11. QED
  BY <1>4, <1>7, <1>8, <1>9, <1>10

(***************************************************************************)
(* What a command is, and what it says about the setup it belongs to.      *)
(***************************************************************************)
LEMMA KindOf ==
  /\ \A k \in Kinds : Do("check", k)[2] = k /\ Do("make", k)[2] = k /\ Do("start", k)[2] = k
  /\ Do("start", "router")[1] = "start" /\ Do("start", "worker")[1] = "start"
  /\ Do("stop", "worker")[1] = "stop" /\ Do("rm", "worker")[1] = "rm" /\ Do("rm", "net")[1] = "rm"
  /\ Do("rm_f", "router")[1] = "rm_f" /\ Do("rm_f", "worker")[1] = "rm_f"
  /\ Do("stop", "worker")[2] = "worker" /\ Do("rm", "worker")[2] = "worker"
  /\ Do("rm", "net")[2] = "net" /\ Do("rm_f", "router")[2] = "router"
  /\ Do("rm_f", "worker")[2] = "worker"
  /\ Do("renew", "router")[1] = "renew" /\ Do("renew", "worker")[1] = "renew"
  /\ Do("renew", "router")[2] = "router" /\ Do("renew", "worker")[2] = "worker"
BY Entries, OpNames

LEMMA OpSays ==
  ASSUME NEW s, Planned(s), s # <<>>
  PROVE  /\ Head(s)[1] = "check" =>
              \E k \in Kinds : Head(s) = Do("check", k) /\ (Left(s) = 0 \/ (Left(s) = 17 /\ k = "net"))
         /\ Head(s)[1] = "make" =>
              \E k \in Kinds : Head(s) = Do("make", k) /\ (Left(s) = 0 \/ (Left(s) = 16 /\ k = "net"))
         /\ Head(s)[1] \in {"start", "stop"} => Left(s) = 0 /\ Head(s)[2] \in {"router", "worker"}
         /\ Head(s)[1] \in {"rm", "rm_f"} =>
              /\ Left(s) = 0 /\ Head(s)[2] \in {"net", "router", "worker"}
              /\ Head(s)[2] = "net" => Tail(s) # <<>> /\ Head(Tail(s)) = Step("forget")
         /\ Head(s)[1] = "attached" => Left(s) = 0
         /\ Head(s)[1] = "lock" => Left(s) = 23
         /\ Head(s)[1] = "name" => Left(s) = 22
         /\ Head(s)[1] = "subnet" => Left(s) = 21
         /\ Head(s)[1] = "prefix" => Left(s) = 20
         /\ Head(s)[1] = "tests" => Left(s) = 19
         /\ Head(s)[1] = "save" => Left(s) \in {0, 18}
         /\ Head(s)[1] = "build" => Left(s) = 0
         /\ Head(s)[1] = "renew" => Left(s) = 0 /\ Head(s)[2] \in {"router", "worker"}
         /\ Head(s)[1] = "unlock" => Left(s) = 15
         /\ Head(s)[1] = "forget" => Left(s) = 0 /\ Tail(s) = <<>>
<1>1. CASE InSetup(s)
  <2>1. CASE Left(s) = 17 /\ Head(s) = Do("check", "net")
    BY <2>1, OpOf, OpNames
  <2>2. CASE Left(s) = 16 /\ Head(s) = Do("make", "net")
    BY <2>2, OpOf, OpNames
  <2>3. CASE ~(Left(s) = 17 /\ Head(s) = Do("check", "net")) /\ ~(Left(s) = 16 /\ Head(s) = Do("make", "net"))
    BY <1>1, <2>3, OpOf DEF InSetup
  <2>4. QED
    BY <2>1, <2>2, <2>3
<1>2. CASE Left(s) = 0 /\ InDeploy(Head(s))
  <2>1. \/ \E k \in Kinds : Head(s) = Do("check", k)
        \/ \E k \in Kinds : Head(s) = Do("make", k)
        \/ Head(s) = Do("start", "router") \/ Head(s) = Do("start", "worker")
        \/ Head(s) = Do("renew", "router") \/ Head(s) = Do("renew", "worker")
        \/ Head(s) = Step("attached") \/ Head(s) = Step("build")
    BY <1>2, OpNames DEF InDeploy
  <2>2. CASE \E k \in Kinds : Head(s) = Do("check", k)
    BY <1>2, <2>2, OpOf
  <2>3. CASE \E k \in Kinds : Head(s) = Do("make", k)
    BY <1>2, <2>3, OpOf
  <2>4. CASE \/ Head(s) = Do("start", "router") \/ Head(s) = Do("start", "worker")
             \/ Head(s) = Do("renew", "router") \/ Head(s) = Do("renew", "worker")
             \/ Head(s) = Step("attached") \/ Head(s) = Step("build")
    BY <1>2, <2>4, OpOf, KindOf, OpNames
  <2>5. QED
    BY <2>1, <2>2, <2>3, <2>4
<1>3. CASE Left(s) = 0 /\ InOther(Head(s))
  BY <1>3, KindOf, OpOf DEF InOther
<1>4. CASE Left(s) = 0 /\ AtEnd(s)
  BY <1>4, KindOf, OpOf DEF AtEnd
<1>5. QED
  BY <1>1, <1>2, <1>3, <1>4, HeadCases

(***************************************************************************)
(* The commands by what they do.                                           *)
(***************************************************************************)
Busy(f) == todo[f] # <<>> /\ ~At(f, "forget")

Failing(f) ==
  /\ Busy(f) /\ Fail(f) /\ Left(todo[f]) # 15
  /\ Left(todo[f]) = 17 => Exists(Lan(mem[f]))
  /\ Left(todo[f]) = 16 => Exists(Lan(mem[f])) \/ ~Available(mem[f].subnet)

Skipping(f) ==
  /\ Busy(f) /\ Skip(f) /\ ~At(f, "check") /\ Left(todo[f]) \in {0, 16, 19}
  /\ Left(todo[f]) = 16 => Exists(Lan(mem[f]))

Making(f) == \E k \in Kinds :
  /\ Busy(f) /\ Head(todo[f]) = Do("make", k) /\ ~Exists(The(k, mem[f]))
  /\ Becomes(f, The(k, mem[f]), New(f, k))
  /\ Left(todo[f]) = 0 \/ (Left(todo[f]) = 16 /\ k = "net")

Setting(f) == \E k \in {"router", "worker"}, up \in BOOLEAN :
  /\ Busy(f) /\ Head(todo[f])[1] \in Touching /\ Head(todo[f])[2] = k /\ Left(todo[f]) = 0
  /\ Exists(The(k, mem[f])) /\ Set(f, The(k, mem[f]), up)

Testing(f) == \E k \in Kinds :
  /\ Busy(f) /\ Head(todo[f]) = Do("check", k) /\ Left(todo[f]) \in {0, 17}
  /\ Owned(f, The(k, mem[f]))
  /\ test' = [test EXCEPT ![f][The(k, mem[f])] = IF Exists(The(k, mem[f])) THEN "there" ELSE "gone"]
  /\ Goes(f) /\ UNCHANGED <<obj, lock, mem>> /\ Quiet

Removing(f) == \E k \in {"net", "router", "worker"} :
  /\ Busy(f) /\ Head(todo[f])[1] \in Touching /\ Head(todo[f])[2] = k /\ Left(todo[f]) = 0
  /\ k = "net" => Tail(todo[f]) # <<>> /\ Head(Tail(todo[f])) = Step("forget")
  /\ Exists(The(k, mem[f])) /\ obj' = [obj EXCEPT ![The(k, mem[f])] = None]
  /\ test' = [g \in Folder |->
               [test[g] EXCEPT ![The(k, mem[f])] = IF @ = "there" THEN "gone" ELSE @]]
  /\ Goes(f) /\ UNCHANGED <<lock, mem>> /\ Quiet

Choosing(f) == \E c :
  /\ Busy(f) /\ Chosen(f, c)
  /\ \/ Left(todo[f]) = 22 /\ \E n \in Names : unique_prefix(n) /\ c = [mem[f] EXCEPT !.name = n]
     \/ Left(todo[f]) = 21 /\ \E s \in Subnets : Available(s) /\ c = [mem[f] EXCEPT !.subnet = s]
     \/ Left(todo[f]) = 20 /\ \E n \in Names : c = [mem[f] EXCEPT !.prefix = n]

Locking(f) == Busy(f) /\ Lock(f) /\ Left(todo[f]) = 23
Unlocking(f) == Busy(f) /\ Unlock(f) /\ Left(todo[f]) = 15
Saving(f) == Busy(f) /\ Writes(f, mem[f]) /\ Left(todo[f]) = 18
\* A configuration that a folder works with is saved again, and becomes its own.
Adopting(f) == Busy(f) /\ Writes(f, mem[f]) /\ Left(todo[f]) = 0 /\ ~At(f, "check")
Forgetting(f) ==
  todo[f] # <<>> /\ Writes(f, NoConfig) /\ Left(todo[f]) = 0 /\ Tail(todo[f]) = <<>>

Shape(f) ==
  \/ Failing(f) \/ Skipping(f) \/ Making(f) \/ Setting(f) \/ Testing(f) \/ Removing(f)
  \/ Choosing(f) \/ Locking(f) \/ Unlocking(f) \/ Saving(f) \/ Adopting(f)
  \/ Forgetting(f)

LEMMA Shapes ==
  ASSUME NEW f \in Folder, Planned(todo[f]), Commands(f)
  PROVE  Shape(f)
<1> DEFINE s == todo[f]
<1>1. ASSUME NEW op, At(f, op)
      PROVE  s # <<>> /\ Head(s)[1] = op /\ (op # "forget" => Busy(f))
  BY <1>1 DEF At, Busy
<1>2. CASE check_owned(f)
  <2>1. At(f, "check") /\ Busy(f) /\ s # <<>> /\ Head(s)[1] = "check"
    BY <1>1, <1>2 DEF check_owned
  <2>2. PICK k \in Kinds : Head(s) = Do("check", k) /\ (Left(s) = 0 \/ (Left(s) = 17 /\ k = "net"))
    BY <2>1, OpSays
  <2>3. Target(f) = The(k, mem[f])
    BY <2>2, KindOf DEF Target
  <2>4. CASE Owned(f, Target(f))
    BY <1>2, <2>1, <2>2, <2>3, <2>4 DEF check_owned, Testing, Shape
  <2>5. CASE ~Owned(f, Target(f))
    <3>1. Fail(f)
      BY <1>2, <2>5 DEF check_owned
    <3>2. Left(s) = 17 => Exists(Lan(mem[f]))
      BY <2>2, <2>3, <2>5 DEF Owned, The
    <3>3. QED
      BY <2>1, <2>2, <3>1, <3>2 DEF Failing, Shape
  <2>6. QED
    BY <2>4, <2>5
<1>3. CASE Make(f)
  <2>1. At(f, "make") /\ Busy(f) /\ s # <<>> /\ Head(s)[1] = "make"
    BY <1>1, <1>3 DEF Make
  <2>2. PICK k \in Kinds : Head(s) = Do("make", k) /\ (Left(s) = 0 \/ (Left(s) = 16 /\ k = "net"))
    BY <2>1, OpSays
  <2>3. Target(f) = The(k, mem[f]) /\ Head(s)[2] = k
    BY <2>2, KindOf DEF Target
  <2>4. Left(s) = 16 => The(k, mem[f]) = Lan(mem[f]) /\ (CanMake(f, k) <=> Available(mem[f].subnet))
    BY <2>2 DEF The, CanMake
  <2>5. CASE ~Exists(The(k, mem[f])) /\ CanMake(f, k)
    <3>1. Becomes(f, The(k, mem[f]), New(f, k))
      BY <1>3, <2>3, <2>5 DEF Make
    <3>2. QED
      BY <2>1, <2>2, <2>5, <3>1 DEF Making, Shape
  <2>6. CASE ~Exists(The(k, mem[f])) /\ ~CanMake(f, k)
    <3>1. Fail(f)
      BY <1>3, <2>3, <2>6 DEF Make
    <3>2. QED
      BY <2>1, <2>2, <2>4, <2>6, <3>1 DEF Failing, Shape
  <2>7. CASE Exists(The(k, mem[f]))
    <3>1. Fail(f) \/ Skip(f)
      BY <1>3, <2>3, <2>7 DEF Make
    <3>2. CASE Fail(f)
      BY <2>1, <2>2, <2>4, <2>7, <3>2 DEF Failing, Shape
    <3>3. CASE Skip(f)
      <4>1. ~At(f, "check")
        BY <2>1 DEF At
      <4>2. QED
        BY <2>1, <2>2, <2>4, <2>7, <3>3, <4>1 DEF Skipping, Shape
    <3>4. QED
      BY <3>1, <3>2, <3>3
  <2>8. QED
    BY <2>5, <2>6, <2>7
<1>4. CASE Attached(f)
  <2>1. At(f, "attached") /\ Busy(f) /\ s # <<>> /\ Head(s)[1] = "attached" /\ ~At(f, "check")
    BY <1>1, <1>4 DEF Attached, At
  <2>2. Left(s) = 0
    BY <2>1, OpSays
  <2>3. Fail(f) \/ Skip(f)
    BY <1>4 DEF Attached
  <2>4. QED
    BY <2>1, <2>2, <2>3 DEF Failing, Skipping, Shape
<1>5. CASE Start(f)
  <2>1. At(f, "start") /\ Busy(f) /\ s # <<>> /\ Head(s)[1] = "start"
    BY <1>1, <1>5 DEF Start
  <2>2. Left(s) = 0 /\ Head(s)[2] \in {"router", "worker"} /\ Head(s)[1] \in Touching
    BY <2>1, OpSays DEF Touching
  <2>3. CASE Exists(Target(f)) /\ Exists(<<"net", obj[Target(f)].at>>)
    <3>1. Set(f, Target(f), TRUE)
      BY <1>5, <2>3 DEF Start
    <3>2. QED
      BY <2>1, <2>2, <2>3, <3>1 DEF Setting, Shape, Target
  <2>4. CASE ~(Exists(Target(f)) /\ Exists(<<"net", obj[Target(f)].at>>))
    <3>1. Fail(f)
      BY <1>5, <2>4 DEF Start
    <3>2. QED
      BY <2>1, <2>2, <3>1 DEF Failing, Shape
  <2>5. QED
    BY <2>3, <2>4
<1>6. CASE Stop(f)
  <2>1. At(f, "stop") /\ Busy(f) /\ s # <<>> /\ Head(s)[1] = "stop" /\ ~At(f, "check")
    BY <1>1, <1>6 DEF Stop, At
  <2>2. Left(s) = 0 /\ Head(s)[2] \in {"router", "worker"} /\ Head(s)[1] \in Touching
    BY <2>1, OpSays DEF Touching
  <2>3. CASE Exists(Target(f))
    <3>1. Set(f, Target(f), FALSE)
      BY <1>6, <2>3 DEF Stop
    <3>2. QED
      BY <2>1, <2>2, <2>3, <3>1 DEF Setting, Shape, Target
  <2>4. CASE ~Exists(Target(f))
    <3>1. Skip(f)
      BY <1>6, <2>4 DEF Stop
    <3>2. QED
      BY <2>1, <2>2, <3>1 DEF Skipping, Shape
  <2>5. QED
    BY <2>3, <2>4
<1>7. CASE Remove(f)
  <2>1. At(f, "rm") \/ At(f, "rm_f")
    BY <1>7 DEF Remove
  <2>2. Busy(f) /\ s # <<>> /\ Head(s)[1] \in {"rm", "rm_f"} /\ ~At(f, "check")
    BY <2>1 DEF At, Busy
  <2>3. /\ Left(s) = 0 /\ Head(s)[2] \in {"net", "router", "worker"} /\ Head(s)[1] \in Touching
        /\ Head(s)[2] = "net" => Tail(s) # <<>> /\ Head(Tail(s)) = Step("forget")
    BY <2>2, OpSays DEF Touching
  <2>4. \/ Skip(f) \/ Fail(f)
        \/ /\ Exists(Target(f)) /\ obj' = [obj EXCEPT ![Target(f)] = None]
           /\ test' = [g \in Folder |-> [test[g] EXCEPT ![Target(f)] = IF @ = "there" THEN "gone" ELSE @]]
           /\ Goes(f) /\ UNCHANGED <<lock, mem>> /\ Quiet
    BY <1>7 DEF Remove, Vanishes
  <2>5. CASE Skip(f) \/ Fail(f)
    BY <2>2, <2>3, <2>5 DEF Failing, Skipping, Shape
  <2>6. CASE /\ Exists(Target(f)) /\ obj' = [obj EXCEPT ![Target(f)] = None]
             /\ test' = [g \in Folder |-> [test[g] EXCEPT ![Target(f)] = IF @ = "there" THEN "gone" ELSE @]]
             /\ Goes(f) /\ UNCHANGED <<lock, mem>> /\ Quiet
    <3>1. Removing(f)
      BY <2>2, <2>3, <2>6 DEF Removing, Target
    <3>2. QED
      BY <3>1 DEF Shape
  <2>7. QED
    BY <2>4, <2>5, <2>6
<1>8. CASE Lock(f)
  <2>1. Busy(f) /\ s # <<>> /\ Head(s)[1] = "lock"
    BY <1>1, <1>8 DEF Lock
  <2>2. QED
    BY <2>1, <1>8, OpSays DEF Locking, Shape
<1>9. CASE ChooseName(f)
  <2>1. Busy(f) /\ s # <<>> /\ Head(s)[1] = "name"
    BY <1>1, <1>9 DEF ChooseName
  <2>2. Left(s) = 22
    BY <2>1, OpSays
  <2>3. QED
    BY <2>1, <2>2, <1>9 DEF ChooseName, Choosing, Shape
<1>10. CASE ChooseSubnet(f)
  <2>1. Busy(f) /\ s # <<>> /\ Head(s)[1] = "subnet"
    BY <1>1, <1>10 DEF ChooseSubnet
  <2>2. Left(s) = 21
    BY <2>1, OpSays
  <2>3. CASE Fail(f)
    BY <2>1, <2>2, <2>3 DEF Failing, Shape
  <2>4. CASE \E n \in Subnets : Available(n) /\ Chosen(f, [mem[f] EXCEPT !.subnet = n])
    BY <2>1, <2>2, <2>4 DEF Choosing, Shape
  <2>5. QED
    BY <1>10, <2>3, <2>4 DEF ChooseSubnet
<1>11. CASE ChoosePrefix(f)
  <2>1. Busy(f) /\ s # <<>> /\ Head(s)[1] = "prefix"
    BY <1>1, <1>11 DEF ChoosePrefix
  <2>2. Left(s) = 20
    BY <2>1, OpSays
  <2>3. QED
    BY <2>1, <2>2, <1>11 DEF ChoosePrefix, Choosing, Shape
<1>12. CASE Tests(f)
  <2>1. Busy(f) /\ s # <<>> /\ Head(s)[1] = "tests" /\ ~At(f, "check")
    BY <1>1, <1>12 DEF Tests, At
  <2>2. Left(s) = 19
    BY <2>1, OpSays
  <2>3. QED
    BY <2>1, <2>2, <1>12 DEF Tests, Failing, Skipping, Shape
<1>13. CASE save(f)
  <2>1. Busy(f) /\ s # <<>> /\ Head(s)[1] = "save" /\ ~At(f, "check")
    BY <1>1, <1>13 DEF save, At
  <2>2. Left(s) = 0 \/ Left(s) = 18
    BY <2>1, OpSays
  <2>3. QED
    BY <2>1, <2>2, <1>13 DEF save, Saving, Adopting, Shape
<1>14. CASE Unlock(f)
  <2>1. Busy(f) /\ s # <<>> /\ Head(s)[1] = "unlock"
    BY <1>1, <1>14 DEF Unlock
  <2>2. QED
    BY <2>1, <1>14, OpSays DEF Unlocking, Shape
<1>15. CASE Forget(f)
  <2>1. s # <<>> /\ Head(s)[1] = "forget"
    BY <1>1, <1>15 DEF Forget
  <2>2. QED
    BY <2>1, <1>15, OpSays DEF Forget, Forgetting, Shape
<1>16. CASE Build(f)
  <2>1. Busy(f) /\ s # <<>> /\ Head(s)[1] = "build" /\ ~At(f, "check")
    BY <1>1, <1>16 DEF Build, At
  <2>2. Left(s) = 0
    BY <2>1, OpSays
  <2>3. QED
    BY <2>1, <2>2, <1>16 DEF Build, Adopting, Skipping, Shape
<1>17. CASE Renew(f)
  <2>1. Busy(f) /\ s # <<>> /\ Head(s)[1] = "renew" /\ ~At(f, "check")
    BY <1>1, <1>17 DEF Renew, At
  <2>2. Left(s) = 0 /\ Head(s)[2] \in {"router", "worker"} /\ Head(s)[1] \in Touching
    BY <2>1, OpSays DEF Touching
  <2>3. CASE Skip(f)
    BY <2>1, <2>2, <2>3 DEF Skipping, Shape
  <2>4. CASE Exists(Target(f)) /\ Vanishes(f, Target(f))
    <3>1. Removing(f)
      BY <2>1, <2>2, <2>4 DEF Vanishes, Removing, Target
    <3>2. QED
      BY <3>1 DEF Shape
  <2>5. QED
    BY <2>3, <2>4, <1>17 DEF Renew
<1>18. QED
  BY <1>2, <1>3, <1>4, <1>5, <1>6, <1>7, <1>8, <1>9, <1>10, <1>11, <1>12, <1>13, <1>14, <1>15,
     <1>16, <1>17 DEF Commands

\* How a command moves its folder's plan, and what it leaves alone.
Moves(f) == todo'[f] = Tail(todo[f]) /\ Left(todo'[f]) = IF Left(todo[f]) > 15 THEN Left(todo[f]) - 1 ELSE 0

LEMMA GoesOn ==
  ASSUME NEW f \in Folder, Types, todo[f] # <<>>, Goes(f)
  PROVE  /\ DOMAIN todo' = Folder /\ \A g \in Folder : Planned(todo'[g])
         /\ \A g \in Folder \ {f} : todo'[g] = todo[g]
         /\ Moves(f)
<1>1. Planned(todo[f])
  BY DEF Types
<1>2. DOMAIN todo' = Folder /\ todo'[f] = Tail(todo[f]) /\ \A g \in Folder \ {f} : todo'[g] = todo[g]
  BY DEF Types, Goes
<1>3. Planned(Tail(todo[f])) /\ Left(Tail(todo[f])) = IF Left(todo[f]) > 15 THEN Left(todo[f]) - 1 ELSE 0
  BY <1>1, PlannedTail
<1>4. \A g \in Folder \ {f} : Planned(todo[g])
  BY DEF Types
<1>5. QED
  BY <1>2, <1>3, <1>4 DEF Moves

LEMMA CommandFrame ==
  ASSUME NEW f \in Folder, Types, Shape(f)
  PROVE  /\ todo[f] # <<>> /\ UNCHANGED <<path, user, open, bounds>>
         /\ DOMAIN todo' = Folder /\ \A g \in Folder : Planned(todo'[g])
         /\ \A g \in Folder \ {f} : todo'[g] = todo[g] /\ mem'[g] = mem[g] /\ cfg'[g] = cfg[g]
         /\ (Failing(f) /\ todo'[f] = <<>> /\ Left(todo'[f]) = 0) \/ Moves(f)
<1>1. CASE Failing(f)
  <2>1. todo' = [todo EXCEPT ![f] = <<>>] /\ UNCHANGED <<cfg, path, user, open, bounds, mem>>
    BY <1>1 DEF Failing, Fail, Quiet, disk
  <2>2. DOMAIN todo' = Folder /\ todo'[f] = <<>> /\ \A g \in Folder \ {f} : todo'[g] = todo[g]
    BY <2>1 DEF Types
  <2>3. \A g \in Folder : Planned(todo'[g])
    BY <2>2, EmptyPlanned DEF Types
  <2>4. QED
    BY <1>1, <2>1, <2>2, <2>3, EmptyPlanned DEF Failing, Busy
<1>2. CASE Skipping(f) \/ Making(f) \/ Setting(f) \/ Testing(f) \/ Removing(f)
  <2>1. todo[f] # <<>> /\ Goes(f) /\ UNCHANGED <<cfg, path, user, open, bounds, mem>>
    BY <1>2 DEF Skipping, Making, Setting, Testing, Removing, Skip, Becomes, Set, Busy, Quiet, disk
  <2>2. QED
    BY <2>1, GoesOn
<1>3. CASE Choosing(f)
  <2>1. PICK c : Chosen(f, c)
    BY <1>3 DEF Choosing
  <2>2. todo[f] # <<>> /\ Goes(f) /\ UNCHANGED <<cfg, path, user, open, bounds>> /\ mem' = [mem EXCEPT ![f] = c]
    BY <1>3, <2>1 DEF Choosing, Chosen, Busy, Quiet, disk
  <2>3. \A g \in Folder \ {f} : mem'[g] = mem[g]
    BY <2>2 DEF Types
  <2>4. QED
    BY <2>2, <2>3, GoesOn
<1>4. CASE Locking(f) \/ Unlocking(f)
  <2>1. todo[f] # <<>> /\ Goes(f) /\ UNCHANGED <<cfg, path, user, open, bounds, mem>>
    BY <1>4 DEF Locking, Unlocking, Lock, Unlock, Busy, Quiet, disk
  <2>2. QED
    BY <2>1, GoesOn
<1>5. CASE Saving(f) \/ Adopting(f) \/ Forgetting(f)
  <2>1. PICK c : Writes(f, c)
    BY <1>5 DEF Saving, Adopting, Forgetting
  <2>2. todo[f] # <<>> /\ Goes(f) /\ UNCHANGED <<path, user, open, bounds, mem>> /\ cfg' = [cfg EXCEPT ![f] = c]
    BY <1>5, <2>1 DEF Saving, Adopting, Forgetting, Writes, Busy
  <2>3. \A g \in Folder \ {f} : cfg'[g] = cfg[g]
    BY <2>2 DEF Types
  <2>4. QED
    BY <2>2, <2>3, GoesOn
<1>6. QED
  BY <1>1, <1>2, <1>3, <1>4, <1>5 DEF Shape

(***************************************************************************)
(* Types.                                                                  *)
(***************************************************************************)
LEMMA ConfigEdits ==
  ASSUME NEW c \in Config
  PROVE  /\ \A n \in Names : [c EXCEPT !.name = n] \in Config /\ [c EXCEPT !.prefix = n] \in Config
         /\ \A s \in Subnets : [c EXCEPT !.subnet = s] \in Config
         /\ \A f \in Folder : [c EXCEPT !.owner = f] \in Config
BY DEF Config

LEMMA NoConfigIsConfig == NoConfig \in Config /\ NoConfig.name = None /\ NoConfig.owner = None
BY DEF NoConfig, Config

LEMMA NewIsObject ==
  ASSUME NEW f \in Folder, NEW k \in Kinds, Types
  PROVE  New(f, k) \in Object /\ New(f, k).owner = f
<1>1. mem[f] \in Config
  BY DEF Types
<1>2. mem[f].name \in Names \cup Subnets \cup {None} /\ mem[f].subnet \in Names \cup Subnets \cup {None}
  BY <1>1 DEF Config
<1>3. CASE k = "net"
  BY <1>2, <1>3 DEF New, Object
<1>4. CASE k = "volume"
  BY <1>2, <1>4 DEF New, Object
<1>5. CASE k = "router" \/ k = "worker"
  BY <1>2, <1>5 DEF New, Object
<1>6. QED
  BY <1>3, <1>4, <1>5 DEF Kinds

LEMMA TypesByCommand ==
  ASSUME NEW f \in Folder, Types, Shape(f)
  PROVE  Types'
<1>1. /\ todo[f] # <<>> /\ UNCHANGED <<path, user, open, bounds>>
      /\ DOMAIN todo' = Folder /\ \A g \in Folder : Planned(todo'[g])
      /\ \A g \in Folder \ {f} : todo'[g] = todo[g]
  BY CommandFrame
<1>2. /\ path' \in [Folder -> Folder \cup {None}] /\ open' \subseteq Folder /\ orderly' \in BOOLEAN
      /\ user' \in [Folder -> Users]
      /\ DOMAIN todo' = Folder /\ \A g \in Folder : Planned(todo'[g])
      /\ \A g \in Folder : todo'[g] # <<>> => g \in open'
  BY <1>1 DEF Types, bounds
<1>3. SUFFICES /\ obj' \in [Objects -> Object \cup {None}] /\ cfg' \in [Folder -> Config]
               /\ mem' \in [Folder -> Config] /\ lock' \in [Users -> Folder \cup {None}]
               /\ test' \in [Folder -> [Objects -> Found]]
  BY <1>2 DEF Types
<1>4. CASE Failing(f)
  <2>1. UNCHANGED <<obj, cfg, mem, test>> /\ lock' = Releases(f)
    BY <1>4 DEF Failing, Fail, Quiet, disk
  <2>2. QED
    BY <2>1 DEF Types, Releases
<1>5. CASE Skipping(f)
  BY <1>5 DEF Types, Skipping, Skip, Quiet, disk
<1>6. CASE Making(f)
  <2>1. PICK k \in Kinds : Becomes(f, The(k, mem[f]), New(f, k))
    BY <1>6 DEF Making
  <2>2. obj' = [obj EXCEPT ![The(k, mem[f])] = New(f, k)] /\ UNCHANGED <<cfg, mem, test, lock>>
    BY <2>1 DEF Becomes, Quiet, disk
  <2>3. QED
    BY <2>2, NewIsObject DEF Types
<1>7. CASE Setting(f)
  <2>1. PICK k \in {"router", "worker"}, up \in BOOLEAN :
          Exists(The(k, mem[f])) /\ Set(f, The(k, mem[f]), up)
    BY <1>7 DEF Setting
  <2> DEFINE o == The(k, mem[f])
  <2>2. obj' = [obj EXCEPT ![o] = [obj[o] EXCEPT !.up = up]] /\ UNCHANGED <<cfg, mem, test, lock>>
    BY <2>1 DEF Set, Becomes, Quiet, disk
  <2>3. o \in Objects => [obj[o] EXCEPT !.up = up] \in Object
    BY <2>1 DEF Types, Exists, Object
  <2> HIDE DEF o
  <2>4. QED
    BY <2>2, <2>3 DEF Types
<1>8. CASE Testing(f)
  <2>1. PICK k \in Kinds :
          test' = [test EXCEPT ![f][The(k, mem[f])] = IF Exists(The(k, mem[f])) THEN "there" ELSE "gone"]
    BY <1>8 DEF Testing
  <2>2. UNCHANGED <<obj, cfg, mem, lock>>
    BY <1>8 DEF Testing, Quiet, disk
  <2> DEFINE o == The(k, mem[f])
  <2>3. (IF Exists(o) THEN "there" ELSE "gone") \in Found
    BY DEF Found
  <2> HIDE DEF o
  <2>4. QED
    BY <2>1, <2>2, <2>3 DEF Types, o
<1>9. CASE Removing(f)
  <2>1. PICK k \in {"net", "router", "worker"} :
          /\ obj' = [obj EXCEPT ![The(k, mem[f])] = None]
          /\ test' = [g \in Folder |->
               [test[g] EXCEPT ![The(k, mem[f])] = IF @ = "there" THEN "gone" ELSE @]]
    BY <1>9 DEF Removing
  <2>2. UNCHANGED <<cfg, mem, lock>>
    BY <1>9 DEF Removing, Quiet, disk
  <2>3. obj' \in [Objects -> Object \cup {None}]
    BY <2>1 DEF Types
  <2>4. ASSUME NEW g \in Folder
        PROVE  [test[g] EXCEPT ![The(k, mem[f])] = IF @ = "there" THEN "gone" ELSE @] \in [Objects -> Found]
    <3> DEFINE o == The(k, mem[f])
    <3>1. test[g] \in [Objects -> Found]
      BY DEF Types
    <3>2. o \in Objects => (IF test[g][o] = "there" THEN "gone" ELSE test[g][o]) \in Found
      BY <3>1 DEF Found
    <3> HIDE DEF o
    <3>3. QED
      BY <3>1, <3>2 DEF o
  <2>5. test' \in [Folder -> [Objects -> Found]]
    BY <2>1, <2>4
  <2>6. QED
    BY <2>2, <2>3, <2>5 DEF Types
<1>10. CASE Choosing(f)
  <2>1. PICK c : /\ Chosen(f, c)
                 /\ \/ \E n \in Names : c = [mem[f] EXCEPT !.name = n] \/ c = [mem[f] EXCEPT !.prefix = n]
                    \/ \E s \in Subnets : c = [mem[f] EXCEPT !.subnet = s]
    BY <1>10 DEF Choosing
  <2>2. c \in Config
    <3>1. mem[f] \in Config
      BY DEF Types
    <3>2. QED
      BY <2>1, <3>1, ConfigEdits
  <2>3. mem' = [mem EXCEPT ![f] = c] /\ UNCHANGED <<obj, lock, test, cfg>>
    BY <2>1 DEF Chosen, Quiet, disk
  <2>4. QED
    BY <2>2, <2>3 DEF Types
<1>11. CASE Locking(f)
  <2>1. lock' = [lock EXCEPT ![user[f]] = f] /\ UNCHANGED <<obj, mem, test, cfg>>
    BY <1>11 DEF Locking, Lock, Quiet, disk
  <2>2. QED
    BY <2>1 DEF Types
<1>12. CASE Unlocking(f)
  <2>1. lock' = [lock EXCEPT ![user[f]] = None] /\ UNCHANGED <<obj, mem, test, cfg>>
    BY <1>12 DEF Unlocking, Unlock, Quiet, disk
  <2>2. QED
    BY <2>1 DEF Types
<1>13. CASE Saving(f) \/ Adopting(f) \/ Forgetting(f)
  <2>1. PICK c \in {mem[f], NoConfig} : Writes(f, c)
    BY <1>13 DEF Saving, Adopting, Forgetting
  <2>2. cfg' = [cfg EXCEPT ![f] = c] /\ UNCHANGED <<obj, lock, mem, test>>
    BY <2>1 DEF Writes
  <2>3. c \in Config
    BY NoConfigIsConfig DEF Types
  <2>4. QED
    BY <2>2, <2>3 DEF Types
<1>14. QED
  BY <1>4, <1>5, <1>6, <1>7, <1>8, <1>9, <1>10, <1>11, <1>12, <1>13 DEF Shape

\* An action begins with a plan for an idle launcher.
Beginning(f) == \E c \in Config, p \in Plans :
  /\ Idle(f) /\ Begin(f, c, p) /\ c.owner = f
  /\ \/ p = setup /\ cfg[f] = NoConfig
     \/ p # setup /\ Own(f) /\ c = [cfg[f] EXCEPT !.owner = f]

LEMMA Beginnings ==
  ASSUME NEW f \in Folder, Types, Setup(f) \/ Choose(f)
  PROVE  Beginning(f)
<1>1. CASE Setup(f)
  <2> DEFINE c == [NoConfig EXCEPT !.owner = f]
  <2>1. c \in Config /\ c.owner = f
    BY NoConfigIsConfig, ConfigEdits DEF NoConfig
  <2>2. Idle(f) /\ cfg[f] = NoConfig /\ Begin(f, c, setup)
    BY <1>1 DEF Setup
  <2> HIDE DEF c
  <2>3. QED
    BY <2>1, <2>2 DEF Beginning, Plans
<1>2. CASE Choose(f)
  <2> DEFINE c == [cfg[f] EXCEPT !.owner = f]
  <2>1. cfg[f] \in Config
    BY DEF Types
  <2>2. c \in Config /\ c.owner = f
    <3>1. c \in Config
      BY <2>1, ConfigEdits
    <3>2. c.owner = f
      BY <2>1 DEF Config
    <3>3. QED
      BY <3>1, <3>2
  <2>3. /\ Idle(f) /\ Own(f)
        /\ \E p \in {deploy, worker_stop, rebuild_deployment, remove_deployment} : Begin(f, c, p)
    BY <1>2 DEF Choose, Own
  <2>4. PICK p \in {deploy, worker_stop, rebuild_deployment, remove_deployment} : Begin(f, c, p)
    BY <2>3
  <2>5. p \in Plans /\ p # setup
    <3>1. p \in Plans
      BY DEF Plans
    <3>2. Left(setup) = 23 /\ Left(p) = 0
      BY LeftBegins
    <3>3. QED
      BY <3>1, <3>2
  <2>6. c = [cfg[f] EXCEPT !.owner = f]
    OBVIOUS
  <2> HIDE DEF c
  <2>7. QED
    BY <2>2, <2>3, <2>4, <2>5, <2>6 DEF Beginning
<1>3. QED
  BY <1>1, <1>2

LEMMA TypesByBeginning ==
  ASSUME NEW f \in Folder, Types, Beginning(f)
  PROVE  Types'
<1>1. PICK c \in Config, p \in Plans : Idle(f) /\ Begin(f, c, p)
  BY DEF Beginning
<1>2. /\ f \in open /\ todo' = [todo EXCEPT ![f] = p] /\ mem' = [mem EXCEPT ![f] = c]
      /\ test' = [test EXCEPT ![f] = Untested]
      /\ UNCHANGED <<obj, cfg, path, user, lock, open, orderly>>
  BY <1>1 DEF Idle, Begin, disk
<1>3. Planned(p)
  BY PlansAre
<1>4. Untested \in [Objects -> Found]
  BY DEF Untested, Found
<1>5. /\ mem' \in [Folder -> Config] /\ test' \in [Folder -> [Objects -> Found]]
  BY <1>2, <1>4 DEF Types
<1>6. /\ DOMAIN todo' = Folder /\ \A g \in Folder : Planned(todo'[g])
      /\ \A g \in Folder : todo'[g] # <<>> => g \in open'
  BY <1>2, <1>3 DEF Types
<1>7. QED
  BY <1>2, <1>5, <1>6 DEF Types

LEMMA TypesByOthers ==
  ASSUME NEW f \in Folder, Types,
         Launch(f) \/ Quit(f) \/ CutOff(f) \/ \E g \in Folder : Copy(f, g)
  PROVE  Types'
<1>1. CASE Launch(f)
  <2>1. /\ open' = open \cup {f} /\ path' = [path EXCEPT ![f] = f]
        /\ cfg' = [cfg EXCEPT ![f] = IF @ # NoConfig /\ Copied(f) THEN NoConfig ELSE @]
        /\ UNCHANGED <<obj, user, lock, todo, mem, test, orderly>>
    BY <1>1 DEF Launch, prepare_folder, bounds
  <2>2. cfg' \in [Folder -> Config]
    BY <2>1, NoConfigIsConfig DEF Types
  <2>3. QED
    BY <2>1, <2>2 DEF Types
<1>2. CASE Quit(f)
  <2>1. /\ todo[f] = <<>> /\ open' = open \ {f}
        /\ UNCHANGED <<obj, cfg, path, user, lock, todo, mem, test, orderly>>
    BY <1>2 DEF Quit, Idle, disk, bounds
  <2>2. QED
    BY <2>1 DEF Types
<1>3. CASE CutOff(f)
  <2>1. /\ todo' = [todo EXCEPT ![f] = <<>>] /\ open' \in {open, open \ {f}}
        /\ lock' = Releases(f) /\ orderly' = FALSE
        /\ UNCHANGED <<obj, cfg, path, user, mem, test>>
    BY <1>3 DEF CutOff, disk
  <2>2. lock' \in [Users -> Folder \cup {None}]
    BY <2>1 DEF Types, Releases
  <2>3. DOMAIN todo' = Folder /\ todo'[f] = <<>> /\ \A g \in Folder \ {f} : todo'[g] = todo[g]
    BY <2>1 DEF Types
  <2>4. \A g \in Folder : Planned(todo'[g]) /\ (todo'[g] # <<>> => g \in open')
    BY <2>1, <2>3, EmptyPlanned DEF Types
  <2>5. QED
    BY <2>1, <2>2, <2>3, <2>4 DEF Types
<1>4. CASE \E g \in Folder : Copy(f, g)
  <2>1. PICK g \in Folder : Copy(f, g)
    BY <1>4
  <2>2. /\ cfg' = [cfg EXCEPT ![g] = cfg[f]] /\ path' = [path EXCEPT ![g] = path[f]]
        /\ orderly' = (orderly /\ cfg[f].owner # None)
        /\ UNCHANGED <<obj, user, lock, open, todo, mem, test>>
    BY <2>1 DEF Copy
  <2>3. QED
    BY <2>2 DEF Types
<1>5. QED
  BY <1>1, <1>2, <1>3, <1>4

(***************************************************************************)
(* The lock.                                                               *)
(***************************************************************************)
LEMMA HeldByCommand ==
  ASSUME NEW f \in Folder, Types, FoldersAssumption, Held, Shape(f)
  PROVE  Held'
<1>1. /\ todo[f] # <<>> /\ user' = user /\ \A g \in Folder \ {f} : todo'[g] = todo[g]
      /\ (Failing(f) /\ todo'[f] = <<>> /\ Left(todo'[f]) = 0) \/ Moves(f)
  BY CommandFrame
<1>2. user[f] \in Users /\ Left(todo[f]) \in {0} \cup 15..23 /\ f # None
  BY LeftRange DEF Types, FoldersAssumption
<1>3. CASE Failing(f)
  <2>1. lock' = Releases(f) /\ todo' = [todo EXCEPT ![f] = <<>>]
    BY <1>3 DEF Failing, Fail
  <2>2. todo'[f] = <<>> /\ Left(todo'[f]) = 0
    BY <2>1, EmptyPlanned DEF Types
  <2>3. ASSUME NEW u \in Users, NEW g \in Folder, lock'[u] = g
        PROVE  u = user'[g] /\ Left(todo'[g]) \in 15..22
    <3>1. lock[u] = g /\ g # f
      BY <2>1, <2>3, <1>2 DEF Releases, FoldersAssumption
    <3>2. QED
      BY <3>1, <1>1 DEF Held
  <2>4. ASSUME NEW g \in Folder, Left(todo'[g]) \in 15..22
        PROVE  lock'[user'[g]] = g
    <3>1. g # f
      BY <2>2, <2>4
    <3>2. lock[user[g]] = g /\ user[g] \in Users
      BY <3>1, <1>1, <2>4 DEF Held, Types
    <3>3. QED
      BY <3>1, <3>2, <2>1, <1>1 DEF Releases
  <2>5. QED
    BY <2>3, <2>4 DEF Held
<1>4. CASE ~Failing(f) /\ Left(todo[f]) \notin {15, 23} /\ lock' = lock
  <2>1. Moves(f)
    BY <1>1, <1>4
  <2>2. Left(todo[f]) \in 15..22 <=> Left(todo'[f]) \in 15..22
    BY <2>1, <1>2, <1>4 DEF Moves
  <2>3. \A g \in Folder : Left(todo'[g]) \in 15..22 <=> Left(todo[g]) \in 15..22
    BY <1>1, <2>2
  <2>4. QED
    BY <2>3, <1>1, <1>4 DEF Held
<1>5. CASE ~Failing(f) /\ Locking(f)
  <2>1. /\ lock[user[f]] = None /\ lock' = [lock EXCEPT ![user[f]] = f] /\ Left(todo[f]) = 23
    BY <1>5 DEF Locking, Lock
  <2>2. Left(todo'[f]) \in 15..22
    BY <1>1, <1>5, <2>1 DEF Moves
  <2>3. ASSUME NEW u \in Users, NEW g \in Folder, lock'[u] = g
        PROVE  u = user'[g] /\ Left(todo'[g]) \in 15..22
    <3>1. CASE u = user[f]
      <4>1. g = f
        BY <3>1, <2>1, <2>3, <1>2 DEF Types
      <4>2. QED
        BY <4>1, <3>1, <2>2, <1>1
    <3>2. CASE u # user[f]
      <4>1. lock[u] = g
        BY <3>2, <2>1, <2>3 DEF Types
      <4>2. u = user[g] /\ Left(todo[g]) \in 15..22
        BY <4>1 DEF Held
      <4>3. g # f
        BY <4>2, <3>2
      <4>4. QED
        BY <4>2, <4>3, <1>1
    <3>3. QED
      BY <3>1, <3>2
  <2>4. ASSUME NEW g \in Folder, Left(todo'[g]) \in 15..22
        PROVE  lock'[user'[g]] = g
    <3>1. CASE g = f
      BY <3>1, <2>1, <1>1, <1>2 DEF Types
    <3>2. CASE g # f
      <4>1. lock[user[g]] = g /\ g # None
        BY <3>2, <1>1, <2>4 DEF Held, FoldersAssumption
      <4>2. user[g] # user[f]
        BY <4>1, <2>1
      <4>3. QED
        BY <4>1, <4>2, <2>1, <1>1 DEF Types
    <3>3. QED
      BY <3>1, <3>2
  <2>5. QED
    BY <2>3, <2>4 DEF Held
<1>6. CASE ~Failing(f) /\ Unlocking(f)
  <2>1. lock' = [lock EXCEPT ![user[f]] = None] /\ Left(todo[f]) = 15
    BY <1>6 DEF Unlocking, Unlock
  <2>2. Left(todo'[f]) = 0 /\ lock[user[f]] = f
    BY <1>1, <1>6, <2>1 DEF Moves, Held
  <2>3. ASSUME NEW u \in Users, NEW g \in Folder, lock'[u] = g
        PROVE  u = user'[g] /\ Left(todo'[g]) \in 15..22
    <3>1. u # user[f] /\ lock[u] = g
      BY <2>1, <2>3 DEF Types, FoldersAssumption
    <3>2. u = user[g] /\ Left(todo[g]) \in 15..22
      BY <3>1 DEF Held
    <3>3. g # f
      BY <3>1, <3>2
    <3>4. QED
      BY <3>2, <3>3, <1>1
  <2>4. ASSUME NEW g \in Folder, Left(todo'[g]) \in 15..22
        PROVE  lock'[user'[g]] = g
    <3>1. g # f
      BY <2>2, <2>4
    <3>2. lock[user[g]] = g
      BY <3>1, <1>1, <2>4 DEF Held
    <3>3. user[g] # user[f]
      BY <3>1, <3>2, <2>2
    <3>4. QED
      BY <3>2, <3>3, <2>1, <1>1 DEF Types
  <2>5. QED
    BY <2>3, <2>4 DEF Held
<1>7. Failing(f) \/ Locking(f) \/ Unlocking(f) \/ (Left(todo[f]) \notin {15, 23} /\ lock' = lock)
  <2>1. CASE Skipping(f) \/ Making(f) \/ Setting(f) \/ Testing(f) \/ Removing(f)
    <3>1. lock' = lock
      BY <2>1 DEF Skipping, Making, Setting, Testing, Removing, Skip, Becomes, Set
    <3>2. Left(todo[f]) \in {0, 16, 17, 19}
      BY <2>1 DEF Skipping, Making, Setting, Testing, Removing
    <3>3. QED
      BY <3>1, <3>2
  <2>2. CASE Choosing(f)
    BY <2>2 DEF Choosing, Chosen
  <2>3. CASE Saving(f) \/ Adopting(f) \/ Forgetting(f)
    BY <2>3 DEF Saving, Adopting, Forgetting, Writes
  <2>4. QED
    BY <2>1, <2>2, <2>3 DEF Shape
<1>8. QED
  BY <1>3, <1>4, <1>5, <1>6, <1>7

LEMMA HeldByBeginning ==
  ASSUME NEW f \in Folder, Types, Held, Beginning(f)
  PROVE  Held'
<1>1. PICK c \in Config, p \in Plans : Idle(f) /\ Begin(f, c, p)
  BY DEF Beginning
<1>2. /\ todo[f] = <<>> /\ todo' = [todo EXCEPT ![f] = p] /\ UNCHANGED <<user, lock>>
  BY <1>1 DEF Idle, Begin
<1>3. Left(todo[f]) = 0 /\ Left(todo'[f]) \in {0, 23} /\ \A g \in Folder \ {f} : todo'[g] = todo[g]
  BY <1>2, EmptyPlanned, LeftBegins DEF Plans, Types
<1>4. \A g \in Folder : Left(todo'[g]) \in 15..22 <=> Left(todo[g]) \in 15..22
  BY <1>3
<1>5. QED
  BY <1>2, <1>4 DEF Held

LEMMA HeldByOthers ==
  ASSUME NEW f \in Folder, Types, FoldersAssumption, Held,
         Launch(f) \/ Quit(f) \/ CutOff(f) \/ \E g \in Folder : Copy(f, g)
  PROVE  Held'
<1>1. CASE Launch(f) \/ Quit(f) \/ \E g \in Folder : Copy(f, g)
  <2>1. UNCHANGED <<todo, user, lock>>
    BY <1>1 DEF Launch, Quit, Copy
  <2>2. QED
    BY <2>1 DEF Held
<1>2. CASE CutOff(f)
  <2>1. /\ todo' = [todo EXCEPT ![f] = <<>>] /\ lock' = Releases(f) /\ user' = user
    BY <1>2 DEF CutOff
  <2>2. Left(todo'[f]) = 0 /\ \A g \in Folder \ {f} : todo'[g] = todo[g]
    BY <2>1, EmptyPlanned DEF Types
  <2>3. ASSUME NEW u \in Users, NEW g \in Folder, lock'[u] = g
        PROVE  u = user'[g] /\ Left(todo'[g]) \in 15..22
    <3>1. lock[u] = g /\ g # f
      BY <2>1, <2>3 DEF Releases, FoldersAssumption
    <3>2. QED
      BY <3>1, <2>1, <2>2 DEF Held
  <2>4. ASSUME NEW g \in Folder, Left(todo'[g]) \in 15..22
        PROVE  lock'[user'[g]] = g
    <3>1. g # f
      BY <2>2, <2>4
    <3>2. lock[user[g]] = g /\ user[g] \in Users
      BY <3>1, <2>2, <2>4 DEF Held, Types
    <3>3. QED
      BY <3>1, <3>2, <2>1 DEF Releases
  <2>5. QED
    BY <2>3, <2>4 DEF Held
<1>3. QED
  BY <1>1, <1>2

(***************************************************************************)
(* What a folder has found is its own, and what it touches it has tested.  *)
(***************************************************************************)
LEMMA ThereByCommand ==
  ASSUME NEW f \in Folder, Types, FoldersAssumption, ThereIsOwn, Shape(f)
  PROVE  ThereIsOwn'
<1>1. CASE obj' = obj /\ test' = test
  BY <1>1 DEF ThereIsOwn, Exists
<1>2. CASE Making(f)
  <2>1. PICK k \in Kinds : ~Exists(The(k, mem[f])) /\ Becomes(f, The(k, mem[f]), New(f, k))
    BY <1>2 DEF Making
  <2> DEFINE t == The(k, mem[f])
  <2>2. ~Exists(t) /\ obj' = [obj EXCEPT ![t] = New(f, k)] /\ test' = test
    BY <2>1 DEF Becomes
  <2> HIDE DEF t
  <2>3. ASSUME NEW g \in Folder, NEW o \in Objects, test'[g][o] = "there"
        PROVE  obj'[o] # None /\ obj'[o].owner = g
    <3>1. Exists(o) /\ obj[o].owner = g
      BY <2>2, <2>3 DEF ThereIsOwn
    <3>2. o # t
      BY <3>1, <2>2
    <3>3. obj'[o] = obj[o]
      BY <3>2, <2>2 DEF Types
    <3>4. QED
      BY <3>1, <3>3 DEF Exists
  <2>4. QED
    BY <2>3 DEF ThereIsOwn, Exists
<1>3. CASE Setting(f)
  <2>1. PICK k \in {"router", "worker"}, up \in BOOLEAN :
          Exists(The(k, mem[f])) /\ Set(f, The(k, mem[f]), up)
    BY <1>3 DEF Setting
  <2> DEFINE t == The(k, mem[f])
  <2>2. Exists(t) /\ obj' = [obj EXCEPT ![t] = [obj[t] EXCEPT !.up = up]] /\ test' = test
    BY <2>1 DEF Set, Becomes
  <2> HIDE DEF t
  <2>3. ASSUME NEW g \in Folder, NEW o \in Objects, test'[g][o] = "there"
        PROVE  obj'[o] # None /\ obj'[o].owner = g
    <3>1. Exists(o) /\ obj[o].owner = g
      BY <2>2, <2>3 DEF ThereIsOwn
    <3>2. CASE o # t
      <4>1. obj'[o] = obj[o]
        BY <3>2, <2>2 DEF Types
      <4>2. QED
        BY <3>1, <4>1 DEF Exists
    <3>3. CASE o = t
      <4>1. obj'[o] = [obj[o] EXCEPT !.up = up]
        BY <3>3, <2>2 DEF Types
      <4>2. obj[o] \in Object
        BY <3>1 DEF Types, Exists
      <4>3. obj'[o] \in Object /\ obj'[o].owner = obj[o].owner
        BY <4>1, <4>2 DEF Object
      <4>4. QED
        BY <4>3, <3>1 DEF FoldersAssumption
    <3>4. QED
      BY <3>2, <3>3
  <2>4. QED
    BY <2>3 DEF ThereIsOwn, Exists
<1>4. CASE Testing(f)
  <2>1. PICK k \in Kinds :
          /\ Owned(f, The(k, mem[f])) /\ obj' = obj
          /\ test' = [test EXCEPT ![f][The(k, mem[f])] = IF Exists(The(k, mem[f])) THEN "there" ELSE "gone"]
    BY <1>4 DEF Testing
  <2> DEFINE t == The(k, mem[f])
  <2>2. /\ Owned(f, t) /\ obj' = obj
        /\ test' = [test EXCEPT ![f][t] = IF Exists(t) THEN "there" ELSE "gone"]
    BY <2>1
  <2> HIDE DEF t
  <2>3. ASSUME NEW g \in Folder, NEW o \in Objects, test'[g][o] = "there"
        PROVE  obj'[o] # None /\ obj'[o].owner = g
    <3>1. CASE g = f /\ o = t
      <4>1. test'[g][o] = IF Exists(t) THEN "there" ELSE "gone"
        BY <3>1, <2>2 DEF Types
      <4>2. Exists(t)
        BY <4>1, <2>3
      <4>3. QED
        BY <4>2, <3>1, <2>2 DEF Owned, Exists
    <3>2. CASE ~(g = f /\ o = t)
      <4>1. test'[g][o] = test[g][o]
        BY <3>2, <2>2 DEF Types
      <4>2. QED
        BY <4>1, <2>2, <2>3 DEF ThereIsOwn, Exists
    <3>3. QED
      BY <3>1, <3>2
  <2>4. QED
    BY <2>3 DEF ThereIsOwn, Exists
<1>5. CASE Removing(f)
  <2>1. PICK k \in {"net", "router", "worker"} :
          /\ obj' = [obj EXCEPT ![The(k, mem[f])] = None]
          /\ test' = [g \in Folder |->
               [test[g] EXCEPT ![The(k, mem[f])] = IF @ = "there" THEN "gone" ELSE @]]
    BY <1>5 DEF Removing
  <2> DEFINE t == The(k, mem[f])
  <2>2. /\ obj' = [obj EXCEPT ![t] = None]
        /\ test' = [g \in Folder |-> [test[g] EXCEPT ![t] = IF @ = "there" THEN "gone" ELSE @]]
    BY <2>1
  <2> HIDE DEF t
  <2>3. ASSUME NEW g \in Folder, NEW o \in Objects, test'[g][o] = "there"
        PROVE  obj'[o] # None /\ obj'[o].owner = g
    <3>1. test'[g] = [test[g] EXCEPT ![t] = IF @ = "there" THEN "gone" ELSE @]
      BY <2>2
    <3>2. o # t
      BY <3>1, <2>3 DEF Types
    <3>3. test[g][o] = "there" /\ obj'[o] = obj[o]
      BY <3>1, <3>2, <2>2, <2>3 DEF Types
    <3>4. QED
      BY <3>3 DEF ThereIsOwn, Exists
  <2>4. QED
    BY <2>3 DEF ThereIsOwn, Exists
<1>6. CASE \/ Failing(f) \/ Skipping(f) \/ Choosing(f) \/ Locking(f) \/ Unlocking(f)
           \/ Saving(f) \/ Adopting(f) \/ Forgetting(f)
  <2>1. obj' = obj /\ test' = test
    BY <1>6 DEF Failing, Fail, Skipping, Skip, Choosing, Chosen, Locking, Lock, Unlocking, Unlock,
                Saving, Adopting, Forgetting, Writes
  <2>2. QED
    BY <1>1, <2>1
<1>7. QED
  BY <1>2, <1>3, <1>4, <1>5, <1>6 DEF Shape

LEMMA ThereByOthers ==
  ASSUME NEW f \in Folder, Types, ThereIsOwn,
         Beginning(f) \/ Launch(f) \/ Quit(f) \/ CutOff(f) \/ \E g \in Folder : Copy(f, g)
  PROVE  ThereIsOwn'
<1>1. CASE Beginning(f)
  <2>1. obj' = obj /\ test' = [test EXCEPT ![f] = Untested]
    BY <1>1 DEF Beginning, Begin
  <2>2. ASSUME NEW g \in Folder, NEW o \in Objects, test'[g][o] = "there"
        PROVE  test[g][o] = "there"
    BY <2>1, <2>2 DEF Types, Untested
  <2>3. QED
    BY <2>1, <2>2 DEF ThereIsOwn, Exists
<1>2. CASE Launch(f) \/ Quit(f) \/ CutOff(f) \/ \E g \in Folder : Copy(f, g)
  <2>1. obj' = obj /\ test' = test
    BY <1>2 DEF Launch, Quit, CutOff, Copy
  <2>2. QED
    BY <2>1 DEF ThereIsOwn, Exists
<1>3. QED
  BY <1>1, <1>2

\* A plan that goes on has no command whose test it skips.
LEMMA TestedTail ==
  ASSUME NEW s, Planned(s), s # <<>>, NEW i \in 1..Len(Tail(s)), Tail(s)[i][1] \in Touching
  PROVE  /\ i + 1 \in 1..Len(s) /\ s[i + 1] = Tail(s)[i]
         /\ TestedAt(s, i + 1) => TestedAt(Tail(s), i) \/ Head(s) = Do("check", Tail(s)[i][2])
<1>1. /\ s \in Seq(Entry) /\ Len(s) \in Nat /\ Head(s) = s[1] /\ Len(Tail(s)) = Len(s) - 1
      /\ \A j \in 1..Len(Tail(s)) : Tail(s)[j] = s[j + 1]
  BY DEF Planned
<1>2. i + 1 \in 1..Len(s) /\ s[i + 1] = Tail(s)[i] /\ (i + 1) - 1 = i
  BY <1>1
<1>3. ASSUME TestedAt(s, i + 1), Head(s) # Do("check", Tail(s)[i][2])
      PROVE  TestedAt(Tail(s), i)
  <2>1. PICK j \in 1..((i + 1) - 1) : s[j] = Do("check", s[i + 1][2])
    BY <1>3 DEF TestedAt
  <2>2. j # 1
    BY <2>1, <1>1, <1>2, <1>3
  <2>3. j - 1 \in 1..(i - 1) /\ j - 1 \in 1..Len(Tail(s)) /\ (j - 1) + 1 = j
    BY <2>1, <2>2, <1>1, <1>2
  <2>4. Tail(s)[j - 1] = Do("check", Tail(s)[i][2])
    BY <2>1, <2>3, <1>1, <1>2
  <2>5. QED
    BY <2>3, <2>4 DEF TestedAt
<1>4. QED
  BY <1>2, <1>3

LEMMA TouchGoesOn ==
  ASSUME NEW f \in Folder, Types, TouchesTested(f), todo[f] # <<>>, Moves(f),
         Left(todo'[f]) # 0 \/ mem'[f] = mem[f],
         \A k \in Kinds : Head(todo[f]) = Do("check", k) => Tested(f, k)',
         \A o \in Objects : test[f][o] # "untested" => test'[f][o] # "untested"
  PROVE  TouchesTested(f)'
<1> DEFINE s == todo[f]
<1>1. Planned(s) /\ todo'[f] = Tail(s) /\ Planned(Tail(s))
  BY PlannedTail DEF Types, Moves
<1>2. SUFFICES ASSUME NEW i \in 1..Len(Tail(s)), NEW k, k = Tail(s)[i][2],
                      Tail(s)[i][1] \in Touching, ~TestedAt(Tail(s), i)
               PROVE  The(k, mem'[f]) \in Objects => test'[f][The(k, mem'[f])] # "untested"
  BY <1>1 DEF TouchesTested, Tested
<1>3. Left(Tail(s)) = 0 /\ mem'[f] = mem[f]
  BY <1>1, <1>2, SetupTests
<1>4. /\ i + 1 \in 1..Len(s) /\ s[i + 1] = Tail(s)[i]
      /\ TestedAt(s, i + 1) => Head(s) = Do("check", k)
  BY <1>1, <1>2, TestedTail
<1>5. TestedAt(s, i + 1) \/ Tested(f, k)
  BY <1>2, <1>4 DEF TouchesTested
<1>6. CASE TestedAt(s, i + 1)
  <2>1. Head(s) = Do("check", k) /\ Head(s)[1] = "check"
    BY <1>4, <1>6 DEF Do
  <2>2. k \in Kinds
    <3>1. PICK l \in Kinds : Head(s) = Do("check", l)
      BY <2>1, <1>1, OpSays
    <3>2. k = l
      BY <2>1, <3>1 DEF Do
    <3>3. QED
      BY <3>2
  <2>3. Tested(f, k)'
    BY <2>1, <2>2
  <2>4. QED
    BY <2>3 DEF Tested
<1>7. CASE Tested(f, k)
  BY <1>3, <1>7 DEF Tested
<1>8. QED
  BY <1>5, <1>6, <1>7

LEMMA TouchOfRest ==
  ASSUME NEW f \in Folder, NEW g \in Folder, g # f, TouchesTested(g),
         todo'[g] = todo[g], mem'[g] = mem[g],
         \A o \in Objects : test[g][o] # "untested" => test'[g][o] # "untested"
  PROVE  TouchesTested(g)'
<1>1. ASSUME NEW i \in 1..Len(todo[g]), NEW k, k = todo[g][i][2],
             todo[g][i][1] \in Touching, ~TestedAt(todo[g], i)
      PROVE  The(k, mem'[g]) \in Objects => test'[g][The(k, mem'[g])] # "untested"
  BY <1>1 DEF TouchesTested, Tested
<1>2. QED
  BY <1>1 DEF TouchesTested, Tested

\* No test is forgotten while its action runs.
LEMMA TestsStay ==
  ASSUME NEW f \in Folder, Types, Shape(f), NEW g \in Folder, NEW o \in Objects, test[g][o] # "untested"
  PROVE  test'[g][o] # "untested"
<1>1. CASE test' = test
  BY <1>1
<1>2. CASE Testing(f)
  <2>1. PICK k \in Kinds :
          test' = [test EXCEPT ![f][The(k, mem[f])] = IF Exists(The(k, mem[f])) THEN "there" ELSE "gone"]
    BY <1>2 DEF Testing
  <2> DEFINE t == The(k, mem[f])
             found == IF Exists(t) THEN "there" ELSE "gone"
  <2>2. test' = [test EXCEPT ![f][t] = found] /\ found # "untested"
    BY <2>1
  <2> HIDE DEF t, found
  <2>3. QED
    BY <2>2 DEF Types
<1>3. CASE Removing(f)
  <2>1. PICK k \in {"net", "router", "worker"} :
          test' = [h \in Folder |->
               [test[h] EXCEPT ![The(k, mem[f])] = IF @ = "there" THEN "gone" ELSE @]]
    BY <1>3 DEF Removing
  <2> DEFINE t == The(k, mem[f])
  <2>2. test'[g] = [test[g] EXCEPT ![t] = IF @ = "there" THEN "gone" ELSE @]
    BY <2>1
  <2> HIDE DEF t
  <2>3. QED
    BY <2>2 DEF Types
<1>4. CASE \/ Failing(f) \/ Skipping(f) \/ Making(f) \/ Setting(f) \/ Choosing(f) \/ Locking(f)
           \/ Unlocking(f) \/ Saving(f) \/ Adopting(f) \/ Forgetting(f)
  <2>1. test' = test
    BY <1>4 DEF Failing, Fail, Skipping, Skip, Making, Setting, Set, Becomes, Choosing, Chosen,
                Locking, Lock, Unlocking, Unlock, Saving, Adopting, Forgetting, Writes
  <2>2. QED
    BY <1>1, <2>1
<1>5. QED
  BY <1>2, <1>3, <1>4 DEF Shape

LEMMA EmptyTested ==
  ASSUME NEW f, todo'[f] = <<>>
  PROVE  TouchesTested(f)'
<1>1. \A i \in 1..Len(<<>>) : FALSE
  OBVIOUS
<1>2. QED
  BY <1>1 DEF TouchesTested

LEMMA TouchByCommand ==
  ASSUME NEW f \in Folder, Types, TouchTested, Shape(f)
  PROVE  TouchTested'
<1>1. /\ todo[f] # <<>> /\ \A g \in Folder \ {f} : todo'[g] = todo[g] /\ mem'[g] = mem[g]
      /\ (Failing(f) /\ todo'[f] = <<>> /\ Left(todo'[f]) = 0) \/ Moves(f)
  BY CommandFrame
<1>2. \A g \in Folder : TouchesTested(g)
  BY DEF TouchTested
<1>3. ASSUME NEW g \in Folder, g # f PROVE TouchesTested(g)'
  <2>1. \A o \in Objects : test[g][o] # "untested" => test'[g][o] # "untested"
    BY TestsStay
  <2>2. QED
    BY <2>1, <1>1, <1>2, <1>3, TouchOfRest
<1>4. TouchesTested(f)'
  <2>1. CASE todo'[f] = <<>>
    BY <2>1, EmptyTested
  <2>2. CASE Moves(f) /\ todo'[f] # <<>>
    <3>1. \A o \in Objects : test[f][o] # "untested" => test'[f][o] # "untested"
      BY TestsStay
    <3>2. Left(todo'[f]) # 0 \/ mem'[f] = mem[f]
      <4>1. CASE Choosing(f)
        BY <4>1, <2>2 DEF Choosing, Moves
      <4>2. CASE \/ Failing(f) \/ Skipping(f) \/ Making(f) \/ Setting(f) \/ Testing(f) \/ Removing(f)
                 \/ Locking(f) \/ Unlocking(f) \/ Saving(f) \/ Adopting(f) \/ Forgetting(f)
        BY <4>2 DEF Failing, Fail, Skipping, Skip, Making, Setting, Set, Becomes, Testing, Removing,
                    Locking, Lock, Unlocking, Unlock, Saving, Adopting, Forgetting, Writes
      <4>3. QED
        BY <4>1, <4>2 DEF Shape
    <3>3. ASSUME NEW k \in Kinds, Head(todo[f]) = Do("check", k)
          PROVE  Tested(f, k)' \/ Left(todo'[f]) # 0
      <4>1. Head(todo[f])[1] = "check"
        BY <3>3, OpOf
      <4>2. CASE Testing(f)
        <5>1. PICK l \in Kinds :
                /\ Head(todo[f]) = Do("check", l) /\ mem' = mem
                /\ test' = [test EXCEPT ![f][The(l, mem[f])] =
                              IF Exists(The(l, mem[f])) THEN "there" ELSE "gone"]
          BY <4>2 DEF Testing
        <5>2. l = k
          BY <5>1, <3>3, KindOf
        <5> DEFINE t == The(k, mem[f])
                   found == IF Exists(t) THEN "there" ELSE "gone"
        <5>3. test' = [test EXCEPT ![f][t] = found] /\ found # "untested" /\ t = The(k, mem'[f])
          BY <5>1, <5>2
        <5> HIDE DEF t, found
        <5>4. t \in Objects => test'[f][t] # "untested"
          BY <5>3 DEF Types
        <5>5. QED
          BY <5>3, <5>4 DEF Tested
      <4>3. CASE Failing(f)
        BY <4>3, <2>2 DEF Failing, Fail, Types
      <4>4. CASE Skipping(f)
        BY <4>4, <4>1, <1>1 DEF Skipping, At
      <4>5. CASE Making(f)
        <5>1. Head(todo[f])[1] = "make"
          BY <4>5, OpOf DEF Making
        <5>2. QED
          BY <4>1, <5>1
      <4>6. CASE Setting(f) \/ Removing(f)
        BY <4>6, <4>1, TouchOps DEF Setting, Removing
      <4>7. CASE Choosing(f)
        BY <4>7, <2>2 DEF Choosing, Moves
      <4>8. CASE Locking(f) \/ Unlocking(f)
        BY <4>8, <4>1 DEF Locking, Lock, Unlocking, Unlock, At
      <4>9. CASE Saving(f)
        BY <4>9, <2>2 DEF Saving, Moves
      <4>10. CASE Forgetting(f)
        BY <4>10, <2>2 DEF Forgetting, Moves
      <4>11. CASE Adopting(f)
        BY <4>11, <4>1, <1>1 DEF Adopting, At
      <4>12. QED
        BY <4>2, <4>3, <4>4, <4>5, <4>6, <4>7, <4>8, <4>9, <4>10, <4>11 DEF Shape
    <3>4. CASE Left(todo'[f]) # 0
      <4>1. Planned(todo'[f])
        BY CommandFrame
      <4>2. \A i \in 1..Len(todo'[f]) : todo'[f][i][1] \in Touching => TestedAt(todo'[f], i)
        BY <4>1, <3>4, SetupTests
      <4>3. QED
        BY <4>2 DEF TouchesTested
    <3>5. CASE Left(todo'[f]) = 0
      BY <3>1, <3>2, <3>3, <3>5, <1>1, <1>2, <2>2, TouchGoesOn
    <3>6. QED
      BY <3>4, <3>5
  <2>3. QED
    BY <1>1, <2>1, <2>2
<1>5. QED
  BY <1>3, <1>4 DEF TouchTested

LEMMA TouchByOthers ==
  ASSUME NEW f \in Folder, Types, TouchTested,
         Beginning(f) \/ Launch(f) \/ Quit(f) \/ CutOff(f) \/ \E g \in Folder : Copy(f, g)
  PROVE  TouchTested'
<1>1. \A g \in Folder : TouchesTested(g)
  BY DEF TouchTested
<1>2. CASE Beginning(f)
  <2>1. PICK c \in Config, p \in Plans : Begin(f, c, p)
    BY <1>2 DEF Beginning
  <2>2. /\ todo' = [todo EXCEPT ![f] = p] /\ mem' = [mem EXCEPT ![f] = c]
        /\ test' = [test EXCEPT ![f] = Untested]
    BY <2>1 DEF Begin
  <2>3. todo'[f] = p
    BY <2>2 DEF Types
  <2>4. TouchesTested(f)'
    <3>1. \A i \in 1..Len(p) : p[i][1] \in Touching => TestedAt(p, i)
      BY PlanTests
    <3>2. QED
      BY <2>3, <3>1 DEF TouchesTested
  <2>5. ASSUME NEW g \in Folder, g # f PROVE TouchesTested(g)'
    <3>1. todo'[g] = todo[g] /\ mem'[g] = mem[g] /\ test'[g] = test[g]
      BY <2>2, <2>5 DEF Types
    <3>2. QED
      BY <3>1, <1>1, <2>5, TouchOfRest
  <2>6. QED
    BY <2>4, <2>5 DEF TouchTested
<1>3. CASE Launch(f) \/ Quit(f) \/ \E g \in Folder : Copy(f, g)
  <2>1. todo' = todo /\ mem' = mem /\ test' = test
    BY <1>3 DEF Launch, Quit, Copy
  <2>2. QED
    BY <2>1 DEF TouchTested, TouchesTested, Tested
<1>4. CASE CutOff(f)
  <2>1. todo' = [todo EXCEPT ![f] = <<>>] /\ mem' = mem /\ test' = test
    BY <1>4 DEF CutOff
  <2>2. TouchesTested(f)'
    <3>1. todo'[f] = <<>>
      BY <2>1 DEF Types
    <3>2. QED
      BY <3>1, EmptyTested
  <2>3. ASSUME NEW g \in Folder, g # f PROVE TouchesTested(g)'
    <3>1. todo'[g] = todo[g]
      BY <2>1, <2>3 DEF Types
    <3>2. QED
      BY <3>1, <2>1, <1>1, <2>3, TouchOfRest
  <2>4. QED
    BY <2>2, <2>3 DEF TouchTested
<1>5. QED
  BY <1>2, <1>3, <1>4

(***************************************************************************)
(* The configuration a launcher works with.                                *)
(***************************************************************************)
SessionOf(f) ==
  /\ Left(todo[f]) >= 18 => cfg[f] = NoConfig /\ mem[f].owner = f
  /\ todo[f] # <<>> /\ Left(todo[f]) < 18 => Own(f) /\ mem[f] = [cfg[f] EXCEPT !.owner = f]
  /\ Left(todo[f]) \in 15..21 => mem[f].name \in Names
  /\ Left(todo[f]) \in 15..20 => mem[f].subnet \in Subnets

Paths ==
  \A f \in Folder :
    /\ f \in open => path[f] # None
    /\ \A g \in Folder : cfg[g].owner = f => path[f] # None

LEMMA SessionParts == Session <=> Paths /\ \A f \in Folder : SessionOf(f)
BY DEF Session, Paths, SessionOf

LEMMA SessionSame ==
  ASSUME NEW g \in Folder, SessionOf(g), todo'[g] = todo[g], mem'[g] = mem[g], cfg'[g] = cfg[g]
  PROVE  SessionOf(g)'
BY DEF SessionOf, Own

LEMMA OwnerKept ==
  ASSUME NEW c \in Config, NEW f \in Folder, c.owner = f
  PROVE  [c EXCEPT !.owner = f] = c
BY DEF Config

LEMMA SessionByCommand ==
  ASSUME NEW f \in Folder, Types, FoldersAssumption, Session, Shape(f)
  PROVE  Session'
<1>1. /\ todo[f] # <<>> /\ UNCHANGED <<path, open>>
      /\ \A g \in Folder \ {f} : todo'[g] = todo[g] /\ mem'[g] = mem[g] /\ cfg'[g] = cfg[g]
      /\ (Failing(f) /\ todo'[f] = <<>> /\ Left(todo'[f]) = 0) \/ Moves(f)
  BY CommandFrame
<1>2. Paths /\ \A g \in Folder : SessionOf(g)
  BY SessionParts
<1>3. f \in open /\ Left(todo[f]) \in {0} \cup 15..23 /\ mem[f] \in Config /\ cfg[f] \in Config
  BY <1>1, LeftRange DEF Types
<1>4. /\ Left(todo[f]) \in {18, 19, 20, 21, 22, 23} => cfg[f] = NoConfig /\ mem[f].owner = f
      /\ Left(todo[f]) \in {18, 19, 20, 21} => mem[f].name \in Names
      /\ Left(todo[f]) \in {18, 19, 20} => mem[f].subnet \in Subnets
  <2>1. SessionOf(f)
    BY <1>2
  <2>2. \A n \in {18, 19, 20, 21, 22, 23} : n >= 18
    OBVIOUS
  <2>3. (\A n \in {18, 19, 20, 21} : n \in 15..21) /\ (\A n \in {18, 19, 20} : n \in 15..20)
    OBVIOUS
  <2>4. QED
    BY <2>1, <2>2, <2>3, Zenon DEF SessionOf
<1>5. cfg' = cfg \/ Saving(f) \/ Adopting(f) \/ Forgetting(f)
  BY DEF Shape, Failing, Fail, Skipping, Skip, Making, Setting, Set, Becomes, Testing, Removing,
         Choosing, Chosen, Locking, Lock, Unlocking, Unlock, Quiet, disk
<1>6. Saving(f) => cfg'[f] = mem[f] /\ mem' = mem /\ Left(todo[f]) = 18
  BY DEF Saving, Writes, Types
<1>7. Forgetting(f) => cfg'[f] = NoConfig /\ mem' = mem /\ Left(todo[f]) = 0 /\ Tail(todo[f]) = <<>>
  BY DEF Forgetting, Writes, Types
<1>7a. Adopting(f) => /\ cfg'[f] = mem[f] /\ mem' = mem /\ Left(todo[f]) = 0 /\ mem[f].owner = f
                      /\ Own(f) /\ mem[f] = [cfg[f] EXCEPT !.owner = f]
  <2>1. SUFFICES ASSUME Adopting(f)
                 PROVE  /\ cfg'[f] = mem[f] /\ mem' = mem /\ Left(todo[f]) = 0 /\ mem[f].owner = f
                        /\ Own(f) /\ mem[f] = [cfg[f] EXCEPT !.owner = f]
    OBVIOUS
  <2>2. cfg'[f] = mem[f] /\ mem' = mem /\ Left(todo[f]) = 0
    BY <2>1 DEF Adopting, Writes, Types
  <2>3. 0 < 18
    OBVIOUS
  <2>4. Own(f) /\ mem[f] = [cfg[f] EXCEPT !.owner = f]
    BY <1>1, <1>2, <2>2, <2>3, Zenon DEF SessionOf
  <2>5. mem[f].owner = f
    BY <2>4, <1>3 DEF Config
  <2>6. QED
    BY <2>2, <2>4, <2>5
<1>8. ASSUME NEW g \in Folder PROVE SessionOf(g)'
  <2>1. CASE g # f
    BY <2>1, <1>1, <1>2, SessionSame
  <2>2. CASE g = f /\ todo'[f] = <<>>
    <3>1. Left(todo'[f]) = 0
      BY <2>2, EmptyPlanned
    <3>2. QED
      BY <2>2, <3>1 DEF SessionOf
  <2>3. CASE g = f /\ todo'[f] # <<>>
    <3>1. /\ Moves(f) /\ ~Forgetting(f)
          /\ Left(todo'[f]) = IF Left(todo[f]) > 15 THEN Left(todo[f]) - 1 ELSE 0
      BY <2>3, <1>1, <1>7 DEF Moves
    <3>2. CASE Saving(f)
      <4>1. Left(todo'[f]) = 17 /\ mem[f].owner = f /\ mem[f].name \in Names /\ mem[f].subnet \in Subnets
        BY <3>1, <3>2, <1>4, <1>6
      <4>2. cfg'[f] # NoConfig /\ cfg'[f].owner = f
        BY <4>1, <3>2, <1>6, NoConfigIsConfig DEF FoldersAssumption
      <4>3. mem'[f] = [cfg'[f] EXCEPT !.owner = f]
        BY <4>1, <1>3, <1>6, <3>2, OwnerKept
      <4>4. QED
        BY <4>1, <4>2, <4>3, <2>3, <3>2, <1>6 DEF SessionOf, Own
    <3>3. CASE Choosing(f)
      <4>1. PICK c : Choosing(f) /\ Chosen(f, c) /\
              (\/ Left(todo[f]) = 22 /\ \E n \in Names : c = [mem[f] EXCEPT !.name = n]
               \/ Left(todo[f]) = 21 /\ \E s \in Subnets : c = [mem[f] EXCEPT !.subnet = s]
               \/ Left(todo[f]) = 20 /\ \E n \in Names : c = [mem[f] EXCEPT !.prefix = n])
        BY <3>3 DEF Choosing
      <4>2. mem'[f] = c /\ cfg'[f] = cfg[f]
        BY <4>1 DEF Chosen, Types, Quiet, disk
      <4>3. cfg[f] = NoConfig /\ mem[f].owner = f
        BY <4>1, <1>4
      <4>4. CASE Left(todo[f]) = 22
        <5>1. PICK n \in Names : c = [mem[f] EXCEPT !.name = n]
          BY <4>1, <4>4
        <5>2. c.owner = f /\ c.name = n
          BY <5>1, <4>3, <1>3 DEF Config
        <5>3. Left(todo'[f]) = 21
          BY <4>4, <3>1
        <5>4. QED
          BY <5>2, <5>3, <4>2, <4>3, <2>3 DEF SessionOf
      <4>5. CASE Left(todo[f]) = 21
        <5>1. PICK s \in Subnets : c = [mem[f] EXCEPT !.subnet = s]
          BY <4>1, <4>5
        <5>2. c.owner = f /\ c.name = mem[f].name /\ c.subnet = s
          BY <5>1, <4>3, <1>3 DEF Config
        <5>3. Left(todo'[f]) = 20 /\ mem[f].name \in Names
          BY <4>5, <3>1, <1>4
        <5>4. QED
          BY <5>2, <5>3, <4>2, <4>3, <2>3 DEF SessionOf
      <4>6. CASE Left(todo[f]) = 20
        <5>1. PICK n \in Names : c = [mem[f] EXCEPT !.prefix = n]
          BY <4>1, <4>6
        <5>2. c.owner = f /\ c.name = mem[f].name /\ c.subnet = mem[f].subnet
          BY <5>1, <4>3, <1>3 DEF Config
        <5>3. Left(todo'[f]) = 19 /\ mem[f].name \in Names /\ mem[f].subnet \in Subnets
          BY <4>6, <3>1, <1>4
        <5>4. QED
          BY <5>2, <5>3, <4>2, <4>3, <2>3 DEF SessionOf
      <4>7. QED
        BY <4>1, <4>4, <4>5, <4>6
    <3>3a. CASE Adopting(f)
      <4>1. Left(todo'[f]) = 0 /\ mem[f].owner = f
        BY <3>1, <3>3a, <1>7a
      <4>2. cfg'[f] # NoConfig /\ cfg'[f].owner = f
        BY <4>1, <3>3a, <1>7a, NoConfigIsConfig DEF FoldersAssumption
      <4>3. mem'[f] = [cfg'[f] EXCEPT !.owner = f]
        BY <4>1, <1>3, <1>7a, <3>3a, OwnerKept
      <4>4. QED
        BY <4>1, <4>2, <4>3, <2>3 DEF SessionOf, Own
    <3>4. CASE ~Saving(f) /\ ~Adopting(f) /\ ~Choosing(f)
      <4>1. cfg' = cfg /\ mem' = mem /\ Left(todo[f]) \notin {18, 20, 21, 22}
        <5>1. cfg' = cfg
          BY <1>5, <3>1, <3>4
        <5>2. ~Failing(f)
          BY <2>3 DEF Failing, Fail, Types
        <5>3. CASE Skipping(f) \/ Making(f) \/ Setting(f) \/ Testing(f) \/ Removing(f)
          <6>1. mem' = mem
            BY <5>3 DEF Skipping, Skip, Making, Setting, Set, Becomes, Testing, Removing
          <6>2. Left(todo[f]) \in {0, 16, 17, 19}
            BY <5>3 DEF Skipping, Making, Setting, Testing, Removing
          <6>3. \A n \in {0, 16, 17, 19} : n \notin {18, 20, 21, 22}
            OBVIOUS
          <6>4. QED
            BY <5>1, <6>1, <6>2, <6>3
        <5>4. CASE Locking(f) \/ Unlocking(f)
          BY <5>1, <5>4 DEF Locking, Lock, Unlocking, Unlock
        <5>5. QED
          BY <5>2, <5>3, <5>4, <3>1, <3>4 DEF Shape
      <4>2. Left(todo[f]) = 23 => Left(todo'[f]) = 22
        BY <3>1
      <4>3. Left(todo[f]) = 19 => Left(todo'[f]) = 18
        BY <3>1
      <4>4. Left(todo[f]) \in {0, 15, 16, 17} => Left(todo'[f]) \in {0, 15, 16}
        BY <3>1
      <4>5. Left(todo[f]) \in {0, 15, 16, 17} /\ Left(todo'[f]) # 0 => Left(todo[f]) \in {16, 17}
        BY <3>1
      <4>6. Left(todo[f]) \in {23, 19, 0, 15, 16, 17}
        BY <4>1, <1>3
      <4>7. QED
        BY <4>1, <4>2, <4>3, <4>4, <4>5, <4>6, <1>1, <1>2, <2>3 DEF SessionOf, Own
    <3>5. QED
      BY <3>2, <3>3, <3>3a, <3>4
  <2>4. QED
    BY <2>1, <2>2, <2>3
<1>9. Paths'
  <2>1. ASSUME NEW g \in Folder, NEW h \in Folder, cfg'[h].owner = g
        PROVE  path[g] # None
    <3>1. CASE cfg'[h] = cfg[h]
      BY <3>1, <2>1, <1>2 DEF Paths
    <3>2. CASE h = f /\ Saving(f)
      <4>1. g = f
        BY <3>2, <2>1, <1>4, <1>6
      <4>2. QED
        BY <4>1, <1>2, <1>3 DEF Paths
    <3>3. CASE h = f /\ Forgetting(f)
      BY <3>3, <2>1, <1>7, NoConfigIsConfig DEF FoldersAssumption
    <3>4. CASE h = f /\ Adopting(f)
      <4>1. g = f
        BY <3>4, <2>1, <1>7a
      <4>2. QED
        BY <4>1, <1>2, <1>3 DEF Paths
    <3>5. QED
      BY <3>1, <3>2, <3>3, <3>4, <1>1, <1>5
  <2>2. QED
    BY <2>1, <1>1, <1>2 DEF Paths
<1>10. QED
  BY <1>8, <1>9, SessionParts DEF Session, Paths, SessionOf

LEMMA SessionByOthers ==
  ASSUME NEW f \in Folder, Types, FoldersAssumption, Session,
         Beginning(f) \/ Launch(f) \/ Quit(f) \/ CutOff(f) \/ \E g \in Folder : Copy(f, g)
  PROVE  Session'
<1>1. Paths /\ \A g \in Folder : SessionOf(g)
  BY SessionParts
<1>2. SUFFICES Paths' /\ \A g \in Folder : SessionOf(g)'
  BY DEF Session, Paths, SessionOf
<1>3. \A g \in Folder : todo'[g] = <<>> => SessionOf(g)'
  BY EmptyPlanned DEF SessionOf
<1>4. CASE Beginning(f)
  <2>1. PICK c \in Config, p \in Plans :
          /\ Idle(f) /\ Begin(f, c, p) /\ c.owner = f
          /\ \/ p = setup /\ cfg[f] = NoConfig
             \/ p # setup /\ Own(f) /\ c = [cfg[f] EXCEPT !.owner = f]
    BY <1>4 DEF Beginning
  <2>2. /\ todo' = [todo EXCEPT ![f] = p] /\ mem' = [mem EXCEPT ![f] = c]
        /\ UNCHANGED <<cfg, path, open>>
    BY <2>1 DEF Begin, disk
  <2>3. Paths'
    BY <1>1, <2>2 DEF Paths
  <2>4. ASSUME NEW g \in Folder, g # f PROVE SessionOf(g)'
    <3>1. todo'[g] = todo[g] /\ mem'[g] = mem[g] /\ cfg'[g] = cfg[g]
      BY <2>2, <2>4 DEF Types
    <3>2. QED
      BY <3>1, <1>1, SessionSame
  <2>5. SessionOf(f)'
    <3>1. todo'[f] = p /\ mem'[f] = c /\ cfg' = cfg
      BY <2>2 DEF Types
    <3>2. CASE p = setup /\ cfg[f] = NoConfig
      <4>1. Left(todo'[f]) = 23
        BY <3>1, <3>2, LeftBegins
      <4>2. QED
        BY <4>1, <3>1, <3>2, <2>1 DEF SessionOf
    <3>3. CASE p # setup /\ Own(f) /\ c = [cfg[f] EXCEPT !.owner = f]
      <4>1. Left(todo'[f]) = 0
        BY <3>1, <3>3, LeftBegins DEF Plans
      <4>2. QED
        BY <4>1, <3>1, <3>3 DEF SessionOf, Own
    <3>4. QED
      BY <2>1, <3>2, <3>3
  <2>6. QED
    BY <2>3, <2>4, <2>5
<1>5. CASE Launch(f)
  <2>1. /\ f \notin open /\ open' = open \cup {f} /\ path' = [path EXCEPT ![f] = f]
        /\ cfg' = [cfg EXCEPT ![f] = IF @ # NoConfig /\ Copied(f) THEN NoConfig ELSE @]
        /\ UNCHANGED <<todo, mem>>
    BY <1>5 DEF Launch, prepare_folder
  <2>2. todo'[f] = <<>>
    BY <2>1 DEF Types
  <2>3. \A h \in Folder : cfg'[h] = cfg[h] \/ cfg'[h] = NoConfig
    BY <2>1 DEF Types
  <2>4. path'[f] = f /\ f # None /\ \A g \in Folder \ {f} : path'[g] = path[g]
    BY <2>1 DEF Types, FoldersAssumption
  <2>5. Paths'
    <3>1. ASSUME NEW g \in Folder, g \in open' PROVE path'[g] # None
      BY <3>1, <2>1, <2>4, <1>1 DEF Paths
    <3>2. ASSUME NEW g \in Folder, NEW h \in Folder, cfg'[h].owner = g PROVE path'[g] # None
      <4>1. cfg[h].owner = g
        BY <3>2, <2>3, NoConfigIsConfig DEF FoldersAssumption
      <4>2. QED
        BY <4>1, <2>4, <1>1 DEF Paths
    <3>3. QED
      BY <3>1, <3>2 DEF Paths
  <2>6. ASSUME NEW g \in Folder, g # f PROVE SessionOf(g)'
    <3>1. cfg'[g] = cfg[g]
      BY <2>1, <2>6 DEF Types
    <3>2. QED
      BY <3>1, <2>1, <1>1, SessionSame
  <2>7. QED
    BY <2>2, <2>5, <2>6, <1>3
<1>6. CASE Quit(f)
  <2>1. open' = open \ {f} /\ UNCHANGED <<cfg, path, todo, mem>>
    BY <1>6 DEF Quit, disk
  <2>2. QED
    BY <2>1, <1>1, SessionSame DEF Paths
<1>7. CASE CutOff(f)
  <2>1. /\ todo' = [todo EXCEPT ![f] = <<>>] /\ open' \in {open, open \ {f}}
        /\ UNCHANGED <<cfg, path, mem>>
    BY <1>7 DEF CutOff, disk
  <2>2. todo'[f] = <<>> /\ \A g \in Folder \ {f} : todo'[g] = todo[g]
    BY <2>1 DEF Types
  <2>3. \A g \in Folder \ {f} : SessionOf(g)'
    BY <2>1, <2>2, <1>1, SessionSame
  <2>4. Paths'
    BY <2>1, <1>1 DEF Paths
  <2>5. QED
    BY <2>2, <2>3, <2>4, <1>3
<1>8. CASE \E g \in Folder : Copy(f, g)
  <2>1. PICK g \in Folder : Copy(f, g)
    BY <1>8
  <2>2. /\ g \notin open /\ path[g] = None
        /\ cfg' = [cfg EXCEPT ![g] = cfg[f]] /\ path' = [path EXCEPT ![g] = path[f]]
        /\ UNCHANGED <<open, todo, mem>>
    BY <2>1 DEF Copy
  <2>3. todo'[g] = <<>>
    BY <2>2 DEF Types
  <2>4. /\ cfg'[g] = cfg[f] /\ \A h \in Folder \ {g} : cfg'[h] = cfg[h] /\ path'[h] = path[h]
    BY <2>2 DEF Types
  <2>5. ASSUME NEW h \in Folder, h # g PROVE SessionOf(h)'
    BY <2>2, <2>4, <2>5, <1>1, SessionSame
  <2>6. Paths'
    <3>1. ASSUME NEW h \in Folder, h \in open' PROVE path'[h] # None
      BY <3>1, <2>2, <2>4, <1>1 DEF Paths
    <3>2. ASSUME NEW h \in Folder, NEW k \in Folder, cfg'[k].owner = h PROVE path'[h] # None
      <4>1. path[h] # None
        BY <3>2, <2>4, <1>1 DEF Paths
      <4>2. h # g
        BY <4>1, <2>2
      <4>3. QED
        BY <4>1, <4>2, <2>4
    <3>3. QED
      BY <3>1, <3>2 DEF Paths
  <2>7. QED
    BY <2>3, <2>5, <2>6, <1>3
<1>9. QED
  BY <1>4, <1>5, <1>6, <1>7, <1>8

(***************************************************************************)
(* The networks of the configurations.                                     *)
(***************************************************************************)
ReservedOf(f) ==
  /\ Own(f) /\ Left(todo[f]) < 16 /\ ~At(f, "forget") => Net(f)
  /\ Left(todo[f]) \in 16..21 => ~Exists(Lan(mem[f]))
  /\ Left(todo[f]) \in 16..20 => Available(mem[f].subnet)

\* Two setups of one user do not hold the lock at once.
LEMMA OneHolder ==
  ASSUME NEW f \in Folder, NEW g \in Folder, Types, Held, OneUser,
         Left(todo[f]) \in 15..22, Left(todo[g]) \in 15..22
  PROVE  f = g
<1>1. lock[user[f]] = f /\ lock[user[g]] = g
  BY DEF Held
<1>2. user[f] = user[g]
  BY DEF OneUser
<1>3. QED
  BY <1>1, <1>2

\* What a launcher that works on a configuration takes for its network is the
\* network of that configuration, and is there.
LEMMA WorksOnOwn ==
  ASSUME NEW f \in Folder, Types, SessionOf(f), ReservedOf(f), Busy(f), Left(todo[f]) < 16
  PROVE  Own(f) /\ Net(f) /\ Lan(mem[f]) = Lan(cfg[f])
<1>1. Left(todo[f]) \in {0} \cup 15..23
  BY LeftRange DEF Types
<1>2. Left(todo[f]) < 18 /\ todo[f] # <<>> /\ ~At(f, "forget")
  BY <1>1 DEF Busy
<1>3. Own(f) /\ mem[f] = [cfg[f] EXCEPT !.owner = f] /\ cfg[f] \in Config
  BY <1>2 DEF SessionOf, Types
<1>4. mem[f].name = cfg[f].name
  BY <1>3 DEF Config
<1>5. QED
  BY <1>2, <1>3, <1>4 DEF ReservedOf, Lan

NetsSame == \A n \in Names : obj'[<<"net", n>>] = obj[<<"net", n>>]
NetsBut(o) == \A n \in Names : <<"net", n>> # o => obj'[<<"net", n>>] = obj[<<"net", n>>]

\* A setup that makes its network, and the removal of one's own, are the only
\* commands that change the networks there are.
LEMMA NetChanges ==
  ASSUME NEW f \in Folder, Types, SessionOf(f), ReservedOf(f), Shape(f)
  PROVE  \/ NetsSame
         \/ /\ Left(todo[f]) = 16 /\ Moves(f) /\ cfg' = cfg /\ mem' = mem
            /\ ~Exists(Lan(mem[f])) /\ NetsBut(Lan(mem[f]))
            /\ obj' = [obj EXCEPT ![Lan(mem[f])] = New(f, "net")]
         \/ /\ Left(todo[f]) = 0 /\ Busy(f) /\ At(f, "forget")' /\ cfg' = cfg
            /\ NetsBut(Lan(mem[f])) /\ obj' = [obj EXCEPT ![Lan(mem[f])] = None]
<1>1. (Failing(f) /\ todo'[f] = <<>> /\ Left(todo'[f]) = 0) \/ Moves(f)
  BY CommandFrame
<1>2. \A n \in Names : <<"net", n>> \in Objects
  BY DEF Objects, Kinds
<1>3. CASE Making(f)
  <2>1. PICK k \in Kinds :
          /\ Busy(f) /\ Head(todo[f]) = Do("make", k) /\ ~Exists(The(k, mem[f]))
          /\ Becomes(f, The(k, mem[f]), New(f, k))
          /\ Left(todo[f]) = 0 \/ (Left(todo[f]) = 16 /\ k = "net")
    BY <1>3 DEF Making
  <2>2. /\ obj' = [obj EXCEPT ![The(k, mem[f])] = New(f, k)] /\ mem' = mem /\ cfg' = cfg /\ Goes(f)
    BY <2>1 DEF Becomes, Quiet, disk
  <2>3. CASE k # "net"
    <3>1. \A n \in Names : <<"net", n>> # The(k, mem[f])
      BY <2>3 DEF The, Router, Worker, Volume, Kinds
    <3>2. NetsSame
      BY <2>2, <3>1, <1>2 DEF NetsSame, Types
    <3>3. QED
      BY <3>2
  <2>4. CASE k = "net"
    <3>1. The(k, mem[f]) = Lan(mem[f])
      BY <2>4 DEF The
    <3>2. CASE Left(todo[f]) = 0
      <4>1. Net(f) /\ Lan(mem[f]) = Lan(cfg[f])
        BY <2>1, <3>2, WorksOnOwn
      <4>2. QED
        BY <4>1, <3>1, <2>1 DEF Net
    <3>3. CASE Left(todo[f]) = 16
      <4>1. Moves(f)
        BY <2>1, <2>2, GoesOn DEF Busy
      <4>2. NetsBut(Lan(mem[f]))
        BY <2>2, <3>1, <1>2 DEF NetsBut, Types
      <4>3. QED
        BY <4>1, <4>2, <3>1, <3>3, <2>1, <2>2, <2>4
    <3>4. QED
      BY <2>1, <3>2, <3>3
  <2>5. QED
    BY <2>3, <2>4
<1>4. CASE Setting(f)
  <2>1. PICK k \in {"router", "worker"}, up \in BOOLEAN : Set(f, The(k, mem[f]), up)
    BY <1>4 DEF Setting
  <2>2. \A n \in Names : <<"net", n>> # The(k, mem[f])
    BY DEF The, Router, Worker
  <2>3. PICK r : obj' = [obj EXCEPT ![The(k, mem[f])] = r]
    BY <2>1 DEF Set, Becomes
  <2>4. NetsSame
    BY <2>2, <2>3, <1>2 DEF NetsSame, Types
  <2>5. QED
    BY <2>4
<1>5. CASE Removing(f)
  <2>1. PICK k \in {"net", "router", "worker"} :
          /\ Busy(f) /\ Left(todo[f]) = 0 /\ Goes(f) /\ cfg' = cfg
          /\ k = "net" => Tail(todo[f]) # <<>> /\ Head(Tail(todo[f])) = Step("forget")
          /\ obj' = [obj EXCEPT ![The(k, mem[f])] = None]
    BY <1>5 DEF Removing, Quiet, disk
  <2>2. CASE k # "net"
    <3>1. \A n \in Names : <<"net", n>> # The(k, mem[f])
      BY <2>2 DEF The, Router, Worker
    <3>2. NetsSame
      BY <2>1, <3>1, <1>2 DEF NetsSame, Types
    <3>3. QED
      BY <3>2
  <2>3. CASE k = "net"
    <3>1. The(k, mem[f]) = Lan(mem[f])
      BY <2>3 DEF The
    <3>2. todo'[f] = Tail(todo[f])
      BY <2>1 DEF Goes, Types
    <3>3. At(f, "forget")'
      BY <3>2, <2>1, <2>3, OpOf DEF At
    <3>4. NetsBut(Lan(mem[f]))
      BY <2>1, <3>1, <1>2 DEF NetsBut, Types
    <3>5. QED
      BY <2>1, <3>1, <3>3, <3>4
  <2>4. QED
    BY <2>2, <2>3
<1>6. CASE \/ Failing(f) \/ Skipping(f) \/ Testing(f) \/ Choosing(f) \/ Locking(f) \/ Unlocking(f)
           \/ Saving(f) \/ Adopting(f) \/ Forgetting(f)
  <2>1. obj' = obj
    BY <1>6 DEF Failing, Fail, Skipping, Skip, Testing, Choosing, Chosen, Locking, Lock, Unlocking,
                Unlock, Saving, Adopting, Forgetting, Writes
  <2>2. QED
    BY <2>1 DEF NetsSame
<1>7. QED
  BY <1>3, <1>4, <1>5, <1>6 DEF Shape

\* The network of a configuration that is kept in one piece.
LEMMA NetStays ==
  ASSUME NEW g \in Folder, Net(g), cfg'[g] = cfg[g], obj'[Lan(cfg[g])] = obj[Lan(cfg[g])]
  PROVE  Net(g)'
BY DEF Net, Exists, Lan

LEMMA NetOfName ==
  ASSUME NEW f \in Folder, Net(f)
  PROVE  cfg[f].name \in Names /\ Lan(cfg[f]) = <<"net", cfg[f].name>>
BY DEF Net, Lan, Objects

\* The other folders.
LEMMA ReservedOfOthers ==
  ASSUME NEW f \in Folder, NEW g \in Folder, g # f, Types, FoldersAssumption, Held, OneUser,
         SessionOf(f), ReservedOf(f), SessionOf(g), ReservedOf(g), Shape(f)
  PROVE  ReservedOf(g)'
<1>1. todo'[g] = todo[g] /\ mem'[g] = mem[g] /\ cfg'[g] = cfg[g]
  BY CommandFrame
<1>2. ASSUME Own(g)', Left(todo'[g]) < 16, ~At(g, "forget")' PROVE Net(g)'
  <2>1. Net(g)
    <3>1. Own(g) /\ Left(todo[g]) < 16 /\ ~At(g, "forget")
      BY <1>1, <1>2 DEF Own, At
    <3>2. QED
      BY <3>1 DEF ReservedOf
  <2>2. cfg[g].name \in Names /\ Lan(cfg[g]) = <<"net", cfg[g].name>> /\ obj[Lan(cfg[g])].owner = g
        /\ Exists(Lan(cfg[g]))
    BY <2>1, NetOfName DEF Net
  <2>3. obj'[Lan(cfg[g])] = obj[Lan(cfg[g])]
    <3>1. CASE NetsSame
      BY <3>1, <2>2 DEF NetsSame
    <3>2. CASE ~Exists(Lan(mem[f])) /\ NetsBut(Lan(mem[f]))
      BY <3>2, <2>2 DEF NetsBut
    <3>3. CASE Left(todo[f]) = 0 /\ Busy(f) /\ NetsBut(Lan(mem[f]))
      <4>1. Net(f) /\ Lan(mem[f]) = Lan(cfg[f])
        BY <3>3, WorksOnOwn
      <4>2. Lan(cfg[g]) # Lan(mem[f])
        BY <4>1, <2>2 DEF Net
      <4>3. QED
        BY <4>2, <3>3, <2>2 DEF NetsBut
    <3>4. QED
      BY <3>1, <3>2, <3>3, NetChanges
  <2>4. QED
    BY <2>1, <2>3, <1>1, NetStays
<1>3. ASSUME Left(todo[g]) \in 16..21 PROVE \A n \in Names : ~Exists(<<"net", n>>) => ~Exists(<<"net", n>>)'
  <2>1. CASE NetsSame
    BY <2>1 DEF NetsSame, Exists
  <2>2. CASE Left(todo[f]) = 16
    <3>1. \A m \in 16..21 : m \in 15..22
      OBVIOUS
    <3>2. Left(todo[f]) \in 15..22 /\ Left(todo[g]) \in 15..22
      BY <2>2, <3>1, <1>3
    <3>3. QED
      BY <3>2, OneHolder
  <2>3. CASE NetsBut(Lan(mem[f])) /\ obj' = [obj EXCEPT ![Lan(mem[f])] = None]
    <3>1. ASSUME NEW n \in Names, obj[<<"net", n>>] = None PROVE obj'[<<"net", n>>] = None
      BY <2>3, <3>1 DEF NetsBut
    <3>2. QED
      BY <3>1 DEF Exists
  <2>4. QED
    BY <2>1, <2>2, <2>3, NetChanges
<1>4. ASSUME Left(todo'[g]) \in 16..21 PROVE ~Exists(Lan(mem[g]))'
  <2>1. Left(todo[g]) \in 16..21
    BY <1>1, <1>4
  <2>2. ~Exists(Lan(mem[g])) /\ mem[g].name \in Names
    <3>1. \A m \in 16..21 : m \in 15..21
      OBVIOUS
    <3>2. QED
      BY <2>1, <3>1 DEF ReservedOf, SessionOf
  <2>3. QED
    BY <2>1, <2>2, <1>1, <1>3 DEF Lan, Exists
<1>5. ASSUME Left(todo'[g]) \in 16..20 PROVE Available(mem[g].subnet)'
  <2>1. Left(todo[g]) \in 16..20
    BY <1>1, <1>5
  <2>2. Available(mem[g].subnet) /\ Left(todo[g]) \in 16..21
    <3>1. \A m \in 16..20 : m \in 16..21
      OBVIOUS
    <3>2. QED
      BY <2>1, <3>1 DEF ReservedOf
  <2>3. ASSUME NEW n \in Names, obj'[<<"net", n>>] # None
        PROVE  obj'[<<"net", n>>].at # mem[g].subnet
    <3>1. obj[<<"net", n>>] # None
      BY <2>2, <2>3, <1>3 DEF Exists
    <3>2. obj'[<<"net", n>>] = obj[<<"net", n>>]
      <4>1. CASE NetsSame
        BY <4>1 DEF NetsSame
      <4>2. CASE ~Exists(Lan(mem[f])) /\ NetsBut(Lan(mem[f]))
        BY <4>2, <3>1 DEF NetsBut, Exists
      <4>3. CASE NetsBut(Lan(mem[f])) /\ obj' = [obj EXCEPT ![Lan(mem[f])] = None]
        <5>1. CASE <<"net", n>> = Lan(mem[f])
          <6>1. <<"net", n>> \in Objects
            BY DEF Objects, Kinds
          <6>2. QED
            BY <5>1, <6>1, <4>3, <2>3 DEF Types
        <5>2. CASE <<"net", n>> # Lan(mem[f])
          BY <5>2, <4>3 DEF NetsBut
        <5>3. QED
          BY <5>1, <5>2
      <4>4. QED
        BY <4>1, <4>2, <4>3, NetChanges
    <3>3. QED
      BY <3>1, <3>2, <2>2 DEF Available, Exists
  <2>4. QED
    BY <2>3, <1>1 DEF Available, Exists
<1>6. QED
  BY <1>2, <1>4, <1>5, <1>1 DEF ReservedOf

\* The folder whose command it is.
LEMMA ReservedOfSelf ==
  ASSUME NEW f \in Folder, Types, FoldersAssumption, SessionOf(f), ReservedOf(f), Shape(f)
  PROVE  ReservedOf(f)'
<1>1. /\ todo[f] # <<>>
      /\ (Failing(f) /\ todo'[f] = <<>> /\ Left(todo'[f]) = 0) \/ Moves(f)
  BY CommandFrame
<1>2. Left(todo[f]) \in {0} \cup 15..23 /\ mem[f] \in Config /\ cfg[f] \in Config
  BY LeftRange DEF Types
<1>3. /\ Left(todo[f]) \in {18, 19, 20, 21, 22, 23} => cfg[f] = NoConfig
      /\ Left(todo[f]) \in {16, 17, 18, 19, 20, 21} => mem[f].name \in Names /\ ~Exists(Lan(mem[f]))
      /\ Left(todo[f]) \in {16, 17, 18, 19, 20} => Available(mem[f].subnet)
      /\ Left(todo[f]) = 16 => mem[f] = [cfg[f] EXCEPT !.owner = f] /\ Own(f)
  <2>1. \A n \in {18, 19, 20, 21, 22, 23} : n >= 18
    OBVIOUS
  <2>2. \A n \in {16, 17, 18, 19, 20, 21} : n \in 15..21 /\ n \in 16..21
    OBVIOUS
  <2>3. (\A n \in {16, 17, 18, 19, 20} : n \in 16..20) /\ 16 < 18
    OBVIOUS
  <2>4. QED
    BY <1>1, <2>1, <2>2, <2>3, Zenon DEF SessionOf, ReservedOf
<1>4. ~Own(f) \/ cfg[f] # NoConfig
  BY DEF Own
<1>5. CASE Failing(f)
  <2>1. /\ Busy(f) /\ obj' = obj /\ cfg' = cfg /\ Left(todo[f]) \notin {15, 16, 17}
        /\ todo' = [todo EXCEPT ![f] = <<>>]
    <3>1. Busy(f) /\ obj' = obj /\ cfg' = cfg /\ Left(todo[f]) # 15 /\ todo' = [todo EXCEPT ![f] = <<>>]
      BY <1>5 DEF Failing, Fail, Quiet, disk
    <3>2. Left(todo[f]) # 16 /\ Left(todo[f]) # 17
      BY <1>3, <1>5 DEF Failing
    <3>3. QED
      BY <3>1, <3>2
  <2>2. todo'[f] = <<>> /\ Left(todo'[f]) = 0
    BY <2>1, EmptyPlanned DEF Types
  <2>3. CASE Left(todo[f]) = 0
    <3>1. Net(f)
      BY <2>1, <2>3, WorksOnOwn
    <3>2. Net(f)'
      BY <3>1, <2>1, NetStays
    <3>3. QED
      BY <3>2, <2>2 DEF ReservedOf
  <2>4. CASE Left(todo[f]) # 0
    <3>1. Left(todo[f]) \in {18, 19, 20, 21, 22, 23}
      BY <1>2, <2>1, <2>4
    <3>2. ~Own(f)'
      BY <3>1, <1>3, <2>1 DEF Own
    <3>3. QED
      BY <3>2, <2>2 DEF ReservedOf
  <2>5. QED
    BY <2>3, <2>4
<1>6. CASE Moves(f)
  <2>1. Left(todo'[f]) = IF Left(todo[f]) > 15 THEN Left(todo[f]) - 1 ELSE 0
    BY <1>6 DEF Moves
  <2>2. ASSUME Own(f)', Left(todo'[f]) < 16, ~At(f, "forget")' PROVE Net(f)'
    <3>1. Left(todo[f]) \in {0, 15, 16}
      BY <2>1, <2>2, <1>2
    <3>2. ~Forgetting(f)
      <4>1. Forgetting(f) => cfg'[f] = NoConfig
        BY DEF Forgetting, Writes, Types
      <4>2. QED
        BY <4>1, <2>2 DEF Own
    <3>2a. CASE Adopting(f)
      <4>1. cfg'[f] = mem[f] /\ obj' = obj
        BY <3>2a DEF Adopting, Writes, Types
      <4>2. 0 < 16
        OBVIOUS
      <4>3. Net(f) /\ Lan(mem[f]) = Lan(cfg[f])
        BY <3>2a, <4>2, WorksOnOwn DEF Adopting
      <4>4. Lan(cfg'[f]) = Lan(cfg[f])
        BY <4>1, <4>3
      <4>5. QED
        BY <4>1, <4>3, <4>4 DEF Net, Exists, Lan
    <3> SUFFICES ASSUME ~Adopting(f) PROVE Net(f)'
      BY <3>2a
    <3>3. Busy(f) /\ cfg' = cfg
      <4>1. CASE \/ Failing(f) \/ Skipping(f) \/ Making(f) \/ Setting(f) \/ Testing(f) \/ Removing(f)
                 \/ Choosing(f)
        BY <4>1 DEF Failing, Fail, Skipping, Skip, Making, Setting, Set, Becomes, Testing, Removing,
                    Choosing, Chosen, Quiet, disk
      <4>2. CASE Locking(f) \/ Unlocking(f)
        BY <4>2 DEF Locking, Lock, Unlocking, Unlock, Quiet, disk
      <4>3. CASE Saving(f)
        BY <4>3, <3>1 DEF Saving
      <4>4. QED
        BY <4>1, <4>2, <4>3, <3>2 DEF Shape
    <3>4. CASE Left(todo[f]) = 16
      <4>1. Lan(mem[f]) = Lan(cfg[f]) /\ Lan(mem[f]) = <<"net", mem[f].name>>
        BY <1>2, <1>3, <3>4 DEF Lan, Config
      <4>2. Lan(mem[f]) \in Objects /\ ~Exists(Lan(mem[f])) /\ Available(mem[f].subnet)
        BY <1>3, <3>4, <4>1 DEF Objects, Kinds
      <4>3. Making(f)
        <5>1. ~Skipping(f)
          BY <4>2, <3>4 DEF Skipping
        <5>2. ~Failing(f)
          BY <4>2, <3>4 DEF Failing
        <5>3. ~Setting(f) /\ ~Testing(f) /\ ~Removing(f) /\ ~Choosing(f) /\ ~Locking(f) /\ ~Unlocking(f)
              /\ ~Saving(f)
          BY <3>4 DEF Setting, Testing, Removing, Choosing, Locking, Unlocking, Saving
        <5>4. QED
          BY <5>1, <5>2, <5>3, <3>2 DEF Shape
      <4>4. obj' = [obj EXCEPT ![Lan(mem[f])] = New(f, "net")]
        <5>1. PICK k \in Kinds :
                /\ Left(todo[f]) = 0 \/ k = "net"
                /\ Becomes(f, The(k, mem[f]), New(f, k))
          BY <4>3 DEF Making
        <5>2. k = "net"
          BY <5>1, <3>4
        <5>3. QED
          BY <5>1, <5>2 DEF Becomes, The
      <4>5. obj'[Lan(mem[f])] = New(f, "net")
        BY <4>2, <4>4 DEF Types
      <4>6. New(f, "net") # None /\ New(f, "net").owner = f
        <5>1. New(f, "net") \in Object /\ New(f, "net").owner = f
          BY NewIsObject DEF Kinds
        <5>2. QED
          BY <5>1 DEF FoldersAssumption
      <4>7. QED
        BY <4>1, <4>2, <4>5, <4>6, <3>3 DEF Net, Exists, Lan
    <3>5. CASE Left(todo[f]) \in {0, 15}
      <4>1. Own(f) /\ Net(f) /\ Lan(mem[f]) = Lan(cfg[f])
        BY <3>3, <3>5, WorksOnOwn
      <4>2. NetsSame
        <5>1. ~(Left(todo[f]) = 16)
          BY <3>5
        <5>2. QED
          BY <5>1, <2>2, NetChanges
      <4>3. cfg[f].name \in Names /\ Lan(cfg[f]) = <<"net", cfg[f].name>>
        BY <4>1, NetOfName
      <4>4. obj'[Lan(cfg[f])] = obj[Lan(cfg[f])]
        BY <4>2, <4>3 DEF NetsSame
      <4>5. QED
        BY <4>1, <4>4, <3>3, NetStays
    <3>6. QED
      BY <3>1, <3>4, <3>5
  <2>3. ASSUME Left(todo'[f]) \in 16..21
        PROVE  /\ NetsSame /\ mem'[f].name \in Names /\ ~Exists(<<"net", mem'[f].name>>)
               /\ Left(todo'[f]) \in 16..20 => Available(mem'[f].subnet)
    <3>1. /\ Left(todo[f]) = Left(todo'[f]) + 1 /\ Left(todo[f]) \in {17, 18, 19, 20, 21, 22}
          /\ (Left(todo'[f]) \in 16..20 => Left(todo[f]) \in {17, 18, 19, 20, 21})
      BY <2>1, <2>3, <1>2
    <3>2. NetsSame
      <4>1. Left(todo[f]) # 16 /\ Left(todo[f]) # 0
        BY <3>1
      <4>2. QED
        BY <4>1, NetChanges
    <3>3. ~Failing(f)
      BY <2>3, EmptyPlanned DEF Failing, Fail, Types
    <3>4. Choosing(f) \/ (mem' = mem /\ Left(todo[f]) \notin {20, 21, 22})
      <4>1. CASE Skipping(f) \/ Making(f) \/ Setting(f) \/ Testing(f) \/ Removing(f)
        <5>1. mem' = mem
          BY <4>1 DEF Skipping, Skip, Making, Setting, Set, Becomes, Testing, Removing
        <5>2. Left(todo[f]) \in {0, 16, 17, 19}
          BY <4>1 DEF Skipping, Making, Setting, Testing, Removing
        <5>3. QED
          BY <5>1, <5>2
      <4>2. CASE Locking(f) \/ Unlocking(f)
        BY <4>2 DEF Locking, Lock, Unlocking, Unlock
      <4>3. CASE Saving(f) \/ Adopting(f) \/ Forgetting(f)
        BY <4>3 DEF Saving, Adopting, Forgetting, Writes
      <4>4. QED
        BY <4>1, <4>2, <4>3, <3>3 DEF Shape
    <3>5. CASE Choosing(f)
      <4>1. PICK c : /\ Chosen(f, c)
                     /\ \/ Left(todo[f]) = 22 /\ \E n \in Names : unique_prefix(n) /\ c = [mem[f] EXCEPT !.name = n]
                        \/ Left(todo[f]) = 21 /\ \E s \in Subnets : Available(s) /\ c = [mem[f] EXCEPT !.subnet = s]
                        \/ Left(todo[f]) = 20 /\ \E n \in Names : c = [mem[f] EXCEPT !.prefix = n]
        BY <3>5 DEF Choosing
      <4>2. mem'[f] = c
        BY <4>1 DEF Chosen, Types
      <4>3. CASE Left(todo[f]) = 22
        <5>1. PICK n \in Names : unique_prefix(n) /\ c = [mem[f] EXCEPT !.name = n]
          BY <4>1, <4>3
        <5>2. mem'[f].name = n /\ ~Exists(<<"net", n>>)
          BY <5>1, <4>2, <1>2 DEF Config, unique_prefix, Kinds
        <5>3. Left(todo'[f]) \notin 16..20
          BY <3>1, <4>3
        <5>4. QED
          BY <5>2, <5>3, <3>2
      <4>4. CASE Left(todo[f]) = 21
        <5>1. PICK n \in Subnets : Available(n) /\ c = [mem[f] EXCEPT !.subnet = n]
          BY <4>1, <4>4
        <5>2. mem'[f].subnet = n /\ mem'[f].name = mem[f].name
          BY <5>1, <4>2, <1>2 DEF Config
        <5>3. QED
          BY <5>1, <5>2, <4>4, <1>3, <3>2 DEF Lan
      <4>5. CASE Left(todo[f]) = 20
        <5>1. PICK n \in Names : c = [mem[f] EXCEPT !.prefix = n]
          BY <4>1, <4>5
        <5>2. mem'[f].subnet = mem[f].subnet /\ mem'[f].name = mem[f].name
          BY <5>1, <4>2, <1>2 DEF Config
        <5>3. QED
          BY <5>2, <4>5, <1>3, <3>2 DEF Lan
      <4>6. QED
        BY <4>1, <4>3, <4>4, <4>5
    <3>6. CASE mem' = mem /\ Left(todo[f]) \notin {20, 21, 22}
      <4>1. Left(todo[f]) \in {17, 18, 19}
        BY <3>1, <3>6
      <4>2. QED
        BY <4>1, <3>6, <1>3, <3>2 DEF Lan
    <3>7. QED
      BY <3>2, <3>4, <3>5, <3>6
  <2>4. Left(todo'[f]) \in 16..21 => ~Exists(Lan(mem[f]))'
    <3>1. ASSUME Left(todo'[f]) \in 16..21 PROVE ~Exists(Lan(mem[f]))'
      <4>1. mem'[f].name \in Names /\ ~Exists(<<"net", mem'[f].name>>)
        BY <2>3, <3>1
      <4>2. NetsSame
        BY <2>3, <3>1
      <4>3. QED
        BY <4>1, <4>2 DEF NetsSame, Exists, Lan
    <3>2. QED
      BY <3>1
  <2>5. Left(todo'[f]) \in 16..20 => Available(mem[f].subnet)'
    <3>1. ASSUME Left(todo'[f]) \in 16..20 PROVE Available(mem[f].subnet)'
      <4>1. Left(todo'[f]) \in 16..21
        <5>1. \A n \in 16..20 : n \in 16..21
          OBVIOUS
        <5>2. QED
          BY <3>1, <5>1
      <4>2. Available(mem'[f].subnet) /\ NetsSame
        BY <2>3, <3>1, <4>1
      <4>3. QED
        BY <4>2 DEF Available, NetsSame, Exists
    <3>2. QED
      BY <3>1
  <2>6. QED
    BY <2>2, <2>4, <2>5 DEF ReservedOf
<1>7. QED
  BY <1>1, <1>5, <1>6

LEMMA ReservedSame ==
  ASSUME NEW g \in Folder, ReservedOf(g), obj' = obj, todo'[g] = todo[g], mem'[g] = mem[g],
         cfg'[g] = cfg[g]
  PROVE  ReservedOf(g)'
BY DEF ReservedOf, Own, At, Net, Exists, Available

\* A launcher that has nothing to do.
LEMMA ReservedIdle ==
  ASSUME NEW g \in Folder, ReservedOf(g), Left(todo[g]) = 0, ~At(g, "forget"), obj' = obj,
         Left(todo'[g]) \in {0, 23}, Own(g)' => cfg'[g] = cfg[g]
  PROVE  ReservedOf(g)'
<1>1. Left(todo'[g]) \notin 16..21 /\ Left(todo'[g]) \notin 16..20
  OBVIOUS
<1>2. ASSUME Own(g)' PROVE Net(g)'
  <2>1. cfg'[g] = cfg[g] /\ Own(g)
    BY <1>2 DEF Own
  <2>2. Net(g)
    BY <2>1 DEF ReservedOf
  <2>3. QED
    BY <2>1, <2>2, NetStays
<1>3. QED
  BY <1>1, <1>2 DEF ReservedOf

LEMMA ReservedParts == Reserved <=> (orderly /\ OneUser => \A f \in Folder : ReservedOf(f))
BY DEF Reserved, ReservedOf

LEMMA ReservedByCommand ==
  ASSUME NEW f \in Folder, Types, FoldersAssumption, Held, Session, Reserved, Shape(f)
  PROVE  Reserved'
<1>1. UNCHANGED <<user, orderly>>
  BY CommandFrame DEF bounds
<1>2. SUFFICES ASSUME orderly', OneUser' PROVE \A g \in Folder : ReservedOf(g)'
  BY DEF Reserved, ReservedOf
<1>3. orderly /\ OneUser
  BY <1>1, <1>2 DEF OneUser
<1>4. \A g \in Folder : ReservedOf(g) /\ SessionOf(g)
  BY <1>3, ReservedParts, SessionParts
<1>5. QED
  BY <1>3, <1>4, ReservedOfSelf, ReservedOfOthers

LEMMA ReservedByOthers ==
  ASSUME NEW f \in Folder, Types, FoldersAssumption, Session, Reserved,
         Beginning(f) \/ Launch(f) \/ Quit(f) \/ CutOff(f) \/ \E g \in Folder : Copy(f, g)
  PROVE  Reserved'
<1>1. user' = user /\ (orderly' => orderly)
  BY DEF Beginning, Begin, Launch, Quit, CutOff, Copy, bounds, Types
<1>2. SUFFICES ASSUME orderly', OneUser' PROVE \A g \in Folder : ReservedOf(g)'
  BY DEF Reserved, ReservedOf
<1>3. orderly /\ OneUser
  BY <1>1, <1>2 DEF OneUser
<1>4. \A g \in Folder : ReservedOf(g)
  BY <1>3, ReservedParts
<1>5. CASE Beginning(f)
  <2>1. PICK c \in Config, p \in Plans :
          Idle(f) /\ Begin(f, c, p) /\ (p # setup \/ cfg[f] = NoConfig)
    BY <1>5 DEF Beginning
  <2>2. /\ todo[f] = <<>> /\ todo' = [todo EXCEPT ![f] = p] /\ mem' = [mem EXCEPT ![f] = c]
        /\ UNCHANGED <<obj, cfg>>
    BY <2>1 DEF Idle, Begin, disk
  <2>3. ASSUME NEW g \in Folder, g # f PROVE ReservedOf(g)'
    <3>1. todo'[g] = todo[g] /\ mem'[g] = mem[g]
      BY <2>2, <2>3 DEF Types
    <3>2. QED
      BY <3>1, <2>2, <1>4, ReservedSame
  <2>4. Left(todo[f]) = 0 /\ ~At(f, "forget") /\ Left(todo'[f]) \in {0, 23}
    <3>1. todo'[f] = p
      BY <2>2 DEF Types
    <3>2. Left(p) \in {0, 23}
      BY LeftBegins DEF Plans
    <3>3. QED
      BY <3>1, <3>2, <2>2, EmptyPlanned DEF At
  <2>5. QED
    BY <2>2, <2>3, <2>4, <1>4, ReservedIdle
<1>6. CASE Launch(f)
  <2>1. /\ f \notin open
        /\ cfg' = [cfg EXCEPT ![f] = IF @ # NoConfig /\ Copied(f) THEN NoConfig ELSE @]
        /\ UNCHANGED <<obj, todo, mem>>
    BY <1>6 DEF Launch, prepare_folder
  <2>2. todo[f] = <<>>
    BY <2>1 DEF Types
  <2>3. ASSUME NEW g \in Folder, g # f PROVE ReservedOf(g)'
    <3>1. cfg'[g] = cfg[g]
      BY <2>1, <2>3 DEF Types
    <3>2. QED
      BY <3>1, <2>1, <1>4, ReservedSame
  <2>4. cfg'[f] = cfg[f] \/ cfg'[f] = NoConfig
    BY <2>1 DEF Types
  <2>5. Own(f)' => cfg'[f] = cfg[f]
    BY <2>4 DEF Own
  <2>6. Left(todo[f]) = 0 /\ ~At(f, "forget") /\ Left(todo'[f]) \in {0, 23}
    BY <2>1, <2>2, EmptyPlanned DEF At
  <2>7. QED
    BY <2>1, <2>3, <2>5, <2>6, <1>4, ReservedIdle
<1>7. CASE Quit(f)
  <2>1. UNCHANGED <<obj, cfg, todo, mem>>
    BY <1>7 DEF Quit, disk
  <2>2. QED
    BY <2>1, <1>4, ReservedSame
<1>8. CASE CutOff(f)
  BY <1>8, <1>2 DEF CutOff
<1>9. CASE \E g \in Folder : Copy(f, g)
  <2>1. PICK g \in Folder : Copy(f, g)
    BY <1>9
  <2>2. /\ g \notin open /\ path[g] = None
        /\ cfg' = [cfg EXCEPT ![g] = cfg[f]] /\ orderly' = (orderly /\ cfg[f].owner # None)
        /\ UNCHANGED <<obj, todo, mem>>
    BY <2>1 DEF Copy
  <2>3. todo[g] = <<>> /\ cfg'[g] = cfg[f]
    BY <2>2 DEF Types
  <2>4. cfg[f].owner # None /\ cfg[f].owner # g
    BY <2>2, <1>2 DEF Session
  <2>5. ~Own(g)'
    BY <2>3, <2>4 DEF Own
  <2>6. ReservedOf(g)'
    <3>1. Left(todo'[g]) = 0
      BY <2>2, <2>3, EmptyPlanned
    <3>2. Left(todo'[g]) \notin 16..21 /\ Left(todo'[g]) \notin 16..20
      BY <3>1
    <3>3. QED
      BY <3>2, <2>5 DEF ReservedOf
  <2>7. ASSUME NEW h \in Folder, h # g PROVE ReservedOf(h)'
    <3>1. cfg'[h] = cfg[h]
      BY <2>2, <2>7 DEF Types
    <3>2. QED
      BY <3>1, <2>2, <1>4, ReservedSame
  <2>8. QED
    BY <2>6, <2>7
<1>10. QED
  BY <1>5, <1>6, <1>7, <1>8, <1>9

(***************************************************************************)
(* The theorems.                                                           *)
(***************************************************************************)
LEMMA OldIsTyped ==
  ASSUME NEW f \in Folder, NEW n \in Names, NEW s \in Subnets, NEW there \in SUBSET Kinds, FoldersAssumption
  PROVE  /\ OldObjects(f, n, s, there) \in [Objects -> Object \cup {None}]
         /\ "net" \in there =>
              /\ <<"net", n>> \in Objects /\ OldObjects(f, n, s, there)[<<"net", n>>] # None
              /\ OldObjects(f, n, s, there)[<<"net", n>>].owner = f
<1> DEFINE r(o) == [owner |-> f, up |-> o[1] \in {"router", "worker"},
                    at |-> CASE o[1] = "net" -> s [] o[1] = "volume" -> None [] OTHER -> n]
<1>1. ASSUME NEW o \in Objects PROVE r(o) \in Object /\ r(o).owner = f
  <2>1. (CASE o[1] = "net" -> s [] o[1] = "volume" -> None [] OTHER -> n) \in Names \cup Subnets \cup {None}
    OBVIOUS
  <2>2. QED
    BY <2>1 DEF Object
<1>2. OldObjects(f, n, s, there) = [o \in Objects |-> IF o \notin there \X {n} THEN None ELSE r(o)]
  BY DEF OldObjects
<1> HIDE DEF r
<1>3. OldObjects(f, n, s, there) \in [Objects -> Object \cup {None}]
  BY <1>1, <1>2
<1>4. ASSUME "net" \in there
      PROVE  /\ <<"net", n>> \in Objects /\ OldObjects(f, n, s, there)[<<"net", n>>] # None
             /\ OldObjects(f, n, s, there)[<<"net", n>>].owner = f
  <2>1. <<"net", n>> \in Objects /\ <<"net", n>> \in there \X {n}
    BY <1>4 DEF Objects, Kinds
  <2>2. OldObjects(f, n, s, there)[<<"net", n>>] = r(<<"net", n>>)
    BY <2>1, <1>2
  <2>3. r(<<"net", n>>) \in Object /\ r(<<"net", n>>).owner = f
    BY <2>1, <1>1
  <2>4. QED
    BY <2>1, <2>2, <2>3 DEF FoldersAssumption
<1>5. QED
  BY <1>3, <1>4

LEMMA InitInvariant ==
  ASSUME FoldersAssumption, Init
  PROVE  IInv
<1>1. /\ path = [f \in Folder |-> None] /\ user \in [Folder -> Users]
      /\ lock = [u \in Users |-> None] /\ open = {}
      /\ todo = [f \in Folder |-> <<>>] /\ test = [f \in Folder |-> Untested]
      /\ mem = [f \in Folder |-> NoConfig]
  BY DEF Init
<1>2. \A f \in Folder : todo[f] = <<>> /\ Left(todo[f]) = 0 /\ Planned(todo[f]) /\ ~At(f, "forget")
  BY <1>1, EmptyPlanned DEF At
<1>3. /\ obj \in [Objects -> Object \cup {None}] /\ cfg \in [Folder -> Config] /\ orderly \in BOOLEAN
      /\ \A f \in Folder : cfg[f].owner = None
      /\ orderly => \A f \in Folder : cfg[f] # NoConfig => Net(f)
  <2>1. CASE InitFresh
    BY <2>1, NoConfigIsConfig DEF InitFresh
  <2>2. ASSUME NEW f \in Folder, NEW n \in Names, NEW s \in Subnets,
               NEW there \in {Kinds, {"net", "volume"}, {"volume"}}, InitOld(f, n, s, there)
        PROVE  /\ obj \in [Objects -> Object \cup {None}] /\ cfg \in [Folder -> Config] /\ orderly \in BOOLEAN
               /\ \A g \in Folder : cfg[g].owner = None
               /\ orderly => \A g \in Folder : cfg[g] # NoConfig => Net(g)
    <3> DEFINE old == [owner |-> None, name |-> n, prefix |-> n, subnet |-> s]
    <3>1. /\ cfg = [g \in Folder |-> IF g = f THEN old ELSE NoConfig]
          /\ obj = OldObjects(f, n, s, there) /\ orderly = ("net" \in there)
      BY <2>2 DEF InitOld
    <3>2. old \in Config /\ old.owner = None /\ old.name = n
      BY DEF Config
    <3>3. there \in SUBSET Kinds
      BY DEF Kinds
    <3>4. /\ obj \in [Objects -> Object \cup {None}]
          /\ "net" \in there => /\ <<"net", n>> \in Objects /\ obj[<<"net", n>>] # None
                                /\ obj[<<"net", n>>].owner = f
      BY <3>1, <3>3, OldIsTyped
    <3> HIDE DEF old
    <3>5. cfg \in [Folder -> Config] /\ orderly \in BOOLEAN /\ \A g \in Folder : cfg[g].owner = None
      BY <3>1, <3>2, NoConfigIsConfig
    <3>6. ASSUME orderly, NEW g \in Folder, cfg[g] # NoConfig PROVE Net(g)
      <4>1. g = f /\ cfg[g].name = n
        BY <3>1, <3>2, <3>6
      <4>2. QED
        BY <4>1, <3>1, <3>4, <3>6 DEF Net, Lan, Exists
    <3>7. QED
      BY <3>4, <3>5, <3>6
  <2>3. QED
    BY <2>1, <2>2 DEF Init
<1>4. Types
  <2>1. Untested \in [Objects -> Found]
    BY DEF Untested, Found
  <2>2. /\ path \in [Folder -> Folder \cup {None}] /\ mem \in [Folder -> Config]
        /\ lock \in [Users -> Folder \cup {None}] /\ test \in [Folder -> [Objects -> Found]]
        /\ DOMAIN todo = Folder
    BY <1>1, <2>1, NoConfigIsConfig
  <2>3. QED
    BY <1>1, <1>2, <1>3, <2>2 DEF Types
<1>5. Held
  <2>1. 0 \notin 15..22
    OBVIOUS
  <2>2. QED
    BY <1>1, <1>2, <2>1 DEF Held, FoldersAssumption
<1>6. ThereIsOwn
  BY <1>1 DEF ThereIsOwn, Untested
<1>7. TouchTested
  <2>1. \A i \in 1..Len(<<>>) : FALSE
    OBVIOUS
  <2>2. QED
    BY <1>2, <2>1 DEF TouchTested, TouchesTested
<1>8. Session
  <2>1. 0 \notin 15..21 /\ 0 \notin 15..20 /\ ~(0 >= 18)
    OBVIOUS
  <2>2. \A f \in Folder : f \notin open /\ todo[f] = <<>> /\ Left(todo[f]) = 0 /\ \A g \in Folder : cfg[g].owner # f
    BY <1>1, <1>2, <1>3 DEF FoldersAssumption
  <2>3. QED
    BY <2>1, <2>2, Zenon DEF Session
<1>9. Reserved
  <2>1. 0 \notin 16..21 /\ 0 \notin 16..20
    OBVIOUS
  <2>2. ASSUME orderly, NEW f \in Folder, Own(f) PROVE Net(f)
    BY <1>3, <2>2 DEF Own
  <2>3. QED
    BY <2>1, <2>2, <1>2 DEF Reserved
<1>10. QED
  BY <1>4, <1>5, <1>6, <1>7, <1>8, <1>9 DEF IInv

LEMMA StepCases ==
  ASSUME Types, Next
  PROVE  \E f \in Folder :
           \/ Commands(f) /\ Shape(f)
           \/ Beginning(f) \/ Launch(f) \/ Quit(f) \/ CutOff(f) \/ \E g \in Folder : Copy(f, g)
<1>1. CASE \E f \in Folder : Commands(f)
  <2>1. PICK f \in Folder : Commands(f)
    BY <1>1
  <2>2. Shape(f)
    BY <2>1, Shapes DEF Types
  <2>3. QED
    BY <2>1, <2>2
<1>2. CASE \E f \in Folder : Menu(f) \/ CutOff(f)
  BY <1>2, Beginnings DEF Menu
<1>3. CASE \E f, g \in Folder : Copy(f, g)
  BY <1>3
<1>4. QED
  BY <1>1, <1>2, <1>3 DEF Next

LEMMA NextInvariant ==
  ASSUME FoldersAssumption, IInv, [Next]_vars
  PROVE  IInv'
<1>1. Types /\ Held /\ ThereIsOwn /\ TouchTested /\ Session /\ Reserved
  BY DEF IInv
<1>2. CASE Next
  <2>1. PICK f \in Folder :
          \/ Commands(f) /\ Shape(f)
          \/ Beginning(f) \/ Launch(f) \/ Quit(f) \/ CutOff(f) \/ \E g \in Folder : Copy(f, g)
    BY <1>1, <1>2, StepCases
  <2>2. CASE Shape(f)
    BY <1>1, <2>2, TypesByCommand, HeldByCommand, ThereByCommand, TouchByCommand, SessionByCommand,
       ReservedByCommand DEF IInv
  <2>3. CASE Beginning(f)
    BY <1>1, <2>3, TypesByBeginning, HeldByBeginning, ThereByOthers, TouchByOthers, SessionByOthers,
       ReservedByOthers DEF IInv
  <2>4. CASE Launch(f) \/ Quit(f) \/ CutOff(f) \/ \E g \in Folder : Copy(f, g)
    BY <1>1, <2>4, TypesByOthers, HeldByOthers, ThereByOthers, TouchByOthers, SessionByOthers,
       ReservedByOthers DEF IInv
  <2>5. QED
    BY <2>1, <2>2, <2>3, <2>4
<1>3. CASE UNCHANGED vars
  <2>1. UNCHANGED <<obj, cfg, path, user, lock, open, todo, mem, test, orderly>>
    BY <1>3 DEF vars, disk, bounds
  <2>2. Types' /\ Held' /\ ThereIsOwn'
    BY <1>1, <2>1 DEF Types, Held, ThereIsOwn, Exists
  <2>3. TouchTested'
    BY <1>1, <2>1 DEF TouchTested, TouchesTested, Tested
  <2>4. Session'
    BY <1>1, <2>1 DEF Session, Own
  <2>5. Reserved'
    BY <1>1, <2>1 DEF Reserved, OneUser, Own, At, Net, Exists, Available
  <2>6. QED
    BY <2>2, <2>3, <2>4, <2>5 DEF IInv
<1>4. QED
  BY <1>2, <1>3

\* What an action still has to do is the rest of a plan, its setup holds the
\* lock exactly as long as the plan says, what a test found is the tester's own,
\* no command of a plan runs ahead of its test, the launcher works with what its
\* folder says, and, with one user and no cut, the network of what is saved is
\* there and the names of a setup under way are free.
THEOREM Inductive == Spec => []IInv
<1>1. Init => IInv
  BY InitInvariant, FoldersAssumption
<1>2. IInv /\ [Next]_vars => IInv'
  BY NextInvariant, FoldersAssumption
<1>3. QED
  BY <1>1, <1>2, PTL DEF Spec

\* In every state of every number of folders Docker's objects and the folders'
\* files are well formed, and the setup lock is held by a setup that will
\* release it, or by nobody.
THEOREM TypeCorrect == Spec => []TypeOK
<1>1. IInv => TypeOK
  <2>1. SUFFICES ASSUME IInv PROVE TypeOK
    OBVIOUS
  <2>2. Types /\ Held
    BY <2>1 DEF IInv
  <2>3. ASSUME NEW u \in Users, NEW f \in Folder, lock[u] = f
        PROVE  Step("unlock") \in {todo[f][i] : i \in DOMAIN todo[f]}
    <3>1. Left(todo[f]) # 0 /\ Planned(todo[f])
      <4>1. Left(todo[f]) \in 15..22
        BY <2>2, <2>3 DEF Held
      <4>2. QED
        BY <4>1, <2>2 DEF Types
    <3>2. \E i \in DOMAIN todo[f] : todo[f][i] = Step("unlock")
      BY <3>1, UnlockComes
    <3>3. QED
      BY <3>2
  <2>4. QED
    BY <2>2, <2>3 DEF TypeOK, Types
<1>2. QED
  BY <1>1, Inductive, PTL

\* No command touches what its action has not tested, or another folder's
\* object that was there at the test, whatever the other folders do in between.
THEOREM ForeignUntouched == Spec => OthersUntouched
<1>1. ASSUME IInv, Next, NEW f \in Folder, NEW o \in Objects,
             todo'[f] # todo[f], Exists(o), obj'[o] # obj[o]
      PROVE  obj[o].owner = f \/ test[f][o] = "gone"
  <2>1. Types /\ ThereIsOwn /\ TouchTested
    BY <1>1 DEF IInv
  <2>2. PICK g \in Folder :
          \/ Commands(g) /\ Shape(g)
          \/ Beginning(g) \/ Launch(g) \/ Quit(g) \/ CutOff(g) \/ \E h \in Folder : Copy(g, h)
    BY <1>1, <2>1, StepCases
  <2>3. Shape(g)
    BY <2>2, <1>1 DEF Beginning, Begin, Launch, Quit, CutOff, Copy
  <2>4. g = f /\ todo[f] # <<>>
    BY <2>1, <2>3, <1>1, CommandFrame
  <2>5. CASE Making(f)
    <3>1. PICK k \in Kinds : ~Exists(The(k, mem[f])) /\ Becomes(f, The(k, mem[f]), New(f, k))
      BY <2>5 DEF Making
    <3>2. o = The(k, mem[f])
      BY <3>1, <2>1, <1>1 DEF Becomes, Types
    <3>3. QED
      BY <3>1, <3>2, <1>1
  <2>6. CASE Setting(f) \/ Removing(f)
    <3>1. PICK k \in {"net", "router", "worker"} :
            /\ Head(todo[f])[1] \in Touching /\ Head(todo[f])[2] = k
            /\ \E r : obj' = [obj EXCEPT ![The(k, mem[f])] = r]
      <4>1. CASE Setting(f)
        BY <4>1 DEF Setting, Set, Becomes
      <4>2. CASE Removing(f)
        BY <4>2 DEF Removing
      <4>3. QED
        BY <2>6, <4>1, <4>2
    <3>2. o = The(k, mem[f])
      BY <3>1, <2>1, <1>1 DEF Types
    <3>3. 1 \in 1..Len(todo[f]) /\ todo[f][1] = Head(todo[f])
      <4>1. todo[f] \in Seq(Entry)
        BY <2>1 DEF Types, Planned
      <4>2. QED
        BY <4>1, <2>4
    <3>4. ~TestedAt(todo[f], 1)
      BY DEF TestedAt
    <3>5. Tested(f, k)
      BY <3>1, <3>3, <3>4, <2>1 DEF TouchTested, TouchesTested
    <3>6. test[f][o] # "untested"
      BY <3>2, <3>5 DEF Tested
    <3>7. test[f][o] \in {"untested", "there", "gone"}
      BY <2>1 DEF Types, Found
    <3>8. QED
      BY <3>6, <3>7, <2>1 DEF ThereIsOwn
  <2>7. CASE \/ Failing(f) \/ Skipping(f) \/ Testing(f) \/ Choosing(f) \/ Locking(f) \/ Unlocking(f)
             \/ Saving(f) \/ Adopting(f) \/ Forgetting(f)
    <3>1. obj' = obj
      BY <2>7 DEF Failing, Fail, Skipping, Skip, Testing, Choosing, Chosen, Locking, Lock, Unlocking,
                  Unlock, Saving, Adopting, Forgetting, Writes
    <3>2. QED
      BY <3>1, <1>1
  <2>8. QED
    BY <2>3, <2>4, <2>5, <2>6, <2>7 DEF Shape
<1>2. IInv /\ [Next]_vars =>
        [\A f \in Folder, o \in Objects :
           todo'[f] # todo[f] /\ Exists(o) /\ obj'[o] # obj[o] =>
             obj[o].owner = f \/ test[f][o] = "gone"]_vars
  BY <1>1
<1>3. QED
  BY <1>2, Inductive, PTL DEF Spec, OthersUntouched

\* A launcher never takes an ownerless configuration for its folder's own
\* while the original's router or network is there.
THEOREM CopiesStartAfresh == Spec => CopyStartsAfresh
<1>1. ASSUME IInv, Next, NEW f \in open' \ open, NEW g \in Folder \ {f}, cfg'[f] # NoConfig, cfg'[f].owner # f,
             {o \in {Lan(cfg'[f]), Router(cfg'[f])} : Exists(o)} # {}
      PROVE  \E o \in {o \in {Lan(cfg'[f]), Router(cfg'[f])} : Exists(o)} : obj[o].owner # g
  <2>1. Types
    BY <1>1 DEF IInv
  <2>2. PICK h \in Folder :
          \/ Commands(h) /\ Shape(h)
          \/ Beginning(h) \/ Launch(h) \/ Quit(h) \/ CutOff(h) \/ \E i \in Folder : Copy(h, i)
    BY <1>1, <2>1, StepCases
  <2>3. Launch(f) /\ f \in Folder
    <3>1. Shape(h) => open' = open
      BY <2>1, CommandFrame
    <3>2. Launch(h)
      BY <3>1, <2>2, <1>1 DEF Beginning, Begin, Quit, CutOff, Copy
    <3>3. h = f
      BY <3>2, <1>1 DEF Launch
    <3>4. QED
      BY <3>2, <3>3
  <2>4. f \in Folder /\ f # g
    BY <1>1, <2>3
  <2>5. cfg'[f] = cfg[f] /\ ~Copied(f)
    <3>1. cfg'[f] = IF cfg[f] # NoConfig /\ Copied(f) THEN NoConfig ELSE cfg[f]
      BY <2>1, <2>3, <2>4 DEF Launch, prepare_folder, Types
    <3>2. QED
      BY <3>1, <1>1
  <2>6. SavedOwner(cfg[f]) \in {None, f}
    BY <2>5 DEF Copied
  <2>7. cfg[f].owner = None
    BY <2>5, <2>6, <1>1 DEF SavedOwner
  <2>8. g # None
    BY <1>1, FoldersAssumption DEF FoldersAssumption
  <2>9. CASE Exists(Router(cfg[f]))
    <3>1. obj[Router(cfg[f])].owner \in {None, f}
      BY <2>6, <2>7, <2>9 DEF SavedOwner
    <3>2. QED
      BY <3>1, <2>4, <2>5, <2>8, <2>9
  <2>10. CASE ~Exists(Router(cfg[f])) /\ Exists(Lan(cfg[f]))
    <3>1. obj[Lan(cfg[f])].owner \in {None, f}
      BY <2>6, <2>7, <2>10 DEF SavedOwner
    <3>2. QED
      BY <3>1, <2>4, <2>5, <2>8, <2>10
  <2>11. QED
    BY <2>5, <2>9, <2>10, <1>1
<1>2. IInv /\ [Next]_vars =>
        [\A f \in open' \ open : \A g \in Folder \ {f} :
           LET left == {o \in {Lan(cfg'[f]), Router(cfg'[f])} : Exists(o)} IN
           cfg'[f] # NoConfig /\ cfg'[f].owner # f /\ left # {} =>
             \E o \in left : obj[o].owner # g]_vars
  BY <1>1
<1>3. QED
  BY <1>2, Inductive, PTL DEF Spec, CopyStartsAfresh

\* While the launchers are one user's and none is cut off, what a setup has
\* saved is reserved: its network is there, and its folder's, however the other
\* folders' setups, removals and copies interleave with it.
THEOREM NamesAreReserved == Spec => []SetupReserves
<1>1. ASSUME IInv PROVE SetupReserves
  <2>1. SUFFICES ASSUME orderly, OneUser, NEW f \in Folder, cfg[f].owner = f, f \in open, Settled(f)
                 PROVE  Exists(Lan(cfg[f])) /\ obj[Lan(cfg[f])].owner = f
    BY DEF SetupReserves
  <2>2. Planned(todo[f]) /\ ReservedOf(f)
    BY <1>1, <2>1, ReservedParts DEF IInv, Types
  <2>3. Own(f)
    BY <2>1, NoConfigIsConfig, FoldersAssumption DEF Own, FoldersAssumption
  <2>4. Left(todo[f]) = 0
    <3>1. ASSUME Left(todo[f]) # 0 PROVE FALSE
      <4>1. PICK i \in DOMAIN todo[f] : todo[f][i] = Step("unlock")
        BY <3>1, <2>2, UnlockComes
      <4>2. todo[f][i][1] = "unlock"
        BY <4>1, OpOf
      <4>3. QED
        BY <4>2, <2>1 DEF Settled
    <3>2. QED
      BY <3>1
  <2>5. ~At(f, "forget")
    <3>1. ASSUME todo[f] # <<>>, Head(todo[f])[1] = "forget" PROVE FALSE
      <4>1. todo[f] \in Seq(Entry)
        BY <2>2 DEF Planned
      <4>2. 1 \in DOMAIN todo[f] /\ todo[f][1] = Head(todo[f])
        BY <3>1, <4>1
      <4>3. QED
        BY <3>1, <4>2, <2>1 DEF Settled
    <3>2. QED
      BY <3>1 DEF At
  <2>6. Net(f)
    <3>1. 0 < 16
      OBVIOUS
    <3>2. QED
      BY <2>2, <2>3, <2>4, <2>5, <3>1, Zenon DEF ReservedOf
  <2>7. QED
    BY <2>6 DEF Net
<1>2. QED
  BY <1>1, Inductive, PTL
=============================================================================
