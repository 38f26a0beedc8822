--------------------------- MODULE LauncherProofs ---------------------------
(***************************************************************************)
(* Launcher for any number of workers, proxies, builds and actions: which  *)
(* workers an action may start, and when.                                  *)
(*                                                                         *)
(* An action is a sequence of commands, of which some have to come before  *)
(* others: a worker is started after the configuration is saved and after  *)
(* the wait for the router's health, and nothing in between undoes what    *)
(* that established.  A rule says this of the commands still to run: each  *)
(* of its goals follows the key, with no spoiling command in between, or   *)
(* what the key establishes holds now and nothing before the goal spoils   *)
(* it.  The rules are shown of every action of the menu once, and are then *)
(* kept by whatever command runs, wherever the action is cut off.          *)
(***************************************************************************)
EXTENDS Launcher, SequenceTheorems, TLAPS

\* What an action does before the router is started, to start it, behind it, and in the
\* actions that start nothing.
Preparing == {"save", "routes", "if_built", "lan", "wan", "r_build", "w_build", "w_stop", "w_rm",
              "r_remove"}
Routing == {"r_profile", "r_create", "r_connect", "r_start", "r_wait"}
Starting == {"w_check", "w_volume", "w_create", "w_start"}
Ending == {"save", "w_mark", "w_stop", "r_stop", "w_remove", "r_remove", "lan_rm", "wan_rm", "forget"}
Name == Preparing \cup Routing \cup Starting \cup Ending

\* What is done for one worker; and two marks: a command for another worker, and the end
\* of an action.
PerWorker == {"w_stop", "w_mark", "w_rm", "w_remove"} \cup Starting
Plain == (Name \ PerWorker) \cup {"other", "end"}

Entry == [cmd : Plain] \cup [cmd : Name, w : Worker]

\* Nothing strictly between places j and k of s spoils.
Clear(r, s, j, k) == \A i \in 1..Len(s) : j < i /\ i < k => s[i].cmd \notin r.spoil

\* The goal at place k follows the key.
Earned(r, s, k) == \E j \in 1..Len(s) : j < k /\ s[j].cmd = r.key /\ Clear(r, s, j, k)

\* All goals do; or those that do not may rely on what holds before s.
Closed(r, s) == \A k \in 1..Len(s) : s[k].cmd \in r.goals => Earned(r, s, k)
Relying(r, s) == \A k \in 1..Len(s) : s[k].cmd \in r.goals => Earned(r, s, k) \/ Clear(r, s, 0, k)

\* What the key establishes holds at the end of s.
Gives(r, s) == \E j \in 1..Len(s) : s[j].cmd = r.key /\ Clear(r, s, j, Len(s) + 1)

Kept(r, s, holds) == Closed(r, s) \/ (holds /\ Relying(r, s))

Mute(r, s) == \A k \in 1..Len(s) : s[k].cmd \notin r.goals
Harmless(r, s) == \A k \in 1..Len(s) : s[k].cmd \notin r.spoil

-----------------------------------------------------------------------------
(***************************************************************************)
(* Rules and sequences.                                                    *)
(***************************************************************************)
LEMMA MuteCloses == ASSUME NEW r, NEW s, Mute(r, s) PROVE Closed(r, s) /\ Relying(r, s)
BY DEF Mute, Closed, Relying

LEMMA HarmlessRelies == ASSUME NEW r, NEW s, Harmless(r, s) PROVE Relying(r, s)
BY DEF Harmless, Relying, Clear

\* Both parts keep to the rule, or the first establishes what the second relies on.
LEMMA ConcatCloses ==
  ASSUME NEW r, NEW a \in Seq(Entry), NEW b \in Seq(Entry), Closed(r, a),
         Closed(r, b) \/ (Gives(r, a) /\ Relying(r, b))
  PROVE  Closed(r, a \o b)
<1> DEFINE s == a \o b
<1>1. /\ Len(a) \in Nat /\ Len(b) \in Nat /\ Len(s) = Len(a) + Len(b)
      /\ \A k \in 1..Len(a) : s[k] = a[k]
      /\ \A k \in 1..Len(b) : s[Len(a) + k] = b[k]
  OBVIOUS
<1> HIDE DEF s
<1>2. \A k \in 1..Len(s) : k \in 1..Len(a) \/ (k - Len(a) \in 1..Len(b) /\ s[k] = b[k - Len(a)])
  BY <1>1
<1> SUFFICES ASSUME NEW k \in 1..Len(s), s[k].cmd \in r.goals PROVE Earned(r, s, k)
  BY DEF Closed, s
<1>3. CASE k \in 1..Len(a)
  <2>1. PICK j \in 1..Len(a) : j < k /\ a[j].cmd = r.key /\ Clear(r, a, j, k)
    BY <1>1, <1>3 DEF Closed, Earned
  <2>2. j \in 1..Len(s) /\ s[j].cmd = r.key
    BY <1>1, <2>1
  <2>3. ASSUME NEW i \in 1..Len(s), j < i, i < k PROVE s[i].cmd \notin r.spoil
    <3>1. i \in 1..Len(a) /\ s[i] = a[i]
      BY <1>1, <1>3, <2>3
    <3>2. QED
      BY <2>1, <2>3, <3>1 DEF Clear
  <2>4. QED
    BY <2>1, <2>2, <2>3 DEF Earned, Clear
<1>4. CASE k \notin 1..Len(a)
  <2> DEFINE m == k - Len(a)
  <2>1. m \in 1..Len(b) /\ s[k] = b[m] /\ k = Len(a) + m
    BY <1>1, <1>2, <1>4
  <2> HIDE DEF m
  <2>2. CASE Earned(r, b, m)
    <3>1. PICK j \in 1..Len(b) : j < m /\ b[j].cmd = r.key /\ Clear(r, b, j, m)
      BY <2>2 DEF Earned
    <3>2. Len(a) + j \in 1..Len(s) /\ s[Len(a) + j].cmd = r.key /\ Len(a) + j < k
      BY <1>1, <2>1, <3>1
    <3>3. Clear(r, s, Len(a) + j, k)
      <4> SUFFICES ASSUME NEW i \in 1..Len(s), Len(a) + j < i, i < k PROVE s[i].cmd \notin r.spoil
        BY DEF Clear
      <4>1. i - Len(a) \in 1..Len(b) /\ s[i] = b[i - Len(a)] /\ j < i - Len(a) /\ i - Len(a) < m
        BY <1>1, <1>2, <2>1
      <4>2. QED
        BY <3>1, <4>1 DEF Clear
    <3>4. QED
      BY <3>2, <3>3 DEF Earned
  <2>3. CASE Gives(r, a) /\ Clear(r, b, 0, m)
    <3>1. PICK j \in 1..Len(a) : a[j].cmd = r.key /\ Clear(r, a, j, Len(a) + 1)
      BY <2>3 DEF Gives
    <3>2. j \in 1..Len(s) /\ s[j].cmd = r.key /\ j < k
      BY <1>1, <2>1, <3>1
    <3>3. Clear(r, s, j, k)
      <4> SUFFICES ASSUME NEW i \in 1..Len(s), j < i, i < k PROVE s[i].cmd \notin r.spoil
        BY DEF Clear
      <4>1. CASE i \in 1..Len(a)
        BY <1>1, <3>1, <4>1 DEF Clear
      <4>2. CASE i \notin 1..Len(a)
        <5>1. i - Len(a) \in 1..Len(b) /\ s[i] = b[i - Len(a)] /\ 0 < i - Len(a) /\ i - Len(a) < m
          BY <1>1, <1>2, <2>1, <4>2
        <5>2. QED
          BY <2>3, <5>1 DEF Clear
      <4>3. QED
        BY <4>1, <4>2
    <3>4. QED
      BY <3>2, <3>3 DEF Earned
  <2>4. QED
    BY <2>1, <2>2, <2>3 DEF Closed, Relying
<1>5. QED
  BY <1>3, <1>4

LEMMA ConcatGives ==
  ASSUME NEW r, NEW a \in Seq(Entry), NEW b \in Seq(Entry),
         Gives(r, b) \/ (Gives(r, a) /\ Harmless(r, b))
  PROVE  Gives(r, a \o b)
<1> DEFINE s == a \o b
<1>1. /\ Len(a) \in Nat /\ Len(b) \in Nat /\ Len(s) = Len(a) + Len(b)
      /\ \A k \in 1..Len(a) : s[k] = a[k]
      /\ \A k \in 1..Len(b) : s[Len(a) + k] = b[k]
  OBVIOUS
<1> HIDE DEF s
<1>2. \A k \in 1..Len(s) : k \in 1..Len(a) \/ (k - Len(a) \in 1..Len(b) /\ s[k] = b[k - Len(a)])
  BY <1>1
<1>3. CASE Gives(r, b)
  <2>1. PICK j \in 1..Len(b) : b[j].cmd = r.key /\ Clear(r, b, j, Len(b) + 1)
    BY <1>3 DEF Gives
  <2>2. Len(a) + j \in 1..Len(s) /\ s[Len(a) + j].cmd = r.key
    BY <1>1, <2>1
  <2>3. ASSUME NEW i \in 1..Len(s), Len(a) + j < i PROVE s[i].cmd \notin r.spoil
    <3>1. i - Len(a) \in 1..Len(b) /\ s[i] = b[i - Len(a)] /\ j < i - Len(a) /\ i - Len(a) < Len(b) + 1
      BY <1>1, <1>2, <2>1, <2>3
    <3>2. QED
      BY <2>1, <3>1 DEF Clear
  <2>4. QED
    BY <2>2, <2>3 DEF Gives, Clear, s
<1>4. CASE Gives(r, a) /\ Harmless(r, b)
  <2>1. PICK j \in 1..Len(a) : a[j].cmd = r.key /\ Clear(r, a, j, Len(a) + 1)
    BY <1>4 DEF Gives
  <2>2. j \in 1..Len(s) /\ s[j].cmd = r.key
    BY <1>1, <2>1
  <2>3. ASSUME NEW i \in 1..Len(s), j < i PROVE s[i].cmd \notin r.spoil
    <3>1. CASE i \in 1..Len(a)
      <4>1. i < Len(a) + 1 /\ s[i] = a[i]
        BY <1>1, <3>1
      <4>2. QED
        BY <2>1, <2>3, <3>1, <4>1 DEF Clear
    <3>2. CASE i \notin 1..Len(a)
      BY <1>2, <1>4, <3>2 DEF Harmless
    <3>3. QED
      BY <3>1, <3>2
  <2>4. QED
    BY <2>2, <2>3 DEF Gives, Clear, s
<1>5. QED
  BY <1>3, <1>4

\* A harmless part before one that relies.
LEMMA ConcatRelies ==
  ASSUME NEW r, NEW a \in Seq(Entry), NEW b \in Seq(Entry), Mute(r, a), Harmless(r, a),
         Relying(r, b)
  PROVE  Relying(r, a \o b)
<1> DEFINE s == a \o b
<1>1. /\ Len(a) \in Nat /\ Len(b) \in Nat /\ Len(s) = Len(a) + Len(b)
      /\ \A k \in 1..Len(a) : s[k] = a[k]
      /\ \A k \in 1..Len(b) : s[Len(a) + k] = b[k]
  OBVIOUS
<1> HIDE DEF s
<1>2. \A k \in 1..Len(s) : k \in 1..Len(a) \/ (k - Len(a) \in 1..Len(b) /\ s[k] = b[k - Len(a)])
  BY <1>1
<1> SUFFICES ASSUME NEW k \in 1..Len(s), s[k].cmd \in r.goals
             PROVE  Earned(r, s, k) \/ Clear(r, s, 0, k)
  BY DEF Relying, s
<1> DEFINE m == k - Len(a)
<1>3. m \in 1..Len(b) /\ s[k] = b[m] /\ k = Len(a) + m
  BY <1>1, <1>2 DEF Mute
<1> HIDE DEF m
<1>4. CASE Earned(r, b, m)
  <2>1. PICK j \in 1..Len(b) : j < m /\ b[j].cmd = r.key /\ Clear(r, b, j, m)
    BY <1>4 DEF Earned
  <2>2. Len(a) + j \in 1..Len(s) /\ s[Len(a) + j].cmd = r.key /\ Len(a) + j < k
    BY <1>1, <1>3, <2>1
  <2>3. ASSUME NEW i \in 1..Len(s), Len(a) + j < i, i < k PROVE s[i].cmd \notin r.spoil
    <3>1. i - Len(a) \in 1..Len(b) /\ s[i] = b[i - Len(a)] /\ j < i - Len(a) /\ i - Len(a) < m
      BY <1>1, <1>2, <1>3, <2>1, <2>3
    <3>2. QED
      BY <2>1, <3>1 DEF Clear
  <2>4. QED
    BY <2>2, <2>3 DEF Earned, Clear
<1>5. CASE Clear(r, b, 0, m)
  <2>1. ASSUME NEW i \in 1..Len(s), i < k PROVE s[i].cmd \notin r.spoil
    <3>1. CASE i \in 1..Len(a)
      BY <1>1, <3>1 DEF Harmless
    <3>2. CASE i \notin 1..Len(a)
      <4>1. i - Len(a) \in 1..Len(b) /\ s[i] = b[i - Len(a)] /\ 0 < i - Len(a) /\ i - Len(a) < m
        BY <1>1, <1>2, <1>3, <2>1, <3>2
      <4>2. QED
        BY <1>5, <4>1 DEF Clear
    <3>3. QED
      BY <3>1, <3>2
  <2>2. QED
    BY <2>1 DEF Clear
<1>6. QED
  BY <1>3, <1>4, <1>5 DEF Relying

LEMMA PrefixKeeps ==
  ASSUME NEW r, NEW a \in Seq(Entry), NEW b \in Seq(Entry), NEW holds \in BOOLEAN,
         Mute(r, a), Harmless(r, a), Kept(r, b, holds)
  PROVE  Kept(r, a \o b, holds)
BY MuteCloses, ConcatCloses, ConcatRelies DEF Kept

LEMMA ConcatMute ==
  ASSUME NEW r, NEW a \in Seq(Entry), NEW b \in Seq(Entry), Mute(r, a), Mute(r, b)
  PROVE  Mute(r, a \o b)
BY DEF Mute

LEMMA ConcatHarmless ==
  ASSUME NEW r, NEW a \in Seq(Entry), NEW b \in Seq(Entry), Harmless(r, a), Harmless(r, b)
  PROVE  Harmless(r, a \o b)
BY DEF Harmless

\* The first command runs: a rule is kept if the key establishes what its goals
\* rely on and other commands, except those that spoil it, leave it alone.
LEMMA TailKeeps ==
  ASSUME NEW r, NEW s \in Seq(Entry), s # <<>>, NEW before \in BOOLEAN, NEW after \in BOOLEAN,
         r.key \notin r.spoil, Kept(r, s, before),
         Head(s).cmd = r.key => after,
         before /\ Head(s).cmd \notin r.spoil => after
  PROVE  Kept(r, Tail(s), after)
<1> DEFINE t == Tail(s)
<1>1. /\ Len(s) \in Nat \ {0} /\ Len(t) = Len(s) - 1 /\ s[1] = Head(s)
      /\ \A k \in 1..Len(t) : t[k] = s[k + 1] /\ k + 1 \in 1..Len(s)
      /\ \A k \in 1..Len(s) : k # 1 => k - 1 \in 1..Len(t) /\ t[k - 1] = s[k]
  OBVIOUS
<1> HIDE DEF t
<1>2. ASSUME NEW k \in 1..Len(t), NEW j \in 1..Len(s), j # 1, j < k + 1, s[j].cmd = r.key, Clear(r, s, j, k + 1)
      PROVE  Earned(r, t, k)
  <2>1. j - 1 \in 1..Len(t) /\ j - 1 < k /\ t[j - 1].cmd = r.key
    BY <1>1, <1>2
  <2>2. Clear(r, t, j - 1, k)
    BY <1>1, <1>2 DEF Clear
  <2>3. QED
    BY <2>1, <2>2 DEF Earned
<1>3. ASSUME NEW k \in 1..Len(t), NEW j \in {0, 1}, Clear(r, s, j, k + 1)
      PROVE  Clear(r, t, 0, k)
  <2> SUFFICES ASSUME NEW i \in 1..Len(t), i < k PROVE t[i].cmd \notin r.spoil
    BY DEF Clear
  <2>1. i + 1 \in 1..Len(s) /\ t[i] = s[i + 1] /\ j < i + 1 /\ i + 1 < k + 1
    BY <1>1, <1>3
  <2>2. QED
    BY <1>3, <2>1 DEF Clear
<1>4. ASSUME NEW k \in 1..Len(t), t[k].cmd \in r.goals, Earned(r, s, k + 1)
      PROVE  Earned(r, t, k) \/ (Head(s).cmd = r.key /\ Clear(r, t, 0, k))
  BY <1>1, <1>2, <1>3, <1>4 DEF Earned
<1>5. ASSUME NEW k \in 1..Len(t), Clear(r, s, 0, k + 1)
      PROVE  Head(s).cmd \notin r.spoil /\ Clear(r, t, 0, k)
  <2>1. Clear(r, t, 0, k)
    BY <1>3, <1>5
  <2>2. 1 \in 1..Len(s) /\ 0 < 1 /\ 1 < k + 1
    BY <1>1
  <2>3. s[1].cmd \notin r.spoil
    BY <1>5, <2>2 DEF Clear
  <2>4. QED
    BY <1>1, <2>1, <2>3
<1>6. CASE Closed(r, s)
  <2>1. \A k \in 1..Len(t) : t[k].cmd \in r.goals =>
          Earned(r, t, k) \/ (Head(s).cmd = r.key /\ Clear(r, t, 0, k))
    BY <1>1, <1>4, <1>6 DEF Closed
  <2>2. CASE Head(s).cmd = r.key
    BY <2>1, <2>2 DEF Kept, Relying, t
  <2>3. CASE Head(s).cmd # r.key
    BY <2>1, <2>3 DEF Kept, Closed, t
  <2>4. QED
    BY <2>2, <2>3
<1>7. CASE before /\ Relying(r, s)
  <2>1. \A k \in 1..Len(t) : t[k].cmd \in r.goals =>
          \/ Earned(r, t, k)
          \/ Head(s).cmd = r.key /\ Clear(r, t, 0, k)
          \/ Head(s).cmd \notin r.spoil /\ Clear(r, t, 0, k)
    BY <1>1, <1>4, <1>5, <1>7 DEF Relying
  <2>2. CASE Head(s).cmd \notin r.spoil
    BY <1>7, <2>1, <2>2 DEF Kept, Relying, t
  <2>3. CASE Head(s).cmd \in r.spoil
    BY <2>1, <2>3 DEF Kept, Closed, t
  <2>4. QED
    BY <2>2, <2>3
<1>8. QED
  BY <1>6, <1>7 DEF Kept

\* A goal that is next may rely on what the key establishes.
LEMMA HeadRelies ==
  ASSUME NEW r, NEW s \in Seq(Entry), s # <<>>, NEW holds \in BOOLEAN, Kept(r, s, holds),
         Head(s).cmd \in r.goals
  PROVE  holds
<1>1. Len(s) \in Nat \ {0} /\ s[1] = Head(s) /\ 1 \in 1..Len(s)
  OBVIOUS
<1>2. ~Earned(r, s, 1)
  BY <1>1 DEF Earned
<1>3. QED
  BY <1>1, <1>2 DEF Kept, Closed, Relying

-----------------------------------------------------------------------------
(***************************************************************************)
(* The rules of the launcher, and what their keys establish.               *)
(***************************************************************************)
Replaced == {"r_remove", "r_profile"}

CreateRule == [goals |-> {"r_connect", "r_start", "r_wait"}, key |-> "r_create", spoil |-> Replaced]
ConnectRule == [goals |-> {"r_wait"}, key |-> "r_connect", spoil |-> Replaced]
WaitRule == [goals |-> {"w_start"}, key |-> "r_wait", spoil |-> Replaced \cup {"r_stop"}]
SaveRule == [goals |-> {"w_start"}, key |-> "save", spoil |-> {"w_mark", "forget"}]

HasRouter == Exists(router)
OnLan == Exists(router) /\ router.lan
Probed == Running(router) /\ router.lan /\ router.passed
InStep == config.desired = mem.desired

Rules ==
  /\ Kept(CreateRule, todo, HasRouter)
  /\ Kept(ConnectRule, todo, OnLan)
  /\ Kept(WaitRule, todo, Probed)
  /\ Kept(SaveRule, todo, InStep)

(***************************************************************************)
(* The sequences of the menu.                                              *)
(***************************************************************************)
Only(s, C) == s \in Seq(Entry) /\ \A k \in 1..Len(s) : s[k].cmd \in C

\* s brings workers up by the rules; and may be followed by commands that start some.
Brings(s) == /\ s \in Seq(Entry) /\ Closed(CreateRule, s) /\ Closed(ConnectRule, s)
             /\ Closed(WaitRule, s) /\ Harmless(SaveRule, s)
Ready(s) == Brings(s) /\ Gives(WaitRule, s)

\* s saves before it starts workers.
Saves(s) == s \in Seq(Entry) /\ Closed(SaveRule, s) /\ Gives(SaveRule, s)

LEMMA PlainCommands ==
  {"save", "routes", "if_built", "lan", "wan", "r_build", "w_build", "r_remove", "r_stop", "lan_rm",
   "wan_rm", "forget", "other", "end"} \cup Routing \subseteq Plain
BY DEF Plain, PerWorker, Name, Preparing, Routing, Starting, Ending

LEMMA CmdOnly == ASSUME NEW c \in Plain, NEW C, c \in C PROVE Only(Cmd(c), C)
<1>1. [cmd |-> c] \in Entry
  BY DEF Entry
<1>2. QED
  BY <1>1 DEF Only, Cmd

LEMMA OnlyConcat == ASSUME NEW a, NEW b, NEW C, Only(a, C), Only(b, C) PROVE Only(a \o b, C)
<1>1. /\ Len(a) \in Nat /\ Len(b) \in Nat /\ Len(a \o b) = Len(a) + Len(b)
      /\ a \o b \in Seq(Entry)
      /\ \A k \in 1..Len(a) : (a \o b)[k] = a[k]
      /\ \A k \in (Len(a) + 1)..(Len(a) + Len(b)) : (a \o b)[k] = b[k - Len(a)] /\ k - Len(a) \in 1..Len(b)
  BY DEF Only
<1>2. ASSUME NEW k \in 1..Len(a \o b) PROVE (a \o b)[k].cmd \in C
  <2>1. CASE k \in 1..Len(a)
    BY <1>1, <2>1 DEF Only
  <2>2. CASE k \notin 1..Len(a)
    BY <1>1, <2>2 DEF Only
  <2>3. QED
    BY <2>1, <2>2
<1>3. QED
  BY <1>1, <1>2 DEF Only

LEMMA ForWorkersOnly ==
  ASSUME NEW cmds \in Seq(Name), Len(cmds) \in 1..4, NEW C, \A i \in 1..Len(cmds) : cmds[i] \in C
  PROVE  Only(ForWorkers(cmds), C)
<1>1. Workers \in Seq(Worker) /\ N \in Nat /\ N = Len(Workers)
  BY ConstantsAssumption DEF N
<1> DEFINE n == Len(cmds)
<1>2. ASSUME NEW k \in 1..(N * n)
      PROVE  ((k - 1) % n) + 1 \in 1..n /\ ((k - 1) \div n) + 1 \in 1..N
  <2>1. n \in {1, 2, 3, 4} /\ k \in Nat /\ k >= 1 /\ k <= N * n
    BY <1>1, <1>2
  <2>2. CASE n = 1
    BY <1>1, <2>1, <2>2
  <2>3. CASE n = 2
    BY <1>1, <2>1, <2>3
  <2>4. CASE n = 3
    BY <1>1, <2>1, <2>4
  <2>5. CASE n = 4
    BY <1>1, <2>1, <2>5
  <2>6. QED
    BY <2>1, <2>2, <2>3, <2>4, <2>5
<1>3. N * n \in Nat
  BY <1>1
<1>4. ASSUME NEW k \in 1..(N * n)
      PROVE  /\ [cmd |-> cmds[((k - 1) % n) + 1], w |-> Workers[((k - 1) \div n) + 1]] \in Entry
             /\ cmds[((k - 1) % n) + 1] \in C
  <2>1. cmds[((k - 1) % n) + 1] \in Name /\ cmds[((k - 1) % n) + 1] \in C
    BY <1>2, <1>4
  <2>2. Workers[((k - 1) \div n) + 1] \in Worker
    BY <1>1, <1>2, <1>4
  <2>3. QED
    BY <2>1, <2>2 DEF Entry
<1> DEFINE m == N * n
           f == [k \in 1..m |-> [cmd |-> cmds[((k - 1) % n) + 1], w |-> Workers[((k - 1) \div n) + 1]]]
<1>5. m \in Nat /\ f = [k \in 1..m |-> f[k]] /\ \A k \in 1..m : f[k] \in Entry /\ f[k].cmd \in C
  BY <1>3, <1>4
<1>6. f = ForWorkers(cmds)
  BY DEF ForWorkers
<1> HIDE DEF m, f
<1>7. f \in Seq(Entry) /\ Len(f) = m
  BY <1>5
<1>8. QED
  BY <1>5, <1>6, <1>7 DEF Only

LEMMA OneWorkerOnly ==
  ASSUME NEW cmds \in Seq(Name), NEW C, \A i \in 1..Len(cmds) : cmds[i] \in C, NEW w \in Worker
  PROVE  Only(OneWorker(cmds, w), C)
<1>1. \A i \in 1..Len(cmds) : [cmd |-> cmds[i], w |-> w] \in Entry
  BY DEF Entry
<1>2. QED
  BY <1>1 DEF Only, OneWorker

(***************************************************************************)
(* Building them up.                                                       *)
(***************************************************************************)
LEMMA PreparingIsMute ==
  ASSUME NEW s, Only(s, Preparing)
  PROVE  /\ s \in Seq(Entry) /\ Mute(CreateRule, s) /\ Mute(ConnectRule, s) /\ Mute(WaitRule, s)
         /\ Mute(SaveRule, s) /\ Harmless(SaveRule, s)
BY DEF Only, Preparing, Mute, Harmless, CreateRule, ConnectRule, WaitRule, SaveRule

LEMMA StartingIsHarmless ==
  ASSUME NEW s, Only(s, Starting)
  PROVE  /\ s \in Seq(Entry) /\ Mute(CreateRule, s) /\ Mute(ConnectRule, s)
         /\ Harmless(WaitRule, s) /\ Harmless(SaveRule, s)
BY DEF Only, Starting, Mute, Harmless, Replaced, CreateRule, ConnectRule, WaitRule, SaveRule

LEMMA EndingIsMute ==
  ASSUME NEW s, Only(s, Ending)
  PROVE  /\ s \in Seq(Entry) /\ Mute(CreateRule, s) /\ Mute(ConnectRule, s) /\ Mute(WaitRule, s)
         /\ Mute(SaveRule, s)
BY DEF Only, Ending, Mute, CreateRule, ConnectRule, WaitRule, SaveRule

LEMMA ThenReady == ASSUME NEW a, NEW b, Only(a, Preparing), Ready(b) PROVE Ready(a \o b)
BY PreparingIsMute, MuteCloses, ConcatCloses, ConcatGives, ConcatHarmless, ConcatProperties
   DEF Ready, Brings

LEMMA ThenBrings == ASSUME NEW a, NEW b, Only(a, Preparing), Brings(b) PROVE Brings(a \o b)
BY PreparingIsMute, MuteCloses, ConcatCloses, ConcatHarmless, ConcatProperties DEF Brings

LEMMA ThenStart == ASSUME NEW a, NEW b, Ready(a), Only(b, Starting) PROVE Brings(a \o b)
BY StartingIsHarmless, MuteCloses, HarmlessRelies, ConcatCloses, ConcatHarmless, ConcatProperties
   DEF Ready, Brings

LEMMA SaveThen == ASSUME NEW a, NEW b \in Seq(Entry), Saves(a), Harmless(SaveRule, b)
                  PROVE  Saves(a \o b)
BY HarmlessRelies, ConcatCloses, ConcatGives, ConcatProperties DEF Saves

LEMMA SaveSaves == Saves(Cmd("save"))
<1>1. Cmd("save") \in Seq(Entry)
  BY PlainCommands DEF Cmd, Entry
<1>2. QED
  BY <1>1 DEF Saves, Cmd, Closed, Gives, Clear, SaveRule

LEMMA ConcatCmd ==
  ASSUME NEW a \in Seq(Entry), NEW c \in Plain
  PROVE  /\ a \o Cmd(c) \in Seq(Entry) /\ Len(a \o Cmd(c)) = Len(a) + 1
         /\ (a \o Cmd(c))[Len(a) + 1] = [cmd |-> c] /\ (a \o Cmd(c))[Len(a) + 1].cmd = c
         /\ \A k \in 1..Len(a) : (a \o Cmd(c))[k] = a[k]
<1> DEFINE b == Cmd(c)
<1>1. b \in Seq(Entry) /\ Len(b) = 1 /\ b[1] = [cmd |-> c]
  BY DEF Cmd, Entry
<1> HIDE DEF b
<1>2. Len(a) \in Nat /\ Len(a) + 1 \in 1..(Len(a) + Len(b)) /\ Len(a) + 1 > Len(a)
  BY <1>1
<1>3. /\ a \o b \in Seq(Entry) /\ Len(a \o b) = Len(a) + Len(b)
      /\ \A k \in 1..(Len(a) + Len(b)) : (a \o b)[k] = IF k <= Len(a) THEN a[k] ELSE b[k - Len(a)]
  BY <1>1, ConcatProperties
<1>4. (a \o b)[Len(a) + 1] = b[1] /\ \A k \in 1..Len(a) : (a \o b)[k] = a[k]
  BY <1>1, <1>2, <1>3
<1>5. QED
  BY <1>1, <1>3, <1>4 DEF b

LEMMA RouterStartIsReady == Ready(RouterStart)
<1> DEFINE s1 == Cmd("r_profile")
           s2 == s1 \o Cmd("r_create")
           s3 == s2 \o Cmd("r_connect")
           s4 == s3 \o Cmd("r_start")
           s == s4 \o Cmd("r_wait")
<1>0. /\ "r_profile" \in Plain /\ "r_create" \in Plain /\ "r_connect" \in Plain
      /\ "r_start" \in Plain /\ "r_wait" \in Plain
  BY PlainCommands DEF Routing
<1>1. s1 \in Seq(Entry) /\ Len(s1) = 1 /\ s1[1].cmd = "r_profile"
  BY <1>0 DEF Cmd, Entry
<1> HIDE DEF s1
<1>2. s2 \in Seq(Entry) /\ Len(s2) = 2 /\ s2[1].cmd = "r_profile" /\ s2[2].cmd = "r_create"
  <2>1. /\ s1 \o Cmd("r_create") \in Seq(Entry) /\ Len(s1 \o Cmd("r_create")) = Len(s1) + 1
        /\ (s1 \o Cmd("r_create"))[Len(s1) + 1].cmd = "r_create"
        /\ \A k \in 1..Len(s1) : (s1 \o Cmd("r_create"))[k] = s1[k]
    BY <1>0, <1>1, ConcatCmd
  <2>2. QED
    BY <1>1, <2>1
<1> HIDE DEF s2
<1>3. /\ s3 \in Seq(Entry) /\ Len(s3) = 3 /\ s3[1].cmd = "r_profile" /\ s3[2].cmd = "r_create"
      /\ s3[3].cmd = "r_connect"
  <2>1. /\ s2 \o Cmd("r_connect") \in Seq(Entry) /\ Len(s2 \o Cmd("r_connect")) = Len(s2) + 1
        /\ (s2 \o Cmd("r_connect"))[Len(s2) + 1].cmd = "r_connect"
        /\ \A k \in 1..Len(s2) : (s2 \o Cmd("r_connect"))[k] = s2[k]
    BY <1>0, <1>2, ConcatCmd
  <2>2. QED
    BY <1>2, <2>1
<1> HIDE DEF s3
<1>4. /\ s4 \in Seq(Entry) /\ Len(s4) = 4 /\ s4[1].cmd = "r_profile" /\ s4[2].cmd = "r_create"
      /\ s4[3].cmd = "r_connect" /\ s4[4].cmd = "r_start"
  <2>1. /\ s3 \o Cmd("r_start") \in Seq(Entry) /\ Len(s3 \o Cmd("r_start")) = Len(s3) + 1
        /\ (s3 \o Cmd("r_start"))[Len(s3) + 1].cmd = "r_start"
        /\ \A k \in 1..Len(s3) : (s3 \o Cmd("r_start"))[k] = s3[k]
    BY <1>0, <1>3, ConcatCmd
  <2>2. QED
    BY <1>3, <2>1
<1> HIDE DEF s4
<1>5. /\ s \in Seq(Entry) /\ Len(s) = 5 /\ s[1].cmd = "r_profile" /\ s[2].cmd = "r_create"
      /\ s[3].cmd = "r_connect" /\ s[4].cmd = "r_start" /\ s[5].cmd = "r_wait"
  <2>1. /\ s4 \o Cmd("r_wait") \in Seq(Entry) /\ Len(s4 \o Cmd("r_wait")) = Len(s4) + 1
        /\ (s4 \o Cmd("r_wait"))[Len(s4) + 1].cmd = "r_wait"
        /\ \A k \in 1..Len(s4) : (s4 \o Cmd("r_wait"))[k] = s4[k]
    BY <1>0, <1>4, ConcatCmd, ZenonT(30)
  <2>2. QED
    BY <1>4, <2>1
<1>6. RouterStart = s
  BY DEF RouterStart, s1, s2, s3, s4
<1> HIDE DEF s
<1>7. Closed(CreateRule, s)
  <2>1. ASSUME NEW k \in {3, 4, 5} PROVE Earned(CreateRule, s, k)
    BY <1>5 DEF Earned, Clear, CreateRule, Replaced
  <2>2. QED
    BY <1>5, <2>1 DEF Closed, CreateRule
<1>8. Closed(ConnectRule, s)
  <2>1. Earned(ConnectRule, s, 5)
    BY <1>5 DEF Earned, Clear, ConnectRule, Replaced
  <2>2. QED
    BY <1>5, <2>1 DEF Closed, ConnectRule
<1>9. Closed(WaitRule, s) /\ Harmless(SaveRule, s)
  BY <1>5 DEF Closed, Harmless, WaitRule, SaveRule
<1>10. Gives(WaitRule, s)
  BY <1>5 DEF Gives, Clear, WaitRule
<1>11. QED
  BY <1>5, <1>6, <1>7, <1>8, <1>9, <1>10 DEF Ready, Brings

LEMMA BuildImagesOnly == Only(BuildImages, Preparing)
BY PlainCommands, CmdOnly, OnlyConcat DEF BuildImages, Preparing

LEMMA WorkerStartOnly ==
  /\ Only(ForWorkers(WorkerStart), Starting)
  /\ \A w \in Worker : Only(OneWorker(WorkerStart, w), Starting)
<1>1. /\ WorkerStart \in Seq(Name) /\ Len(WorkerStart) = 4
      /\ \A i \in 1..Len(WorkerStart) : WorkerStart[i] \in Starting
  BY DEF WorkerStart, Starting, Name, Preparing, Routing, Ending
<1>2. QED
  BY <1>1, ForWorkersOnly, OneWorkerOnly

LEMMA PausingOnly ==
  ASSUME NEW c \in Preparing PROVE Only(ForWorkers(<<c>>), Preparing)
<1> DEFINE s == <<c>>
<1>1. s \in Seq(Name) /\ Len(s) \in 1..4 /\ \A i \in 1..Len(s) : s[i] \in Preparing
  BY DEF Preparing, Name, Routing, Starting, Ending
<1> HIDE DEF s
<1>2. Only(ForWorkers(s), Preparing)
  BY <1>1, ForWorkersOnly
<1>3. QED
  BY <1>2 DEF s

LEMMA DeployBrings == Brings(Deploy)
<1>1. /\ Only(Cmd("routes") \o Cmd("if_built"), Preparing) /\ Only(Networks, Preparing)
  BY PlainCommands, CmdOnly, OnlyConcat DEF Networks, Preparing
<1>2. Only(Cmd("routes") \o Cmd("if_built") \o Networks, Preparing)
  BY <1>1, OnlyConcat
<1>3. QED
  BY <1>2, RouterStartIsReady, ThenReady, WorkerStartOnly, ThenStart DEF Deploy

\* What an action of the menu may begin with.  sync: its copy says of the workers what
\* the saved configuration does.
Lawful(s, sync) ==
  /\ s \in Seq(Entry) /\ Closed(CreateRule, s) /\ Closed(ConnectRule, s) /\ Closed(WaitRule, s)
  /\ Closed(SaveRule, s) \/ (sync /\ Harmless(SaveRule, s))

LEMMA MenuLawful ==
  /\ Lawful(SetupSteps, FALSE) /\ Lawful(Deploy, TRUE)
  /\ Lawful(ChangeProxy, TRUE) /\ Lawful(ApplyDns, TRUE) /\ Lawful(RebuildDeployment, TRUE)
  /\ Lawful(RemoveDeployment, FALSE) /\ Lawful(StopAll, FALSE)
  /\ Lawful(Cmd("save") \o Deploy, FALSE)
  /\ \A w \in Worker : Lawful(StopOne(w), FALSE) /\ Lawful(StartOne(w), FALSE)
<1>1. Lawful(Deploy, TRUE)
  BY DeployBrings DEF Lawful, Brings
<1>2. \A c \in {"save", "routes", "lan", "wan", "r_build", "r_remove"} : Only(Cmd(c), Preparing)
  BY PlainCommands, CmdOnly DEF Preparing
<1>3. Lawful(SetupSteps, FALSE)
  <2> DEFINE a == Cmd("save") \o Networks \o BuildImages
  <2>1. Only(Networks, Preparing) /\ Only(BuildImages, Preparing) /\ Only(Cmd("save"), Preparing)
    BY <1>2, OnlyConcat, BuildImagesOnly DEF Networks, Preparing
  <2>2. Only(a, Preparing)
    BY <2>1, OnlyConcat
  <2>3. Saves(a)
    BY <2>1, SaveSaves, SaveThen, PreparingIsMute
  <2>4. Brings(a \o Deploy)
    BY <2>2, DeployBrings, ThenBrings
  <2>5. Saves(a \o Deploy)
    BY <2>3, DeployBrings, SaveThen DEF Brings
  <2>6. QED
    BY <2>4, <2>5 DEF SetupSteps, Lawful, Brings, Saves
<1>4. Lawful(ChangeProxy, TRUE)
  <2>1. Only(ForWorkers(<<"w_stop">>) \o Cmd("save") \o Cmd("routes") \o Cmd("r_remove"), Preparing)
    BY <1>2, OnlyConcat, PausingOnly DEF Preparing
  <2>2. Brings(ChangeProxy)
    BY <2>1, RouterStartIsReady, ThenReady, WorkerStartOnly, ThenStart DEF ChangeProxy
  <2>3. QED
    BY <2>2 DEF Lawful, Brings
<1>5. Lawful(ApplyDns, TRUE)
  <2>1. Only(Cmd("r_build") \o Cmd("save") \o Cmd("routes") \o ForWorkers(<<"w_stop">>)
               \o Cmd("r_remove"), Preparing)
    BY <1>2, OnlyConcat, PausingOnly DEF Preparing
  <2>2. Brings(ApplyDns)
    BY <2>1, RouterStartIsReady, ThenReady, WorkerStartOnly, ThenStart DEF ApplyDns
  <2>3. QED
    BY <2>2 DEF Lawful, Brings
<1>6. Lawful(RebuildDeployment, TRUE)
  <2>1. Only(ForWorkers(<<"w_stop">>) \o BuildImages \o ForWorkers(<<"w_rm">>) \o Cmd("r_remove"),
             Preparing)
    BY <1>2, OnlyConcat, PausingOnly, BuildImagesOnly DEF Preparing
  <2>2. Brings(RebuildDeployment)
    BY <2>1, DeployBrings, ThenBrings DEF RebuildDeployment
  <2>3. QED
    BY <2>2 DEF Lawful, Brings
<1>7. \A s : Only(s, Ending) => Lawful(s, FALSE)
  BY EndingIsMute, MuteCloses DEF Lawful
<1>8. Lawful(RemoveDeployment, FALSE)
  <2> DEFINE c == <<"w_remove">>
  <2>1. c \in Seq(Name) /\ Len(c) \in 1..4 /\ \A i \in 1..Len(c) : c[i] \in Ending
    BY DEF Ending, Name
  <2> HIDE DEF c
  <2>2. Only(ForWorkers(c), Ending)
    BY <2>1, ForWorkersOnly
  <2>3. /\ Only(Cmd("r_remove"), Ending) /\ Only(Cmd("lan_rm"), Ending)
        /\ Only(Cmd("wan_rm"), Ending) /\ Only(Cmd("forget"), Ending)
    BY PlainCommands, CmdOnly DEF Ending
  <2>4. Only(RemoveDeployment, Ending)
    BY <2>2, <2>3, OnlyConcat DEF RemoveDeployment, c
  <2>5. QED
    BY <1>7, <2>4
<1>9. Lawful(StopAll, FALSE)
  <2> DEFINE c == <<"w_mark", "save", "w_stop">>
  <2>1. c \in Seq(Name) /\ Len(c) \in 1..4 /\ \A i \in 1..Len(c) : c[i] \in Ending
    BY DEF Ending, Name, Preparing, Routing, Starting
  <2> HIDE DEF c
  <2>2. Only(ForWorkers(c), Ending)
    BY <2>1, ForWorkersOnly
  <2>3. Only(Cmd("r_stop"), Ending)
    BY PlainCommands, CmdOnly DEF Ending
  <2>4. QED
    BY <1>7, <2>2, <2>3, OnlyConcat DEF StopAll, c
<1>10. Lawful(Cmd("save") \o Deploy, FALSE)
  <2>1. Only(Cmd("save"), Preparing)
    BY <1>2 DEF Preparing
  <2>2. Brings(Cmd("save") \o Deploy)
    BY <2>1, DeployBrings, ThenBrings
  <2>3. Saves(Cmd("save") \o Deploy)
    BY SaveSaves, DeployBrings, SaveThen DEF Brings
  <2>4. QED
    BY <2>2, <2>3 DEF Lawful, Brings, Saves
<1>11. ASSUME NEW w \in Worker PROVE Lawful(StopOne(w), FALSE)
  <2>1. <<"w_stop">> \in Seq(Name) /\ \A i \in 1..Len(<<"w_stop">>) : <<"w_stop">>[i] \in Ending
    BY DEF Ending, Name, Preparing, Routing, Starting
  <2>2. Only(OneWorker(<<"w_stop">>, w), Ending)
    BY <2>1, OneWorkerOnly
  <2>3. Only(Cmd("save"), Ending)
    BY PlainCommands, CmdOnly DEF Ending
  <2>4. QED
    BY <1>7, <2>2, <2>3, OnlyConcat DEF StopOne
<1>12. ASSUME NEW w \in Worker PROVE Lawful(StartOne(w), FALSE)
  <2> DEFINE a == Cmd("save") \o RouterStart
  <2>1. Only(Cmd("save"), Preparing) /\ Only(OneWorker(WorkerStart, w), Starting)
    BY <1>2, WorkerStartOnly DEF Preparing
  <2>2. Ready(a)
    BY <2>1, RouterStartIsReady, ThenReady
  <2>3. Brings(a \o OneWorker(WorkerStart, w))
    BY <2>1, <2>2, ThenStart
  <2>4. Saves(a)
    BY SaveSaves, RouterStartIsReady, SaveThen DEF Ready, Brings
  <2>5. Saves(a \o OneWorker(WorkerStart, w))
    BY <2>1, <2>4, StartingIsHarmless, SaveThen
  <2>6. QED
    BY <2>3, <2>5 DEF StartOne, Lawful, Brings, Saves
<1>13. QED
  BY <1>1, <1>3, <1>4, <1>5, <1>6, <1>8, <1>9, <1>10, <1>11, <1>12

-----------------------------------------------------------------------------
(***************************************************************************)
(* The invariant.                                                          *)
(***************************************************************************)
State == {"absent", "created", "running", "exited"}
Container == [state : State, image : Image, apparmor : BOOLEAN] \cup [state : State]

Types ==
  /\ config \in Configuration \cup {None} /\ mem \in Configuration \cup {None}
  /\ routes \in [Worker -> Proxy] \cup {None}
  /\ router \in RouterContainer \cup {NoContainer}
  /\ worker \in [Worker -> Container]
  /\ built \in Image /\ apparmor \in BOOLEAN
  /\ todo \in Seq(Entry) /\ (todo # <<>> => mem \in Configuration)

\* A healthy container has passed its check.
Health == Exists(router) /\ router.healthy => Running(router) /\ router.passed

IInv == Types /\ Health /\ Rules

LEMMA RouterCases ==
  ASSUME Types, Exists(router) PROVE router \in RouterContainer
BY DEF Types, Exists, NoContainer

LEMMA EmptyRules == ASSUME todo' = <<>> PROVE Rules'
BY DEF Rules, Kept, Closed

\* One command runs.
LEMMA StepKeeps ==
  ASSUME Types, Rules, NEW c, Step(c),
         c = "r_create" \/ (HasRouter /\ c \notin Replaced) => HasRouter',
         c = "r_connect" \/ (OnLan /\ c \notin Replaced) => OnLan',
         c = "r_wait" \/ (Probed /\ c \notin Replaced \cup {"r_stop"}) => Probed',
         c = "save" \/ (InStep /\ c \notin {"w_mark", "forget"}) => InStep'
  PROVE  Rules'
<1>1. todo \in Seq(Entry) /\ todo # <<>> /\ Head(todo).cmd = c /\ todo' = Tail(todo)
  BY DEF Types, Step
<1>2. Kept(CreateRule, Tail(todo), HasRouter')
  <2>1. HasRouter \in BOOLEAN /\ HasRouter' \in BOOLEAN
    BY DEF HasRouter, Exists
  <2>2. CreateRule.key \notin CreateRule.spoil /\ Kept(CreateRule, todo, HasRouter)
    BY DEF Rules, CreateRule, Replaced
  <2>3. /\ Head(todo).cmd = CreateRule.key => HasRouter'
        /\ HasRouter /\ Head(todo).cmd \notin CreateRule.spoil => HasRouter'
    BY <1>1 DEF CreateRule
  <2> HIDE DEF HasRouter
  <2>4. QED
    BY <1>1, <2>1, <2>2, <2>3, TailKeeps
<1>3. Kept(ConnectRule, Tail(todo), OnLan')
  <2>1. OnLan \in BOOLEAN /\ OnLan' \in BOOLEAN
    BY DEF OnLan
  <2>2. ConnectRule.key \notin ConnectRule.spoil /\ Kept(ConnectRule, todo, OnLan)
    BY DEF Rules, ConnectRule, Replaced
  <2>3. /\ Head(todo).cmd = ConnectRule.key => OnLan'
        /\ OnLan /\ Head(todo).cmd \notin ConnectRule.spoil => OnLan'
    BY <1>1 DEF ConnectRule
  <2>4. QED
    BY <1>1, <2>1, <2>2, <2>3, TailKeeps
<1>4. Kept(WaitRule, Tail(todo), Probed')
  <2>1. Probed \in BOOLEAN /\ Probed' \in BOOLEAN
    BY DEF Probed
  <2>2. WaitRule.key \notin WaitRule.spoil /\ Kept(WaitRule, todo, Probed)
    BY DEF Rules, WaitRule, Replaced
  <2>3. /\ Head(todo).cmd = WaitRule.key => Probed'
        /\ Probed /\ Head(todo).cmd \notin WaitRule.spoil => Probed'
    BY <1>1 DEF WaitRule
  <2>4. QED
    BY <1>1, <2>1, <2>2, <2>3, TailKeeps
<1>5. Kept(SaveRule, Tail(todo), InStep')
  <2>1. InStep \in BOOLEAN /\ InStep' \in BOOLEAN
    BY DEF InStep
  <2>2. SaveRule.key \notin SaveRule.spoil /\ Kept(SaveRule, todo, InStep)
    BY DEF Rules, SaveRule
  <2>3. /\ Head(todo).cmd = SaveRule.key => InStep'
        /\ InStep /\ Head(todo).cmd \notin SaveRule.spoil => InStep'
    BY <1>1 DEF SaveRule
  <2>4. QED
    BY <1>1, <2>1, <2>2, <2>3, TailKeeps
<1>6. QED
  BY <1>1, <1>2, <1>3, <1>4, <1>5 DEF Rules

\* The rest of todo is a sequence of entries too.
LEMMA RestTyped ==
  ASSUME Types, NEW c, Step(c)
  PROVE  todo' \in Seq(Entry) /\ mem \in Configuration
BY HeadTailProperties DEF Types, Step

\* A command that leaves router and configuration alone.
LEMMA QuietStep ==
  ASSUME IInv, NEW c, Step(c), c \notin {"r_create", "r_connect", "r_wait", "save"},
         UNCHANGED <<config, mem, router>>
  PROVE  Rules' /\ Health'
<1>1. /\ HasRouter' = HasRouter /\ OnLan' = OnLan /\ Probed' = Probed /\ InStep' = InStep
  BY DEF HasRouter, OnLan, Probed, InStep
<1>2. QED
  BY <1>1, StepKeeps DEF IInv, Health

\* Something else happens.
LEMMA QuietRules ==
  ASSUME Rules, todo' = todo, HasRouter => HasRouter', OnLan => OnLan', Probed => Probed',
         InStep => InStep'
  PROVE  Rules'
BY DEF Rules, Kept

-----------------------------------------------------------------------------
(***************************************************************************)
(* The menu.                                                               *)
(***************************************************************************)
LEMMA ChooseStep ==
  ASSUME IInv, NEW a, NEW m \in Configuration, NEW s, Choose(a, m, s),
         NEW sync \in BOOLEAN, Lawful(s, sync), sync => config.desired = m.desired
  PROVE  IInv'
<1>1. todo' = s /\ mem' = m /\ s \in Seq(Entry) /\ UNCHANGED <<disk, dock, built, apparmor>>
  BY DEF Choose, Lawful
<1>2. Types' /\ Health'
  BY <1>1 DEF IInv, Types, Health, disk, dock
<1>3. /\ Kept(CreateRule, s, HasRouter') /\ Kept(ConnectRule, s, OnLan') /\ Kept(WaitRule, s, Probed')
  BY DEF Lawful, Kept
<1>4. Kept(SaveRule, s, InStep')
  <2>1. CASE Closed(SaveRule, s)
    BY <2>1 DEF Kept
  <2>2. CASE sync /\ Harmless(SaveRule, s)
    BY <1>1, <2>2, HarmlessRelies DEF Kept, InStep, disk
  <2>3. QED
    BY <2>1, <2>2 DEF Lawful
<1>5. QED
  BY <1>1, <1>2, <1>3, <1>4 DEF IInv, Rules

LEMMA EditTyped ==
  ASSUME config \in Configuration
  PROVE  /\ \A w \in Worker, d \in Desired : [config EXCEPT !.desired[w] = d] \in Configuration
         /\ \A w \in Worker, p \in Proxy :
              /\ [config EXCEPT !.proxy[w] = p] \in Configuration
              /\ [config EXCEPT !.proxy[w] = p].desired = config.desired
         /\ [config EXCEPT !.desired = [w \in Worker |-> "running"]] \in Configuration
         /\ \A d \in Dns : /\ [config EXCEPT !.dns = d] \in Configuration
                           /\ [config EXCEPT !.dns = d].desired = config.desired
BY DEF Configuration, Desired

LEMMA MenuStep == ASSUME IInv, Setup \/ Resume \/ MenuOther PROVE IInv'
<1>1. CASE Setup
  <2> DEFINE m == [proxy |-> InitialProxy, desired |-> [w \in Worker |-> "running"],
                   dns |-> InitialDns, rimg |-> 0, wimg |-> 0]
  <2>1. m \in Configuration
    BY ConstantsAssumption DEF Configuration, Desired, Image
  <2>2. Choose("setup", m, SetupSteps)
    BY <1>1 DEF Setup
  <2> HIDE DEF m
  <2>3. QED
    BY <2>1, <2>2, MenuLawful, ChooseStep
<1>2. ASSUME config # None PROVE config \in Configuration
  BY <1>2 DEF IInv, Types
<1>3. CASE Resume
  BY <1>2, <1>3, MenuLawful, ChooseStep DEF Resume
<1>4. CASE MenuOther
  <2>1. config \in Configuration
    BY <1>2, <1>4 DEF MenuOther
  <2>2. CASE MenuStopOne
    <3>1. PICK w \in Worker : Choose("stop", [config EXCEPT !.desired[w] = "stopped"], StopOne(w))
      BY <2>2 DEF MenuStopOne
    <3>2. [config EXCEPT !.desired[w] = "stopped"] \in Configuration
      BY <2>1, EditTyped DEF Desired
    <3>3. QED
      BY <3>1, <3>2, MenuLawful, ChooseStep
  <2>3. CASE MenuStartOne
    <3>1. PICK w \in Worker : Choose("start", [config EXCEPT !.desired[w] = "running"], StartOne(w))
      BY <2>3 DEF MenuStartOne
    <3>2. [config EXCEPT !.desired[w] = "running"] \in Configuration
      BY <2>1, EditTyped DEF Desired
    <3>3. QED
      BY <3>1, <3>2, MenuLawful, ChooseStep
  <2>4. CASE MenuChangeProxy
    <3>1. PICK w \in Worker, p \in Proxy : Choose("proxy", [config EXCEPT !.proxy[w] = p], ChangeProxy)
      BY <2>4 DEF MenuChangeProxy
    <3>2. /\ [config EXCEPT !.proxy[w] = p] \in Configuration
          /\ [config EXCEPT !.proxy[w] = p].desired = config.desired
      BY <2>1, EditTyped
    <3>3. QED
      BY <3>1, <3>2, MenuLawful, ChooseStep
  <2>5. CASE MenuStopAll
    BY <2>1, <2>5, MenuLawful, ChooseStep DEF MenuStopAll
  <2>6. CASE MenuRemove
    BY <2>1, <2>6, MenuLawful, ChooseStep DEF MenuRemove
  <2>7. CASE MenuStartAll
    <3>1. [config EXCEPT !.desired = [w \in Worker |-> "running"]] \in Configuration
      BY <2>1, EditTyped
    <3>2. QED
      BY <2>7, <3>1, MenuLawful, ChooseStep DEF MenuStartAll
  <2>8. CASE MenuRebuild
    BY <2>1, <2>8, MenuLawful, ChooseStep DEF MenuRebuild
  <2>9. CASE MenuDns
    <3>1. PICK d \in Dns : Choose("dns", [config EXCEPT !.dns = d], ApplyDns)
      BY <2>9 DEF MenuDns
    <3>2. /\ [config EXCEPT !.dns = d] \in Configuration
          /\ [config EXCEPT !.dns = d].desired = config.desired
      BY <2>1, EditTyped
    <3>3. QED
      BY <3>1, <3>2, MenuLawful, ChooseStep
  <2>10. QED
    BY <1>4, <2>2, <2>3, <2>4, <2>5, <2>6, <2>7, <2>8, <2>9 DEF MenuOther
<1>5. QED
  BY <1>1, <1>3, <1>4

-----------------------------------------------------------------------------
(***************************************************************************)
(* The commands.                                                           *)
(***************************************************************************)
LEMMA SaveStep == ASSUME IInv, SaveConfig PROVE IInv'
<1>1. Step("save") /\ config' = mem /\ UNCHANGED <<routes, mem, dock, built, Rest>>
  BY DEF SaveConfig
<1>2. todo' \in Seq(Entry) /\ mem \in Configuration
  BY <1>1, RestTyped DEF IInv
<1>3. Types' /\ Health'
  BY <1>1, <1>2 DEF IInv, Types, Health, dock, Rest
<1>4. HasRouter' = HasRouter /\ OnLan' = OnLan /\ Probed' = Probed /\ InStep'
  BY <1>1 DEF HasRouter, OnLan, Probed, InStep, dock
<1>5. Rules'
  BY <1>1, <1>4, StepKeeps DEF IInv
<1>6. QED
  BY <1>3, <1>5 DEF IInv

LEMMA ForgetStep == ASSUME IInv, ForgetConfig PROVE IInv'
<1>1. Step("forget") /\ config' = None /\ routes' = None /\ UNCHANGED <<mem, dock, built, Rest>>
  BY DEF ForgetConfig
<1>2. todo' \in Seq(Entry) /\ mem \in Configuration
  BY <1>1, RestTyped DEF IInv
<1>3. Types' /\ Health'
  BY <1>1, <1>2 DEF IInv, Types, Health, dock, Rest
<1>4. HasRouter' = HasRouter /\ OnLan' = OnLan /\ Probed' = Probed
  BY <1>1 DEF HasRouter, OnLan, Probed, dock
<1>5. Rules'
  BY <1>1, <1>4, StepKeeps DEF IInv
<1>6. QED
  BY <1>3, <1>5 DEF IInv

LEMMA RoutesStep == ASSUME IInv, WriteRoutes PROVE IInv'
<1>1. Step("routes") /\ routes' = mem.proxy /\ UNCHANGED <<config, mem, dock, built, Rest>>
  BY DEF WriteRoutes
<1>2. todo' \in Seq(Entry) /\ mem \in Configuration /\ mem.proxy \in [Worker -> Proxy]
  BY <1>1, RestTyped DEF IInv, Configuration
<1>3. Types'
  BY <1>1, <1>2 DEF IInv, Types, dock, Rest
<1>4. Rules' /\ Health'
  BY <1>1, QuietStep DEF dock
<1>5. QED
  BY <1>3, <1>4 DEF IInv

\* The images are built in front of the rest.
LEMMA IfBuiltStep == ASSUME IInv, BuildIfMissing PROVE IInv'
<1>1. /\ todo # <<>> /\ Head(todo).cmd = "if_built"
      /\ todo' = Tail(todo) \/ todo' = BuildImages \o Tail(todo)
      /\ UNCHANGED <<disk, mem, dock, built, Rest>>
  BY DEF BuildIfMissing
<1>2. todo \in Seq(Entry) /\ Tail(todo) \in Seq(Entry) /\ mem \in Configuration
  BY <1>1, HeadTailProperties DEF IInv, Types
<1>3. BuildImages \in Seq(Entry) /\ BuildImages \o Tail(todo) \in Seq(Entry)
  BY <1>2, BuildImagesOnly, ConcatProperties DEF Only
<1>4. Types' /\ Health'
  BY <1>1, <1>2, <1>3 DEF IInv, Types, Health, disk, dock, Rest
<1>5. /\ HasRouter' = HasRouter /\ OnLan' = OnLan /\ Probed' = Probed /\ InStep' = InStep
  BY <1>1 DEF HasRouter, OnLan, Probed, InStep, disk, dock
<1>6. HasRouter \in BOOLEAN /\ OnLan \in BOOLEAN /\ Probed \in BOOLEAN /\ InStep \in BOOLEAN
  BY DEF HasRouter, OnLan, Probed, InStep, Exists
<1>7. /\ Mute(CreateRule, BuildImages) /\ Harmless(CreateRule, BuildImages)
      /\ Mute(ConnectRule, BuildImages) /\ Harmless(ConnectRule, BuildImages)
      /\ Mute(WaitRule, BuildImages) /\ Harmless(WaitRule, BuildImages)
      /\ Mute(SaveRule, BuildImages) /\ Harmless(SaveRule, BuildImages)
  <2>1. Only(BuildImages, {"r_build", "w_build", "save"})
    BY PlainCommands, CmdOnly, OnlyConcat DEF BuildImages
  <2>2. QED
    BY <2>1 DEF Only, Mute, Harmless, CreateRule, ConnectRule, WaitRule, SaveRule, Replaced
<1>8. /\ Kept(CreateRule, Tail(todo), HasRouter) /\ Kept(ConnectRule, Tail(todo), OnLan)
      /\ Kept(WaitRule, Tail(todo), Probed) /\ Kept(SaveRule, Tail(todo), InStep)
  <2>1. /\ CreateRule.key # "if_built" /\ CreateRule.key \notin CreateRule.spoil
        /\ ConnectRule.key # "if_built" /\ ConnectRule.key \notin ConnectRule.spoil
        /\ WaitRule.key # "if_built" /\ WaitRule.key \notin WaitRule.spoil
        /\ SaveRule.key # "if_built" /\ SaveRule.key \notin SaveRule.spoil
    BY DEF CreateRule, ConnectRule, WaitRule, SaveRule, Replaced
  <2>2. /\ Kept(CreateRule, todo, HasRouter) /\ Kept(ConnectRule, todo, OnLan)
        /\ Kept(WaitRule, todo, Probed) /\ Kept(SaveRule, todo, InStep)
    BY DEF IInv, Rules
  <2> HIDE DEF HasRouter, OnLan, Probed, InStep
  <2>3. QED
    BY <1>1, <1>2, <1>6, <2>1, <2>2, TailKeeps
<1>9. /\ Kept(CreateRule, todo', HasRouter) /\ Kept(ConnectRule, todo', OnLan)
      /\ Kept(WaitRule, todo', Probed) /\ Kept(SaveRule, todo', InStep)
  BY <1>1, <1>2, <1>3, <1>6, <1>7, <1>8, PrefixKeeps
<1>10. Rules'
  BY <1>5, <1>9 DEF Rules
<1>11. QED
  BY <1>4, <1>10 DEF IInv

\* A build changes an image in the copy, and never which workers shall run.
LEMMA BuildStep == ASSUME IInv, BuildRouter \/ BuildWorker PROVE IInv'
<1>1. ASSUME NEW m, m \in Configuration, mem' = m, m.desired = mem.desired, built' \in Image,
             NEW c \in {"r_build", "w_build"}, Step(c), UNCHANGED <<disk, dock, Rest>>
      PROVE  IInv'
  <2>1. todo' \in Seq(Entry)
    BY <1>1, RestTyped DEF IInv
  <2>2. Types' /\ Health'
    BY <1>1, <2>1 DEF IInv, Types, Health, disk, dock, Rest
  <2>3. /\ HasRouter' = HasRouter /\ OnLan' = OnLan /\ Probed' = Probed /\ InStep' = InStep
    BY <1>1 DEF HasRouter, OnLan, Probed, InStep, disk, dock
  <2>4. Rules'
    BY <1>1, <2>3, StepKeeps DEF IInv
  <2>5. QED
    BY <2>2, <2>4 DEF IInv
<1>2. ASSUME mem \in Configuration, NEW i \in Image
      PROVE  /\ [mem EXCEPT !.rimg = i] \in Configuration /\ [mem EXCEPT !.rimg = i].desired = mem.desired
             /\ [mem EXCEPT !.wimg = i] \in Configuration /\ [mem EXCEPT !.wimg = i].desired = mem.desired
  BY <1>2 DEF Configuration
<1>3. CASE BuildRouter
  <2>1. Step("r_build") /\ mem \in Configuration
    BY <1>3, RestTyped DEF BuildRouter, IInv
  <2>2. built' \in Image
    BY <1>3, ConstantsAssumption DEF BuildRouter, IInv, Types, Image
  <2>3. QED
    BY <1>1, <1>2, <1>3, <2>1, <2>2 DEF BuildRouter
<1>4. CASE BuildWorker
  <2>1. Step("w_build") /\ mem \in Configuration
    BY <1>4, RestTyped DEF BuildWorker, IInv
  <2>2. built \in Image /\ built' = built
    BY <1>4 DEF BuildWorker, IInv, Types
  <2>3. QED
    BY <1>1, <1>2, <1>4, <2>1, <2>2 DEF BuildWorker
<1>5. QED
  BY <1>3, <1>4

LEMMA NetworkStep == ASSUME IInv, NetworkCommand PROVE IInv'
<1>1. PICK c \in {"lan", "wan", "lan_rm", "wan_rm"} : Step(c)
  BY DEF NetworkCommand
<1>2. UNCHANGED <<disk, mem, router, worker, volume, built, Rest>>
  BY DEF NetworkCommand
<1>3. todo' \in Seq(Entry) /\ mem \in Configuration
  BY <1>1, RestTyped DEF IInv
<1>4. Types'
  BY <1>2, <1>3 DEF IInv, Types, disk, Rest
<1>5. Rules' /\ Health'
  BY <1>1, <1>2, QuietStep DEF disk
<1>6. QED
  BY <1>4, <1>5 DEF IInv

-----------------------------------------------------------------------------
(***************************************************************************)
(* The router.                                                             *)
(***************************************************************************)
LEMMA RouterTyped ==
  ASSUME IInv, NEW c, Step(c), NEW r \in RouterContainer \cup {NoContainer}, RouterIs(r)
  PROVE  Types' /\ InStep' = InStep
<1>1. todo' \in Seq(Entry) /\ mem \in Configuration
  BY RestTyped DEF IInv
<1>2. QED
  BY <1>1 DEF IInv, Types, RouterIs, disk, Rest, InStep

LEMMA RemoveStep == ASSUME IInv, RouterRemove \/ RouterProfile PROVE IInv'
<1>1. PICK c \in Replaced, r \in {NoContainer, router} : Step(c) /\ RouterIs(r)
  BY DEF RouterRemove, RouterProfile, Replaced
<1>2. router' = r /\ r \in RouterContainer \cup {NoContainer}
  BY <1>1 DEF IInv, Types, RouterIs
<1>3. Types' /\ InStep' = InStep
  BY <1>1, <1>2, RouterTyped
<1>4. Health'
  BY <1>1, <1>2 DEF IInv, Health, Exists, NoContainer, Running
<1>5. Rules'
  BY <1>1, <1>3, StepKeeps DEF IInv, Replaced
<1>6. QED
  BY <1>3, <1>4, <1>5 DEF IInv

LEMMA CreateStep == ASSUME IInv, RouterCreate PROVE IInv'
<1>1. /\ Step("r_create") /\ (Exists(router) \/ mem.rimg # 0)
      /\ RouterIs(IF Exists(router) THEN router ELSE NewRouter)
  BY DEF RouterCreate
<1>2. mem \in Configuration
  BY <1>1, RestTyped DEF IInv
<1>3. CASE Exists(router)
  <2>1. RouterIs(router) /\ router' = router /\ router \in RouterContainer
    BY <1>1, <1>3, RouterCases DEF IInv, RouterIs
  <2>2. Types' /\ InStep' = InStep
    BY <1>1, <2>1, RouterTyped
  <2>3. HasRouter' /\ OnLan' = OnLan /\ Probed' = Probed /\ Health'
    BY <1>3, <2>1 DEF HasRouter, OnLan, Probed, IInv, Health
  <2>4. QED
    BY <1>1, <2>2, <2>3, StepKeeps DEF IInv
<1>4. CASE ~Exists(router)
  <2>1. RouterIs(NewRouter) /\ router' = NewRouter
    BY <1>1, <1>4 DEF RouterIs
  <2>2. NewRouter \in RouterContainer
    BY <1>1, <1>2, <1>4 DEF NewRouter, RouterContainer, Configuration, IInv, Types
  <2>3. Types' /\ InStep' = InStep
    BY <1>1, <2>1, <2>2, RouterTyped
  <2>4. ~HasRouter /\ ~OnLan /\ ~Probed
    BY <1>4 DEF HasRouter, OnLan, Probed, Exists, Running
  <2>5. HasRouter' /\ Health'
    BY <2>1 DEF HasRouter, Health, Exists, NewRouter
  <2>6. QED
    BY <1>1, <2>3, <2>4, <2>5, StepKeeps DEF IInv
<1>5. QED
  BY <1>3, <1>4

\* What comes behind the creation finds a container.
LEMMA RouterIsThere ==
  ASSUME IInv, NEW c \in {"r_connect", "r_start", "r_wait"}, Step(c)
  PROVE  Exists(router) /\ router \in RouterContainer
<1>1. todo \in Seq(Entry) /\ todo # <<>> /\ Head(todo).cmd \in CreateRule.goals
  BY DEF IInv, Types, Step, CreateRule
<1>2. Kept(CreateRule, todo, HasRouter) /\ HasRouter \in BOOLEAN
  BY DEF IInv, Rules, HasRouter, Exists
<1>3. HasRouter
  BY <1>1, <1>2, HeadRelies
<1>4. QED
  BY <1>3, RouterCases DEF HasRouter, IInv

LEMMA ConnectStep == ASSUME IInv, RouterConnect PROVE IInv'
<1>1. Step("r_connect") /\ RouterIs([router EXCEPT !.lan = TRUE])
  BY DEF RouterConnect
<1>2. Exists(router) /\ router \in RouterContainer
  BY <1>1, RouterIsThere
<1> DEFINE r == [router EXCEPT !.lan = TRUE]
<1>3. /\ r \in RouterContainer /\ r.lan /\ r.state = router.state /\ r.healthy = router.healthy
      /\ r.passed = router.passed
  BY <1>2 DEF RouterContainer
<1>4. router' = r /\ RouterIs(r)
  BY <1>1 DEF RouterIs
<1> HIDE DEF r
<1>5. Types' /\ InStep' = InStep
  BY <1>1, <1>3, <1>4, RouterTyped
<1>6. HasRouter' /\ OnLan' /\ (Probed => Probed') /\ Health'
  BY <1>2, <1>3, <1>4 DEF HasRouter, OnLan, Probed, IInv, Health, Exists, Running
<1>7. QED
  BY <1>1, <1>5, <1>6, StepKeeps DEF IInv

LEMMA BootedTyped ==
  ASSUME Types, router \in RouterContainer
  PROVE  /\ Booted(router) \in RouterContainer /\ Booted(router).state = "running"
         /\ ~Booted(router).healthy /\ Booted(router).lan = router.lan
         /\ Booted(router).passed = router.passed
BY DEF Types, Booted, RouterContainer

LEMMA StartStep == ASSUME IInv, RouterStartCommand PROVE IInv'
<1>1. Step("r_start") /\ RouterIs(IF Running(router) THEN router ELSE Booted(router))
  BY DEF RouterStartCommand
<1>2. Exists(router) /\ router \in RouterContainer
  BY <1>1, RouterIsThere
<1> DEFINE r == IF Running(router) THEN router ELSE Booted(router)
<1>3. /\ r \in RouterContainer /\ r.lan = router.lan /\ r.state = "running"
      /\ r.passed = router.passed /\ (r.healthy => r = router)
  BY <1>2, BootedTyped DEF IInv, Running
<1>4. router' = r /\ RouterIs(r)
  BY <1>1 DEF RouterIs
<1> HIDE DEF r
<1>5. Types' /\ InStep' = InStep
  BY <1>1, <1>3, <1>4, RouterTyped
<1>6. HasRouter' /\ (OnLan => OnLan') /\ (Probed => Probed') /\ Health'
  BY <1>2, <1>3, <1>4 DEF HasRouter, OnLan, Probed, IInv, Health, Exists, Running
<1>7. QED
  BY <1>1, <1>5, <1>6, StepKeeps DEF IInv

\* The wait ends with a router that is connected and has passed.
LEMMA WaitStep == ASSUME IInv, RouterWait PROVE IInv'
<1>1. Step("r_wait") /\ router.healthy /\ RouterIs(router) /\ router' = router
  BY DEF RouterWait, RouterIs
<1>2. Exists(router) /\ router \in RouterContainer
  BY <1>1, RouterIsThere
<1>3. OnLan
  <2>1. todo \in Seq(Entry) /\ todo # <<>> /\ Head(todo).cmd \in ConnectRule.goals
    BY <1>1 DEF IInv, Types, Step, ConnectRule
  <2>2. Kept(ConnectRule, todo, OnLan) /\ OnLan \in BOOLEAN
    BY DEF IInv, Rules, OnLan
  <2>3. QED
    BY <2>1, <2>2, HeadRelies
<1>4. Probed' /\ HasRouter' = HasRouter /\ OnLan' = OnLan /\ Health'
  BY <1>1, <1>2, <1>3 DEF Probed, HasRouter, OnLan, IInv, Health
<1>5. Types' /\ InStep' = InStep
  BY <1>1, <1>2, RouterTyped
<1>6. QED
  BY <1>1, <1>4, <1>5, StepKeeps DEF IInv

LEMMA StopStep == ASSUME IInv, RouterStop PROVE IInv'
<1> DEFINE r == IF Running(router) THEN [router EXCEPT !.state = "exited", !.healthy = FALSE] ELSE router
<1>1. Step("r_stop") /\ RouterIs(r) /\ router' = r
  BY DEF RouterStop, RouterIs
<1>2. r \in RouterContainer \cup {NoContainer} /\ (Exists(router) => Exists(r) /\ r.lan = router.lan)
      /\ (Exists(r) /\ r.healthy => r = router)
  <2>1. CASE Running(router)
    <3>1. router \in RouterContainer
      BY <2>1, RouterCases DEF IInv, Exists, Running
    <3>2. QED
      BY <2>1, <3>1 DEF RouterContainer, Exists
  <2>2. CASE ~Running(router)
    BY <2>2 DEF IInv, Types
  <2>3. QED
    BY <2>1, <2>2
<1> HIDE DEF r
<1>3. Types' /\ InStep' = InStep
  BY <1>1, <1>2, RouterTyped
<1>4. (HasRouter => HasRouter') /\ (OnLan => OnLan') /\ Health'
  BY <1>1, <1>2 DEF HasRouter, OnLan, IInv, Health
<1>5. QED
  BY <1>1, <1>3, <1>4, StepKeeps DEF IInv

-----------------------------------------------------------------------------
(***************************************************************************)
(* The workers.                                                            *)
(***************************************************************************)
LEMMA WorkerTyped ==
  ASSUME IInv, NEW c, Step(c), c \notin {"r_create", "r_connect", "r_wait", "save"},
         UNCHANGED <<disk, mem, router, built, Rest>>, worker' \in [Worker -> Container]
  PROVE  IInv'
<1>1. todo' \in Seq(Entry) /\ mem \in Configuration
  BY RestTyped DEF IInv
<1>2. Types'
  BY <1>1 DEF IInv, Types, disk, Rest
<1>3. Rules' /\ Health'
  BY QuietStep DEF disk
<1>4. QED
  BY <1>2, <1>3 DEF IInv

\* A command puts c in the place of a worker's container.
LEMMA WorkerReplaced ==
  ASSUME IInv, NEW n, Step(n), n \notin {"r_create", "r_connect", "r_wait", "save"},
         NEW c, WorkerIs(Subject, c), Subject \in Worker => c \in Container
  PROVE  /\ IInv'
         /\ \A w \in Worker : worker'[w] = worker[w] \/ (w = Subject /\ worker'[w] = c)
<1>1. worker \in [Worker -> Container] /\ worker' = [worker EXCEPT ![Subject] = c]
  BY DEF IInv, Types, WorkerIs
<1>2. worker' \in [Worker -> Container]
  BY <1>1
<1>3. UNCHANGED <<disk, mem, router, built, Rest>>
  BY DEF WorkerIs
<1>4. IInv'
  BY <1>2, <1>3, WorkerTyped
<1>5. QED
  BY <1>1, <1>4

LEMMA StateEdit ==
  ASSUME NEW c \in Container, NEW s \in State
  PROVE  [c EXCEPT !.state = s] \in Container /\ [c EXCEPT !.state = s].state = s
BY DEF Container

LEMMA NoContainerTyped == NoContainer \in Container /\ ~Running(NoContainer)
BY DEF NoContainer, Container, State, Running

\* None of these commands starts a worker.
Sleeping == \A w \in Worker : ~Released(w)

LEMMA WorkerCommands ==
  ASSUME IInv, WorkerStop \/ WorkerRm \/ WorkerRemove \/ WorkerCheck \/ WorkerCreate
  PROVE  IInv' /\ Sleeping
<1>1. worker \in [Worker -> Container]
  BY DEF IInv, Types
<1>2. ASSUME NEW n \in {"w_stop", "w_rm", "w_remove", "w_check", "w_create"}, Step(n),
             NEW c, WorkerIs(Subject, c), Subject \in Worker => c \in Container,
             Running(c) => c = worker[Subject]
      PROVE  IInv' /\ Sleeping
  <2>1. /\ IInv'
        /\ \A w \in Worker : worker'[w] = worker[w] \/ (w = Subject /\ worker'[w] = c)
    BY <1>2, WorkerReplaced
  <2>2. QED
    BY <1>2, <2>1 DEF Sleeping, Released
<1>3. CASE WorkerStop
  <2>1. Step("w_stop") /\ WorkerIs(Subject, Stopped(worker[Subject]))
    BY <1>3 DEF WorkerStop
  <2>2. ASSUME Subject \in Worker
        PROVE  Stopped(worker[Subject]) \in Container /\ ~Running(Stopped(worker[Subject]))
    BY <1>1, <2>2, StateEdit DEF Stopped, Running, State
  <2>3. CASE Subject \in Worker
    BY <1>2, <2>1, <2>2, <2>3
  <2>4. CASE Subject \notin Worker
    <3>1. worker' = worker
      BY <1>1, <2>1, <2>4 DEF WorkerIs
    <3>2. UNCHANGED <<disk, mem, router, built, Rest>>
      BY <2>1 DEF WorkerIs
    <3>3. QED
      BY <1>1, <2>1, <3>1, <3>2, WorkerTyped DEF Sleeping, Released
  <2>5. QED
    BY <2>3, <2>4
<1>4. CASE WorkerRm \/ WorkerRemove
  <2>1. PICK n \in {"w_rm", "w_remove"} : Step(n) /\ WorkerIs(Subject, NoContainer)
    BY <1>4 DEF WorkerRm, WorkerRemove
  <2>2. QED
    BY <1>2, <2>1, NoContainerTyped
<1>5. CASE WorkerCheck
  <2>1. PICK c \in {NoContainer, worker[Subject]} : Step("w_check") /\ WorkerIs(Subject, c)
    BY <1>5 DEF WorkerCheck
  <2>2. QED
    BY <1>1, <1>2, <2>1, NoContainerTyped
<1>6. CASE WorkerCreate
  <2> DEFINE new == [state |-> "created", image |-> mem.wimg, apparmor |-> apparmor]
  <2>1. PICK c \in {new, worker[Subject]} : Step("w_create") /\ WorkerIs(Subject, c)
    BY <1>6 DEF WorkerCreate
  <2>2. mem \in Configuration
    BY <2>1, RestTyped DEF IInv
  <2>3. new \in Container /\ ~Running(new)
    BY <2>2 DEF Container, State, Configuration, IInv, Types, Running
  <2> HIDE DEF new
  <2>4. QED
    BY <1>1, <1>2, <2>1, <2>3
<1>7. QED
  BY <1>3, <1>4, <1>5, <1>6

LEMMA VolumeStep == ASSUME IInv, WorkerVolume PROVE IInv' /\ Sleeping
<1>1. Step("w_volume") /\ UNCHANGED <<disk, mem, router, worker, built, Rest>>
  BY DEF WorkerVolume
<1>2. worker' \in [Worker -> Container]
  BY <1>1 DEF IInv, Types
<1>3. QED
  BY <1>1, <1>2, WorkerTyped DEF Sleeping, Released

LEMMA MarkStep == ASSUME IInv, WorkerMark PROVE IInv'
<1>1. /\ Step("w_mark") /\ mem' = [mem EXCEPT !.desired[Subject] = "stopped"]
      /\ UNCHANGED <<disk, dock, built, Rest>>
  BY DEF WorkerMark
<1>2. todo' \in Seq(Entry) /\ mem \in Configuration
  BY <1>1, RestTyped DEF IInv
<1>3. mem' \in Configuration
  BY <1>1, <1>2 DEF Configuration, Desired
<1>4. Types' /\ Health'
  BY <1>1, <1>2, <1>3 DEF IInv, Types, Health, disk, dock, Rest
<1>5. HasRouter' = HasRouter /\ OnLan' = OnLan /\ Probed' = Probed
  BY <1>1 DEF HasRouter, OnLan, Probed, dock
<1>6. Rules'
  BY <1>1, <1>5, StepKeeps DEF IInv
<1>7. QED
  BY <1>4, <1>6 DEF IInv

LEMMA StartCommandStep ==
  ASSUME IInv, WorkerStartCommand
  PROVE  /\ IInv'
         /\ \A w \in Worker : Released(w) =>
              /\ Running(router) /\ router.lan /\ router.passed
              /\ config.desired[w] = "running"
<1>1. Step("w_start") /\ worker \in [Worker -> Container]
  BY DEF WorkerStartCommand, IInv, Types
<1>2. Probed /\ InStep
  <2>1. todo \in Seq(Entry) /\ todo # <<>> /\ Head(todo).cmd \in WaitRule.goals
        /\ Head(todo).cmd \in SaveRule.goals
    BY <1>1 DEF IInv, Types, Step, WaitRule, SaveRule
  <2>2. Kept(WaitRule, todo, Probed) /\ Probed \in BOOLEAN
    BY DEF IInv, Rules, Probed
  <2>3. Kept(SaveRule, todo, InStep) /\ InStep \in BOOLEAN
    BY DEF IInv, Rules, InStep
  <2> HIDE DEF Probed, InStep
  <2>4. QED
    BY <2>1, <2>2, <2>3, HeadRelies
<1> DEFINE c == IF Wanted(Subject) THEN [worker[Subject] EXCEPT !.state = "running"] ELSE worker[Subject]
<1>3. WorkerIs(Subject, c)
  BY DEF WorkerStartCommand
<1>4. Subject \in Worker => c \in Container
  BY <1>1, StateEdit DEF State
<1>5. ~Wanted(Subject) => c = worker[Subject]
  OBVIOUS
<1> HIDE DEF c
<1>6. /\ IInv'
      /\ \A w \in Worker : worker'[w] = worker[w] \/ (w = Subject /\ worker'[w] = c)
  BY <1>1, <1>3, <1>4, WorkerReplaced
<1>7. ASSUME NEW w \in Worker, Released(w) PROVE config.desired[w] = "running"
  <2>1. w = Subject /\ Wanted(w)
    BY <1>5, <1>6, <1>7 DEF Released
  <2>2. QED
    BY <1>2, <2>1 DEF Wanted, InStep
<1>8. QED
  BY <1>2, <1>6, <1>7 DEF Probed

-----------------------------------------------------------------------------
(***************************************************************************)
(* The end of an action, and what happens outside.                         *)
(***************************************************************************)
LEMMA BackStep == ASSUME IInv, BackToMenu PROVE IInv'
<1>1. todo' = <<>> /\ mem' = None /\ UNCHANGED <<disk, dock, built, apparmor>>
  BY DEF BackToMenu
<1>2. Types' /\ Health'
  BY <1>1 DEF IInv, Types, Health, disk, dock
<1>3. QED
  BY <1>1, <1>2, EmptyRules DEF IInv

LEMMA RebootStep ==
  ASSUME IInv, RouterReboot \/ RouterRetry \/ RouterHealthy PROVE IInv'
<1>1. /\ Running(router)
      /\ UNCHANGED <<disk, mem, action, todo, worker, volume, nets, built, apparmor, actions, calm>>
  BY DEF RouterReboot, RouterRetry, RouterHealthy
<1>2. router \in RouterContainer
  BY <1>1, RouterCases DEF IInv, Exists, Running
<1>3. ASSUME NEW r \in RouterContainer, router' = r, r.state = "running", r.lan = router.lan,
             router.passed => r.passed, r.healthy => r.passed
      PROVE  IInv'
  <2>1. Types'
    BY <1>1, <1>3 DEF IInv, Types, disk
  <2>2. Health' /\ HasRouter' /\ (OnLan => OnLan') /\ (Probed => Probed') /\ InStep' = InStep
    BY <1>1, <1>3 DEF Health, HasRouter, OnLan, Probed, InStep, Exists, Running, disk
  <2>3. QED
    BY <1>1, <2>1, <2>2, QuietRules DEF IInv
<1>4. CASE RouterReboot \/ RouterRetry
  <2>1. router' = Booted(router)
    BY <1>4 DEF RouterReboot, RouterRetry
  <2>2. QED
    BY <1>2, <1>3, <2>1, BootedTyped DEF IInv
<1>5. CASE RouterHealthy
  <2> DEFINE r == [router EXCEPT !.healthy = TRUE, !.passed = TRUE]
  <2>1. r \in RouterContainer /\ r.state = router.state /\ r.lan = router.lan /\ r.passed
    BY <1>2 DEF RouterContainer
  <2>2. router' = r
    BY <1>5 DEF RouterHealthy
  <2> HIDE DEF r
  <2>3. QED
    BY <1>1, <1>3, <2>1, <2>2 DEF Running
<1>6. QED
  BY <1>4, <1>5

LEMMA OutsideStep == ASSUME IInv, ProfileAppears \/ Calm PROVE IInv'
<1>1. UNCHANGED <<disk, mem, todo, dock, built>> /\ apparmor' \in BOOLEAN
  BY DEF ProfileAppears, Calm, IInv, Types
<1>2. Types' /\ Health'
  BY <1>1 DEF IInv, Types, Health, disk, dock
<1>3. /\ HasRouter' = HasRouter /\ OnLan' = OnLan /\ Probed' = Probed /\ InStep' = InStep
  BY <1>1 DEF HasRouter, OnLan, Probed, InStep, disk, dock
<1>4. QED
  BY <1>1, <1>2, <1>3, QuietRules DEF IInv

-----------------------------------------------------------------------------
(***************************************************************************)
(* The theorems.                                                           *)
(***************************************************************************)
LEMMA InitIInv == Init => IInv
<1> SUFFICES ASSUME Init PROVE IInv
  OBVIOUS
<1>1. worker \in [Worker -> Container]
  BY NoContainerTyped DEF Init
<1>2. todo \in Seq(Entry) /\ todo = <<>> /\ built \in Image
  BY ConstantsAssumption DEF Init, Image
<1>3. Types
  BY <1>1, <1>2 DEF Init, Types
<1>4. Health
  BY DEF Init, Health, Exists, NoContainer
<1>5. Rules
  BY DEF Init, Rules, Kept, Closed
<1>6. QED
  BY <1>3, <1>4, <1>5 DEF IInv

\* A step keeps the invariant, and releases a worker only behind a probed router and if
\* the saved configuration says so.
Lawfully == \A w \in Worker : Released(w) =>
              /\ Running(router) /\ router.lan /\ router.passed
              /\ config.desired[w] = "running"

LEMMA NextStep == ASSUME IInv, [Next]_vars PROVE IInv' /\ Lawfully
<1>1. ASSUME worker' = worker PROVE Lawfully
  BY <1>1 DEF Lawfully, Released
<1>2. CASE Setup \/ Resume \/ MenuOther
  <2>1. worker' = worker
    BY <1>2 DEF Setup, Resume, MenuOther, MenuStopOne, MenuStartOne, MenuChangeProxy, MenuStopAll,
                MenuRemove, MenuStartAll, MenuRebuild, MenuDns, Choose, dock
  <2>2. QED
    BY <1>1, <1>2, <2>1, MenuStep
<1>3. CASE SaveConfig \/ WriteRoutes \/ ForgetConfig \/ BuildIfMissing \/ BuildRouter \/ BuildWorker
             \/ NetworkCommand \/ WorkerMark
  <2>1. worker' = worker
    BY <1>3 DEF SaveConfig, WriteRoutes, ForgetConfig, BuildIfMissing, BuildRouter, BuildWorker,
                NetworkCommand, WorkerMark, dock
  <2>2. QED
    BY <1>1, <1>3, <2>1, SaveStep, RoutesStep, ForgetStep, IfBuiltStep, BuildStep, NetworkStep, MarkStep
<1>4. CASE RouterRemove \/ RouterProfile \/ RouterCreate \/ RouterConnect \/ RouterStartCommand
             \/ RouterWait \/ RouterStop
  <2>1. worker' = worker
    BY <1>4 DEF RouterRemove, RouterProfile, RouterCreate, RouterConnect, RouterStartCommand,
                RouterWait, RouterStop, RouterIs
  <2>2. QED
    BY <1>1, <1>4, <2>1, RemoveStep, CreateStep, ConnectStep, StartStep, WaitStep, StopStep
<1>5. CASE WorkerStop \/ WorkerRm \/ WorkerRemove \/ WorkerCheck \/ WorkerCreate \/ WorkerVolume
  BY <1>5, WorkerCommands, VolumeStep DEF Lawfully, Sleeping
<1>6. CASE WorkerStartCommand
  BY <1>6, StartCommandStep DEF Lawfully
<1>7. CASE Done \/ Refused \/ Abort
  <2>1. BackToMenu
    BY <1>7 DEF Done, Refused, Abort
  <2>2. worker' = worker
    BY <2>1 DEF BackToMenu, dock
  <2>3. QED
    BY <1>1, <2>1, <2>2, BackStep
<1>8. CASE RouterReboot \/ RouterRetry \/ RouterHealthy
  <2>1. worker' = worker
    BY <1>8 DEF RouterReboot, RouterRetry, RouterHealthy
  <2>2. QED
    BY <1>1, <1>8, <2>1, RebootStep
<1>9. CASE ProfileAppears \/ Calm
  <2>1. worker' = worker
    BY <1>9 DEF ProfileAppears, Calm, dock
  <2>2. QED
    BY <1>1, <1>9, <2>1, OutsideStep
<1>10. CASE UNCHANGED vars
  <2>1. UNCHANGED <<config, mem, routes, router, worker, built, apparmor, todo>>
    BY <1>10 DEF vars, disk, dock
  <2>2. Types' /\ Health'
    BY <2>1 DEF IInv, Types, Health
  <2>3. /\ HasRouter' = HasRouter /\ OnLan' = OnLan /\ Probed' = Probed /\ InStep' = InStep
    BY <2>1 DEF HasRouter, OnLan, Probed, InStep
  <2>4. Rules'
    BY <2>1, <2>3, QuietRules DEF IInv
  <2>5. QED
    BY <1>1, <2>1, <2>2, <2>4 DEF IInv
<1>11. QED
  BY <1>2, <1>3, <1>4, <1>5, <1>6, <1>7, <1>8, <1>9, <1>10 DEF Next, Command

\* What is left of a running action keeps to the rules, wherever it is cut off and whatever
\* Docker does to the router meanwhile.
THEOREM Inductive == Spec => []IInv
<1>1. IInv /\ [Next]_vars => IInv'
  BY NextStep
<1>2. QED
  BY InitIInv, <1>1, PTL DEF Spec

\* The launcher starts a worker only while a router runs on the LAN that has passed its
\* health check, whatever was interrupted before.
THEOREM ReleaseNeedsProbe == Spec => ReleasedBehindRouter
<1>1. IInv /\ [Next]_vars =>
        [\A w \in Worker : Released(w) => Running(router) /\ router.lan /\ router.passed]_vars
  BY NextStep DEF Lawfully
<1>2. QED
  BY Inductive, <1>1, PTL DEF Spec, ReleasedBehindRouter

\* The launcher starts a worker only if the saved configuration says at that moment that
\* it shall run.
THEOREM SavedStateRules == Spec => StoppedStaysStopped
<1>1. IInv /\ [Next]_vars => [\A w \in Worker : Released(w) => config.desired[w] = "running"]_vars
  BY NextStep DEF Lawfully
<1>2. QED
  BY Inductive, <1>1, PTL DEF Spec, StoppedStaysStopped
-----------------------------------------------------------------------------
(***************************************************************************)
(* What an action has done for each worker when it ends.                   *)
(*                                                                         *)
(* Seen from one worker, the commands for the others are all the same; and *)
(* what an action promises for its end is a goal at a mark behind its last *)
(* command.                                                                *)
(***************************************************************************)
Hidden == PerWorker \ {"w_mark"}
Seen(w, e) == IF e.cmd \in Hidden /\ e.w # w THEN [cmd |-> "other"] ELSE e
Look(w, s) == [k \in 1..Len(s) |-> Seen(w, s[k])]
View(w, s) == Look(w, s) \o Cmd("end")

\* A worker is created after its old container was checked, and started after it was
\* created; no image is built in between.
CheckRule == [goals |-> {"w_create"}, key |-> "w_check", spoil |-> {"if_built", "w_build"}]
CreatedRule == [goals |-> {"w_start"}, key |-> "w_create",
                spoil |-> {"if_built", "w_build", "w_rm", "w_remove"}]

Current(w) == Wanted(w) /\ Exists(worker[w]) => ~Outdated(worker[w])
There(w) == Wanted(w) => Exists(worker[w]) /\ ~Outdated(worker[w])

\* The three changes: the old router is gone when the new one is created, with the routes
\* of the new configuration on the disk; every worker is stopped, and those that shall
\* run are started; and the configuration is saved.
UpRule == [goals |-> {"end"}, key |-> "w_start",
           spoil |-> {"if_built", "w_build", "w_rm", "w_remove", "w_stop"}]
IdleRule == [goals |-> {"end"}, key |-> "w_stop", spoil |-> {"w_mark"}]
SavedRule == [goals |-> {"end"}, key |-> "save", spoil |-> {"w_mark", "r_build", "w_build", "forget"}]
AbsentRule == [goals |-> {"r_create"}, key |-> "r_remove", spoil |-> {"r_create", "r_start"}]
WrittenRule == [goals |-> {"r_create"}, key |-> "routes", spoil |-> {"forget"}]
FreshRule == [goals |-> {"r_start", "end"} \cup Starting, key |-> "r_create",
              spoil |-> {"if_built", "r_build", "r_remove", "r_profile", "forget"}]
RunsRule == [goals |-> {"end"} \cup Starting, key |-> "r_start",
             spoil |-> {"r_remove", "r_profile", "r_stop"}]

Up(w) == There(w) /\ (Wanted(w) => Running(worker[w]))
Down(w) == ~Running(worker[w])
Idle(w) == ~Wanted(w) => Down(w)
Saved == config = mem
Written == routes = mem.proxy
Fresh == /\ Exists(router) /\ router.dns = mem.dns /\ router.image = mem.rimg /\ Written
         /\ Running(router) => router.routes = mem.proxy
Runs == Running(router)

\* A change of a proxy: nothing is saved while a worker is still to be stopped, and no
\* worker runs from there until the workers are started; it never builds, or removes a worker.
DownRule == [goals |-> Name \ (Starting \cup {"w_stop"}), key |-> "w_stop", spoil |-> {"w_start"}]
UnsavedRule == [goals |-> {"w_stop"}, key |-> "none",
                spoil |-> {"save", "w_mark", "r_build", "w_build", "forget"}]
NeverRule == [goals |-> {"if_built", "w_rm", "w_remove"}, key |-> "none", spoil |-> {}]

WorkerRules == \A w \in Worker :
  /\ Kept(CheckRule, View(w, todo), Current(w))
  /\ Kept(CreatedRule, View(w, todo), There(w))

ChangeRules == action \in {"proxy", "dns", "rebuild"} => \A w \in Worker :
  /\ Kept(UpRule, View(w, todo), Up(w))
  /\ Kept(IdleRule, View(w, todo), Idle(w))
  /\ Kept(SavedRule, View(w, todo), Saved)
  /\ Kept(AbsentRule, View(w, todo), ~Exists(router))
  /\ Kept(WrittenRule, View(w, todo), Written)
  /\ Kept(FreshRule, View(w, todo), Fresh)
  /\ Kept(RunsRule, View(w, todo), Runs)

SwapRules == action = "proxy" => \A w \in Worker :
  /\ Kept(DownRule, View(w, todo), Down(w))
  /\ Kept(UnsavedRule, View(w, todo), ~Saved)
  /\ Kept(NeverRule, View(w, todo), FALSE)

Rested ==
  /\ \A w \in Worker : worker[w] \in WorkerContainer \cup {NoContainer}
  /\ volume \subseteq Worker /\ nets \subseteq {"lan", "wan"} /\ actions \in 0..MaxActions
  /\ (action = "menu") = (mem = None)
  /\ \A k \in 1..Len(todo) : todo[k].cmd \in Name

WInv == IInv /\ Rested /\ WorkerRules /\ ChangeRules /\ SwapRules

-----------------------------------------------------------------------------
(***************************************************************************)
(* Views.                                                                  *)
(***************************************************************************)
LEMMA LookTyped ==
  ASSUME NEW w, NEW s \in Seq(Entry)
  PROVE  /\ Look(w, s) \in Seq(Entry) /\ Len(Look(w, s)) = Len(s)
         /\ \A k \in 1..Len(s) : Look(w, s)[k] = Seen(w, s[k])
<1>1. [cmd |-> "other"] \in Entry
  BY PlainCommands DEF Entry
<1>2. \A k \in 1..Len(s) : Seen(w, s[k]) \in Entry
  BY <1>1 DEF Seen
<1>3. Len(s) \in Nat
  OBVIOUS
<1> DEFINE n == Len(s)
           f == [k \in 1..n |-> Seen(w, s[k])]
<1>4. f \in [1..n -> Entry] /\ n \in Nat
  BY <1>2, <1>3
<1>5. f \in Seq(Entry)
  <2> HIDE DEF f, n
  <2>1. QED
    BY <1>4, IsASeq
<1>6. Len(f) = n
  OBVIOUS
<1>7. QED
  BY <1>5, <1>6 DEF Look

LEMMA LookConcat ==
  ASSUME NEW w, NEW a \in Seq(Entry), NEW b \in Seq(Entry)
  PROVE  Look(w, a \o b) = Look(w, a) \o Look(w, b)
<1> DEFINE s == a \o b
           la == Look(w, a)
           lb == Look(w, b)
           ls == Look(w, s)
<1>1. /\ s \in Seq(Entry) /\ Len(a) \in Nat /\ Len(b) \in Nat /\ Len(s) = Len(a) + Len(b)
      /\ \A k \in 1..Len(a) : s[k] = a[k]
      /\ \A k \in 1..Len(s) : k \notin 1..Len(a) => s[k] = b[k - Len(a)] /\ k - Len(a) \in 1..Len(b)
  BY ConcatProperties
<1>2. /\ la \in Seq(Entry) /\ Len(la) = Len(a) /\ \A k \in 1..Len(a) : la[k] = Seen(w, a[k])
      /\ lb \in Seq(Entry) /\ Len(lb) = Len(b) /\ \A k \in 1..Len(b) : lb[k] = Seen(w, b[k])
      /\ ls \in Seq(Entry) /\ Len(ls) = Len(s) /\ \A k \in 1..Len(s) : ls[k] = Seen(w, s[k])
  BY <1>1, LookTyped
<1> HIDE DEF la, lb, ls, s
<1>3. /\ la \o lb \in Seq(Entry) /\ Len(la \o lb) = Len(a) + Len(b)
      /\ \A k \in 1..Len(a) : (la \o lb)[k] = la[k]
      /\ \A k \in 1..Len(s) : k \notin 1..Len(a) => (la \o lb)[k] = lb[k - Len(a)]
  BY <1>1, <1>2
<1>4. ASSUME NEW k \in 1..Len(s) PROVE ls[k] = (la \o lb)[k]
  <2>1. CASE k \in 1..Len(a)
    BY <1>1, <1>2, <1>3, <2>1
  <2>2. CASE k \notin 1..Len(a)
    <3>1. s[k] = b[k - Len(a)] /\ k - Len(a) \in 1..Len(b) /\ (la \o lb)[k] = lb[k - Len(a)]
      BY <1>1, <1>3, <2>2
    <3>2. ls[k] = Seen(w, b[k - Len(a)]) /\ lb[k - Len(a)] = Seen(w, b[k - Len(a)])
      BY <1>2, <3>1
    <3>3. QED
      BY <3>1, <3>2
  <2>3. QED
    BY <2>1, <2>2
<1>5. ls = la \o lb
  BY <1>1, <1>2, <1>3, <1>4, SeqEqual
<1>6. QED
  BY <1>5 DEF ls, la, lb, s

LEMMA EndTyped == Cmd("end") \in Seq(Entry) /\ Len(Cmd("end")) = 1 /\ Cmd("end")[1] = [cmd |-> "end"]
BY PlainCommands DEF Cmd, Entry

LEMMA ConcatChain ==
  ASSUME NEW a \in Seq(Entry), NEW b \in Seq(Entry), NEW c \in Seq(Entry)
  PROVE  (a \o b) \o c = a \o (b \o c)
BY ConcatAssociative

LEMMA ViewConcat ==
  ASSUME NEW w, NEW a \in Seq(Entry), NEW b \in Seq(Entry)
  PROVE  View(w, a \o b) = Look(w, a) \o View(w, b)
<1>1. Look(w, a) \in Seq(Entry) /\ Look(w, b) \in Seq(Entry) /\ Cmd("end") \in Seq(Entry)
  BY LookTyped, EndTyped
<1>2. Look(w, a \o b) = Look(w, a) \o Look(w, b)
  BY LookConcat
<1>3. (Look(w, a) \o Look(w, b)) \o Cmd("end") = Look(w, a) \o (Look(w, b) \o Cmd("end"))
  BY <1>1, ConcatChain, ZenonT(30)
<1>4. QED
  BY <1>2, <1>3, Zenon DEF View

LEMMA ViewTyped ==
  ASSUME NEW w, NEW s \in Seq(Entry)
  PROVE  /\ View(w, s) \in Seq(Entry) /\ Len(View(w, s)) = Len(s) + 1
         /\ \A k \in 1..Len(s) : View(w, s)[k] = Seen(w, s[k])
         /\ View(w, s)[Len(s) + 1] = [cmd |-> "end"]
<1> DEFINE a == Look(w, s)
<1>1. a \in Seq(Entry) /\ Len(a) = Len(s) /\ \A k \in 1..Len(s) : a[k] = Seen(w, s[k])
  BY LookTyped
<1>2. "end" \in Plain
  BY PlainCommands
<1> HIDE DEF a
<1>3. /\ a \o Cmd("end") \in Seq(Entry) /\ Len(a \o Cmd("end")) = Len(a) + 1
      /\ (a \o Cmd("end"))[Len(a) + 1] = [cmd |-> "end"]
      /\ \A k \in 1..Len(a) : (a \o Cmd("end"))[k] = a[k]
  BY <1>1, <1>2, ConcatCmd
<1>4. QED
  BY <1>1, <1>3 DEF View, a

\* The view of a running action begins with its next command.
LEMMA ViewHead ==
  ASSUME NEW w, NEW s \in Seq(Entry), s # <<>>
  PROVE  /\ View(w, s) \in Seq(Entry) /\ View(w, s) # <<>>
         /\ Head(View(w, s)) = Seen(w, Head(s)) /\ Tail(View(w, s)) = View(w, Tail(s))
<1> DEFINE v == View(w, s)
           t == Tail(s)
           u == View(w, t)
<1>1. /\ Len(s) \in Nat \ {0} /\ t \in Seq(Entry) /\ Len(t) = Len(s) - 1 /\ Head(s) = s[1]
      /\ \A k \in 1..Len(t) : t[k] = s[k + 1]
  OBVIOUS
<1>2. /\ v \in Seq(Entry) /\ Len(v) = Len(s) + 1
      /\ \A k \in 1..Len(s) : v[k] = Seen(w, s[k])
      /\ v[Len(s) + 1] = [cmd |-> "end"]
  BY ViewTyped
<1>3. /\ u \in Seq(Entry) /\ Len(u) = Len(t) + 1
      /\ \A k \in 1..Len(t) : u[k] = Seen(w, t[k])
      /\ u[Len(t) + 1] = [cmd |-> "end"]
  BY <1>1, ViewTyped
<1> HIDE DEF v, t, u
<1>4. /\ v # <<>> /\ Head(v) = v[1] /\ Tail(v) \in Seq(Entry) /\ Len(Tail(v)) = Len(s)
      /\ \A k \in 1..Len(s) : Tail(v)[k] = v[k + 1]
  BY <1>1, <1>2
<1>5. ASSUME NEW k \in 1..Len(s) PROVE Tail(v)[k] = u[k]
  <2>1. CASE k = Len(s)
    BY <1>1, <1>2, <1>3, <1>4, <2>1
  <2>2. CASE k # Len(s)
    <3>1. k \in 1..Len(t) /\ k + 1 \in 1..Len(s)
      BY <1>1, <2>2
    <3>2. QED
      BY <1>1, <1>2, <1>3, <1>4, <3>1
  <2>3. QED
    BY <2>1, <2>2
<1>6. Len(u) = Len(s)
  BY <1>1, <1>3
<1>7. Tail(v) = u
  BY <1>3, <1>4, <1>5, <1>6, SeqEqual
<1>8. Head(v) = Seen(w, Head(s))
  BY <1>1, <1>2, <1>4
<1>9. QED
  BY <1>2, <1>4, <1>7, <1>8 DEF v, t, u

LEMMA ViewEmpty ==
  ASSUME NEW w
  PROVE  /\ View(w, <<>>) \in Seq(Entry) /\ View(w, <<>>) # <<>> /\ Head(View(w, <<>>)).cmd = "end"
<1>1. <<>> \in Seq(Entry) /\ Len(<<>>) = 0
  OBVIOUS
<1>2. /\ View(w, <<>>) \in Seq(Entry) /\ Len(View(w, <<>>)) = Len(<<>>) + 1
      /\ View(w, <<>>)[Len(<<>>) + 1] = [cmd |-> "end"]
  BY <1>1, ViewTyped, Zenon
<1>3. QED
  BY <1>2

-----------------------------------------------------------------------------
(***************************************************************************)
(* The sequences of the menu, seen from one worker.                        *)
(***************************************************************************)
LEMMA Blocks ==
  /\ \A m \in Nat, i \in 1..4 : (4 * m + i - 1) % 4 = i - 1 /\ (4 * m + i - 1) \div 4 = m
  /\ \A k \in Nat \ {0} : \E m \in Nat, i \in 1..4 : k = 4 * m + i
<1>1. ASSUME NEW m \in Nat, NEW i \in 1..4
      PROVE  (4 * m + i - 1) % 4 = i - 1 /\ (4 * m + i - 1) \div 4 = m
  <2>1. i \in {1, 2, 3, 4}
    OBVIOUS
  <2>2. CASE i = 1
    BY <2>2
  <2>3. CASE i = 2
    BY <2>3
  <2>4. CASE i = 3
    BY <2>4
  <2>5. CASE i = 4
    BY <2>5
  <2>6. QED
    BY <2>1, <2>2, <2>3, <2>4, <2>5
<1>2. ASSUME NEW k \in Nat \ {0} PROVE \E m \in Nat, i \in 1..4 : k = 4 * m + i
  <2> DEFINE m == (k - 1) \div 4
             i == ((k - 1) % 4) + 1
  <2>1. m \in Nat /\ i \in 1..4 /\ k = 4 * m + i
    OBVIOUS
  <2>2. QED
    BY <2>1
<1>3. QED
  BY <1>1, <1>2

\* Four commands for each worker, one after the other.
LEMMA WorkerStartAt ==
  ASSUME NEW s, s = ForWorkers(WorkerStart)
  PROVE  /\ s \in Seq(Entry) /\ Len(s) = 4 * N /\ N \in Nat \ {0}
         /\ \A m \in 0..(N - 1), i \in 1..4 :
              4 * m + i \in 1..Len(s) /\ s[4 * m + i] = [cmd |-> WorkerStart[i], w |-> Workers[m + 1]]
         /\ \A k \in 1..Len(s) : \E m \in 0..(N - 1), i \in 1..4 : k = 4 * m + i
<1>1. N \in Nat \ {0} /\ Len(WorkerStart) = 4
  BY ConstantsAssumption DEF N, WorkerStart
<1>2. s \in Seq(Entry)
  BY WorkerStartOnly DEF Only
<1>3. s = [k \in 1..(N * 4) |-> [cmd |-> WorkerStart[((k - 1) % 4) + 1], w |-> Workers[((k - 1) \div 4) + 1]]]
  BY <1>1 DEF ForWorkers
<1>4. N * 4 = 4 * N /\ 4 * N \in Nat
  BY <1>1
<1>5. Len(s) = 4 * N
  BY <1>2, <1>3, <1>4
<1>6. ASSUME NEW m \in 0..(N - 1), NEW i \in 1..4
      PROVE  4 * m + i \in 1..Len(s) /\ s[4 * m + i] = [cmd |-> WorkerStart[i], w |-> Workers[m + 1]]
  <2> DEFINE k == 4 * m + i
  <2>1. k \in 1..(4 * N) /\ m \in Nat
    BY <1>1
  <2>2. (k - 1) % 4 = i - 1 /\ (k - 1) \div 4 = m
    BY <2>1, Blocks
  <2>3. s[k] = [cmd |-> WorkerStart[((k - 1) % 4) + 1], w |-> Workers[((k - 1) \div 4) + 1]]
    BY <1>3, <1>4, <2>1
  <2>4. (i - 1) + 1 = i
    OBVIOUS
  <2> HIDE DEF k
  <2>5. s[k] = [cmd |-> WorkerStart[i], w |-> Workers[m + 1]]
    BY <2>2, <2>3, <2>4
  <2>6. QED
    BY <1>5, <2>1, <2>5 DEF k
<1>7. ASSUME NEW k \in 1..Len(s) PROVE \E m \in 0..(N - 1), i \in 1..4 : k = 4 * m + i
  <2>0. k \in Nat \ {0}
    BY <1>4, <1>5
  <2>1. PICK m \in Nat, i \in 1..4 : k = 4 * m + i
    BY <2>0, Blocks
  <2>2. m \in 0..(N - 1)
    BY <1>1, <1>5, <2>1
  <2>3. QED
    BY <2>1, <2>2
<1>8. QED
  BY <1>1, <1>2, <1>5, <1>6, <1>7

\* Every worker that is started was checked, then created; and no image was built.
Started(l) == /\ l \in Seq(Entry) /\ Closed(CheckRule, l) /\ Closed(CreatedRule, l)
              /\ \A k \in 1..Len(l) : l[k].cmd \in Starting \cup {"other"}

LEMMA StartedInOrder == \A w \in Worker : Started(Look(w, ForWorkers(WorkerStart)))
<1> SUFFICES ASSUME NEW w \in Worker PROVE Started(Look(w, ForWorkers(WorkerStart)))
  OBVIOUS
<1> DEFINE s == ForWorkers(WorkerStart)
           l == Look(w, s)
<1>1. /\ s \in Seq(Entry) /\ Len(s) = 4 * N /\ N \in Nat \ {0}
      /\ \A m \in 0..(N - 1), i \in 1..4 :
           4 * m + i \in 1..Len(s) /\ s[4 * m + i] = [cmd |-> WorkerStart[i], w |-> Workers[m + 1]]
      /\ \A k \in 1..Len(s) : \E m \in 0..(N - 1), i \in 1..4 : k = 4 * m + i
  BY WorkerStartAt
<1>2. l \in Seq(Entry) /\ Len(l) = Len(s) /\ \A k \in 1..Len(s) : l[k] = Seen(w, s[k])
  BY <1>1, LookTyped
<1> HIDE DEF s, l
<1>3. /\ WorkerStart[1] = "w_check" /\ WorkerStart[2] = "w_volume"
      /\ WorkerStart[3] = "w_create" /\ WorkerStart[4] = "w_start"
  BY DEF WorkerStart
<1>4. ASSUME NEW m \in 0..(N - 1), NEW i \in 1..4
      PROVE  l[4 * m + i].cmd = IF Workers[m + 1] = w THEN WorkerStart[i] ELSE "other"
  <2>1. s[4 * m + i] = [cmd |-> WorkerStart[i], w |-> Workers[m + 1]] /\ 4 * m + i \in 1..Len(s)
    BY <1>1
  <2>2. WorkerStart[i] \in Hidden
    <3>1. i \in {1, 2, 3, 4}
      OBVIOUS
    <3>2. QED
      BY <1>3, <3>1 DEF Hidden, PerWorker, Starting
  <2>3. QED
    BY <1>2, <2>1, <2>2 DEF Seen
<1>5. ASSUME NEW k \in 1..Len(l)
      PROVE  /\ l[k].cmd \in Starting \cup {"other"}
             /\ l[k].cmd \in CheckRule.goals => Earned(CheckRule, l, k)
             /\ l[k].cmd \in CreatedRule.goals => Earned(CreatedRule, l, k)
  <2>1. PICK m \in 0..(N - 1), i \in 1..4 : k = 4 * m + i
    BY <1>1, <1>2
  <2>2. i \in {1, 2, 3, 4} /\ l[k].cmd = IF Workers[m + 1] = w THEN WorkerStart[i] ELSE "other"
    <3>1. l[4 * m + i].cmd = IF Workers[m + 1] = w THEN WorkerStart[i] ELSE "other"
      BY <1>4
    <3>2. QED
      BY <2>1, <3>1
  <2>3. l[k].cmd \in Starting \cup {"other"}
    BY <1>3, <2>2 DEF Starting
  <2>4. ASSUME l[k].cmd \in CheckRule.goals PROVE Earned(CheckRule, l, k)
    <3>1. i = 3 /\ Workers[m + 1] = w
      BY <1>3, <2>2, <2>4 DEF CheckRule
    <3>0. 1 \in 1..4 /\ 2 \in 1..4
      OBVIOUS
    <3>2. 4 * m + 1 \in 1..Len(l) /\ 4 * m + 2 \in 1..Len(l)
      BY <1>1, <1>2, <3>0
    <3>3. l[4 * m + 1].cmd = "w_check" /\ l[4 * m + 2].cmd = "w_volume"
      BY <1>3, <1>4, <3>0, <3>1
    <3>4. 4 * m + 1 < k
      BY <2>1, <3>1
    <3>5. \A x \in 1..Len(l) : 4 * m + 1 < x /\ x < k => x = 4 * m + 2
      BY <2>1, <3>1
    <3>6. Clear(CheckRule, l, 4 * m + 1, k)
      BY <3>3, <3>5 DEF Clear, CheckRule
    <3>7. QED
      BY <3>2, <3>3, <3>4, <3>6 DEF Earned, CheckRule
  <2>5. ASSUME l[k].cmd \in CreatedRule.goals PROVE Earned(CreatedRule, l, k)
    <3>1. i = 4 /\ Workers[m + 1] = w
      BY <1>3, <2>2, <2>5 DEF CreatedRule
    <3>0. 3 \in 1..4
      OBVIOUS
    <3>2. 4 * m + 3 \in 1..Len(l)
      BY <1>1, <1>2, <3>0
    <3>3. l[4 * m + 3].cmd = "w_create"
      BY <1>3, <1>4, <3>0, <3>1
    <3>4. 4 * m + 3 < k /\ \A x \in 1..Len(l) : ~(4 * m + 3 < x /\ x < k)
      BY <2>1, <3>1
    <3>5. QED
      BY <3>2, <3>3, <3>4 DEF Earned, Clear, CreatedRule
  <2>6. QED
    BY <2>3, <2>4, <2>5
<1>6. QED
  BY <1>2, <1>5 DEF Started, Closed, s, l

\* Option 5, for its one worker u.
LEMMA OneStartedInOrder == \A u, w \in Worker : Started(Look(w, OneWorker(WorkerStart, u)))
<1> SUFFICES ASSUME NEW u \in Worker, NEW w \in Worker
             PROVE  Started(Look(w, OneWorker(WorkerStart, u)))
  OBVIOUS
<1> DEFINE s == OneWorker(WorkerStart, u)
           l == Look(w, s)
<1>1. s \in Seq(Entry)
  BY WorkerStartOnly DEF Only
<1>2. /\ Len(s) = 4 /\ s[1] = [cmd |-> "w_check", w |-> u] /\ s[2] = [cmd |-> "w_volume", w |-> u]
      /\ s[3] = [cmd |-> "w_create", w |-> u] /\ s[4] = [cmd |-> "w_start", w |-> u]
  BY <1>1 DEF OneWorker, WorkerStart
<1>3. l \in Seq(Entry) /\ Len(l) = Len(s) /\ \A k \in 1..Len(s) : l[k] = Seen(w, s[k])
  BY <1>1, LookTyped
<1> HIDE DEF s, l
<1>4. CASE u = w
  <2>1. /\ l[1].cmd = "w_check" /\ l[2].cmd = "w_volume" /\ l[3].cmd = "w_create"
        /\ l[4].cmd = "w_start" /\ Len(l) = 4
    BY <1>2, <1>3, <1>4 DEF Seen
  <2>2. Earned(CheckRule, l, 3) /\ Earned(CreatedRule, l, 4)
    BY <2>1 DEF Earned, Clear, CheckRule, CreatedRule
  <2>3. QED
    BY <1>3, <2>1, <2>2 DEF Started, Closed, CheckRule, CreatedRule, Starting, s, l
<1>5. CASE u # w
  <2>1. \A k \in 1..Len(l) : l[k].cmd = "other"
    BY <1>2, <1>3, <1>5 DEF Seen, Hidden, PerWorker, Starting
  <2>2. QED
    BY <1>3, <2>1 DEF Started, Closed, CheckRule, CreatedRule, s, l
<1>6. QED
  BY <1>4, <1>5

LEMMA OnlyLook == ASSUME NEW s, NEW C, Only(s, C), NEW w PROVE Only(Look(w, s), C \cup {"other"})
<1>1. s \in Seq(Entry) /\ \A k \in 1..Len(s) : s[k].cmd \in C
  BY DEF Only
<1>2. /\ Look(w, s) \in Seq(Entry) /\ Len(Look(w, s)) = Len(s)
      /\ \A k \in 1..Len(s) : Look(w, s)[k] = Seen(w, s[k])
  BY <1>1, LookTyped
<1>3. QED
  BY <1>1, <1>2 DEF Only, Seen

LEMMA OnlyLess == ASSUME NEW s, NEW C, NEW D, Only(s, C), C \subseteq D PROVE Only(s, D)
BY DEF Only

\* Of every worker, what is created was checked and what is started was created.
Orderly(s) == Only(s, Name) /\ \A w \in Worker : /\ Closed(CheckRule, Look(w, s))
                                                 /\ Closed(CreatedRule, Look(w, s))

LEMMA OrderlyConcat == ASSUME NEW a, NEW b, Orderly(a), Orderly(b) PROVE Orderly(a \o b)
<1>1. a \in Seq(Entry) /\ b \in Seq(Entry) /\ Only(a \o b, Name)
  BY OnlyConcat DEF Orderly, Only
<1>2. ASSUME NEW w \in Worker
      PROVE  Closed(CheckRule, Look(w, a \o b)) /\ Closed(CreatedRule, Look(w, a \o b))
  <2>1. Look(w, a) \in Seq(Entry) /\ Look(w, b) \in Seq(Entry)
    BY <1>1, LookTyped
  <2>2. Look(w, a \o b) = Look(w, a) \o Look(w, b)
    BY <1>1, LookConcat
  <2>3. /\ Closed(CheckRule, Look(w, a)) /\ Closed(CheckRule, Look(w, b))
        /\ Closed(CreatedRule, Look(w, a)) /\ Closed(CreatedRule, Look(w, b))
    BY DEF Orderly
  <2>4. /\ Closed(CheckRule, Look(w, a) \o Look(w, b))
        /\ Closed(CreatedRule, Look(w, a) \o Look(w, b))
    BY <2>1, <2>3, ConcatCloses
  <2>5. QED
    BY <2>2, <2>4
<1>3. QED
  BY <1>1, <1>2 DEF Orderly

Quiet == Name \ {"w_create", "w_start"}

LEMMA QuietOrderly == ASSUME NEW s, Only(s, Quiet) PROVE Orderly(s)
<1>1. s \in Seq(Entry) /\ Only(s, Name)
  BY DEF Only, Quiet
<1>2. ASSUME NEW w PROVE Mute(CheckRule, Look(w, s)) /\ Mute(CreatedRule, Look(w, s))
  <2>1. Only(Look(w, s), Quiet \cup {"other"})
    BY OnlyLook
  <2>2. QED
    BY <2>1 DEF Only, Quiet, Mute, CheckRule, CreatedRule
<1>3. QED
  BY <1>1, <1>2, LookTyped, MuteCloses DEF Orderly

LEMMA LoopOrderly ==
  ASSUME NEW cmds \in Seq(Name), Len(cmds) \in 1..4, \A i \in 1..Len(cmds) : cmds[i] \in Quiet
  PROVE  Orderly(ForWorkers(cmds))
BY ForWorkersOnly, QuietOrderly

LEMMA PlainOrderly ==
  \A c \in {"save", "routes", "if_built", "lan", "wan", "r_build", "w_build", "r_remove", "r_stop",
            "lan_rm", "wan_rm", "forget"} \cup Routing : Orderly(Cmd(c))
<1> SUFFICES ASSUME NEW c \in {"save", "routes", "if_built", "lan", "wan", "r_build", "w_build",
                               "r_remove", "r_stop", "lan_rm", "wan_rm", "forget"} \cup Routing
             PROVE  Orderly(Cmd(c))
  OBVIOUS
<1>1. c \in Plain
  BY PlainCommands
<1>2. c \in Quiet
  BY DEF Quiet, Name, Preparing, Routing, Starting, Ending
<1>3. QED
  BY <1>1, <1>2, CmdOnly, QuietOrderly

LEMMA StartsOrderly ==
  Orderly(ForWorkers(WorkerStart)) /\ \A u \in Worker : Orderly(OneWorker(WorkerStart, u))
<1>1. Starting \subseteq Name
  BY DEF Name
<1>2. /\ Only(ForWorkers(WorkerStart), Name)
      /\ \A u \in Worker : Only(OneWorker(WorkerStart, u), Name)
  BY <1>1, WorkerStartOnly, OnlyLess
<1>3. QED
  BY <1>2, StartedInOrder, OneStartedInOrder DEF Started, Orderly

LEMMA MenuOrderly ==
  /\ Orderly(SetupSteps) /\ Orderly(Deploy) /\ Orderly(ChangeProxy) /\ Orderly(ApplyDns)
  /\ Orderly(RebuildDeployment) /\ Orderly(RemoveDeployment) /\ Orderly(StopAll)
  /\ Orderly(Cmd("save") \o Deploy)
  /\ \A w \in Worker : Orderly(StopOne(w)) /\ Orderly(StartOne(w))
<1>1. /\ Orderly(Cmd("save")) /\ Orderly(Cmd("routes")) /\ Orderly(Cmd("if_built"))
      /\ Orderly(Cmd("lan")) /\ Orderly(Cmd("wan")) /\ Orderly(Cmd("r_build"))
      /\ Orderly(Cmd("w_build")) /\ Orderly(Cmd("r_remove")) /\ Orderly(Cmd("r_stop"))
      /\ Orderly(Cmd("lan_rm")) /\ Orderly(Cmd("wan_rm")) /\ Orderly(Cmd("forget"))
  BY PlainOrderly
<1>2. Orderly(RouterStart)
  <2>1. /\ Orderly(Cmd("r_profile")) /\ Orderly(Cmd("r_create")) /\ Orderly(Cmd("r_connect"))
        /\ Orderly(Cmd("r_start")) /\ Orderly(Cmd("r_wait"))
    BY PlainOrderly DEF Routing
  <2>2. QED
    BY <2>1, OrderlyConcat DEF RouterStart
<1>3. Orderly(Networks) /\ Orderly(BuildImages)
  BY <1>1, OrderlyConcat DEF Networks, BuildImages
<1>4. \A c \in {"w_stop", "w_rm", "w_remove"} : Orderly(ForWorkers(<<c>>))
  <2> SUFFICES ASSUME NEW c \in {"w_stop", "w_rm", "w_remove"} PROVE Orderly(ForWorkers(<<c>>))
    OBVIOUS
  <2> DEFINE s == <<c>>
  <2>1. s \in Seq(Name) /\ Len(s) \in 1..4 /\ \A i \in 1..Len(s) : s[i] \in Quiet
    BY DEF Quiet, Name, Preparing, Routing, Starting, Ending
  <2> HIDE DEF s
  <2>2. Orderly(ForWorkers(s))
    BY <2>1, LoopOrderly
  <2>3. QED
    BY <2>2 DEF s
<1>5. Orderly(Deploy)
  <2>1. Orderly(Cmd("routes") \o Cmd("if_built") \o Networks \o RouterStart)
    BY <1>1, <1>2, <1>3, OrderlyConcat
  <2>2. QED
    BY <2>1, StartsOrderly, OrderlyConcat DEF Deploy
<1>6. Orderly(SetupSteps) /\ Orderly(Cmd("save") \o Deploy)
  BY <1>1, <1>3, <1>5, OrderlyConcat DEF SetupSteps
<1>7. Orderly(ChangeProxy)
  <2>1. Orderly(ForWorkers(<<"w_stop">>) \o Cmd("save") \o Cmd("routes") \o Cmd("r_remove")
                  \o RouterStart)
    BY <1>1, <1>2, <1>4, OrderlyConcat
  <2>2. QED
    BY <2>1, StartsOrderly, OrderlyConcat DEF ChangeProxy
<1>8. Orderly(ApplyDns)
  <2>1. Orderly(Cmd("r_build") \o Cmd("save") \o Cmd("routes") \o ForWorkers(<<"w_stop">>)
                  \o Cmd("r_remove") \o RouterStart)
    BY <1>1, <1>2, <1>4, OrderlyConcat
  <2>2. QED
    BY <2>1, StartsOrderly, OrderlyConcat DEF ApplyDns
<1>9. Orderly(RebuildDeployment)
  BY <1>1, <1>3, <1>4, <1>5, OrderlyConcat DEF RebuildDeployment
<1>10. Orderly(RemoveDeployment)
  BY <1>1, <1>4, OrderlyConcat DEF RemoveDeployment
<1>11. Orderly(StopAll)
  <2> DEFINE s == <<"w_mark", "save", "w_stop">>
  <2>1. s \in Seq(Name) /\ Len(s) \in 1..4 /\ \A i \in 1..Len(s) : s[i] \in Quiet
    BY DEF Quiet, Name, Preparing, Routing, Starting, Ending
  <2> HIDE DEF s
  <2>2. Orderly(ForWorkers(s))
    BY <2>1, LoopOrderly
  <2>3. QED
    BY <1>1, <2>2, OrderlyConcat DEF StopAll, s
<1>12. ASSUME NEW w \in Worker PROVE Orderly(StopOne(w)) /\ Orderly(StartOne(w))
  <2> DEFINE s == <<"w_stop">>
  <2>1. s \in Seq(Name) /\ \A i \in 1..Len(s) : s[i] \in Quiet
    BY DEF Quiet, Name, Preparing, Routing, Starting, Ending
  <2> HIDE DEF s
  <2>2. Orderly(OneWorker(s, w))
    BY <2>1, OneWorkerOnly, QuietOrderly
  <2>3. Orderly(Cmd("save") \o RouterStart)
    BY <1>1, <1>2, OrderlyConcat
  <2>4. QED
    BY <1>1, <2>2, <2>3, StartsOrderly, OrderlyConcat DEF StopOne, StartOne, s
<1>13. QED
  BY <1>5, <1>6, <1>7, <1>8, <1>9, <1>10, <1>11, <1>12

(***************************************************************************)
(* The three changes.                                                      *)
(***************************************************************************)
\* All that relies comes first.
LEMMA ReliesThenMute ==
  ASSUME NEW r, NEW a \in Seq(Entry), NEW b \in Seq(Entry), Relying(r, a), Mute(r, b)
  PROVE  Relying(r, a \o b)
<1> DEFINE s == a \o b
<1>1. /\ Len(a) \in Nat /\ Len(b) \in Nat /\ Len(s) = Len(a) + Len(b)
      /\ \A k \in 1..Len(a) : s[k] = a[k]
      /\ \A k \in 1..Len(b) : s[Len(a) + k] = b[k]
  OBVIOUS
<1> HIDE DEF s
<1>2. \A k \in 1..Len(s) : k \in 1..Len(a) \/ (k - Len(a) \in 1..Len(b) /\ s[k] = b[k - Len(a)])
  BY <1>1
<1> SUFFICES ASSUME NEW k \in 1..Len(s), s[k].cmd \in r.goals
             PROVE  Earned(r, s, k) \/ Clear(r, s, 0, k)
  BY DEF Relying, s
<1>3. k \in 1..Len(a) /\ s[k] = a[k]
  BY <1>1, <1>2 DEF Mute
<1>4. \A i \in 1..Len(s) : i < k => i \in 1..Len(a) /\ s[i] = a[i]
  BY <1>1, <1>3
<1>5. CASE Earned(r, a, k)
  <2>1. PICK j \in 1..Len(a) : j < k /\ a[j].cmd = r.key /\ Clear(r, a, j, k)
    BY <1>5 DEF Earned
  <2>2. j \in 1..Len(s) /\ s[j].cmd = r.key
    BY <1>1, <2>1
  <2>3. Clear(r, s, j, k)
    BY <1>4, <2>1 DEF Clear
  <2>4. QED
    BY <2>1, <2>2, <2>3 DEF Earned
<1>6. CASE Clear(r, a, 0, k)
  BY <1>4, <1>6 DEF Clear
<1>7. QED
  BY <1>3, <1>5, <1>6 DEF Relying

Has(l, c) == \E k \in 1..Len(l) : l[k].cmd = c

LEMMA HasConcat ==
  ASSUME NEW a \in Seq(Entry), NEW b \in Seq(Entry), NEW c, Has(a, c) \/ Has(b, c)
  PROVE  Has(a \o b, c)
<1> DEFINE s == a \o b
<1>1. /\ Len(a) \in Nat /\ Len(b) \in Nat /\ Len(s) = Len(a) + Len(b)
      /\ \A k \in 1..Len(a) : s[k] = a[k] /\ k \in 1..Len(s)
      /\ \A k \in 1..Len(b) : s[Len(a) + k] = b[k] /\ Len(a) + k \in 1..Len(s)
  OBVIOUS
<1> HIDE DEF s
<1>2. QED
  BY <1>1 DEF Has, s

LEMMA HasGives ==
  ASSUME NEW r, NEW l, Harmless(r, l), Has(l, r.key) PROVE Gives(r, l)
BY DEF Harmless, Has, Gives, Clear

\* From the start of the router to the end of the action, seen from worker w.
Launching == RouterStart \o ForWorkers(WorkerStart)

LEMMA RouterStartAt ==
  /\ Only(RouterStart, Routing) /\ Len(RouterStart) = 5
  /\ RouterStart[1].cmd = "r_profile" /\ RouterStart[2].cmd = "r_create"
  /\ RouterStart[3].cmd = "r_connect" /\ RouterStart[4].cmd = "r_start"
  /\ RouterStart[5].cmd = "r_wait"
<1>1. \A c \in Routing : Only(Cmd(c), Routing)
  BY PlainCommands, CmdOnly
<1>2. Only(RouterStart, Routing)
  BY <1>1, OnlyConcat DEF RouterStart, Routing
<1>3. QED
  BY <1>2 DEF RouterStart, Cmd

LEMMA LaunchingPromises ==
  ASSUME NEW w \in Worker, NEW v, v = View(w, Launching)
  PROVE  /\ Launching \in Seq(Entry) /\ Only(v, Routing \cup Starting \cup {"other", "end"})
         /\ Closed(UpRule, v) /\ Closed(FreshRule, v) /\ Closed(RunsRule, v)
         /\ Relying(IdleRule, v) /\ Relying(SavedRule, v) /\ Relying(AbsentRule, v)
         /\ Relying(WrittenRule, v) /\ Relying(DownRule, v)
<1> DEFINE s == ForWorkers(WorkerStart)
           a == Look(w, RouterStart)
           l == Look(w, s)
           b == View(w, s)
<1>1. RouterStart \in Seq(Entry) /\ s \in Seq(Entry)
  BY RouterStartAt, WorkerStartAt DEF Only
<1>2. a \in Seq(Entry) /\ l \in Seq(Entry) /\ b \in Seq(Entry) /\ v = a \o b
  BY <1>1, LookTyped, ViewTyped, ViewConcat DEF Launching
<1>3. /\ Len(a) = 5 /\ a[1].cmd = "r_profile" /\ a[2].cmd = "r_create" /\ a[3].cmd = "r_connect"
      /\ a[4].cmd = "r_start" /\ a[5].cmd = "r_wait"
  <2>1. Len(a) = 5 /\ \A k \in 1..5 : a[k] = Seen(w, RouterStart[k])
    <3>1. Len(RouterStart) = 5
      BY RouterStartAt
    <3>2. Len(a) = Len(RouterStart) /\ \A k \in 1..Len(RouterStart) : a[k] = Seen(w, RouterStart[k])
      BY <1>1, LookTyped
    <3>3. QED
      BY <3>1, <3>2
  <2>2. QED
    BY <2>1, RouterStartAt DEF Seen, Hidden, PerWorker, Starting
<1>4. Only(a, Routing)
  <2>1. \A k \in 1..Len(a) : k \in {1, 2, 3, 4, 5}
    BY <1>3
  <2>2. QED
    BY <1>2, <1>3, <2>1 DEF Only, Routing
<1>5. Only(l, Starting \cup {"other"})
  BY StartedInOrder DEF Started, Only
<1>6. Only(b, Starting \cup {"other", "end"})
  <2>1. Only(Cmd("end"), Starting \cup {"other", "end"})
    BY PlainCommands, CmdOnly
  <2>2. Only(l, Starting \cup {"other", "end"})
    BY <1>5, OnlyLess
  <2>3. QED
    BY <2>1, <2>2, OnlyConcat DEF View
<1>7. Only(v, Routing \cup Starting \cup {"other", "end"})
  <2> DEFINE C == Routing \cup Starting \cup {"other", "end"}
  <2>1. Only(a, C) /\ Only(b, C)
    <3>1. Routing \subseteq C /\ Starting \cup {"other", "end"} \subseteq C
      OBVIOUS
    <3> HIDE DEF C
    <3>2. QED
      BY <1>4, <1>6, <3>1, OnlyLess
  <2> HIDE DEF C, a, b
  <2>2. Only(a \o b, C)
    BY <2>1, OnlyConcat
  <2>3. QED
    BY <1>2, <2>2 DEF C
<1>8. Launching \in Seq(Entry)
  BY <1>1, ConcatProperties DEF Launching
<1>9. Closed(UpRule, v)
  <2>1. Gives(UpRule, l)
    <3>1. Harmless(UpRule, l)
      BY <1>5 DEF Only, Harmless, UpRule, Starting
    <3>2. Has(l, "w_start")
      <4>1. /\ Len(s) = 4 * N /\ N \in Nat \ {0}
            /\ \A m \in 0..(N - 1), i \in 1..4 :
                 4 * m + i \in 1..Len(s) /\ s[4 * m + i] = [cmd |-> WorkerStart[i], w |-> Workers[m + 1]]
        BY WorkerStartAt
      <4>2. PICK i \in 1..N : Workers[i] = w
        BY ConstantsAssumption DEF Worker, N
      <4>3. i - 1 \in 0..(N - 1) /\ 4 \in 1..4 /\ (i - 1) + 1 = i
        <5>1. N \in Nat \ {0}
          BY <4>1
        <5>2. i - 1 \in 0..(N - 1) /\ (i - 1) + 1 = i
          BY <5>1
        <5>3. QED
          BY <5>2
      <4> DEFINE k == 4 * (i - 1) + 4
      <4>4. k \in 1..Len(s) /\ s[k] = [cmd |-> WorkerStart[4], w |-> w]
        BY <4>1, <4>2, <4>3
      <4>5. l[k] = Seen(w, s[k]) /\ k \in 1..Len(l)
        BY <1>1, <4>4, LookTyped
      <4> HIDE DEF k, s, l
      <4>6. l[k].cmd = "w_start"
        BY <4>4, <4>5 DEF Seen, WorkerStart
      <4>7. QED
        BY <4>5, <4>6 DEF Has
    <3>3. QED
      BY <3>1, <3>2, HasGives DEF UpRule
  <2>2. Mute(UpRule, l) /\ Mute(UpRule, a)
    BY <1>4, <1>5 DEF Only, Mute, UpRule, Starting, Routing
  <2>3. Relying(UpRule, Cmd("end")) /\ Cmd("end") \in Seq(Entry)
    <3>1. Harmless(UpRule, Cmd("end"))
      BY DEF Harmless, UpRule, Cmd
    <3>2. QED
      BY <3>1, HarmlessRelies, EndTyped
  <2>4. Closed(UpRule, b)
    BY <1>2, <2>1, <2>2, <2>3, MuteCloses, ConcatCloses DEF View
  <2>5. QED
    BY <1>2, <2>2, <2>4, MuteCloses, ConcatCloses
<1> HIDE DEF a, b, l, s
<1>10. Closed(FreshRule, v)
  <2>1. Gives(FreshRule, a)
    BY <1>3 DEF Gives, Clear, FreshRule
  <2>2. Earned(FreshRule, a, 4)
    BY <1>3 DEF Earned, Clear, FreshRule
  <2>3. Closed(FreshRule, a)
    BY <1>3, <2>2 DEF Closed, FreshRule, Starting
  <2>4. Harmless(FreshRule, b)
    BY <1>6 DEF Only, Harmless, FreshRule, Starting
  <2>5. QED
    BY <1>2, <2>1, <2>3, <2>4, HarmlessRelies, ConcatCloses
<1>11. Closed(RunsRule, v)
  <2>1. Gives(RunsRule, a) /\ Mute(RunsRule, a)
    BY <1>3 DEF Gives, Clear, Mute, RunsRule, Starting
  <2>2. Harmless(RunsRule, b)
    BY <1>6 DEF Only, Harmless, RunsRule, Starting
  <2>3. QED
    BY <1>2, <2>1, <2>2, MuteCloses, HarmlessRelies, ConcatCloses
<1>12. Relying(IdleRule, v) /\ Relying(SavedRule, v) /\ Relying(WrittenRule, v)
  <2>1. Harmless(IdleRule, v) /\ Harmless(SavedRule, v) /\ Harmless(WrittenRule, v)
    BY <1>7 DEF Only, Harmless, IdleRule, SavedRule, WrittenRule, Routing, Starting
  <2>2. QED
    BY <2>1, HarmlessRelies
<1>13. Relying(AbsentRule, v)
  <2>1. Clear(AbsentRule, a, 0, 2)
    BY <1>3 DEF Clear, AbsentRule
  <2>2. Relying(AbsentRule, a)
    BY <1>3, <2>1 DEF Relying, AbsentRule
  <2>3. Mute(AbsentRule, b)
    BY <1>6 DEF Only, Mute, AbsentRule, Starting
  <2>4. QED
    BY <1>2, <2>2, <2>3, ReliesThenMute
<1>14. Relying(DownRule, v)
  <2>1. Harmless(DownRule, a)
    BY <1>4 DEF Only, Harmless, DownRule, Routing
  <2>2. Mute(DownRule, b)
    BY <1>6 DEF Only, Mute, DownRule, Starting, Name, Preparing, Routing, Ending
  <2>3. QED
    BY <1>2, <2>1, <2>2, HarmlessRelies, ReliesThenMute
<1>15. QED
  BY <1>7, <1>8, <1>9, <1>10, <1>11, <1>12, <1>13, <1>14

\* What comes before it in a change: every worker is stopped, the old router is removed,
\* the routes are written, and what was built is saved.
Preparatory == {"save", "routes", "if_built", "lan", "wan", "r_build", "w_build", "w_stop", "w_rm",
                "r_remove"}
Clears(p) == /\ Only(p, Preparatory)
             /\ \A w \in Worker : /\ Has(Look(w, p), "w_stop") /\ Has(Look(w, p), "r_remove")
                                  /\ Has(Look(w, p), "routes") /\ Gives(SavedRule, Look(w, p))

Changes(s) == s \in Seq(Entry) /\ \A w \in Worker :
  /\ Closed(UpRule, View(w, s)) /\ Closed(IdleRule, View(w, s)) /\ Closed(SavedRule, View(w, s))
  /\ Closed(AbsentRule, View(w, s)) /\ Closed(WrittenRule, View(w, s))
  /\ Closed(FreshRule, View(w, s)) /\ Closed(RunsRule, View(w, s))

LEMMA ClearsChanges == ASSUME NEW p, Clears(p) PROVE Changes(p \o Launching)
<1>1. p \in Seq(Entry) /\ Launching \in Seq(Entry) /\ p \o Launching \in Seq(Entry)
  <2>1. PICK w \in Worker : TRUE
    BY ConstantsAssumption DEF Worker
  <2>2. p \in Seq(Entry) /\ Launching \in Seq(Entry)
    BY <2>1, LaunchingPromises DEF Clears, Only
  <2>3. QED
    BY <2>2, ConcatProperties
<1>2. ASSUME NEW w \in Worker, NEW s, s = View(w, p \o Launching)
      PROVE  /\ Closed(UpRule, s) /\ Closed(IdleRule, s) /\ Closed(SavedRule, s)
             /\ Closed(AbsentRule, s) /\ Closed(WrittenRule, s)
             /\ Closed(FreshRule, s) /\ Closed(RunsRule, s)
  <2> DEFINE l == Look(w, p)
             v == View(w, Launching)
  <2>1. l \in Seq(Entry) /\ v \in Seq(Entry) /\ s = l \o v
    BY <1>1, <1>2, LookTyped, ViewTyped, ViewConcat
  <2>2. Only(l, Preparatory \cup {"other"})
    BY OnlyLook DEF Clears
  <2>3. /\ Closed(UpRule, v) /\ Closed(FreshRule, v) /\ Closed(RunsRule, v)
        /\ Relying(IdleRule, v) /\ Relying(SavedRule, v) /\ Relying(AbsentRule, v)
        /\ Relying(WrittenRule, v)
    BY LaunchingPromises
  <2>4. /\ Has(l, "w_stop") /\ Has(l, "r_remove") /\ Has(l, "routes") /\ Gives(SavedRule, l)
    BY DEF Clears
  <2> HIDE DEF l, v
  <2>5. /\ Mute(UpRule, l) /\ Mute(IdleRule, l) /\ Mute(SavedRule, l) /\ Mute(AbsentRule, l)
        /\ Mute(WrittenRule, l) /\ Mute(FreshRule, l) /\ Mute(RunsRule, l)
    BY <2>2 DEF Only, Preparatory, Starting, Mute, UpRule, IdleRule, SavedRule, AbsentRule, WrittenRule,
                FreshRule, RunsRule
  <2>6. Harmless(IdleRule, l) /\ Harmless(AbsentRule, l) /\ Harmless(WrittenRule, l)
    BY <2>2 DEF Only, Preparatory, Harmless, IdleRule, AbsentRule, WrittenRule
  <2>7. Gives(IdleRule, l) /\ Gives(AbsentRule, l) /\ Gives(WrittenRule, l)
    <3>1. IdleRule.key = "w_stop" /\ AbsentRule.key = "r_remove" /\ WrittenRule.key = "routes"
      BY DEF IdleRule, AbsentRule, WrittenRule
    <3>2. QED
      BY <2>4, <2>6, <3>1, HasGives
  <2>8. /\ Closed(UpRule, l) /\ Closed(IdleRule, l) /\ Closed(SavedRule, l) /\ Closed(AbsentRule, l)
        /\ Closed(WrittenRule, l) /\ Closed(FreshRule, l) /\ Closed(RunsRule, l)
    BY <2>5, MuteCloses
  <2>9. /\ Closed(UpRule, l \o v) /\ Closed(FreshRule, l \o v) /\ Closed(RunsRule, l \o v)
    BY <2>1, <2>3, <2>8, ConcatCloses
  <2>10. /\ Closed(IdleRule, l \o v) /\ Closed(SavedRule, l \o v) /\ Closed(AbsentRule, l \o v)
         /\ Closed(WrittenRule, l \o v)
    BY <2>1, <2>3, <2>4, <2>7, <2>8, ConcatCloses
  <2>11. QED
    BY <2>1, <2>9, <2>10
<1>3. QED
  BY <1>1, <1>2 DEF Changes

\* The parts the changes are made of.
LEMMA PausesAt ==
  /\ Only(ForWorkers(<<"w_stop">>), Preparatory) /\ Only(ForWorkers(<<"w_stop">>), {"w_stop"})
  /\ \A w \in Worker : Has(Look(w, ForWorkers(<<"w_stop">>)), "w_stop")
<1> DEFINE c == <<"w_stop">>
           s == ForWorkers(c)
<1>1. c \in Seq(Name) /\ Len(c) = 1 /\ c[1] = "w_stop" /\ \A i \in 1..Len(c) : c[i] \in {"w_stop"}
  BY DEF Name, Preparing
<1> HIDE DEF c
<1>2. Only(s, {"w_stop"})
  BY <1>1, ForWorkersOnly
<1>3. Only(s, Preparatory)
  BY <1>2, OnlyLess DEF Preparatory
<1>4. ASSUME NEW w \in Worker PROVE Has(Look(w, s), "w_stop")
  <2>1. N \in Nat \ {0} /\ \E i \in 1..N : Workers[i] = w
    BY ConstantsAssumption DEF Worker, N
  <2>2. PICK i \in 1..N : Workers[i] = w
    BY <2>1
  <2>3. s = [k \in 1..(N * 1) |-> [cmd |-> c[((k - 1) % 1) + 1], w |-> Workers[((k - 1) \div 1) + 1]]]
    BY <1>1 DEF ForWorkers
  <2>4. N * 1 = N /\ ((i - 1) % 1) + 1 = 1 /\ (i - 1) \div 1 + 1 = i
    BY <2>1
  <2>5. s \in Seq(Entry) /\ DOMAIN s = 1..N
    BY <1>2, <2>3, <2>4 DEF Only
  <2>6. s[i] = [cmd |-> c[1], w |-> Workers[i]]
    BY <2>3, <2>4
  <2> HIDE DEF s
  <2>10. Len(s) = N
    BY <2>1, <2>5
  <2>7. Look(w, s)[i] = Seen(w, s[i]) /\ i \in 1..Len(Look(w, s))
    BY <2>5, <2>10, LookTyped
  <2>8. Look(w, s)[i].cmd = "w_stop"
    BY <1>1, <2>2, <2>6, <2>7 DEF Seen
  <2>9. QED
    BY <2>7, <2>8 DEF Has
<1>5. QED
  BY <1>2, <1>3, <1>4 DEF c

LEMMA PlainAt ==
  ASSUME NEW c \in {"save", "routes", "if_built", "lan", "wan", "r_build", "w_build", "r_remove"}
  PROVE  /\ Only(Cmd(c), Preparatory) /\ Only(Cmd(c), {c})
         /\ \A w \in Worker : Has(Look(w, Cmd(c)), c)
<1>1. c \in Plain
  BY PlainCommands
<1>2. Only(Cmd(c), Preparatory) /\ Only(Cmd(c), {c})
  BY <1>1, CmdOnly DEF Preparatory
<1>3. ASSUME NEW w \in Worker PROVE Has(Look(w, Cmd(c)), c)
  <2>1. Cmd(c) \in Seq(Entry) /\ Len(Cmd(c)) = 1 /\ Cmd(c)[1].cmd = c
    BY <1>2 DEF Only, Cmd
  <2>2. Len(Look(w, Cmd(c))) = 1 /\ Look(w, Cmd(c))[1] = Seen(w, Cmd(c)[1])
    BY <2>1, LookTyped
  <2>3. Look(w, Cmd(c))[1].cmd = c
    BY <2>1, <2>2 DEF Seen, Hidden, PerWorker, Starting
  <2>4. QED
    BY <2>2, <2>3 DEF Has
<1>4. QED
  BY <1>2, <1>3

\* A part stops, removes, writes or saves if one of its parts does; what is built behind a
\* save spoils it.
LEMMA LookHas ==
  ASSUME NEW w, NEW a, NEW b, NEW C, Only(a, C), Only(b, C)
  PROVE  /\ \A c : Has(Look(w, a), c) \/ Has(Look(w, b), c) => Has(Look(w, a \o b), c)
         /\ Gives(SavedRule, Look(w, b)) => Gives(SavedRule, Look(w, a \o b))
         /\ Gives(SavedRule, Look(w, a)) /\ Harmless(SavedRule, Look(w, b))
              => Gives(SavedRule, Look(w, a \o b))
<1>1. a \in Seq(Entry) /\ b \in Seq(Entry)
  BY DEF Only
<1>2. /\ Look(w, a) \in Seq(Entry) /\ Look(w, b) \in Seq(Entry)
      /\ Look(w, a \o b) = Look(w, a) \o Look(w, b)
  BY <1>1, LookTyped, LookConcat
<1>3. QED
  BY <1>2, HasConcat, ConcatGives

LEMMA SavedHarmless ==
  ASSUME NEW w, NEW s, Only(s, Preparatory \ {"r_build", "w_build"})
  PROVE  Harmless(SavedRule, Look(w, s))
<1>1. Only(Look(w, s), (Preparatory \ {"r_build", "w_build"}) \cup {"other"})
  BY OnlyLook
<1>2. QED
  BY <1>1 DEF Only, Preparatory, Harmless, SavedRule

LEMMA SaveGives == \A w \in Worker : Gives(SavedRule, Look(w, Cmd("save")))
<1> SUFFICES ASSUME NEW w \in Worker PROVE Gives(SavedRule, Look(w, Cmd("save")))
  OBVIOUS
<1>1. Only(Cmd("save"), {"save"}) /\ Has(Look(w, Cmd("save")), "save")
  BY PlainAt
<1>2. Harmless(SavedRule, Look(w, Cmd("save")))
  BY <1>1, OnlyLess, SavedHarmless DEF Preparatory
<1>3. QED
  BY <1>1, <1>2, HasGives DEF SavedRule

ProxyPart == ForWorkers(<<"w_stop">>) \o Cmd("save") \o Cmd("routes") \o Cmd("r_remove")
DnsPart == Cmd("r_build") \o Cmd("save") \o Cmd("routes") \o ForWorkers(<<"w_stop">>) \o Cmd("r_remove")
RebuildPart == (ForWorkers(<<"w_stop">>) \o BuildImages \o ForWorkers(<<"w_rm">>) \o Cmd("r_remove"))
                 \o (Cmd("routes") \o Cmd("if_built") \o Networks)

LEMMA PartsClear == Clears(ProxyPart) /\ Clears(DnsPart) /\ Clears(RebuildPart)
<1> DEFINE stop == ForWorkers(<<"w_stop">>)
           Kind == Preparatory \ {"r_build", "w_build"}
<1>1. /\ Only(stop, Preparatory) /\ Only(stop, Kind)
      /\ \A w \in Worker : Has(Look(w, stop), "w_stop")
  BY PausesAt, OnlyLess DEF Preparatory
<1>2. ASSUME NEW c \in {"save", "routes", "if_built", "lan", "wan", "r_build", "w_build", "r_remove"}
      PROVE  /\ Only(Cmd(c), Preparatory) /\ (c \notin {"r_build", "w_build"} => Only(Cmd(c), Kind))
             /\ \A w \in Worker : Has(Look(w, Cmd(c)), c)
  BY PlainAt, OnlyLess DEF Preparatory
<1>3. /\ Only(Cmd("save"), Preparatory) /\ Only(Cmd("routes"), Kind) /\ Only(Cmd("r_remove"), Kind)
      /\ Only(Cmd("r_build"), Preparatory) /\ Only(Cmd("w_build"), Preparatory)
      /\ Only(Cmd("routes"), Preparatory) /\ Only(Cmd("r_remove"), Preparatory)
      /\ Only(Cmd("if_built"), Kind) /\ Only(Cmd("lan"), Kind) /\ Only(Cmd("wan"), Kind)
  BY <1>2
<1>4. ASSUME NEW w \in Worker
      PROVE  /\ Has(Look(w, Cmd("routes")), "routes") /\ Has(Look(w, Cmd("r_remove")), "r_remove")
             /\ Gives(SavedRule, Look(w, Cmd("save")))
  BY <1>2, SaveGives
<1>5. \A s : Only(s, Kind) => Only(s, Preparatory) /\ \A w : Harmless(SavedRule, Look(w, s))
  BY OnlyLess, SavedHarmless
<1> HIDE DEF Kind, stop
<1>6. Clears(ProxyPart)
  <2> DEFINE a == stop \o Cmd("save")
             b == a \o Cmd("routes")
             p == b \o Cmd("r_remove")
  <2>1. Only(a, Preparatory)
    BY <1>1, <1>3, OnlyConcat
  <2>2. \A w \in Worker : Has(Look(w, a), "w_stop") /\ Gives(SavedRule, Look(w, a))
    BY <1>1, <1>3, <1>4, LookHas
  <2> HIDE DEF a
  <2>3. Only(b, Preparatory)
    BY <1>3, <2>1, OnlyConcat
  <2>4. \A w \in Worker : /\ Has(Look(w, b), "w_stop") /\ Has(Look(w, b), "routes")
                          /\ Gives(SavedRule, Look(w, b))
    BY <1>3, <1>4, <1>5, <2>1, <2>2, LookHas
  <2> HIDE DEF b
  <2>5. Only(p, Preparatory)
    BY <1>3, <2>3, OnlyConcat
  <2>6. \A w \in Worker : /\ Has(Look(w, p), "w_stop") /\ Has(Look(w, p), "routes")
                          /\ Has(Look(w, p), "r_remove") /\ Gives(SavedRule, Look(w, p))
    BY <1>3, <1>4, <1>5, <2>3, <2>4, LookHas
  <2>7. p = ProxyPart
    BY DEF ProxyPart, a, b, stop
  <2> HIDE DEF p
  <2>8. QED
    BY <2>5, <2>6, <2>7 DEF Clears
<1>7. Clears(DnsPart)
  <2> DEFINE a == Cmd("r_build") \o Cmd("save")
             b == a \o Cmd("routes")
             c == b \o stop
             p == c \o Cmd("r_remove")
  <2>1. Only(a, Preparatory)
    BY <1>3, OnlyConcat
  <2>2. \A w \in Worker : Gives(SavedRule, Look(w, a))
    BY <1>3, <1>4, LookHas
  <2> HIDE DEF a
  <2>3. Only(b, Preparatory)
    BY <1>3, <2>1, OnlyConcat
  <2>4. \A w \in Worker : Has(Look(w, b), "routes") /\ Gives(SavedRule, Look(w, b))
    BY <1>3, <1>4, <1>5, <2>1, <2>2, LookHas
  <2> HIDE DEF b
  <2>5. Only(c, Preparatory)
    BY <1>1, <2>3, OnlyConcat
  <2>6. \A w \in Worker : /\ Has(Look(w, c), "w_stop") /\ Has(Look(w, c), "routes")
                          /\ Gives(SavedRule, Look(w, c))
    BY <1>1, <1>5, <2>3, <2>4, LookHas
  <2> HIDE DEF c
  <2>7. Only(p, Preparatory)
    BY <1>3, <2>5, OnlyConcat
  <2>8. \A w \in Worker : /\ Has(Look(w, p), "w_stop") /\ Has(Look(w, p), "routes")
                          /\ Has(Look(w, p), "r_remove") /\ Gives(SavedRule, Look(w, p))
    BY <1>3, <1>4, <1>5, <2>5, <2>6, LookHas
  <2>9. p = DnsPart
    BY DEF DnsPart, a, b, c, stop
  <2> HIDE DEF p
  <2>10. QED
    BY <2>7, <2>8, <2>9 DEF Clears
<1>8. Clears(RebuildPart)
  <2> DEFINE rm == ForWorkers(<<"w_rm">>)
             two == Cmd("r_build") \o Cmd("w_build")
             a == stop \o BuildImages
             b == a \o rm
             c == b \o Cmd("r_remove")
             d == Cmd("routes") \o Cmd("if_built") \o Networks
             p == c \o d
  <2>1. Only(rm, Kind) /\ Only(rm, Preparatory)
    <3> DEFINE s == <<"w_rm">>
    <3>1. s \in Seq(Name) /\ Len(s) \in 1..4 /\ \A i \in 1..Len(s) : s[i] \in Kind
      BY DEF Kind, Preparatory, Name, Preparing
    <3> HIDE DEF s
    <3>2. Only(ForWorkers(s), Kind)
      BY <3>1, ForWorkersOnly
    <3>3. QED
      BY <1>5, <3>2 DEF s
  <2>2. Only(two, Preparatory) /\ Only(BuildImages, Preparatory)
    BY <1>3, OnlyConcat DEF BuildImages
  <2>3. \A w \in Worker : Gives(SavedRule, Look(w, BuildImages))
    BY <1>3, <1>4, <2>2, LookHas DEF BuildImages
  <2>4. Only(d, Kind) /\ Only(d, Preparatory) /\ \A w \in Worker : Has(Look(w, d), "routes")
    <3> DEFINE e == Cmd("routes") \o Cmd("if_built")
    <3>1. Only(e, Kind) /\ Only(Networks, Kind)
      BY <1>3, OnlyConcat DEF Networks
    <3>2. \A w \in Worker : Has(Look(w, e), "routes")
      BY <1>3, <1>4, LookHas
    <3> HIDE DEF e
    <3>3. Only(e \o Networks, Kind) /\ \A w \in Worker : Has(Look(w, e \o Networks), "routes")
      BY <3>1, <3>2, OnlyConcat, LookHas
    <3>4. QED
      BY <1>5, <3>3 DEF e
  <2> HIDE DEF two, rm, d
  <2>5. Only(a, Preparatory)
    BY <1>1, <2>2, OnlyConcat
  <2>6. \A w \in Worker : Has(Look(w, a), "w_stop") /\ Gives(SavedRule, Look(w, a))
    BY <1>1, <2>2, <2>3, LookHas
  <2> HIDE DEF a
  <2>7. Only(b, Preparatory)
    BY <2>1, <2>5, OnlyConcat
  <2>8. \A w \in Worker : Has(Look(w, b), "w_stop") /\ Gives(SavedRule, Look(w, b))
    BY <1>5, <2>1, <2>5, <2>6, LookHas
  <2> HIDE DEF b
  <2>9. Only(c, Preparatory)
    BY <1>3, <2>7, OnlyConcat
  <2>10. \A w \in Worker : /\ Has(Look(w, c), "w_stop") /\ Has(Look(w, c), "r_remove")
                           /\ Gives(SavedRule, Look(w, c))
    BY <1>3, <1>4, <1>5, <2>7, <2>8, LookHas
  <2> HIDE DEF c
  <2>11. Only(p, Preparatory)
    BY <2>4, <2>9, OnlyConcat
  <2>12. \A w \in Worker : /\ Has(Look(w, p), "w_stop") /\ Has(Look(w, p), "routes")
                           /\ Has(Look(w, p), "r_remove") /\ Gives(SavedRule, Look(w, p))
    BY <1>5, <2>4, <2>9, <2>10, LookHas
  <2>13. p = RebuildPart
    BY DEF RebuildPart, a, b, c, d, rm, stop
  <2> HIDE DEF p
  <2>14. QED
    BY <2>11, <2>12, <2>13 DEF Clears
<1>9. QED
  BY <1>6, <1>7, <1>8

\* Each of the three changes keeps the rules of a change; that of a proxy, those of a swap.
Swaps(s) == \A w \in Worker : /\ Closed(DownRule, View(w, s)) /\ Relying(UnsavedRule, View(w, s))
                              /\ Closed(NeverRule, View(w, s))

LEMMA MenuChanges == Changes(ChangeProxy) /\ Changes(ApplyDns) /\ Changes(RebuildDeployment)
<1> DEFINE s == ForWorkers(WorkerStart)
<1>1. RouterStart \in Seq(Entry) /\ s \in Seq(Entry)
  BY RouterStartAt, WorkerStartAt DEF Only
<1>2. ProxyPart \in Seq(Entry) /\ DnsPart \in Seq(Entry) /\ RebuildPart \in Seq(Entry)
  BY PartsClear DEF Clears, Only
<1>3. ASSUME NEW p \in Seq(Entry) PROVE (p \o RouterStart) \o s = p \o Launching
  BY <1>1, ConcatChain, Zenon DEF Launching
<1>4. ChangeProxy = ProxyPart \o Launching
  BY <1>2, <1>3 DEF ChangeProxy, ProxyPart
<1>5. ApplyDns = DnsPart \o Launching
  BY <1>2, <1>3 DEF ApplyDns, DnsPart
<1>6. RebuildDeployment = RebuildPart \o Launching
  <2> DEFINE a == ForWorkers(<<"w_stop">>) \o BuildImages \o ForWorkers(<<"w_rm">>) \o Cmd("r_remove")
             b == Cmd("routes") \o Cmd("if_built") \o Networks
  <2>1. a \in Seq(Entry)
    BY PausingOnly, BuildImagesOnly, PlainAt, ConcatProperties DEF Only, Preparing
  <2>2. b \in Seq(Entry)
    BY PlainAt, ConcatProperties DEF Only, Networks
  <2>3. Launching \in Seq(Entry)
    BY <1>1, ConcatProperties DEF Launching
  <2>4. Deploy = (b \o RouterStart) \o s
    BY DEF Deploy
  <2>5. RebuildDeployment = a \o Deploy /\ RebuildPart = a \o b
    BY DEF RebuildDeployment, RebuildPart
  <2> HIDE DEF a, b
  <2>6. Deploy = b \o Launching
    BY <1>3, <2>2, <2>4
  <2>7. (a \o b) \o Launching = a \o (b \o Launching)
    BY <2>1, <2>2, <2>3, ConcatChain
  <2>8. QED
    BY <2>5, <2>6, <2>7, Zenon
<1>7. QED
  BY <1>4, <1>5, <1>6, PartsClear, ClearsChanges

LEMMA ProxySwaps == Swaps(ChangeProxy)
<1> SUFFICES ASSUME NEW w \in Worker
             PROVE  /\ Closed(DownRule, View(w, ChangeProxy)) /\ Relying(UnsavedRule, View(w, ChangeProxy))
                    /\ Closed(NeverRule, View(w, ChangeProxy))
  BY DEF Swaps
<1> DEFINE stop == ForWorkers(<<"w_stop">>)
           q == Cmd("save") \o Cmd("routes") \o Cmd("r_remove")
           a == Look(w, stop)
           b == Look(w, q)
           v == View(w, Launching)
<1>1. Only(stop, {"w_stop"}) /\ Has(a, "w_stop")
  BY PausesAt
<1>2. Only(q, {"save", "routes", "r_remove"})
  BY PlainCommands, CmdOnly, OnlyConcat
<1>3. /\ RouterStart \in Seq(Entry) /\ ForWorkers(WorkerStart) \in Seq(Entry)
      /\ Launching \in Seq(Entry)
  BY RouterStartAt, WorkerStartAt, LaunchingPromises DEF Only
<1>4. ChangeProxy = (stop \o q) \o Launching
  <2> DEFINE x == Cmd("save")
             y == Cmd("routes")
             z == Cmd("r_remove")
  <2>1. x \in Seq(Entry) /\ y \in Seq(Entry) /\ z \in Seq(Entry) /\ stop \in Seq(Entry)
    BY <1>1, PlainAt DEF Only
  <2>2. ChangeProxy = ((((stop \o x) \o y) \o z) \o RouterStart) \o ForWorkers(WorkerStart)
    BY DEF ChangeProxy
  <2>3. q = (x \o y) \o z
    OBVIOUS
  <2> HIDE DEF x, y, z, stop, q
  <2>4. stop \o x \in Seq(Entry) /\ x \o y \in Seq(Entry)
    BY <2>1, ConcatProperties
  <2>5. (stop \o x) \o y = stop \o (x \o y)
    BY <2>1, ConcatChain
  <2>6. (stop \o (x \o y)) \o z = stop \o ((x \o y) \o z)
    BY <2>1, <2>4, ConcatChain, ZenonT(30)
  <2>7. stop \o q \in Seq(Entry)
    BY <1>2, <2>1, ConcatProperties DEF Only
  <2>8. ((stop \o q) \o RouterStart) \o ForWorkers(WorkerStart) = (stop \o q) \o Launching
    BY <1>3, <2>7, ConcatChain DEF Launching
  <2>9. QED
    BY <2>2, <2>3, <2>5, <2>6, <2>8, Zenon
<1>5. Only(a, {"w_stop"} \cup {"other"}) /\ Only(b, {"save", "routes", "r_remove"} \cup {"other"})
  BY <1>1, <1>2, OnlyLook
<1>6. /\ Only(v, Routing \cup Starting \cup {"other", "end"}) /\ Relying(DownRule, v)
  BY LaunchingPromises
<1>7. View(w, ChangeProxy) = (a \o b) \o v
  <2>1. stop \in Seq(Entry) /\ q \in Seq(Entry) /\ stop \o q \in Seq(Entry)
    BY <1>1, <1>2, ConcatProperties DEF Only
  <2> HIDE DEF stop, q
  <2>2. View(w, (stop \o q) \o Launching) = Look(w, stop \o q) \o v
    BY <1>3, <2>1, ViewConcat
  <2>3. Look(w, stop \o q) = a \o b
    BY <2>1, LookConcat
  <2>4. QED
    BY <1>4, <2>2, <2>3
<1> HIDE DEF a, b, v, stop, q
<1>8. a \in Seq(Entry) /\ b \in Seq(Entry) /\ v \in Seq(Entry) /\ a \o b \in Seq(Entry)
  BY <1>5, <1>6, ConcatProperties DEF Only
<1>9. Closed(DownRule, (a \o b) \o v)
  <2>1. Mute(DownRule, a) /\ Harmless(DownRule, a) /\ Gives(DownRule, a)
    <3>1. Mute(DownRule, a)
      BY <1>5 DEF Only, Mute, DownRule, Name, Preparing, Routing, Starting, Ending
    <3>2. Harmless(DownRule, a)
      BY <1>5 DEF Only, Harmless, DownRule
    <3>3. QED
      BY <1>1, <3>1, <3>2, HasGives DEF DownRule, a
  <2>2. Harmless(DownRule, b)
    BY <1>5 DEF Only, Harmless, DownRule
  <2>3. Closed(DownRule, a \o b) /\ Gives(DownRule, a \o b)
    BY <1>8, <2>1, <2>2, MuteCloses, HarmlessRelies, ConcatCloses, ConcatGives
  <2>4. QED
    BY <1>6, <1>8, <2>3, ConcatCloses
<1>10. Relying(UnsavedRule, (a \o b) \o v)
  <2>1. Harmless(UnsavedRule, a)
    BY <1>5 DEF Only, Harmless, UnsavedRule
  <2>2. Mute(UnsavedRule, b)
    BY <1>5 DEF Only, Mute, UnsavedRule
  <2>3. Mute(UnsavedRule, v)
    BY <1>6 DEF Only, Mute, UnsavedRule, Routing, Starting
  <2>4. QED
    BY <1>8, <2>1, <2>2, <2>3, HarmlessRelies, ReliesThenMute
<1>11. Closed(NeverRule, (a \o b) \o v)
  <2>1. Mute(NeverRule, a) /\ Mute(NeverRule, b)
    BY <1>5 DEF Only, Mute, NeverRule
  <2>2. Mute(NeverRule, v)
    BY <1>6 DEF Only, Mute, NeverRule, Routing, Starting
  <2>3. QED
    BY <1>8, <2>1, <2>2, MuteCloses, ConcatMute
<1>12. QED
  BY <1>7, <1>9, <1>10, <1>11

-----------------------------------------------------------------------------
(***************************************************************************)
(* What one command does, and what each rule makes of it.                  *)
(***************************************************************************)
\* The command that runs, seen from worker w.
Sees(w) == Seen(w, Head(todo)).cmd

RouterRan(c) ==
  /\ c \notin {"r_remove", "r_profile", "r_create", "r_connect", "r_start", "r_stop"} => router' = router
  /\ c = "r_remove" => router' = NoContainer
  /\ c = "r_profile" => router' \in {NoContainer, router}
  /\ c = "r_create" => router' = IF Exists(router) THEN router ELSE NewRouter
  /\ c = "r_connect" => Exists(router) /\ router' = [router EXCEPT !.lan = TRUE]
  /\ c = "r_start" => Exists(router) /\ router' = IF Running(router) THEN router ELSE Booted(router)
  /\ c = "r_stop" => router' = IF Running(router) THEN [router EXCEPT !.state = "exited", !.healthy = FALSE]
                               ELSE router

WorkerRan(w) ==
  /\ Sees(w) \notin {"w_stop", "w_rm", "w_remove", "w_check", "w_create", "w_start"}
       => worker'[w] = worker[w]
  /\ Sees(w) = "w_stop" => worker'[w] = Stopped(worker[w])
  /\ Sees(w) \in {"w_rm", "w_remove"} => worker'[w] = NoContainer
  /\ Sees(w) = "w_check" => worker'[w] = IF Wanted(w) /\ Exists(worker[w]) /\ Outdated(worker[w])
                                         THEN NoContainer ELSE worker[w]
  /\ Sees(w) = "w_create" =>
       /\ Wanted(w) /\ ~Exists(worker[w]) => mem.wimg # 0
       /\ worker'[w] = IF Wanted(w) /\ ~Exists(worker[w])
                       THEN [state |-> "created", image |-> mem.wimg, apparmor |-> apparmor]
                       ELSE worker[w]
  /\ Sees(w) = "w_start" => worker'[w] = IF Wanted(w) THEN [worker[w] EXCEPT !.state = "running"]
                                         ELSE worker[w]

MemRan(c) ==
  /\ mem \in Configuration /\ mem' \in Configuration
  /\ mem'.proxy = mem.proxy /\ mem'.dns = mem.dns
  /\ c # "r_build" => mem'.rimg = mem.rimg
  /\ c # "w_build" => mem'.wimg = mem.wimg
  /\ \A w \in Worker : mem'.desired[w] = "running" => mem.desired[w] = "running"
  /\ \A w \in Worker : Sees(w) # "w_mark" => mem'.desired[w] = mem.desired[w]
  /\ c \notin {"r_build", "w_build", "w_mark"} => mem' = mem

Ran(c) ==
  /\ Step(c) /\ c \in Name \ {"if_built"} /\ UNCHANGED <<action, apparmor>>
  /\ config' = IF c = "save" THEN mem ELSE IF c = "forget" THEN None ELSE config
  /\ routes' = IF c = "routes" THEN mem.proxy ELSE IF c = "forget" THEN None ELSE routes
  /\ MemRan(c) /\ RouterRan(c) /\ \A w \in Worker : WorkerRan(w)
  /\ volume' \subseteq volume \cup Worker /\ nets' \subseteq nets \cup {"lan", "wan"}
  /\ actions' = actions

\* Only what is done for one worker is hidden from the others.
LEMMA SeesHead ==
  ASSUME Types, todo # <<>>, NEW c \in Name, Head(todo).cmd = c, NEW w
  PROVE  /\ Sees(w) \in {c, "other"} /\ (c \notin Hidden => Sees(w) = c)
         /\ c \in PerWorker => Subject \in Worker
         /\ c \in Hidden => Sees(w) = IF Subject = w THEN c ELSE "other"
<1>1. Head(todo) \in Entry /\ Head(todo).cmd = c
  BY HeadTailProperties DEF Types
<1>2. c \in PerWorker => Head(todo) \in [cmd : Name, w : Worker]
  <2>1. "other" \notin PerWorker /\ "end" \notin PerWorker
    BY DEF PerWorker, Starting
  <2>2. QED
    BY <1>1, <2>1 DEF Entry, Plain
<1>3. Head(todo).w = Subject
  BY DEF Subject
<1>4. QED
  BY <1>1, <1>2, <1>3 DEF Sees, Seen, Hidden

LEMMA SeesCommand ==
  ASSUME Types, NEW c \in Name, Step(c), NEW w
  PROVE  /\ Sees(w) \in {c, "other"} /\ (c \notin Hidden => Sees(w) = c)
         /\ c \in PerWorker => Subject \in Worker
         /\ c \in Hidden => Sees(w) = IF Subject = w THEN c ELSE "other"
BY SeesHead DEF Step

LEMMA RuleStep ==
  ASSUME Types, todo # <<>>, NEW w, NEW r, NEW before \in BOOLEAN, NEW after \in BOOLEAN,
         r.key \notin r.spoil, Kept(r, View(w, todo), before),
         Sees(w) = r.key => after,
         before /\ Sees(w) \notin r.spoil => after
  PROVE  Kept(r, View(w, Tail(todo)), after)
<1>1. todo \in Seq(Entry) /\ todo # <<>>
  BY DEF Types
<1>2. /\ View(w, todo) \in Seq(Entry) /\ View(w, todo) # <<>>
      /\ Head(View(w, todo)) = Seen(w, Head(todo)) /\ Tail(View(w, todo)) = View(w, Tail(todo))
  BY <1>1, ViewHead
<1>3. /\ Head(View(w, todo)).cmd = r.key => after
      /\ before /\ Head(View(w, todo)).cmd \notin r.spoil => after
  BY <1>2 DEF Sees
<1>4. Kept(r, Tail(View(w, todo)), after)
  BY <1>2, <1>3, TailKeeps
<1>5. QED
  BY <1>2, <1>4

\* A goal that is next may rely on its rule.
LEMMA RuleHead ==
  ASSUME Types, todo # <<>>, NEW w, NEW r, NEW holds \in BOOLEAN, Kept(r, View(w, todo), holds),
         Sees(w) \in r.goals
  PROVE  holds
<1>1. todo \in Seq(Entry)
  BY DEF Types
<1>2. /\ View(w, todo) \in Seq(Entry) /\ View(w, todo) # <<>>
      /\ Head(View(w, todo)) = Seen(w, Head(todo))
  BY <1>1, ViewHead
<1>3. QED
  BY <1>2, HeadRelies DEF Sees

LEMMA RuleEnd ==
  ASSUME todo = <<>>, NEW w, NEW r, NEW holds \in BOOLEAN, Kept(r, View(w, todo), holds),
         "end" \in r.goals
  PROVE  holds
BY ViewEmpty, HeadRelies

LEMMA HoldsBoolean ==
  ASSUME NEW w
  PROVE  /\ Current(w) \in BOOLEAN /\ There(w) \in BOOLEAN /\ Up(w) \in BOOLEAN /\ Idle(w) \in BOOLEAN
         /\ Down(w) \in BOOLEAN /\ Saved \in BOOLEAN /\ (~Saved) \in BOOLEAN /\ Written \in BOOLEAN
         /\ Fresh \in BOOLEAN /\ Runs \in BOOLEAN /\ (~Exists(router)) \in BOOLEAN
         /\ Current(w)' \in BOOLEAN /\ There(w)' \in BOOLEAN /\ Up(w)' \in BOOLEAN
         /\ Idle(w)' \in BOOLEAN /\ Down(w)' \in BOOLEAN /\ Saved' \in BOOLEAN
         /\ (~Saved)' \in BOOLEAN /\ Written' \in BOOLEAN /\ Fresh' \in BOOLEAN /\ Runs' \in BOOLEAN
         /\ (~Exists(router))' \in BOOLEAN
BY DEF Current, There, Up, Idle, Down, Saved, Written, Fresh, Runs, Exists, Running

\* Stopping or starting a container leaves what it was created from.
LEMMA ContainerEdits ==
  ASSUME NEW k \in WorkerContainer
  PROVE  /\ Exists(k) /\ Exists(Stopped(k)) /\ Exists([k EXCEPT !.state = "running"])
         /\ Stopped(k) \in WorkerContainer /\ ~Running(Stopped(k)) /\ Stopped(k).image = k.image
         /\ Stopped(k).apparmor = k.apparmor
         /\ [k EXCEPT !.state = "running"] \in WorkerContainer
         /\ Running([k EXCEPT !.state = "running"])
         /\ [k EXCEPT !.state = "running"].image = k.image
         /\ [k EXCEPT !.state = "running"].apparmor = k.apparmor
BY DEF WorkerContainer, Stopped, Running, Exists

LEMMA NothingThere == ~Exists(NoContainer) /\ ~Running(NoContainer) /\ Stopped(NoContainer) = NoContainer
BY DEF NoContainer, Exists, Running, Stopped

\* A container's image and profile stay what they were, and so does its absence.
Same(w) == /\ Exists(worker'[w]) = Exists(worker[w])
           /\ worker'[w].image = worker[w].image /\ worker'[w].apparmor = worker[w].apparmor

\* What a command does to worker w's container.
LEMMA WorkerEffect ==
  ASSUME Types, Rested, NEW w \in Worker, NEW c, Ran(c), Sees(w) = "w_start" => There(w)
  PROVE  /\ worker'[w] \in WorkerContainer \cup {NoContainer}
         /\ Sees(w) \notin {"w_rm", "w_remove", "w_check", "w_create"} => Same(w)
         /\ Sees(w) # "w_start" /\ Running(worker'[w]) => Running(worker[w])
         /\ Sees(w) = "w_start" => IF Wanted(w) THEN Exists(worker[w]) /\ Running(worker'[w])
                                   ELSE worker'[w] = worker[w]
         /\ Sees(w) \in {"w_stop", "w_rm", "w_remove"} => ~Running(worker'[w])
         /\ Sees(w) \notin {"w_stop", "w_rm", "w_remove", "w_check", "w_create"}
              => (Running(worker[w]) => Running(worker'[w]))
<1>1. worker[w] \in WorkerContainer \cup {NoContainer} /\ WorkerRan(w)
  BY DEF Rested, Ran
<1>2. CASE Sees(w) \notin {"w_stop", "w_rm", "w_remove", "w_check", "w_create", "w_start"}
  BY <1>1, <1>2 DEF WorkerRan, Same
<1>3. CASE Sees(w) = "w_stop"
  <2>1. worker'[w] = Stopped(worker[w])
    BY <1>1, <1>3 DEF WorkerRan
  <2>2. CASE worker[w] \in WorkerContainer
    BY <1>3, <2>1, <2>2, ContainerEdits DEF Same, Exists
  <2>3. CASE worker[w] = NoContainer
    BY <1>3, <2>1, <2>3, NothingThere DEF Same
  <2>4. QED
    BY <1>1, <2>2, <2>3
<1>4. CASE Sees(w) \in {"w_rm", "w_remove"}
  BY <1>1, <1>4, NothingThere DEF WorkerRan
<1>5. CASE Sees(w) = "w_check"
  BY <1>1, <1>5, NothingThere DEF WorkerRan
<1>6. CASE Sees(w) = "w_create"
  <2>1. CASE Wanted(w) /\ ~Exists(worker[w])
    <3>1. mem.wimg \in Image /\ mem.wimg # 0 /\ apparmor \in BOOLEAN
      BY <1>1, <1>6, <2>1 DEF Types, WorkerRan, Ran, MemRan, Configuration
    <3>2. worker'[w] = [state |-> "created", image |-> mem.wimg, apparmor |-> apparmor]
      BY <1>1, <1>6, <2>1 DEF WorkerRan
    <3>3. worker'[w] \in WorkerContainer /\ ~Running(worker'[w])
      BY <3>1, <3>2 DEF WorkerContainer, Running
    <3>4. QED
      BY <1>6, <3>3
  <2>2. CASE ~(Wanted(w) /\ ~Exists(worker[w]))
    BY <1>1, <1>6, <2>2 DEF WorkerRan
  <2>3. QED
    BY <2>1, <2>2
<1>7. CASE Sees(w) = "w_start"
  <2>1. CASE Wanted(w)
    <3>1. worker[w] \in WorkerContainer
      BY <1>1, <1>7, <2>1, NothingThere DEF There
    <3>2. worker'[w] = [worker[w] EXCEPT !.state = "running"]
      BY <1>1, <1>7, <2>1 DEF WorkerRan
    <3>3. QED
      BY <1>7, <2>1, <3>1, <3>2, ContainerEdits DEF Same, Exists
  <2>2. CASE ~Wanted(w)
    BY <1>1, <1>7, <2>2 DEF WorkerRan, Same
  <2>3. QED
    BY <2>1, <2>2
<1>8. QED
  BY <1>2, <1>3, <1>4, <1>5, <1>6, <1>7

\* The worker's container is checked, created and started.
LEMMA CreationSteps ==
  ASSUME Types, Rested, NEW w \in Worker, NEW c, Ran(c),
         Sees(w) = "w_start" => There(w), Sees(w) = "w_create" => Current(w)
  PROVE  /\ Sees(w) = "w_check" => Current(w)'
         /\ Current(w) /\ Sees(w) \notin CheckRule.spoil => Current(w)'
         /\ Sees(w) = "w_create" => There(w)'
         /\ There(w) /\ Sees(w) \notin CreatedRule.spoil => There(w)'
         /\ Sees(w) = "w_start" => Up(w)'
         /\ Up(w) /\ Sees(w) \notin UpRule.spoil => Up(w)'
<1>1. WorkerRan(w) /\ apparmor' = apparmor /\ (Wanted(w)' => Wanted(w)) /\ c \in Name /\ Step(c)
  BY DEF Ran, MemRan, Wanted
<1>2. Sees(w) \in {c, "other"} /\ (c = "w_build" => Sees(w) = "w_build")
  BY <1>1, SeesCommand DEF Hidden, PerWorker, Starting
<1>3. Sees(w) # "w_build" => mem'.wimg = mem.wimg
  BY <1>2 DEF Ran, MemRan
<1>4. Same(w) /\ Sees(w) # "w_build" /\ ~Outdated(worker[w]) => ~Outdated(worker[w])'
  BY <1>1, <1>3 DEF Same, Outdated
<1>5. /\ Sees(w) \notin {"w_rm", "w_remove", "w_check", "w_create"} => Same(w)
      /\ Sees(w) = "w_start" => IF Wanted(w) THEN Exists(worker[w]) /\ Running(worker'[w])
                                   ELSE worker'[w] = worker[w]
      /\ Sees(w) \notin {"w_stop", "w_rm", "w_remove", "w_check", "w_create"}
              => (Running(worker[w]) => Running(worker'[w]))
  BY WorkerEffect
<1>6. Sees(w) = "w_check" => Current(w)'
  BY <1>1, <1>3, NothingThere DEF WorkerRan, Current, Outdated
<1>7. ASSUME Current(w), Sees(w) \notin CheckRule.spoil PROVE Current(w)'
  <2>1. CASE Sees(w) \in {"w_rm", "w_remove"}
    BY <1>1, <2>1, NothingThere DEF WorkerRan, Current
  <2>2. CASE Sees(w) = "w_create"
    BY <1>1, <1>3, <1>7, <2>2 DEF WorkerRan, Current, Outdated
  <2>3. CASE Sees(w) \notin {"w_rm", "w_remove", "w_check", "w_create"}
    BY <1>1, <1>4, <1>5, <1>7, <2>3 DEF Current, CheckRule, Same
  <2>4. QED
    BY <1>6, <2>1, <2>2, <2>3
<1>8. Sees(w) = "w_create" => There(w)'
  <2> SUFFICES ASSUME Sees(w) = "w_create", Wanted(w) PROVE Exists(worker[w])' /\ ~Outdated(worker[w])'
    BY <1>1 DEF There
  <2>1. CASE Exists(worker[w])
    BY <1>1, <1>3, <2>1 DEF WorkerRan, Current, Outdated
  <2>2. CASE ~Exists(worker[w])
    <3>1. worker'[w] = [state |-> "created", image |-> mem.wimg, apparmor |-> apparmor]
      BY <1>1, <2>2 DEF WorkerRan
    <3>2. QED
      BY <1>1, <1>3, <3>1 DEF Outdated, Exists
  <2>3. QED
    BY <2>1, <2>2
<1>9. ASSUME There(w), Sees(w) \notin CreatedRule.spoil PROVE There(w)'
  <2>1. CASE Sees(w) = "w_check"
    BY <1>1, <1>3, <1>9, <2>1 DEF WorkerRan, There, Outdated
  <2>2. CASE Sees(w) \notin {"w_rm", "w_remove", "w_check", "w_create"}
    BY <1>1, <1>4, <1>5, <1>9, <2>2 DEF There, CreatedRule, Same
  <2>3. QED
    BY <1>8, <1>9, <2>1, <2>2 DEF CreatedRule
<1>10. Sees(w) = "w_start" => Up(w)'
  BY <1>1, <1>5, <1>9 DEF Up, CreatedRule
<1>11. ASSUME Up(w), Sees(w) \notin UpRule.spoil PROVE Up(w)'
  <2>1. There(w)'
    BY <1>9, <1>11 DEF Up, UpRule, CreatedRule
  <2>2. CASE Sees(w) \in {"w_check", "w_create"}
    BY <1>1, <1>11, <2>1, <2>2 DEF WorkerRan, Up, There
  <2>3. CASE Sees(w) \notin {"w_check", "w_create"}
    BY <1>1, <1>5, <1>11, <2>1, <2>3 DEF Up, UpRule
  <2>4. QED
    BY <2>2, <2>3
<1>12. QED
  BY <1>6, <1>7, <1>8, <1>9, <1>10, <1>11

\* The worker is stopped, or was.
LEMMA StopSteps ==
  ASSUME Types, Rested, NEW w \in Worker, NEW c, Ran(c), Sees(w) = "w_start" => There(w)
  PROVE  /\ Sees(w) = "w_stop" => Idle(w)' /\ Down(w)'
         /\ Idle(w) /\ Sees(w) \notin IdleRule.spoil => Idle(w)'
         /\ Down(w) /\ Sees(w) \notin DownRule.spoil => Down(w)'
<1>1. /\ Sees(w) # "w_start" /\ Running(worker'[w]) => Running(worker[w])
      /\ Sees(w) = "w_start" /\ ~Wanted(w) => worker'[w] = worker[w]
      /\ Sees(w) = "w_stop" => ~Running(worker'[w])
  BY WorkerEffect
<1>2. Sees(w) # "w_mark" => Wanted(w)' = Wanted(w)
  BY DEF Ran, MemRan, Wanted
<1>3. QED
  BY <1>1, <1>2 DEF Idle, Down, IdleRule, DownRule

\* The configuration and the routes are written.
LEMMA FileSteps ==
  ASSUME Types, NEW w \in Worker, NEW c, Ran(c)
  PROVE  /\ Sees(w) = "save" => Saved'
         /\ Saved /\ Sees(w) \notin SavedRule.spoil => Saved'
         /\ ~Saved /\ Sees(w) \notin UnsavedRule.spoil => ~Saved'
         /\ Sees(w) = "routes" => Written'
         /\ Written /\ Sees(w) \notin WrittenRule.spoil => Written'
<1>1. c \in Name /\ Step(c)
  BY DEF Ran
<1>2. Sees(w) \in {c, "other"} /\ (c \notin Hidden => Sees(w) = c)
  BY <1>1, SeesCommand
<1>3. \A d \in {"save", "routes", "forget", "w_mark", "r_build", "w_build"} : d \notin Hidden /\ d # "other"
  BY DEF Hidden, PerWorker, Starting
<1>4. \A d \in {"save", "routes", "forget", "w_mark", "r_build", "w_build"} : (c = d) = (Sees(w) = d)
  BY <1>2, <1>3
<1>5. /\ config' = IF c = "save" THEN mem ELSE IF c = "forget" THEN None ELSE config
      /\ routes' = IF c = "routes" THEN mem.proxy ELSE IF c = "forget" THEN None ELSE routes
      /\ mem'.proxy = mem.proxy
      /\ c \notin {"r_build", "w_build", "w_mark"} => mem' = mem
  BY DEF Ran, MemRan
<1>6. (Sees(w) = "save" => Saved') /\ (Saved /\ Sees(w) \notin SavedRule.spoil => Saved')
  BY <1>4, <1>5 DEF Saved, SavedRule
<1>7. ~Saved /\ Sees(w) \notin UnsavedRule.spoil => ~Saved'
  BY <1>4, <1>5 DEF Saved, UnsavedRule
<1>8. (Sees(w) = "routes" => Written') /\ (Written /\ Sees(w) \notin WrittenRule.spoil => Written')
  BY <1>4, <1>5 DEF Written, WrittenRule
<1>9. QED
  BY <1>6, <1>7, <1>8

\* The router is removed, created and started.
LEMMA RouterSteps ==
  ASSUME Types, NEW w \in Worker, NEW c, Ran(c),
         Sees(w) = "r_create" => ~Exists(router) /\ Written
  PROVE  /\ Sees(w) = "r_remove" => ~Exists(router')
         /\ ~Exists(router) /\ Sees(w) \notin AbsentRule.spoil => ~Exists(router')
         /\ Sees(w) = "r_create" => Fresh'
         /\ Fresh /\ Sees(w) \notin FreshRule.spoil => Fresh'
         /\ Sees(w) = "r_start" => Runs'
         /\ Runs /\ Sees(w) \notin RunsRule.spoil => Runs'
<1>1. c \in Name /\ Step(c) /\ RouterRan(c)
  BY DEF Ran
<1>2. Sees(w) \in {c, "other"} /\ (c \notin Hidden => Sees(w) = c)
  BY <1>1, SeesCommand
<1> DEFINE Touches == {"r_remove", "r_profile", "r_create", "r_connect", "r_start", "r_stop", "r_build",
                       "forget", "routes"}
<1>3. \A d \in Touches : d \notin Hidden /\ d # "other"
  BY DEF Hidden, PerWorker, Starting
<1>4. \A d \in Touches : (c = d) = (Sees(w) = d)
  BY <1>2, <1>3
<1>5. /\ routes' = IF c = "routes" THEN mem.proxy ELSE IF c = "forget" THEN None ELSE routes
      /\ mem'.proxy = mem.proxy /\ mem'.dns = mem.dns /\ (c # "r_build" => mem'.rimg = mem.rimg)
  BY DEF Ran, MemRan
<1>6. router \in RouterContainer \/ router = NoContainer
  BY DEF Types
<1>7. ~Exists(NoContainer) /\ ~Running(NoContainer)
  BY NothingThere
<1>8. /\ Sees(w) = "r_remove" => ~Exists(router')
      /\ ~Exists(router) /\ Sees(w) \notin AbsentRule.spoil => ~Exists(router')
  <2>1. c = "r_remove" => ~Exists(router')
    BY <1>1, <1>7 DEF RouterRan
  <2>2. ASSUME ~Exists(router), c \notin {"r_create", "r_start"} PROVE ~Exists(router')
    BY <1>1, <1>7, <2>2 DEF RouterRan, Exists, Running
  <2>3. QED
    BY <1>4, <2>1, <2>2 DEF AbsentRule
<1>9. Sees(w) = "r_create" => Fresh'
  <2> SUFFICES ASSUME c = "r_create" PROVE Fresh'
    BY <1>4
  <2>1. router' = NewRouter /\ Written
    BY <1>1, <1>4 DEF RouterRan
  <2>2. Exists(router') /\ ~Running(router') /\ router'.dns = mem.dns /\ router'.image = mem.rimg
    BY <2>1 DEF NewRouter, Exists, Running
  <2>3. QED
    BY <1>5, <2>1, <2>2 DEF Fresh, Written
<1>10. ASSUME Fresh, Sees(w) \notin FreshRule.spoil PROVE Fresh'
  <2>1. c \notin {"r_build", "r_remove", "r_profile", "forget"}
    BY <1>4, <1>10 DEF FreshRule
  <2>2. Written' /\ router \in RouterContainer
    BY <1>5, <1>6, <1>7, <1>10, <2>1 DEF Fresh, Written
  <2>3. mem'.dns = mem.dns /\ mem'.rimg = mem.rimg /\ mem'.proxy = mem.proxy /\ routes = mem.proxy
    BY <1>5, <1>10, <2>1 DEF Fresh, Written
  <2>4. CASE c \notin {"r_create", "r_connect", "r_start", "r_stop"}
    BY <1>1, <1>10, <2>1, <2>2, <2>3, <2>4 DEF RouterRan, Fresh
  <2>5. CASE c = "r_create"
    BY <1>1, <1>10, <2>2, <2>3, <2>5 DEF RouterRan, Fresh
  <2>6. CASE c = "r_connect"
    <3>1. router' = [router EXCEPT !.lan = TRUE]
      BY <1>1, <2>6 DEF RouterRan
    <3>2. /\ router'.state = router.state /\ router'.dns = router.dns /\ router'.image = router.image
          /\ router'.routes = router.routes
      BY <2>2, <3>1 DEF RouterContainer
    <3>3. QED
      BY <1>10, <2>2, <2>3, <3>2 DEF Fresh, Exists, Running
  <2>7. CASE c = "r_start"
    <3>1. router' = IF Running(router) THEN router ELSE Booted(router)
      BY <1>1, <2>7 DEF RouterRan
    <3>2. CASE Running(router)
      BY <1>10, <2>2, <2>3, <3>1, <3>2 DEF Fresh
    <3>3. CASE ~Running(router)
      <4>1. /\ router'.state = "running" /\ router'.dns = router.dns /\ router'.image = router.image
            /\ router'.routes = routes
        BY <2>2, <3>1, <3>3 DEF RouterContainer, Booted
      <4>2. QED
        BY <1>10, <2>2, <2>3, <4>1 DEF Fresh, Exists, Running
    <3>4. QED
      BY <3>2, <3>3
  <2>8. CASE c = "r_stop"
    <3>1. router' = IF Running(router) THEN [router EXCEPT !.state = "exited", !.healthy = FALSE]
                    ELSE router
      BY <1>1, <2>8 DEF RouterRan
    <3>2. CASE Running(router)
      <4>1. /\ router'.state = "exited" /\ router'.dns = router.dns /\ router'.image = router.image
            /\ router'.routes = router.routes
        BY <2>2, <3>1, <3>2 DEF RouterContainer
      <4>2. QED
        BY <1>10, <2>2, <2>3, <4>1 DEF Fresh, Exists, Running
    <3>3. CASE ~Running(router)
      BY <1>10, <2>2, <2>3, <3>1, <3>3 DEF Fresh
    <3>4. QED
      BY <3>2, <3>3
  <2>9. QED
    BY <2>4, <2>5, <2>6, <2>7, <2>8
<1>11. ASSUME NEW r \in RouterContainer PROVE Running(Booted(r)) /\ Running([r EXCEPT !.lan = TRUE]) = Running(r)
  BY DEF RouterContainer, Booted, Running
<1>12. Sees(w) = "r_start" => Runs'
  <2> SUFFICES ASSUME c = "r_start" PROVE Runs'
    BY <1>4
  <2>1. Exists(router) /\ router' = IF Running(router) THEN router ELSE Booted(router)
    BY <1>1 DEF RouterRan
  <2>2. QED
    BY <1>6, <1>7, <1>11, <2>1 DEF Runs
<1>13. ASSUME Runs, Sees(w) \notin RunsRule.spoil PROVE Runs'
  <2>1. c \notin {"r_remove", "r_profile", "r_stop"} /\ Running(router) /\ Exists(router)
    BY <1>4, <1>13 DEF RunsRule, Runs, Running, Exists
  <2>2. router \in RouterContainer
    BY <1>6, <1>7, <2>1
  <2>3. QED
    BY <1>1, <1>11, <2>1, <2>2 DEF RouterRan, Runs
<1>14. QED
  BY <1>8, <1>9, <1>10, <1>12, <1>13

\* The rules are kept by any command but the one that may build.
LEMMA RulesStep ==
  ASSUME WInv, NEW c, Ran(c)
  PROVE  WorkerRules' /\ ChangeRules' /\ SwapRules'
<1>1. Types /\ Rested /\ Step(c) /\ todo' = Tail(todo) /\ todo # <<>> /\ action' = action
  BY DEF WInv, IInv, Ran, Step
<1>2. ASSUME NEW w \in Worker
      PROVE  /\ Sees(w) = "w_start" => There(w)
             /\ Sees(w) = "w_create" => Current(w)
  <2>1. Kept(CheckRule, View(w, todo), Current(w)) /\ Kept(CreatedRule, View(w, todo), There(w))
    BY DEF WInv, WorkerRules
  <2>2. Current(w) \in BOOLEAN /\ There(w) \in BOOLEAN
    BY HoldsBoolean
  <2>3. QED
    BY <1>1, <2>1, <2>2, RuleHead DEF CheckRule, CreatedRule
<1>3. WorkerRules'
  <2> SUFFICES ASSUME NEW w \in Worker
               PROVE  /\ Kept(CheckRule, View(w, Tail(todo)), Current(w)')
                      /\ Kept(CreatedRule, View(w, Tail(todo)), There(w)')
    BY <1>1 DEF WorkerRules
  <2>1. Kept(CheckRule, View(w, todo), Current(w)) /\ Kept(CreatedRule, View(w, todo), There(w))
    BY DEF WInv, WorkerRules
  <2>2. /\ Current(w) \in BOOLEAN /\ There(w) \in BOOLEAN
        /\ Current(w)' \in BOOLEAN /\ There(w)' \in BOOLEAN
    BY HoldsBoolean
  <2>3. /\ Sees(w) = CheckRule.key => Current(w)'
        /\ Current(w) /\ Sees(w) \notin CheckRule.spoil => Current(w)'
        /\ Sees(w) = CreatedRule.key => There(w)'
        /\ There(w) /\ Sees(w) \notin CreatedRule.spoil => There(w)'
    BY <1>1, <1>2, CreationSteps DEF CheckRule, CreatedRule
  <2>4. Kept(CheckRule, View(w, Tail(todo)), Current(w)')
    BY <1>1, <2>1, <2>2, <2>3, RuleStep DEF CheckRule
  <2>5. Kept(CreatedRule, View(w, Tail(todo)), There(w)')
    BY <1>1, <2>1, <2>2, <2>3, RuleStep DEF CreatedRule
  <2>6. QED
    BY <2>4, <2>5
<1>4. ASSUME action \in {"proxy", "dns", "rebuild"}, NEW w \in Worker
      PROVE  /\ Kept(UpRule, View(w, Tail(todo)), Up(w)')
             /\ Kept(IdleRule, View(w, Tail(todo)), Idle(w)')
             /\ Kept(SavedRule, View(w, Tail(todo)), Saved')
             /\ Kept(AbsentRule, View(w, Tail(todo)), (~Exists(router))')
             /\ Kept(WrittenRule, View(w, Tail(todo)), Written')
             /\ Kept(FreshRule, View(w, Tail(todo)), Fresh')
             /\ Kept(RunsRule, View(w, Tail(todo)), Runs')
  <2>1. /\ Kept(UpRule, View(w, todo), Up(w)) /\ Kept(IdleRule, View(w, todo), Idle(w))
        /\ Kept(SavedRule, View(w, todo), Saved) /\ Kept(AbsentRule, View(w, todo), ~Exists(router))
        /\ Kept(WrittenRule, View(w, todo), Written) /\ Kept(FreshRule, View(w, todo), Fresh)
        /\ Kept(RunsRule, View(w, todo), Runs)
    BY <1>4 DEF WInv, ChangeRules
  <2>2. /\ Up(w) \in BOOLEAN /\ Idle(w) \in BOOLEAN /\ Saved \in BOOLEAN /\ (~Exists(router)) \in BOOLEAN
        /\ Written \in BOOLEAN /\ Fresh \in BOOLEAN /\ Runs \in BOOLEAN
    BY HoldsBoolean
  <2>3. /\ Up(w)' \in BOOLEAN /\ Idle(w)' \in BOOLEAN /\ Saved' \in BOOLEAN
        /\ (~Exists(router))' \in BOOLEAN /\ Written' \in BOOLEAN /\ Fresh' \in BOOLEAN /\ Runs' \in BOOLEAN
    BY HoldsBoolean
  <2>4. Sees(w) = "r_create" => ~Exists(router) /\ Written
    BY <1>1, <2>1, <2>2, RuleHead DEF AbsentRule, WrittenRule
  <2>5. /\ Sees(w) = UpRule.key => Up(w)'
        /\ Up(w) /\ Sees(w) \notin UpRule.spoil => Up(w)'
    BY <1>1, <1>2, CreationSteps DEF UpRule
  <2>6. /\ Sees(w) = IdleRule.key => Idle(w)'
        /\ Idle(w) /\ Sees(w) \notin IdleRule.spoil => Idle(w)'
    BY <1>1, <1>2, StopSteps DEF IdleRule
  <2>7. /\ Sees(w) = SavedRule.key => Saved'
        /\ Saved /\ Sees(w) \notin SavedRule.spoil => Saved'
        /\ Sees(w) = WrittenRule.key => Written'
        /\ Written /\ Sees(w) \notin WrittenRule.spoil => Written'
    BY <1>1, FileSteps DEF SavedRule, WrittenRule
  <2>8. /\ Sees(w) = AbsentRule.key => (~Exists(router))'
        /\ ~Exists(router) /\ Sees(w) \notin AbsentRule.spoil => (~Exists(router))'
        /\ Sees(w) = FreshRule.key => Fresh'
        /\ Fresh /\ Sees(w) \notin FreshRule.spoil => Fresh'
        /\ Sees(w) = RunsRule.key => Runs'
        /\ Runs /\ Sees(w) \notin RunsRule.spoil => Runs'
    BY <1>1, <2>4, RouterSteps DEF AbsentRule, FreshRule, RunsRule
  <2>9. Kept(UpRule, View(w, Tail(todo)), Up(w)')
    BY <1>1, <2>1, <2>2, <2>3, <2>5, RuleStep DEF UpRule
  <2>10. Kept(IdleRule, View(w, Tail(todo)), Idle(w)')
    BY <1>1, <2>1, <2>2, <2>3, <2>6, RuleStep DEF IdleRule
  <2>11. Kept(SavedRule, View(w, Tail(todo)), Saved')
    BY <1>1, <2>1, <2>2, <2>3, <2>7, RuleStep DEF SavedRule
  <2>12. Kept(AbsentRule, View(w, Tail(todo)), (~Exists(router))')
    BY <1>1, <2>1, <2>2, <2>3, <2>8, RuleStep DEF AbsentRule
  <2>13. Kept(WrittenRule, View(w, Tail(todo)), Written')
    BY <1>1, <2>1, <2>2, <2>3, <2>7, RuleStep DEF WrittenRule
  <2>14. Kept(FreshRule, View(w, Tail(todo)), Fresh')
    BY <1>1, <2>1, <2>2, <2>3, <2>8, RuleStep DEF FreshRule
  <2>15. Kept(RunsRule, View(w, Tail(todo)), Runs')
    BY <1>1, <2>1, <2>2, <2>3, <2>8, RuleStep DEF RunsRule
  <2>16. QED
    BY <2>9, <2>10, <2>11, <2>12, <2>13, <2>14, <2>15
<1>5. ChangeRules'
  BY <1>1, <1>4 DEF ChangeRules
<1>6. ASSUME action = "proxy", NEW w \in Worker
      PROVE  /\ Kept(DownRule, View(w, Tail(todo)), Down(w)')
             /\ Kept(UnsavedRule, View(w, Tail(todo)), (~Saved)')
             /\ Kept(NeverRule, View(w, Tail(todo)), FALSE)
  <2>1. /\ Kept(DownRule, View(w, todo), Down(w)) /\ Kept(UnsavedRule, View(w, todo), ~Saved)
        /\ Kept(NeverRule, View(w, todo), FALSE)
    BY <1>6 DEF WInv, SwapRules
  <2>2. /\ Down(w) \in BOOLEAN /\ (~Saved) \in BOOLEAN /\ Down(w)' \in BOOLEAN /\ (~Saved)' \in BOOLEAN
    BY HoldsBoolean
  <2>3. /\ Sees(w) = DownRule.key => Down(w)'
        /\ Down(w) /\ Sees(w) \notin DownRule.spoil => Down(w)'
    BY <1>1, <1>2, StopSteps DEF DownRule
  <2>4. Sees(w) # "none"
    <3>1. c \in Name
      BY DEF Ran
    <3>2. Sees(w) \in Name \cup {"other"}
      BY <1>1, <3>1, SeesCommand
    <3>3. QED
      BY <3>2 DEF Name, Preparing, Routing, Starting, Ending
  <2>5. /\ Sees(w) = UnsavedRule.key => (~Saved)'
        /\ ~Saved /\ Sees(w) \notin UnsavedRule.spoil => (~Saved)'
    BY <1>1, <2>4, FileSteps DEF UnsavedRule
  <2>6. Kept(DownRule, View(w, Tail(todo)), Down(w)')
    BY <1>1, <2>1, <2>2, <2>3, RuleStep DEF DownRule
  <2>7. Kept(UnsavedRule, View(w, Tail(todo)), (~Saved)')
    BY <1>1, <2>1, <2>2, <2>5, RuleStep DEF UnsavedRule
  <2>8. Kept(NeverRule, View(w, Tail(todo)), FALSE)
    BY <1>1, <2>1, <2>4, RuleStep DEF NeverRule
  <2>9. QED
    BY <2>6, <2>7, <2>8
<1>7. SwapRules'
  BY <1>1, <1>6 DEF SwapRules
<1>8. QED
  BY <1>3, <1>5, <1>7

\* Commands that are not done for one worker, and those that change one worker's container.
LEMMA DeploymentCommand ==
  ASSUME IInv, NEW c \in Name \ (PerWorker \cup {"if_built"}), Step(c), MemRan(c), RouterRan(c),
         UNCHANGED <<worker, volume, Rest>>, nets' \subseteq nets \cup {"lan", "wan"},
         config' = IF c = "save" THEN mem ELSE IF c = "forget" THEN None ELSE config,
         routes' = IF c = "routes" THEN mem.proxy ELSE IF c = "forget" THEN None ELSE routes
  PROVE  Ran(c)
<1>1. \A w : Sees(w) = c
  BY SeesCommand DEF IInv, Hidden
<1>2. \A w \in Worker : WorkerRan(w)
  BY <1>1 DEF WorkerRan, PerWorker, Starting
<1>3. QED
  BY <1>2 DEF Ran, Rest

LEMMA MemStays ==
  ASSUME IInv, NEW c, Step(c), mem' = mem PROVE MemRan(c)
<1>1. mem \in Configuration
  BY RestTyped DEF IInv
<1>2. QED
  BY <1>1 DEF MemRan

LEMMA WorkerCommand ==
  ASSUME IInv, NEW c \in Hidden \ {"w_volume"}, Step(c), NEW k, WorkerIs(Subject, k),
         Subject \in Worker /\ Sees(Subject) = c /\ worker'[Subject] = k => WorkerRan(Subject)
  PROVE  Ran(c)
<1>1. c \in Name \ {"if_built"} /\ c \in PerWorker /\ c # "other" /\ c # "w_mark"
  BY DEF Hidden, PerWorker, Name, Preparing, Starting, Ending
<1>2. Subject \in Worker /\ \A w : Sees(w) = IF Subject = w THEN c ELSE "other"
  BY <1>1, SeesCommand DEF IInv
<1>3. /\ worker' = [worker EXCEPT ![Subject] = k] /\ worker \in [Worker -> Container]
      /\ UNCHANGED <<disk, mem, router, volume, nets, built, Rest>>
  BY DEF WorkerIs, IInv, Types
<1>4. WorkerRan(Subject)
  BY <1>2, <1>3
<1>5. ASSUME NEW w \in Worker, w # Subject PROVE WorkerRan(w)
  BY <1>2, <1>3, <1>5 DEF WorkerRan
<1>6. MemRan(c)
  BY <1>3, MemStays
<1>7. RouterRan(c)
  BY <1>1, <1>3 DEF RouterRan, PerWorker, Starting
<1>8. config' = config /\ routes' = routes
  BY <1>3 DEF disk
<1>9. c \notin {"save", "forget", "routes"}
  BY <1>1 DEF PerWorker, Starting
<1>10. QED
  BY <1>1, <1>2, <1>3, <1>4, <1>5, <1>6, <1>7, <1>8, <1>9 DEF Ran, Rest

Plainly == SaveConfig \/ WriteRoutes \/ ForgetConfig \/ BuildRouter \/ BuildWorker \/ NetworkCommand
RouterCommand == RouterRemove \/ RouterProfile \/ RouterCreate \/ RouterConnect \/ RouterStartCommand
                   \/ RouterWait \/ RouterStop
ForOneWorker == WorkerStop \/ WorkerMark \/ WorkerRm \/ WorkerRemove \/ WorkerCheck \/ WorkerVolume
                  \/ WorkerCreate \/ WorkerStartCommand

LEMMA PlainlyRan == ASSUME IInv, Plainly PROVE \E c : Ran(c)
<1>1. CASE SaveConfig
  <2>1. Step("save") /\ MemRan("save")
    BY <1>1, MemStays DEF SaveConfig
  <2>2. RouterRan("save") /\ "save" \in Name \ (PerWorker \cup {"if_built"})
    BY <1>1 DEF SaveConfig, RouterRan, dock, Name, Ending, PerWorker, Starting
  <2>3. Ran("save")
    BY <1>1, <2>1, <2>2, DeploymentCommand DEF SaveConfig, dock
  <2>4. QED
    BY <2>3
<1>2. CASE WriteRoutes
  <2>1. Step("routes") /\ MemRan("routes")
    BY <1>2, MemStays DEF WriteRoutes
  <2>2. RouterRan("routes") /\ "routes" \in Name \ (PerWorker \cup {"if_built"})
    BY <1>2 DEF WriteRoutes, RouterRan, dock, Name, Preparing, PerWorker, Starting
  <2>3. Ran("routes")
    BY <1>2, <2>1, <2>2, DeploymentCommand DEF WriteRoutes, dock
  <2>4. QED
    BY <2>3
<1>3. CASE ForgetConfig
  <2>1. Step("forget") /\ MemRan("forget")
    BY <1>3, MemStays DEF ForgetConfig
  <2>2. RouterRan("forget") /\ "forget" \in Name \ (PerWorker \cup {"if_built"})
    BY <1>3 DEF ForgetConfig, RouterRan, dock, Name, Ending, PerWorker, Starting
  <2>3. Ran("forget")
    BY <1>3, <2>1, <2>2, DeploymentCommand DEF ForgetConfig, dock
  <2>4. QED
    BY <2>3
<1>4. CASE BuildRouter
  <2>1. Step("r_build") /\ mem \in Configuration /\ mem' = [mem EXCEPT !.rimg = built']
    BY <1>4, RestTyped DEF BuildRouter, IInv
  <2>2. built' \in Image
    BY <1>4, ConstantsAssumption DEF BuildRouter, IInv, Types, Image
  <2>3. MemRan("r_build")
    <3>1. /\ mem' \in Configuration /\ mem'.proxy = mem.proxy /\ mem'.dns = mem.dns
          /\ mem'.wimg = mem.wimg /\ mem'.desired = mem.desired
      BY <2>1, <2>2 DEF Configuration
    <3>2. QED
      BY <2>1, <3>1 DEF MemRan
  <2>4. RouterRan("r_build") /\ "r_build" \in Name \ (PerWorker \cup {"if_built"})
    BY <1>4 DEF BuildRouter, RouterRan, dock, Name, Preparing, PerWorker, Starting
  <2>5. Ran("r_build")
    BY <1>4, <2>1, <2>3, <2>4, DeploymentCommand DEF BuildRouter, dock, disk
  <2>6. QED
    BY <2>5
<1>5. CASE BuildWorker
  <2>1. Step("w_build") /\ mem \in Configuration /\ mem' = [mem EXCEPT !.wimg = built]
    BY <1>5, RestTyped DEF BuildWorker, IInv
  <2>2. built \in Image
    BY DEF IInv, Types
  <2>3. MemRan("w_build")
    <3>1. /\ mem' \in Configuration /\ mem'.proxy = mem.proxy /\ mem'.dns = mem.dns
          /\ mem'.rimg = mem.rimg /\ mem'.desired = mem.desired
      BY <2>1, <2>2 DEF Configuration
    <3>2. QED
      BY <2>1, <3>1 DEF MemRan
  <2>4. RouterRan("w_build") /\ "w_build" \in Name \ (PerWorker \cup {"if_built"})
    BY <1>5 DEF BuildWorker, RouterRan, dock, Name, Preparing, PerWorker, Starting
  <2>5. Ran("w_build")
    BY <1>5, <2>1, <2>3, <2>4, DeploymentCommand DEF BuildWorker, dock, disk
  <2>6. QED
    BY <2>5
<1>6. CASE NetworkCommand
  <2>1. PICK c \in {"lan", "wan", "lan_rm", "wan_rm"} :
           Step(c) /\ nets' \subseteq nets \cup {"lan", "wan"}
    BY <1>6 DEF NetworkCommand
  <2>2. UNCHANGED <<disk, mem, router, worker, volume, built, Rest>>
    BY <1>6 DEF NetworkCommand
  <2>3. MemRan(c)
    BY <2>1, <2>2, MemStays
  <2>4. RouterRan(c) /\ c \in Name \ (PerWorker \cup {"if_built"})
    BY <2>2 DEF RouterRan, Name, Preparing, Ending, PerWorker, Starting
  <2>5. Ran(c)
    BY <2>1, <2>2, <2>3, <2>4, DeploymentCommand DEF disk
  <2>6. QED
    BY <2>5
<1>7. QED
  BY <1>1, <1>2, <1>3, <1>4, <1>5, <1>6 DEF Plainly

LEMMA RouterCommandRan == ASSUME IInv, RouterCommand PROVE \E c : Ran(c)
<1>1. PICK c, r : c \in Routing \cup {"r_remove", "r_stop"} /\ Step(c) /\ RouterIs(r) /\ RouterRan(c)
  <2>1. CASE RouterRemove
    <3>1. Step("r_remove") /\ RouterIs(NoContainer) /\ RouterRan("r_remove")
      BY <2>1 DEF RouterRemove, RouterIs, RouterRan
    <3>2. QED
      BY <3>1
  <2>2. CASE RouterProfile
    <3>1. PICK r \in {NoContainer, router} : Step("r_profile") /\ RouterIs(r)
      BY <2>2 DEF RouterProfile
    <3>2. RouterRan("r_profile")
      BY <3>1 DEF RouterIs, RouterRan
    <3>3. QED
      BY <3>1, <3>2 DEF Routing
  <2>3. CASE RouterCreate
    <3>1. /\ Step("r_create") /\ RouterIs(IF Exists(router) THEN router ELSE NewRouter)
          /\ RouterRan("r_create")
      BY <2>3 DEF RouterCreate, RouterIs, RouterRan
    <3>2. QED
      BY <3>1 DEF Routing
  <2>4. CASE RouterConnect
    <3>1. Step("r_connect") /\ RouterIs([router EXCEPT !.lan = TRUE])
      BY <2>4 DEF RouterConnect
    <3>2. RouterRan("r_connect")
      BY <3>1, RouterIsThere DEF RouterIs, RouterRan
    <3>3. QED
      BY <3>1, <3>2 DEF Routing
  <2>5. CASE RouterStartCommand
    <3>1. Step("r_start") /\ RouterIs(IF Running(router) THEN router ELSE Booted(router))
      BY <2>5 DEF RouterStartCommand
    <3>2. RouterRan("r_start")
      BY <3>1, RouterIsThere DEF RouterIs, RouterRan
    <3>3. QED
      BY <3>1, <3>2 DEF Routing
  <2>6. CASE RouterWait
    <3>1. Step("r_wait") /\ RouterIs(router) /\ RouterRan("r_wait")
      BY <2>6 DEF RouterWait, RouterIs, RouterRan
    <3>2. QED
      BY <3>1 DEF Routing
  <2>7. CASE RouterStop
    <3>1. /\ Step("r_stop") /\ RouterRan("r_stop")
          /\ RouterIs(IF Running(router) THEN [router EXCEPT !.state = "exited", !.healthy = FALSE]
                      ELSE router)
      BY <2>7 DEF RouterStop, RouterIs, RouterRan
    <3>2. QED
      BY <3>1
  <2>8. QED
    BY <2>1, <2>2, <2>3, <2>4, <2>5, <2>6, <2>7 DEF RouterCommand
<1>2. UNCHANGED <<disk, mem, worker, volume, nets, built, Rest>>
  BY <1>1 DEF RouterIs
<1>3. MemRan(c)
  BY <1>1, <1>2, MemStays
<1>4. c \in Name \ (PerWorker \cup {"if_built"}) /\ c \notin {"save", "forget", "routes"}
  BY <1>1 DEF Routing, Name, Preparing, Ending, PerWorker, Starting
<1>5. Ran(c)
  BY <1>1, <1>2, <1>3, <1>4, DeploymentCommand DEF disk
<1>6. QED
  BY <1>5

LEMMA ForOneWorkerRan == ASSUME IInv, ForOneWorker PROVE \E c : Ran(c)
<1>1. worker \in [Worker -> Container]
  BY DEF IInv, Types
<1>2. ASSUME NEW k, WorkerIs(Subject, k), Subject \in Worker PROVE worker'[Subject] = k
  BY <1>1, <1>2 DEF WorkerIs
<1>3. CASE WorkerStop
  <2>1. Ran("w_stop")
    BY <1>2, <1>3, WorkerCommand DEF WorkerStop, WorkerRan, Hidden, PerWorker
  <2>2. QED
    BY <2>1
<1>4. CASE WorkerRm
  <2>1. Ran("w_rm")
    BY <1>2, <1>4, WorkerCommand DEF WorkerRm, WorkerRan, Hidden, PerWorker
  <2>2. QED
    BY <2>1
<1>5. CASE WorkerRemove
  <2>1. Ran("w_remove")
    BY <1>2, <1>5, WorkerCommand DEF WorkerRemove, WorkerRan, Hidden, PerWorker
  <2>2. QED
    BY <2>1
<1>6. CASE WorkerCheck
  <2>1. Ran("w_check")
    BY <1>2, <1>6, WorkerCommand DEF WorkerCheck, WorkerRan, Hidden, PerWorker, Starting
  <2>2. QED
    BY <2>1
<1>7. CASE WorkerCreate
  <2>1. Ran("w_create")
    BY <1>2, <1>7, WorkerCommand DEF WorkerCreate, WorkerRan, Hidden, PerWorker, Starting
  <2>2. QED
    BY <2>1
<1>8. CASE WorkerStartCommand
  <2>1. Ran("w_start")
    BY <1>2, <1>8, WorkerCommand DEF WorkerStartCommand, WorkerRan, Hidden, PerWorker, Starting
  <2>2. QED
    BY <2>1
<1>9. CASE WorkerMark \/ WorkerVolume
  <2>1. PICK c \in {"w_mark", "w_volume"} : Step(c) /\ UNCHANGED <<disk, router, worker, nets, Rest>>
    BY <1>9 DEF WorkerMark, WorkerVolume, dock
  <2>2. /\ c \in Name \ {"if_built"} /\ c \in PerWorker
        /\ c \notin {"w_stop", "w_rm", "w_remove", "w_check", "w_create", "w_start", "save", "forget",
                     "routes", "r_build", "w_build"}
    BY DEF Name, Preparing, Starting, Ending, PerWorker
  <2>3. Subject \in Worker /\ \A w : Sees(w) \in {c, "other"}
    BY <2>1, <2>2, SeesCommand DEF IInv
  <2>4. \A w \in Worker : WorkerRan(w)
    BY <2>1, <2>2, <2>3 DEF WorkerRan
  <2>5. RouterRan(c)
    BY <2>1 DEF RouterRan
  <2>6. MemRan(c) /\ volume' \subseteq volume \cup Worker
    <3>1. CASE WorkerVolume
      <4>1. mem' = mem
        BY <3>1 DEF WorkerVolume
      <4>2. QED
        BY <2>1, <2>3, <3>1, <4>1, MemStays DEF WorkerVolume
    <3>2. CASE WorkerMark
      <4>1. Step("w_mark") /\ mem \in Configuration /\ mem' = [mem EXCEPT !.desired[Subject] = "stopped"]
        BY <3>2, RestTyped DEF WorkerMark, IInv
      <4>2. c = "w_mark" /\ volume' = volume
        BY <2>1, <3>2, <4>1 DEF Step, WorkerMark, dock
      <4>3. \A w : Sees(w) = "w_mark"
        BY <2>1, <2>2, <4>2, SeesCommand DEF IInv, Hidden
      <4>4. /\ mem' \in Configuration /\ mem'.proxy = mem.proxy /\ mem'.dns = mem.dns
            /\ mem'.rimg = mem.rimg /\ mem'.wimg = mem.wimg
            /\ \A w \in Worker : mem'.desired[w] \in {mem.desired[w], "stopped"}
        BY <2>3, <4>1 DEF Configuration, Desired
      <4>5. QED
        BY <4>1, <4>2, <4>3, <4>4 DEF MemRan
    <3>3. QED
      BY <1>9, <3>1, <3>2
  <2>7. Ran(c)
    BY <2>1, <2>2, <2>4, <2>5, <2>6 DEF Ran, Rest, disk
  <2>8. QED
    BY <2>7
<1>10. QED
  BY <1>3, <1>4, <1>5, <1>6, <1>7, <1>8, <1>9 DEF ForOneWorker

\* At the head of an action there is a configuration in memory, and that is not the menu.
LEMMA Busy ==
  ASSUME WInv
  PROVE  /\ todo # <<>> => mem \in Configuration /\ action # "menu"
         /\ action = "menu" => todo = <<>>
         /\ None \notin Configuration
BY ConstantsAssumption DEF WInv, IInv, Types, Rested, Configuration

LEMMA RestedStep == ASSUME WInv, NEW c, Ran(c) PROVE Rested'
<1>1. todo # <<>> /\ Types /\ Rested
  BY DEF Ran, Step, WInv, IInv
<1>2. ASSUME NEW w \in Worker PROVE worker'[w] \in WorkerContainer \cup {NoContainer}
  <2>1. Kept(CreatedRule, View(w, todo), There(w)) /\ There(w) \in BOOLEAN
    BY HoldsBoolean DEF WInv, WorkerRules
  <2>2. Sees(w) = "w_start" => There(w)
    BY <1>1, <2>1, RuleHead DEF CreatedRule
  <2>3. QED
    BY <1>1, <2>2, WorkerEffect
<1>3. action' = action /\ action # "menu" /\ mem' # None
  BY <1>1, Busy DEF Ran, MemRan
<1>4. \A k \in 1..Len(todo') : todo'[k].cmd \in Name
  <2>1. todo \in Seq(Entry) /\ todo' = Tail(todo) /\ \A k \in 1..Len(todo) : todo[k].cmd \in Name
    BY <1>1 DEF Types, Rested, Ran, Step
  <2>2. QED
    BY <1>1, <2>1, HeadTailProperties
<1>5. QED
  BY <1>1, <1>2, <1>3, <1>4 DEF Rested, Ran

\* Nothing left to run at the menu: the rules of the workers ask for nothing.
LEMMA EmptyCloses ==
  \A w : Closed(CheckRule, View(w, <<>>)) /\ Closed(CreatedRule, View(w, <<>>))
<1> SUFFICES ASSUME NEW w
             PROVE  Mute(CheckRule, View(w, <<>>)) /\ Mute(CreatedRule, View(w, <<>>))
  BY MuteCloses
<1>1. <<>> \in Seq(Entry) /\ Len(<<>>) = 0
  OBVIOUS
<1>2. /\ Len(View(w, <<>>)) = Len(<<>>) + 1
      /\ View(w, <<>>)[Len(<<>>) + 1] = [cmd |-> "end"]
  BY <1>1, ViewTyped, Zenon
<1>3. \A k \in 1..Len(View(w, <<>>)) : View(w, <<>>)[k].cmd = "end"
  BY <1>1, <1>2
<1>4. QED
  BY <1>3 DEF Mute, CheckRule, CreatedRule

LEMMA AtMenu ==
  ASSUME todo' = <<>>, action' = "menu" PROVE WorkerRules' /\ ChangeRules' /\ SwapRules'
<1>1. ChangeRules' /\ SwapRules'
  BY DEF ChangeRules, SwapRules
<1>2. WorkerRules'
  <2> SUFFICES ASSUME NEW w \in Worker
               PROVE  /\ Kept(CheckRule, View(w, <<>>), Current(w)')
                      /\ Kept(CreatedRule, View(w, <<>>), There(w)')
    BY DEF WorkerRules
  <2>1. QED
    BY EmptyCloses DEF Kept
<1>3. QED
  BY <1>1, <1>2

LEMMA BackWStep == ASSUME WInv, BackToMenu PROVE WInv'
<1>1. IInv'
  BY BackStep DEF WInv
<1>2. WorkerRules' /\ ChangeRules' /\ SwapRules'
  BY AtMenu DEF BackToMenu
<1>3. Rested'
  BY DEF BackToMenu, WInv, Rested, dock
<1>4. QED
  BY <1>1, <1>2, <1>3 DEF WInv

LEMMA OutsideWStep == ASSUME WInv, ProfileAppears \/ Calm PROVE WInv'
<1>1. IInv'
  BY OutsideStep DEF WInv
<1>2. UNCHANGED <<disk, mem, action, todo, dock, actions>> /\ action = "menu"
  BY DEF ProfileAppears, Calm
<1>3. WorkerRules' /\ ChangeRules' /\ SwapRules'
  BY <1>2, AtMenu, Busy
<1>4. Rested'
  BY <1>2 DEF WInv, Rested, dock
<1>5. QED
  BY <1>1, <1>3, <1>4 DEF WInv

LEMMA StillKept ==
  ASSUME NEW r, NEW s, NEW before \in BOOLEAN, NEW after \in BOOLEAN, before => after,
         Kept(r, s, before)
  PROVE  Kept(r, s, after)
BY DEF Kept

\* Docker restarts the router, or its probe passes.
LEMMA RebootWStep == ASSUME WInv, RouterReboot \/ RouterRetry \/ RouterHealthy PROVE WInv'
<1>1. IInv'
  BY RebootStep DEF WInv
<1>2. /\ Running(router)
      /\ UNCHANGED <<disk, mem, action, todo, worker, volume, nets, built, apparmor, actions, calm>>
  BY DEF RouterReboot, RouterRetry, RouterHealthy
<1>3. router \in RouterContainer /\ Exists(router)
  BY <1>2, RouterCases DEF WInv, IInv, Exists, Running
<1>4. /\ router'.state = "running" /\ router'.dns = router.dns /\ router'.image = router.image
      /\ router'.routes \in {router.routes, routes}
  <2>1. CASE RouterReboot \/ RouterRetry
    BY <1>3, <2>1 DEF RouterReboot, RouterRetry, RouterContainer, Booted
  <2>2. CASE RouterHealthy
    BY <1>2, <1>3, <2>2 DEF RouterHealthy, RouterContainer, Running
  <2>3. QED
    BY <2>1, <2>2
<1>5. Rested'
  BY <1>2 DEF WInv, Rested
<1>6. ASSUME NEW w
      PROVE  /\ Current(w)' = Current(w) /\ There(w)' = There(w) /\ Up(w)' = Up(w) /\ Idle(w)' = Idle(w)
             /\ Down(w)' = Down(w) /\ Saved' = Saved /\ Written' = Written
  BY <1>2 DEF Current, There, Up, Idle, Down, Saved, Written, Wanted, Outdated, disk
<1>7. (Fresh => Fresh') /\ (Runs => Runs') /\ (~Exists(router) => ~Exists(router'))
  BY <1>2, <1>3, <1>4 DEF Fresh, Runs, Written, Exists, Running, disk
<1>8. /\ Fresh \in BOOLEAN /\ Fresh' \in BOOLEAN /\ Runs \in BOOLEAN /\ Runs' \in BOOLEAN
      /\ (~Exists(router)) \in BOOLEAN /\ (~Exists(router)') \in BOOLEAN
  BY HoldsBoolean
<1>9. WorkerRules'
  BY <1>2, <1>6 DEF WInv, WorkerRules
<1>10. ChangeRules'
  <2> SUFFICES ASSUME action \in {"proxy", "dns", "rebuild"}, NEW w \in Worker
               PROVE  /\ Kept(UpRule, View(w, todo), Up(w)')
                      /\ Kept(IdleRule, View(w, todo), Idle(w)')
                      /\ Kept(SavedRule, View(w, todo), Saved')
                      /\ Kept(AbsentRule, View(w, todo), ~Exists(router)')
                      /\ Kept(WrittenRule, View(w, todo), Written')
                      /\ Kept(FreshRule, View(w, todo), Fresh')
                      /\ Kept(RunsRule, View(w, todo), Runs')
    BY <1>2 DEF ChangeRules
  <2>1. /\ Kept(UpRule, View(w, todo), Up(w)) /\ Kept(IdleRule, View(w, todo), Idle(w))
        /\ Kept(SavedRule, View(w, todo), Saved) /\ Kept(AbsentRule, View(w, todo), ~Exists(router))
        /\ Kept(WrittenRule, View(w, todo), Written) /\ Kept(FreshRule, View(w, todo), Fresh)
        /\ Kept(RunsRule, View(w, todo), Runs)
    BY DEF WInv, ChangeRules
  <2>2. Kept(FreshRule, View(w, todo), Fresh')
    BY <1>7, <1>8, <2>1, StillKept
  <2>3. Kept(RunsRule, View(w, todo), Runs')
    BY <1>7, <1>8, <2>1, StillKept
  <2>4. Kept(AbsentRule, View(w, todo), ~Exists(router)')
    BY <1>7, <1>8, <2>1, StillKept
  <2>5. QED
    BY <1>6, <2>1, <2>2, <2>3, <2>4
<1>11. SwapRules'
  <2> SUFFICES ASSUME action = "proxy", NEW w \in Worker
               PROVE  /\ Kept(DownRule, View(w, todo), Down(w)')
                      /\ Kept(UnsavedRule, View(w, todo), ~Saved')
                      /\ Kept(NeverRule, View(w, todo), FALSE)
    BY <1>2 DEF SwapRules
  <2>1. /\ Kept(DownRule, View(w, todo), Down(w)) /\ Kept(UnsavedRule, View(w, todo), ~Saved)
        /\ Kept(NeverRule, View(w, todo), FALSE)
    BY DEF WInv, SwapRules
  <2>2. (~Saved) \in BOOLEAN /\ (~Saved') \in BOOLEAN /\ (~Saved => ~Saved')
    BY <1>6, HoldsBoolean
  <2>3. Kept(UnsavedRule, View(w, todo), ~Saved')
    BY <2>1, <2>2, StillKept
  <2>4. QED
    BY <1>6, <2>1, <2>3
<1>12. QED
  BY <1>1, <1>5, <1>9, <1>10, <1>11 DEF WInv

\* Option 1 to 17: an action starts with the commands of its entry in the menu.
Picked(a, m, s) ==
  /\ Choose(a, m, s) /\ a # "menu" /\ m \in Configuration /\ Orderly(s)
  /\ a \in {"proxy", "dns", "rebuild"} => Changes(s)
  /\ a = "proxy" => Swaps(s) /\ config # m

LEMMA PickStep == ASSUME WInv, NEW a, NEW m, NEW s, Picked(a, m, s)
                  PROVE  Rested' /\ WorkerRules' /\ ChangeRules' /\ SwapRules'
<1>1. /\ action' = a /\ mem' = m /\ todo' = s /\ UNCHANGED <<disk, dock, built, apparmor, calm>>
      /\ actions' = IF calm THEN actions ELSE actions + 1
      /\ actions < MaxActions \/ calm
  BY DEF Picked, Choose
<1>2. Rested'
  <2>1. actions \in 0..MaxActions /\ MaxActions \in Nat
    BY ConstantsAssumption DEF WInv, Rested
  <2>2. actions' \in 0..MaxActions
    BY <1>1, <2>1
  <2>3. action' # "menu" /\ mem' # None
    BY <1>1, Busy DEF Picked
  <2>4. QED
    BY <1>1, <2>2, <2>3 DEF WInv, Rested, dock, Picked, Orderly, Only
<1>3. WorkerRules'
  <2> SUFFICES ASSUME NEW w \in Worker
               PROVE  /\ Kept(CheckRule, View(w, s), Current(w)')
                      /\ Kept(CreatedRule, View(w, s), There(w)')
    BY <1>1 DEF WorkerRules
  <2>1. /\ Closed(CheckRule, Look(w, s)) /\ Closed(CreatedRule, Look(w, s))
        /\ Look(w, s) \in Seq(Entry)
    BY LookTyped DEF Picked, Orderly, Only
  <2>2. Mute(CheckRule, Cmd("end")) /\ Mute(CreatedRule, Cmd("end")) /\ Cmd("end") \in Seq(Entry)
    BY EndTyped DEF Mute, Cmd, CheckRule, CreatedRule
  <2>3. Closed(CheckRule, View(w, s)) /\ Closed(CreatedRule, View(w, s))
    BY <2>1, <2>2, MuteCloses, ConcatCloses DEF View
  <2>4. QED
    BY <2>3 DEF Kept
<1>4. ChangeRules'
  <2> SUFFICES ASSUME a \in {"proxy", "dns", "rebuild"}, NEW w \in Worker
               PROVE  /\ Kept(UpRule, View(w, s), Up(w)')
                      /\ Kept(IdleRule, View(w, s), Idle(w)')
                      /\ Kept(SavedRule, View(w, s), Saved')
                      /\ Kept(AbsentRule, View(w, s), ~Exists(router)')
                      /\ Kept(WrittenRule, View(w, s), Written')
                      /\ Kept(FreshRule, View(w, s), Fresh')
                      /\ Kept(RunsRule, View(w, s), Runs')
    BY <1>1 DEF ChangeRules
  <2>1. QED
    BY DEF Picked, Changes, Kept
<1>5. SwapRules'
  <2> SUFFICES ASSUME a = "proxy", NEW w \in Worker
               PROVE  /\ Kept(DownRule, View(w, s), Down(w)')
                      /\ Kept(UnsavedRule, View(w, s), ~Saved')
                      /\ Kept(NeverRule, View(w, s), FALSE)
    BY <1>1 DEF SwapRules
  <2>1. ~Saved'
    BY <1>1 DEF Picked, Saved, disk
  <2>2. QED
    BY <2>1 DEF Picked, Swaps, Kept
<1>6. QED
  BY <1>2, <1>3, <1>4, <1>5

LEMMA MenuPicks ==
  ASSUME WInv, Setup \/ Resume \/ MenuOther PROVE \E a, m, s : Picked(a, m, s)
<1>1. ASSUME config # None PROVE config \in Configuration
  BY <1>1 DEF WInv, IInv, Types
<1>2. CASE Setup
  <2> DEFINE m == [proxy |-> InitialProxy, desired |-> [w \in Worker |-> "running"],
                   dns |-> InitialDns, rimg |-> 0, wimg |-> 0]
  <2>1. m \in Configuration
    BY ConstantsAssumption DEF Configuration, Desired, Image
  <2>2. Choose("setup", m, SetupSteps)
    BY <1>2 DEF Setup
  <2> HIDE DEF m
  <2>3. Picked("setup", m, SetupSteps)
    BY <2>1, <2>2, MenuOrderly DEF Picked
  <2>4. QED
    BY <2>3
<1>3. CASE Resume
  <2>1. Picked("resume", config, Deploy)
    BY <1>1, <1>3, MenuOrderly DEF Resume, Picked
  <2>2. QED
    BY <2>1
<1>4. CASE MenuOther
  <2>1. config \in Configuration
    BY <1>1, <1>4 DEF MenuOther
  <2>2. CASE MenuStopOne
    <3>1. PICK w \in Worker : Choose("stop", [config EXCEPT !.desired[w] = "stopped"], StopOne(w))
      BY <2>2 DEF MenuStopOne
    <3>2. [config EXCEPT !.desired[w] = "stopped"] \in Configuration
      BY <2>1, EditTyped DEF Desired
    <3>3. Picked("stop", [config EXCEPT !.desired[w] = "stopped"], StopOne(w))
      BY <3>1, <3>2, MenuOrderly DEF Picked
    <3>4. QED
      BY <3>3
  <2>3. CASE MenuStartOne
    <3>1. PICK w \in Worker : Choose("start", [config EXCEPT !.desired[w] = "running"], StartOne(w))
      BY <2>3 DEF MenuStartOne
    <3>2. [config EXCEPT !.desired[w] = "running"] \in Configuration
      BY <2>1, EditTyped DEF Desired
    <3>3. Picked("start", [config EXCEPT !.desired[w] = "running"], StartOne(w))
      BY <3>1, <3>2, MenuOrderly DEF Picked
    <3>4. QED
      BY <3>3
  <2>4. CASE MenuChangeProxy
    <3>1. PICK w \in Worker, p \in Proxy :
             p # config.proxy[w] /\ Choose("proxy", [config EXCEPT !.proxy[w] = p], ChangeProxy)
      BY <2>4 DEF MenuChangeProxy
    <3> DEFINE m == [config EXCEPT !.proxy[w] = p]
    <3>2. m \in Configuration
      BY <2>1, EditTyped
    <3>3. m.proxy[w] = p
      BY <2>1 DEF Configuration
    <3>4. config # m
      BY <3>1, <3>3
    <3> HIDE DEF m
    <3>5. Changes(ChangeProxy) /\ Swaps(ChangeProxy) /\ Orderly(ChangeProxy)
      BY MenuChanges, ProxySwaps, MenuOrderly
    <3>6. Picked("proxy", m, ChangeProxy)
      BY <3>1, <3>2, <3>4, <3>5 DEF Picked, m
    <3>7. QED
      BY <3>6
  <2>5. CASE MenuStopAll
    <3>1. Picked("stop_all", config, StopAll)
      BY <2>1, <2>5, MenuOrderly DEF MenuStopAll, Picked
    <3>2. QED
      BY <3>1
  <2>6. CASE MenuRemove
    <3>1. Picked("remove", config, RemoveDeployment)
      BY <2>1, <2>6, MenuOrderly DEF MenuRemove, Picked
    <3>2. QED
      BY <3>1
  <2>7. CASE MenuStartAll
    <3> DEFINE m == [config EXCEPT !.desired = [w \in Worker |-> "running"]]
    <3>1. m \in Configuration
      BY <2>1, EditTyped
    <3>2. Choose("start_all", m, Cmd("save") \o Deploy)
      BY <2>7 DEF MenuStartAll
    <3> HIDE DEF m
    <3>3. Picked("start_all", m, Cmd("save") \o Deploy)
      BY <3>1, <3>2, MenuOrderly DEF Picked
    <3>4. QED
      BY <3>3
  <2>8. CASE MenuRebuild
    <3>1. Choose("rebuild", config, RebuildDeployment)
      BY <2>8 DEF MenuRebuild
    <3>2. Picked("rebuild", config, RebuildDeployment)
      BY <2>1, <3>1, MenuChanges, MenuOrderly DEF Picked
    <3>3. QED
      BY <3>2
  <2>9. CASE MenuDns
    <3>1. PICK d \in Dns : Choose("dns", [config EXCEPT !.dns = d], ApplyDns)
      BY <2>9 DEF MenuDns
    <3> DEFINE m == [config EXCEPT !.dns = d]
    <3>2. m \in Configuration
      BY <2>1, EditTyped
    <3> HIDE DEF m
    <3>3. Picked("dns", m, ApplyDns)
      BY <3>1, <3>2, MenuChanges, MenuOrderly DEF Picked, m
    <3>4. QED
      BY <3>3
  <2>10. QED
    BY <1>4, <2>2, <2>3, <2>4, <2>5, <2>6, <2>7, <2>8, <2>9 DEF MenuOther
<1>5. QED
  BY <1>2, <1>3, <1>4

\* What building the images adds in front of the rest of an action.
LEMMA BuildView ==
  ASSUME NEW w \in Worker, NEW s \in Seq(Entry), NEW b, b = Look(w, BuildImages)
  PROVE  /\ b \in Seq(Entry) /\ View(w, s) \in Seq(Entry) /\ View(w, BuildImages \o s) = b \o View(w, s)
         /\ Mute(CheckRule, b) /\ Mute(CreatedRule, b) /\ Mute(UpRule, b) /\ Mute(FreshRule, b)
         /\ Mute(IdleRule, b) /\ Harmless(IdleRule, b)
         /\ Mute(AbsentRule, b) /\ Harmless(AbsentRule, b)
         /\ Mute(WrittenRule, b) /\ Harmless(WrittenRule, b)
         /\ Mute(RunsRule, b) /\ Harmless(RunsRule, b)
         /\ Mute(SavedRule, b) /\ Gives(SavedRule, b)
<1> DEFINE K == {"r_build", "w_build", "save"}
<1>1. Only(Cmd("r_build"), K) /\ Only(Cmd("w_build"), K) /\ Only(Cmd("save"), K)
  BY PlainCommands, CmdOnly
<1>2. Only(Cmd("r_build") \o Cmd("w_build"), K)
  BY <1>1, OnlyConcat
<1> DEFINE a == Cmd("r_build") \o Cmd("w_build")
<1>3. BuildImages = a \o Cmd("save")
  BY DEF BuildImages
<1>4. Only(BuildImages, K)
  BY <1>1, <1>2, <1>3, OnlyConcat
<1>5. Gives(SavedRule, Look(w, Cmd("save")))
  BY SaveGives
<1>6. Gives(SavedRule, b)
  <2> HIDE DEF a, K
  <2>1. Gives(SavedRule, Look(w, a \o Cmd("save")))
    BY <1>1, <1>2, <1>5, LookHas DEF a
  <2>2. QED
    BY <1>3, <2>1
<1>7. Only(b, K \cup {"other"})
  BY <1>4, OnlyLook
<1>8. b \in Seq(Entry)
  BY <1>7 DEF Only
<1>9. BuildImages \in Seq(Entry)
  BY <1>4 DEF Only
<1>10. View(w, s) \in Seq(Entry) /\ View(w, BuildImages \o s) = b \o View(w, s)
  BY <1>9, ViewTyped, ViewConcat
<1>11. \A k \in 1..Len(b) : b[k].cmd \in {"r_build", "w_build", "save", "other"}
  BY <1>7 DEF Only
<1>12. /\ Mute(CheckRule, b) /\ Mute(CreatedRule, b) /\ Mute(UpRule, b) /\ Mute(FreshRule, b)
       /\ Mute(IdleRule, b) /\ Mute(AbsentRule, b) /\ Mute(WrittenRule, b) /\ Mute(RunsRule, b)
       /\ Mute(SavedRule, b)
  BY <1>11 DEF Mute, CheckRule, CreatedRule, UpRule, FreshRule, IdleRule, AbsentRule, WrittenRule,
               RunsRule, SavedRule, Starting
<1>13. /\ Harmless(IdleRule, b) /\ Harmless(AbsentRule, b) /\ Harmless(WrittenRule, b)
       /\ Harmless(RunsRule, b)
  BY <1>11 DEF Harmless, IdleRule, AbsentRule, WrittenRule, RunsRule
<1>14. QED
  BY <1>6, <1>8, <1>10, <1>12, <1>13

\* The command that may build changes nothing but what is still to run.
LEMMA IfBuiltWStep == ASSUME WInv, BuildIfMissing PROVE WInv'
<1>1. /\ todo # <<>> /\ Head(todo).cmd = "if_built"
      /\ todo' \in {BuildImages \o Tail(todo), Tail(todo)}
      /\ UNCHANGED <<config, routes, mem, action, router, worker, volume, nets, built, apparmor, actions>>
  BY DEF BuildIfMissing, disk, dock, Rest
<1>2. IInv'
  BY IfBuiltStep DEF WInv
<1>3. todo \in Seq(Entry) /\ Tail(todo) \in Seq(Entry) /\ Types
  BY <1>1 DEF WInv, IInv, Types
<1>4. Rested'
  <2>1. Only(Tail(todo), Name)
    BY <1>1, <1>3, HeadTailProperties DEF WInv, Rested, Only
  <2>2. Only(BuildImages, Name)
    BY BuildImagesOnly, OnlyLess DEF Name
  <2>3. Only(BuildImages \o Tail(todo), Name)
    BY <2>1, <2>2, OnlyConcat
  <2>4. \A k \in 1..Len(todo') : todo'[k].cmd \in Name
    BY <1>1, <2>1, <2>3 DEF Only
  <2>5. QED
    BY <1>1, <2>4 DEF WInv, Rested
<1>5. \A w : Sees(w) = "if_built"
  BY <1>1 DEF Sees, Seen, Hidden, PerWorker, Starting
<1>6. ASSUME NEW w, NEW r, NEW before \in BOOLEAN, NEW after \in BOOLEAN, Kept(r, View(w, todo), before),
             r.key # "if_built", r.key \notin r.spoil, before /\ "if_built" \notin r.spoil => after
      PROVE  Kept(r, View(w, Tail(todo)), after)
  BY <1>1, <1>3, <1>5, <1>6, RuleStep
<1>7. ASSUME NEW w \in Worker, NEW r \in {CheckRule, CreatedRule, UpRule, FreshRule}, NEW holds \in BOOLEAN,
             NEW after, Kept(r, View(w, todo), holds)
      PROVE  Kept(r, View(w, todo'), after)
  <2>1. Kept(r, View(w, Tail(todo)), FALSE)
    BY <1>6, <1>7 DEF CheckRule, CreatedRule, UpRule, FreshRule
  <2>2. Closed(r, View(w, Tail(todo)))
    BY <2>1 DEF Kept
  <2> DEFINE b == Look(w, BuildImages)
  <2>3. /\ b \in Seq(Entry) /\ View(w, Tail(todo)) \in Seq(Entry) /\ Mute(r, b)
        /\ View(w, BuildImages \o Tail(todo)) = b \o View(w, Tail(todo))
    <3>1. Mute(CheckRule, b) /\ Mute(CreatedRule, b) /\ Mute(UpRule, b) /\ Mute(FreshRule, b)
      BY <1>3, BuildView
    <3>2. Mute(r, b)
      BY <1>7, <3>1
    <3>3. QED
      BY <1>3, <3>2, BuildView
  <2> HIDE DEF b
  <2>4. Closed(r, View(w, BuildImages \o Tail(todo)))
    BY <2>2, <2>3, MuteCloses, ConcatCloses
  <2>5. QED
    BY <1>1, <2>2, <2>4 DEF Kept
<1>8. ASSUME NEW w \in Worker, NEW r \in {IdleRule, AbsentRule, WrittenRule, RunsRule}, NEW holds \in BOOLEAN,
             Kept(r, View(w, todo), holds)
      PROVE  Kept(r, View(w, todo'), holds)
  <2>1. Kept(r, View(w, Tail(todo)), holds)
    BY <1>6, <1>8 DEF IdleRule, AbsentRule, WrittenRule, RunsRule
  <2> DEFINE b == Look(w, BuildImages)
  <2>2. /\ b \in Seq(Entry) /\ View(w, Tail(todo)) \in Seq(Entry) /\ Mute(r, b) /\ Harmless(r, b)
        /\ View(w, BuildImages \o Tail(todo)) = b \o View(w, Tail(todo))
    <3>1. /\ Mute(IdleRule, b) /\ Mute(AbsentRule, b) /\ Mute(WrittenRule, b) /\ Mute(RunsRule, b)
          /\ Harmless(IdleRule, b) /\ Harmless(AbsentRule, b) /\ Harmless(WrittenRule, b)
          /\ Harmless(RunsRule, b)
      BY <1>3, BuildView
    <3>2. Mute(r, b) /\ Harmless(r, b)
      BY <1>8, <3>1
    <3>3. QED
      BY <1>3, <3>2, BuildView
  <2> HIDE DEF b
  <2>3. Kept(r, View(w, BuildImages \o Tail(todo)), holds)
    BY <1>8, <2>1, <2>2, PrefixKeeps
  <2>4. QED
    BY <1>1, <2>1, <2>3
<1>9. ASSUME NEW w \in Worker, Kept(SavedRule, View(w, todo), Saved)
      PROVE  Kept(SavedRule, View(w, todo'), Saved)
  <2>1. Saved \in BOOLEAN
    BY HoldsBoolean
  <2>2. Kept(SavedRule, View(w, Tail(todo)), Saved)
    BY <1>6, <1>9, <2>1 DEF SavedRule
  <2> DEFINE b == Look(w, BuildImages)
  <2>3. /\ b \in Seq(Entry) /\ View(w, Tail(todo)) \in Seq(Entry)
        /\ Mute(SavedRule, b) /\ Gives(SavedRule, b)
        /\ View(w, BuildImages \o Tail(todo)) = b \o View(w, Tail(todo))
    BY <1>3, BuildView
  <2> HIDE DEF b
  <2>4. Kept(SavedRule, View(w, BuildImages \o Tail(todo)), Saved)
    BY <2>2, <2>3, MuteCloses, ConcatCloses DEF Kept
  <2>5. QED
    BY <1>1, <2>2, <2>4
<1>10. WorkerRules'
  <2> SUFFICES ASSUME NEW w \in Worker
               PROVE  /\ Kept(CheckRule, View(w, todo'), Current(w)')
                      /\ Kept(CreatedRule, View(w, todo'), There(w)')
    BY DEF WorkerRules
  <2>1. /\ Kept(CheckRule, View(w, todo), Current(w)) /\ Kept(CreatedRule, View(w, todo), There(w))
        /\ Current(w) \in BOOLEAN /\ There(w) \in BOOLEAN
    BY HoldsBoolean DEF WInv, WorkerRules
  <2>2. QED
    BY <1>7, <2>1
<1>11. ASSUME action = "proxy" PROVE FALSE
  <2>1. PICK w \in Worker : TRUE
    BY ConstantsAssumption DEF Worker
  <2>2. Kept(NeverRule, View(w, todo), FALSE)
    BY <1>11 DEF WInv, SwapRules
  <2>3. QED
    BY <1>1, <1>3, <1>5, <2>2, RuleHead DEF NeverRule
<1>12. SwapRules'
  BY <1>1, <1>11 DEF SwapRules
<1>13. ChangeRules'
  <2> SUFFICES ASSUME action \in {"proxy", "dns", "rebuild"}, NEW w \in Worker
               PROVE  /\ Kept(UpRule, View(w, todo'), Up(w)')
                      /\ Kept(IdleRule, View(w, todo'), Idle(w)')
                      /\ Kept(SavedRule, View(w, todo'), Saved')
                      /\ Kept(AbsentRule, View(w, todo'), ~Exists(router)')
                      /\ Kept(WrittenRule, View(w, todo'), Written')
                      /\ Kept(FreshRule, View(w, todo'), Fresh')
                      /\ Kept(RunsRule, View(w, todo'), Runs')
    BY <1>1 DEF ChangeRules
  <2>1. /\ Kept(UpRule, View(w, todo), Up(w)) /\ Kept(IdleRule, View(w, todo), Idle(w))
        /\ Kept(SavedRule, View(w, todo), Saved) /\ Kept(AbsentRule, View(w, todo), ~Exists(router))
        /\ Kept(WrittenRule, View(w, todo), Written) /\ Kept(FreshRule, View(w, todo), Fresh)
        /\ Kept(RunsRule, View(w, todo), Runs)
    BY DEF WInv, ChangeRules
  <2>2. /\ Up(w) \in BOOLEAN /\ Idle(w) \in BOOLEAN /\ (~Exists(router)) \in BOOLEAN
        /\ Written \in BOOLEAN /\ Fresh \in BOOLEAN /\ Runs \in BOOLEAN
    BY HoldsBoolean
  <2>3. Kept(UpRule, View(w, todo'), Up(w)') /\ Kept(FreshRule, View(w, todo'), Fresh')
    BY <1>7, <2>1, <2>2
  <2>4. /\ Kept(IdleRule, View(w, todo'), Idle(w)) /\ Kept(AbsentRule, View(w, todo'), ~Exists(router))
        /\ Kept(WrittenRule, View(w, todo'), Written) /\ Kept(RunsRule, View(w, todo'), Runs)
    BY <1>8, <2>1, <2>2
  <2>5. Kept(SavedRule, View(w, todo'), Saved)
    BY <1>9, <2>1
  <2>6. /\ Idle(w)' = Idle(w) /\ (~Exists(router)') = (~Exists(router)) /\ Written' = Written
        /\ Runs' = Runs /\ Saved' = Saved
    BY <1>1 DEF Idle, Down, Wanted, Written, Runs, Saved
  <2>7. QED
    BY <2>3, <2>4, <2>5, <2>6
<1>14. QED
  BY <1>2, <1>4, <1>10, <1>12, <1>13 DEF WInv

-----------------------------------------------------------------------------
(***************************************************************************)
(* The theorems.                                                           *)
(***************************************************************************)
LEMMA InitWInv == Init => WInv
<1> SUFFICES ASSUME Init PROVE WInv
  OBVIOUS
<1>1. IInv
  BY InitIInv
<1>2. todo = <<>> /\ action = "menu" /\ mem = None
  BY DEF Init
<1>3. Rested
  <2>1. \A w \in Worker : worker[w] = NoContainer
    BY DEF Init
  <2>2. 0 \in 0..MaxActions
    BY ConstantsAssumption
  <2>3. QED
    BY <1>2, <2>1, <2>2 DEF Init, Rested
<1>4. WorkerRules
  BY <1>2, EmptyCloses DEF WorkerRules, Kept
<1>5. ChangeRules /\ SwapRules
  BY <1>2 DEF ChangeRules, SwapRules
<1>6. QED
  BY <1>1, <1>3, <1>4, <1>5 DEF WInv

LEMMA NextWStep == ASSUME WInv, [Next]_vars PROVE WInv'
<1>1. IInv'
  BY NextStep DEF WInv
<1>2. CASE Setup \/ Resume \/ MenuOther
  BY <1>1, <1>2, MenuPicks, PickStep DEF WInv
<1>3. CASE Plainly \/ RouterCommand \/ ForOneWorker
  <2>1. PICK c : Ran(c)
    BY <1>3, PlainlyRan, RouterCommandRan, ForOneWorkerRan DEF WInv
  <2>2. QED
    BY <1>1, <2>1, RulesStep, RestedStep DEF WInv
<1>4. CASE BuildIfMissing
  BY <1>4, IfBuiltWStep
<1>5. CASE Done \/ Refused \/ Abort
  BY <1>5, BackWStep DEF Done, Refused, Abort
<1>6. CASE RouterReboot \/ RouterRetry \/ RouterHealthy
  BY <1>6, RebootWStep
<1>7. CASE ProfileAppears \/ Calm
  BY <1>7, OutsideWStep
<1>8. CASE UNCHANGED vars
  <2>1. UNCHANGED <<config, routes, mem, action, todo, router, worker, volume, nets, apparmor, actions>>
    BY <1>8 DEF vars, disk, dock
  <2>2. Rested'
    BY <2>1 DEF WInv, Rested
  <2>3. \A w : /\ Current(w)' = Current(w) /\ There(w)' = There(w) /\ Up(w)' = Up(w)
               /\ Idle(w)' = Idle(w) /\ Down(w)' = Down(w)
    BY <2>1 DEF Current, There, Up, Idle, Down, Wanted, Outdated
  <2>4. Saved' = Saved /\ Written' = Written /\ Fresh' = Fresh /\ Runs' = Runs
    BY <2>1 DEF Saved, Written, Fresh, Runs
  <2>5. WorkerRules' /\ ChangeRules' /\ SwapRules'
    BY <2>1, <2>3, <2>4 DEF WInv, WorkerRules, ChangeRules, SwapRules
  <2>6. QED
    BY <1>1, <2>2, <2>5 DEF WInv
<1>9. QED
  BY <1>2, <1>3, <1>4, <1>5, <1>6, <1>7, <1>8
     DEF Next, Command, Plainly, RouterCommand, ForOneWorker

\* Whatever is left of a running action still does for every worker what its end promises,
\* wherever it is cut off and whatever Docker does to the router meanwhile.
THEOREM InductiveForWorkers == Spec => []WInv
<1>1. WInv /\ [Next]_vars => WInv'
  BY NextWStep
<1>2. QED
  BY InitWInv, <1>1, PTL DEF Spec

\* Types; in particular no container is created from an image that was never built, and no
\* worker is started that has no container.
THEOREM TypeCorrect == Spec => []TypeOK
<1>1. WInv => TypeOK
  BY DEF WInv, IInv, Types, Rested, TypeOK
<1>2. QED
  BY InductiveForWorkers, <1>1, PTL

\* While an action that changes a proxy has saved the new assignment and the router does
\* not follow it yet, no worker runs that could send through the old proxy.
THEOREM SwapIsPaused == Spec => []SwapWithWorkersPaused
<1>1. WInv => SwapWithWorkersPaused
  <2> SUFFICES ASSUME WInv, action = "proxy", Saved, Running(router) => router.routes # config.proxy,
                      NEW w \in Worker
               PROVE  ~Running(worker[w])
    BY DEF SwapWithWorkersPaused, Saved
  <2>1. /\ Kept(DownRule, View(w, todo), Down(w)) /\ Kept(UnsavedRule, View(w, todo), ~Saved)
        /\ Kept(NeverRule, View(w, todo), FALSE)
    BY DEF WInv, SwapRules
  <2>2. Kept(FreshRule, View(w, todo), Fresh) /\ Kept(RunsRule, View(w, todo), Runs)
    BY DEF WInv, ChangeRules
  <2>3. /\ Fresh \in BOOLEAN /\ Runs \in BOOLEAN /\ Down(w) \in BOOLEAN /\ (~Saved) \in BOOLEAN
    BY HoldsBoolean
  <2>4. ~(Fresh /\ Runs)
    BY DEF Fresh, Runs, Saved
  <2>5. CASE todo = <<>>
    BY <2>2, <2>3, <2>4, <2>5, RuleEnd DEF FreshRule, RunsRule
  <2>6. CASE todo # <<>>
    <3>1. Types /\ Head(todo) \in Entry
      BY <2>6, HeadTailProperties DEF WInv, IInv, Types
    <3>2. ASSUME NEW u, Sees(u) \in Starting, u \in Worker PROVE FALSE
      <4>1. Kept(FreshRule, View(u, todo), Fresh) /\ Kept(RunsRule, View(u, todo), Runs)
        BY <3>2 DEF WInv, ChangeRules
      <4>2. Fresh /\ Runs
        BY <2>3, <2>6, <3>1, <3>2, <4>1, RuleHead DEF FreshRule, RunsRule
      <4>3. QED
        BY <2>4, <4>2
    <3>3. ASSUME NEW u, Sees(u) = "w_stop", u \in Worker PROVE FALSE
      <4>1. Kept(UnsavedRule, View(u, todo), ~Saved)
        BY <3>3 DEF WInv, SwapRules
      <4>2. ~Saved
        BY <2>3, <2>6, <3>1, <3>3, <4>1, RuleHead DEF UnsavedRule
      <4>3. QED
        BY <4>2
    <3>4. CASE Sees(w) \in DownRule.goals
      <4>1. Down(w)
        BY <2>1, <2>3, <2>6, <3>1, <3>4, RuleHead
      <4>2. QED
        BY <4>1 DEF Down
    <3>5. CASE Sees(w) \notin DownRule.goals
      <4> DEFINE c == Head(todo).cmd
      <4>1. c \in Name
        BY <2>6 DEF WInv, Rested, Types, IInv
      <4>2. PICK u \in Worker : Sees(u) = c
        <5>1. CASE c \in Hidden
          <6>1. Subject \in Worker /\ Sees(Subject) = c
            BY <2>6, <3>1, <4>1, <5>1, SeesHead DEF Hidden
          <6>2. QED
            BY <6>1
        <5>2. CASE c \notin Hidden
          BY <2>6, <3>1, <4>1, <5>2, SeesHead
        <5>3. QED
          BY <5>1, <5>2
      <4>3. c \notin {"w_rm", "w_remove"}
        <5>1. Kept(NeverRule, View(u, todo), FALSE)
          BY DEF WInv, SwapRules
        <5>2. QED
          BY <2>6, <3>1, <4>2, <5>1, RuleHead DEF NeverRule
      <4>4. c \notin Starting \cup {"w_stop"}
        BY <3>2, <3>3, <4>2
      <4>5. c \notin Hidden
        BY <4>3, <4>4 DEF Hidden, PerWorker
      <4>6. Sees(w) = c
        BY <2>6, <3>1, <4>1, <4>5, SeesHead
      <4>7. QED
        BY <3>5, <4>1, <4>4, <4>6 DEF DownRule
    <3>6. QED
      BY <3>4, <3>5
  <2>7. QED
    BY <2>5, <2>6
<1>2. QED
  BY InductiveForWorkers, <1>1, PTL

\* A change of a proxy, of the DNS mode or of the build that runs to its end leaves the
\* router and the workers as the saved configuration wants them, whatever state the action
\* found and whatever was interrupted before it.
THEOREM ChangesComplete == Spec => []CompletedChangeInSync
<1>1. WInv => CompletedChangeInSync
  <2> SUFFICES ASSUME WInv, action \in {"proxy", "dns", "rebuild"}, todo = <<>>
               PROVE  /\ Running(router) /\ router.routes = config.proxy
                      /\ router.dns = config.dns /\ router.image = config.rimg
                      /\ \A w \in Worker :
                           IF config.desired[w] = "running"
                           THEN Running(worker[w]) /\ worker[w].image = config.wimg
                           ELSE ~Running(worker[w])
    BY DEF CompletedChangeInSync
  <2>1. ASSUME NEW w \in Worker PROVE Up(w) /\ Idle(w) /\ Saved /\ Fresh /\ Runs
    <3>1. /\ Kept(UpRule, View(w, todo), Up(w)) /\ Kept(IdleRule, View(w, todo), Idle(w))
          /\ Kept(SavedRule, View(w, todo), Saved) /\ Kept(FreshRule, View(w, todo), Fresh)
          /\ Kept(RunsRule, View(w, todo), Runs)
      BY DEF WInv, ChangeRules
    <3>2. /\ Up(w) \in BOOLEAN /\ Idle(w) \in BOOLEAN /\ Saved \in BOOLEAN /\ Fresh \in BOOLEAN
          /\ Runs \in BOOLEAN
      BY HoldsBoolean
    <3>3. QED
      BY <3>1, <3>2, RuleEnd DEF UpRule, IdleRule, SavedRule, FreshRule, RunsRule
  <2>2. Saved /\ Fresh /\ Runs
    <3>1. PICK w \in Worker : TRUE
      BY ConstantsAssumption DEF Worker
    <3>2. QED
      BY <2>1, <3>1
  <2>3. ASSUME NEW w \in Worker
        PROVE  IF config.desired[w] = "running"
               THEN Running(worker[w]) /\ worker[w].image = config.wimg
               ELSE ~Running(worker[w])
    BY <2>1, <2>3 DEF Up, There, Idle, Down, Saved, Wanted, Outdated
  <2>4. QED
    BY <2>2, <2>3 DEF Saved, Fresh, Runs
<1>2. QED
  BY InductiveForWorkers, <1>1, PTL
=============================================================================
