----------------------------- MODULE SdkDevices -----------------------------
(***************************************************************************)
(* The devices of multiplatform-earnapp/sdk/client.js: start and stop of   *)
(* the client, the monitor that follows the network interfaces, the        *)
(* Device objects it creates and releases, their connectivity test, and    *)
(* the connection loop each of them starts.                                *)
(*                                                                         *)
(* One thread: a step runs up to the next await, timer or event.  A        *)
(* promise that was started cannot be taken back: sp.return() of a device  *)
(* runs its close(), and what the device was waiting for goes on.          *)
(*                                                                         *)
(* Abstractions.  The connection loop is reduced to dialling, being        *)
(* connected and choosing the next server (ConnLadder has the rest); IPv6  *)
(* and the server's other messages are left out; Task and the OS are       *)
(* external.  The first start has happened: before it only the interfaces  *)
(* can change, which may be any.                                           *)
(***************************************************************************)
EXTENDS Naturals, FiniteSets, Sequences, SequencesExt

CONSTANTS
  Name,        \* network interfaces
  Addr,        \* their addresses
  MaxChanges,  \* starts, stops and interface changes (bound)
  None

ASSUME ConstantsAssumption ==
  /\ IsFiniteSet(Name) /\ MaxChanges \in Nat
  /\ None \notin Addr /\ None \notin [Name -> Addr \cup {None}]

VARIABLES
  ifaces,   \* os.networkInterfaces(): name -> address, or None
  started,  \* started; monitor_et runs exactly then
  seen,     \* E.devs as the last check left it, None when it has no list
  table,    \* devs: name -> number of its Device, 0 for none
  device,   \* the Device objects ever made
  main,     \* main_conn: the Device whose dial set it last, 0 for none
  changes,  \* starts, stops and changes so far
  calm      \* no more of them, and the network works

vars == <<ifaces, started, seen, table, device, main, changes, calm>>

Devices == DOMAIN device
Nobody == [n \in Name |-> 0]

NewDevice(n) ==
  [name |-> n, addr |-> ifaces[n], state |-> "test", task |-> "test",
   ladder |-> "none", redirect |-> FALSE, next |-> "chosen", closed |-> FALSE]

\* sp.return() and the close() it runs.
Closed(d) == [d EXCEPT !.closed = TRUE, !.state = "disconnected"]

(***************************************************************************)
(* The monitor (check_devs, once a second) and handle_devs.                *)
(***************************************************************************)
\* Mutant: interfaces without an IPv4 address are listed too.
PresentAll == Name

Present == {n \in Name : ifaces[n] # None}

\* Mutant: the interface is compared by its name.
StaleByName(n) == table[n] # 0 /\ ifaces[n] = None

\* Released: the interface is gone, or has another address now.
Stale(n) == table[n] # 0 /\ device[table[n]].addr # ifaces[n]

\* Mutant: the Device of a changed address is replaced but not released.
ReleasedIfGone == {table[n] : n \in {m \in Name : Stale(m) /\ ifaces[m] = None}}

Released == {table[n] : n \in {m \in Name : Stale(m)}}

HandleDevs ==
  LET stays == {n \in Present : table[n] # 0 /\ ~Stale(n)}
      fresh == SetToSeq(Present \ stays)
  IN  /\ device' = [i \in Devices |-> IF i \in Released THEN Closed(device[i]) ELSE device[i]]
                     \o [k \in DOMAIN fresh |-> NewDevice(fresh[k])]
      /\ table' = [n \in Name |->
                     IF n \in stays THEN table[n]
                     ELSE IF n \in Present
                          THEN Len(device) + (CHOOSE k \in DOMAIN fresh : fresh[k] = n)
                          ELSE 0]

CheckDevs ==
  /\ started /\ seen # ifaces
  /\ HandleDevs /\ seen' = ifaces
  /\ UNCHANGED <<ifaces, started, main, changes, calm>>

(***************************************************************************)
(* start, stop (also by SIGUSR2 and the status file), interface changes.   *)
(***************************************************************************)
Change == ~calm /\ changes < MaxChanges /\ changes' = changes + 1 /\ UNCHANGED calm

Start ==
  /\ Change /\ ~started /\ started' = TRUE
  /\ UNCHANGED <<ifaces, seen, table, device, main>>

\* Mutant: the list of the last check is kept.
StopKeepsList ==
  /\ Change /\ started /\ started' = FALSE
  /\ device' = [i \in Devices |-> IF \E n \in Name : table[n] = i THEN Closed(device[i])
                                  ELSE device[i]]
  /\ table' = Nobody
  /\ UNCHANGED <<ifaces, seen, main>>

Stop ==
  /\ Change /\ started /\ started' = FALSE
  /\ device' = [i \in Devices |-> IF \E n \in Name : table[n] = i THEN Closed(device[i])
                                  ELSE device[i]]
  /\ table' = Nobody /\ seen' = None
  /\ UNCHANGED <<ifaces, main>>

InterfaceChanges(n) ==
  /\ Change
  /\ \E a \in (Addr \cup {None}) \ {ifaces[n]} : ifaces' = [ifaces EXCEPT ![n] = a]
  /\ UNCHANGED <<started, seen, table, device, main>>

Calm ==
  /\ ~calm /\ calm' = TRUE
  /\ UNCHANGED <<ifaces, started, seen, table, device, main, changes>>

(***************************************************************************)
(* A Device tests its connectivity until one test site answers.            *)
(***************************************************************************)
Becomes(i, d) ==
  /\ device' = [device EXCEPT ![i] = d]
  /\ UNCHANGED <<ifaces, started, seen, table, changes, calm>>

TestSucceeds(i) ==
  /\ device[i].task = "test" /\ UNCHANGED main
  /\ Becomes(i, [device[i] EXCEPT !.task = "none", !.state = "connected", !.ladder = "top"])

\* 'wait_test' starts a timer, which tests again.
TestFails(i) ==
  /\ device[i].task = "test" /\ ~calm /\ UNCHANGED main
  /\ Becomes(i, [device[i] EXCEPT !.task = "wait", !.state = "wait_test"])

TestAgain(i) ==
  /\ device[i].task = "wait" /\ UNCHANGED main
  /\ Becomes(i, [device[i] EXCEPT !.task = "test", !.state = "test"])

(***************************************************************************)
(* The connection loop of a Device, reduced.                               *)
(***************************************************************************)
\* The loop ends when the device is not connected; a dial makes a new Main_conn.
LadderEnds(i) ==
  /\ device[i].ladder \in {"top", "last"} /\ device[i].state # "connected" /\ UNCHANGED main
  /\ Becomes(i, [device[i] EXCEPT !.ladder = "none"])

\* Mutant: the loop does not look at its device again.
LadderDialsAnyway(i) ==
  /\ device[i].ladder = "top" /\ main' = i
  /\ Becomes(i, [device[i] EXCEPT !.ladder = "dial", !.redirect = FALSE, !.next = "chosen"])

LadderDials(i) ==
  /\ device[i].ladder = "top" /\ device[i].state = "connected" /\ main' = i
  /\ Becomes(i, [device[i] EXCEPT !.ladder = "dial", !.redirect = FALSE, !.next = "chosen"])

\* All servers may have failed now and the agents come next, of which there is no address.
DialFails(i) ==
  /\ device[i].ladder = "dial" /\ ~calm /\ UNCHANGED main
  /\ \E l \in {"top", "last"} : Becomes(i, [device[i] EXCEPT !.ladder = l])

\* The exception of ConnLadder's NoAgent; the Device does not learn of it.
LadderThrows(i) ==
  /\ device[i].ladder = "last" /\ device[i].state = "connected" /\ UNCHANGED main
  /\ Becomes(i, [device[i] EXCEPT !.ladder = "thrown"])

DialSucceeds(i) ==
  /\ device[i].ladder = "dial" /\ UNCHANGED main
  /\ Becomes(i, [device[i] EXCEPT !.ladder = "open"])

\* tunnel_redirect is noted in the connection's own Main_conn, and closes it.
ServerRedirects(i) ==
  /\ device[i].ladder = "open" /\ ~device[i].redirect /\ UNCHANGED main
  /\ Becomes(i, [device[i] EXCEPT !.redirect = TRUE])

\* What is looked at when the connection has ended is the global main_conn.
Disconnected(i) ==
  /\ device[i].ladder = "open" /\ UNCHANGED main
  /\ Becomes(i, [device[i] EXCEPT !.ladder = "top",
                  !.next = IF device[main].redirect THEN "elsewhere" ELSE "same"])

(***************************************************************************)
(* The specification.                                                      *)
(***************************************************************************)
Init ==
  /\ ifaces \in [Name -> Addr \cup {None}]
  /\ started = TRUE /\ seen = None /\ table = Nobody /\ device = <<>> /\ main = 0
  /\ changes = 0 /\ calm = FALSE

Test(i) == TestSucceeds(i) \/ TestFails(i) \/ TestAgain(i)
Ladder(i) ==
  \/ LadderEnds(i) \/ LadderThrows(i) \/ LadderDials(i)
  \/ DialFails(i) \/ DialSucceeds(i) \/ Disconnected(i)

Next ==
  \/ CheckDevs \/ Start \/ Stop \/ Calm
  \/ \E n \in Name : InterfaceChanges(n)
  \/ \E i \in Devices : Test(i) \/ Ladder(i) \/ ServerRedirects(i)

Spec == Init /\ [][Next]_vars

\* A check makes at most one Device per interface, and is the first or follows a change.
MaxDevices == (MaxChanges + 1) * Cardinality(Name)
\* Timers fire, requests and connections end.
Fairness ==
  /\ WF_vars(CheckDevs)
  /\ \A i \in 1..MaxDevices : WF_vars(i \in Devices /\ Test(i)) /\ WF_vars(i \in Devices /\ Ladder(i))

FairSpec == Spec /\ Fairness

(***************************************************************************)
(* Properties.                                                             *)
(***************************************************************************)
DeviceRecord ==
  [name : Name, addr : Addr, state : {"test", "wait_test", "connected", "disconnected"},
   task : {"none", "test", "wait"}, ladder : {"none", "top", "last", "dial", "open", "thrown"},
   redirect : BOOLEAN, next : {"chosen", "same", "elsewhere"}, closed : BOOLEAN]

TypeOK ==
  /\ ifaces \in [Name -> Addr \cup {None}] /\ seen \in [Name -> Addr \cup {None}] \cup {None}
  /\ device \in Seq(DeviceRecord) /\ table \in [Name -> 0..Len(device)]
  /\ main \in 0..Len(device)
  /\ \A i \in Devices : device[i].ladder \in {"dial", "open"} => main # 0

\* handle_devs and stop account for every Device: one that was not released is the one
\* its interface's entry names, however fast interfaces flap and the client restarts.
NoDeviceIsLost ==
  \A i \in Devices : ~device[i].closed => table[device[i].name] = i

\* What the table holds is what the last check saw: a Device bound to an address its
\* interface has lost is never kept.
TableIsWhatWasSeen ==
  /\ (seen = None) => table = Nobody
  /\ (seen # None) => \A n \in Name :
       IF seen[n] = None THEN table[n] = 0
       ELSE table[n] # 0 /\ device[table[n]].addr = seen[n]

\* When the changes are over, every interface of a started client ends up with a
\* connection loop on its present address (which may have thrown: the ladder's matter).
Connects ==
  (calm /\ started) ~>
     [](\A n \in Present : /\ table[n] # 0
                           /\ device[table[n]].addr = ifaces[n]
                           /\ device[table[n]].ladder # "none")

\* The loop that runs when its Device is released ends with its connection.
ReleaseEndsLoop ==
  \A i \in 1..MaxDevices :
    (i \in Devices /\ device[i].state = "disconnected" /\ device[i].task = "none") ~>
      (i \in Devices /\ device[i].ladder \in {"none", "thrown"})

\* Expected to fail.  "first retry on success should be to same proxyjs server" (line
\* 952): a loop goes elsewhere only if its own connection was redirected.
RetriesSameServer ==
  [][\A i \in Devices : device'[i].next # device[i].next
                          => (device'[i].next = "elsewhere" => device[i].redirect)]_vars
=============================================================================
