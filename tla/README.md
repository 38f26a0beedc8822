# EarnApp launcher, router and worker in TLA+

This directory holds specifications of the program in this repository: TLA+ modules
translated from the source, configurations that check them with TLC on small instances, and
theorems checked with TLAPS. `PROJECT.json` lists the components, the runs, the hazards the
properties are for, what the runs found, and, for each definition, the lines it stands for.

    tlc -workers 2 -config router.cfg MCRouterPlane   # one run
    tlapm RouterPlaneProofs.tla                       # the proofs

## 1. The system

A *deployment* is one folder. The launcher (a dashboard in bash) keeps its configuration in
the folder and drives Docker: one router container, and one worker container per upstream
proxy, on a LAN network that has no other way out than the router. The router gives each
worker a tunnel to its own proxy and answers its DNS. A worker registers a device identity
with the installation server, and then runs an SDK that keeps connections to the service.

| Component | State it keeps | Operations | Interacts with |
|---|---|---|---|
| Router start, tunnels, supervision (`tun2socks-router/*.sh`) | FORWARD policy and chain, ip rules and tables, tunnel processes, files under `/run` | boot, one pass per line of the routes file, supervise, cleanup, health probe | reads `routes.conf`, which the launcher writes; Docker starts, probes, stops and restarts it; carries the packets of the workers |
| DNS forwarder (`dnsrouter/main.go`, `doh.go`) | map of routes, cache of HTTP clients, one UDP buffer | receive, look up, exchange in four modes, truncate, refuse | started by the router; reads `routes.conf` for itself |
| Launcher, actions on a deployment (`earnapp-launcher.sh`) | `config.tsv`, `routes.conf`, the copy in memory of the running action | options 1-17 of the menu | Docker's containers, networks, volumes and images |
| Launcher, folders and names | `folder.path`, owner labels, setup lock, names, subnets | start in a folder, choose names, check an owner, create, remove | other folders' launchers, through Docker and the lock |
| Launcher, link collection | `earnapp.txt`, the links in `config.tsv` | collect | files of the workers, through Docker |
| Worker and identity (`worker.cjs`, `platform.cjs`, `registration.cjs`) | `uuid`, its backups, the serial, the registration marker, links, `status.json` | start, migrate, register, run, shut down | installation server over the router; Docker's signals and restarts; loads the SDK |
| SDK devices and monitor (`sdk/client.js`) | the table of Devices, the list of the last check | start, stop, check interfaces, test, release | the operating system's interfaces; starts one connection loop per Device |
| SDK connection loop (`sdk/client.js`) | indices into host and port lists, the rung of the ladder, forced target, wait | resolve, dial, retry, fall back, redirect | proxyjs servers |
| SDK tunnel commands (`sdk/client.js`) | table of tunnels | open, copy, close | servers, targets |
| Probes, health tool, version lookup, AppArmor loading, menus | none that others use | | |

What is hard, and what would make each component correct:

* **Router.** Workers do not stop while it boots: their packets meet every intermediate
  state of the rules. A tunnel process or the DNS forwarder may die, any command may fail,
  the container may be killed or restarted, with files of the earlier boot still under
  `/run`, and the routes file may be replaced between two of its readings. Correct: a packet
  leaves through a proxy of its sender or not at all; UDP stays out of the tunnels if so
  configured; a healthy router is one that has been built; cleanup takes down all that was
  set up; failures end in a new, serving boot.
* **DNS forwarder.** Concurrent goroutines share a cache and a buffer. Correct: a name is
  resolved only where mode and routes file say for this client, the client gets the answer
  to its own question and in the size it asked for, and every goroutine ends.
* **Launcher.** Every action is a sequence of commands that can be cut off after any of
  them, and the next action starts from what that left. Correct: workers are released only
  behind a router that passed its probe; stopped workers stay stopped; identities
  survive; an assignment changes with the workers paused; a completed action leaves nothing
  stale; Resume repairs. Several folders share one Docker: no action touches an object of
  another folder, and a copied folder does not take over its original's deployment.
* **Worker.** Crashes between system calls, requests lost before or after the server acted,
  late answers, signals during an await, edits of the profile between two starts. Correct:
  the server sees one device; a marker means that the server accepted; a status that says
  running is true; shutdown is final; the worker settles.
* **SDK.** Callbacks of a single thread: what an await returns to may have been released
  meanwhile, and a module variable may belong to somebody else. Indices are shared by rungs
  with lists of different lengths. Correct: every Device is accounted for, a present
  interface gets its loop and a released one loses it, no alternative is skipped and no
  mixture of failures hides the server that works. Of the tunnels: no forbidden address is
  connected, the agent is told of each end once, and tunnels of a lost agent end.

## 2. Modules

| Module | Of | Corresponds to |
|---|---|---|
| `ExitGate` | the abstract router | three variables: guarded, who is assigned what, where each client's packets exit |
| `RouterPlane` | router | one action per command that changes rules, tables, processes or files of `router-start.sh` and `entrypoint.sh`; Docker's and the processes' steps |
| `RouterPlaneProofs` | router | theorems for every value of the constants |
| `Launcher` | launcher | an action of the menu is a sequence of commands, `todo`; one step runs its first |
| `LauncherProofs` | launcher | which workers an action starts, behind what, and what it has done when it ends |
| `Folders` | launcher | the same of several folders, reduced to the commands that touch names, labels and the lock |
| `FoldersProofs` | launcher | owners, copies and names |
| `Worker` | worker | a step per system call between two awaits; the wire and the server are external |
| `WorkerProofs` | worker | one device, markers, status and shutdown |
| `DnsService` | the abstract forwarder | queries, who may resolve them, and what became of them |
| `DnsRouter` | DNS forwarder | one record per query, one action per step of its goroutine |
| `DnsProofs` | DNS forwarder | the cache, and that `DnsRouter` implements `DnsService` |
| `ConnLadder` | SDK loop | the body of `conn_open_single`, split at its awaits |
| `ConnLadderProofs` | SDK loop | indices, and that the agents come last |
| `SdkDevices` | SDK devices | `start`, `stop`, `check_devs`/`handle_devs`, the Device's test and a reduced loop |
| `SdkDevicesProofs` | SDK devices | the table of Devices |
| `Tunnels` | SDK tunnels | `client_connect` and its alternatives, `cmd_tun`, `cmd_tun_close`, the table of open sockets |
| `TunnelsProofs` | SDK tunnels | addresses, accounting and order |
| `MC...` | | the instances the configurations use |

`RouterPlane` is the detailed specification of `ExitGate`; the refinement mapping
(`Gate` in `RouterPlane`) computes the observable exit of each client from the rule tables,
the chain and the processes, exactly as a packet would meet them. `ConnLadder` and
`SdkDevices` describe the same loop at two levels: the first has all of its choices for one
device, the second has several devices and only the choice of where to go next. `Launcher` and
`Folders` describe the same actions at two levels: the first has every command of one
deployment with names of its own, the second several deployments and the names.

`DnsRouter` is the detailed specification of `DnsService`. Its mapping (`Service`) forgets the
goroutine's place, the buffer, the HTTP clients and the cache; a query is open until its
goroutine is done, and `Fate` says as what it then ended.

### State and code

**RouterPlane.** `pc` names the next command. `chain` is TUN2SOCKS_FWD in order, `rule` and
`table` are the lines whose `ip rule` and default route exist, `proc[i]` is the tunnel
process of line `i`. They belong to the network namespace and vanish with the container
(`NoNamespace`); `ready` and `pids` are files on the container's disk and survive a restart,
after which the pids of the old boot are `"stale"`. `opt` holds the options of the container,
fixed when it is created. `ver` is the version of the routes file
that the loop has open, `fileVer` the one on disk. A packet is not an action: `ExitOf` says
where a packet of a client would end in the present state, so every state stands for packets
at that instant. `Fail` is a command that fails under `set -e`; `Kill` is everything that
kills the container. Left out: INPUT rules, addresses, MTU, the text of log lines.

**Launcher.** `mem` is the copy of the configuration that the action's subshell works on:
lost when the action ends without a save. `Abort` is possible before each command (a failed
docker call, the time limit, Ctrl-C). Docker's containers, networks and volumes are modelled
by the calls the launcher makes: in particular `docker start` of a running container does
nothing. Fresh names are assumed, so ownership checks pass. The migration of a configuration
saved by an older version (`earnapp-launcher.sh:568-571`, a rebuild) is left out: setup saves no
such configuration.

**Folders.** `obj` is what Docker knows: networks, routers, workers and volumes by name, each
with the owner in its label and the subnet or network it is on. `cfg` and `path` are
`config.tsv` and `folder.path`; `mem` is the configuration in the launcher's variables. `todo`
is, as in `Launcher`, what the action still has to do, but `check_owned` is a command of its
own: between the test of a label and the command that relies on it anybody may act. `lock` is
held by one setup of a user at a time; launchers of two users do not see each other's.
`Launch` is `prepare_folder`; its questions to Docker (214-217, up to four calls) are asked at
one instant, so that an object made or removed between two of them is not seen; the same holds of
a question whether a name is free. Commands that make, start, stop or remove are one step
each. Of images remains what building them does to the settings: it saves them (499), and with
them the owner that `load` took for granted (126); and that a container of another image or with
other AppArmor options is removed to be made again (`Renew`). `Copy` copies a folder with its
settings, which somebody else does. `InitOld` is a deployment of a version that saved no owner, all or some of whose objects
still exist. `test` and `orderly` are history variables: `test[f][o]` is what the action of `f` found
when it tested the owner of `o`. A test that found the object `"there"` becomes `"gone"` when the
object is removed, so that an object made later under the same name is not taken for the one
that was tested.

**Worker.** Files are written as the code writes them: `writeFileSync` can leave an empty
file, `atomicWrite` cannot. A request on the wire may be accepted after its sender has timed
out or died. `Waiting` names the places where JavaScript can take a signal. `profile` has what
an edit between two starts may change: the platform, a supplied UUID, a supplied serial, and
consent (without it the worker is paused). `proc.cmd` distinguishes `run` from `register`,
which an operator starts by hand and which ends after the registration.

**DnsRouter.** `cached` is the `sync.Map` of HTTP clients, with loading, creating and
storing as the steps they are; `buf` is the buffer of `serveUDP`. A query's bytes are
reduced to whether it has a whole header and which size it advertises. `dnsrouter` keeps the
last line of a client where `ip rule` uses the first, and reads the file for itself
(`entrypoint.sh:324`): with a client on two lines, or a file that is replaced during the boot,
names are resolved through another proxy than the one the traffic takes.

**ConnLadder.** `agents` is the length of the list of agent addresses: none as shipped
(`sdk_conf.js:13`), and more when the cloud configuration brings them (`CloudConf`). With none, the
third rung makes a server name of an address that does not exist; `util.gen_servername` throws,
nothing in the loop catches it, and the loop is over (`NoAgent`, `pc = "thrown"`). `rung`, `host`, `port`, `tries`, `wait` and `force` are the locals of
`conn_open_single`. A dial either fails, or connects and later is lost, redirected or
declined. `tried` is a history variable for `AlternativesExhausted`.

**Tunnels.** `link[k]` is the connection to the agent of the message (0) or to its `k`-th
alternative. `tun[t].at` is the await at which `cmd_tun` stands, or how it ended; `stream` and
`sock` are the two ends that it joins, `listed` is the entry in the table behind
`num_streams`, and `destroys` counts what the agent is told. Both awaits (the lookup, the
connection) may return after the stream, the agent connection or the worker has gone.

**SdkDevices.** `Device` objects are never forgotten by the model, since a released one may
still run. What is assumed of the obfuscated `Task` library, from how `client.js` uses it:
a promise that has been started is not cancelled by `sp.return()`; the `close()` registered
for it runs. The first start has happened in `Init`. `"last"` is a loop that is on its way to the
third rung of `ConnLadder` with no agent there, `"thrown"` one that got there: its Device does not
learn of it and stays connected.

## 3. Runs

All configurations say `CHECK_DEADLOCK FALSE`: the bounds end each behaviour, and a
container that is not wanted, a menu nobody uses and a loop whose device is gone do stop.

| Run | What it shows | Instance and bounds | Distinct states |
|---|---|---|---|
| `router` | containment in every state of boot, service and cleanup, the refinement of `ExitGate`, and recovery once failures stop | 2 workers, 1 stranger, 2 proxies; three routes files that follow each other (assignment swapped, a worker named twice, a worker gone); the launcher's options, and hev with UDP tunnelled and strangers direct | 27,004 |
| `launcher` | what is released and in step after any three actions, each cut off anywhere; Resume repairs | 2 workers, 2 proxies, 2 DNS modes, 2 builds, 3 actions | 363,611 |
| `folders` | nobody touches what is another's, a setup reserves its network, a copy starts afresh | 2 folders, 2 users, 2 names, 2 subnets, 3 actions, 1 cut off; names, subnets, folders and users are interchangeable (symmetry; the properties are invariants and action properties) | 956,336 |
| `ladder` | indices in bounds, no alternative skipped, the working server found, loops end | the sizes of `sdk_conf.js` (2 hosts x 2 ports, 1 x 2 alternatives, 16 addresses), with no agents, as shipped, which may become 3 at any time, and with 3 | 157,267 |
| `devices` | Devices are accounted for, the table follows the interfaces, a started client's interface gets its loop, released loops end | 1 interface, 2 addresses, 2 changes, among them a stop and the start after it | 70,724 |
| `tunnels` | what is dialled and what the agent is told; the order of the alternatives; TCP tunnels of a lost agent end | 2 tunnels, an allowed and a forbidden address, up to 3 alternatives with a limit of 3 attempts, so that either may end the chain | 35,715 |
| `worker` | one device for the server, markers, a true status, shutdown; the worker settles | 3 platforms, 2 of them legacy; 4 events | 322,088 |
| `dns` | one HTTP client per route, and the refinement of `DnsService` | all modes, 3 clients (one on two lines, one on none), 2 proxies, 2 concurrent queries, sizes below, at and above the limits | 322,304 |

**Why these bounds are enough.** Two workers show every relation between one client and
another; the third address stands for any that the file does not name. A boot and its DNS
forwarder see at most two versions of the routes file; three give the boot after them
another. Kills, deaths, restarts, probes and boots of the router are *not* bounded: its only
bound is `MaxVersion`. Three launcher actions are one to set up, one to be cut off and one to
meet what that left; Resume is chosen without bound once nothing fails. In `folders` they are
two setups that race and an action after them, or a setup and what a copy does, with any one
of them cut off; a deployment that exists already takes none of them. Two names are those of one
deployment (the second is its worker's, or another's), so that what one folder chooses is what
the other has chosen, or its worker's; theorems have any number. An event of the
worker is a crash, a fault, a stop, an SDK exception, a registration by hand or an edit of the
profile; four are a lost answer, an edit, a crash and a second edit, and its safety
properties are proved for any number. Two tunnels relate one socket to the table and
another to the loss of the agent; their safety is proved as well. Two queries are
the smallest race for the cache; the step of a third would see a cache entry, as the second
does. Waits of the ladder are counted in doublings (one), and what the loop does does not
depend on their number. The SDK's client has been started before the first change:
two are a stop and the start after it, a flapping address, or a stop while a change is under way,
at any point of the tests and loops of up to three Devices, released ones among them. Interfaces
meet only in the table, whose properties are proved for any number, and in `main_conn`, for which
`devices_bug_redirect` has two.

**Fairness.** Weak fairness only. The shell goes on running its script; Docker starts a
container that is wanted (`--restart unless-stopped`) and runs its probe; a timer fires and
an await with a timeout returns (the registration request, a dial, a tunnel's lookup and
connection, the idle timeout of a TCP tunnel); `dns` and `folders` have safety properties only
and assume none. Nothing makes a failure, a kill,
a user's choice or a network change happen. The `calm` variable, where there is one, is a
point after which nothing fails any more: liveness properties that need it say so in their
premise, and a behaviour in which calm never comes is included and makes the premise
false. Two assumptions deserve mention: `launcher` assumes that the user does choose
Resume again, as the error message advises; and `worker` needs no `calm`, as events are
bounded.

**Disagreements.** Runs that are expected to fail, each for one property that a comment or
a document of the repository states (quoted in `PROJECT.json`, `findings`):

| Run | What happens |
|---|---|
| `router_bug_uplink` | after a restart, packets of running workers are forwarded to the uplink until the policy is closed |
| `launcher_bug_resume` | an action saves before it acts; cut off in between, Resume leaves the old proxy, the old DNS mode or a stopped worker running |
| `ladder_bug_host` | names that fail lead to the second rung with an index beyond its list |
| `devices_bug_redirect` | with two devices, the redirect of one is followed by the other |

Three more were met and need no run to be seen. With no agent addresses, as shipped, one climb in
which every host and alternative fails ends the loop of a connected device: the third rung throws
(`client.js:881-886`, `NoAgent`), only the Task of line 1470 sees it, and no loop runs until the
device is released and found again. No line says in so many words that this cannot be; lines 866
and 1014-1015 read as if only a device that is gone ended its loop. The DNS forwarder and the loop may go by
different lines or versions of the routes file (see *DnsRouter* above). And
`multiplatform-earnapp/README.md:125-126` promises that a registered identity is never
rewritten, while `platform.cjs:67` asks for the marker: an identity that the server accepted,
but whose answer was lost, is rewritten if the platform is then edited; its digits stay, which is
what `OneDevice` says.

The passing properties stop short of these: `UplinkOnlyUnguarded` excepts the two program
counters before the policy is closed, `CompletedChangeInSync` speaks of actions that ran to
their end, `MarkerMeansAccepted` of identities with a marker, `ReleasedBehindRouter` of a router container
that has passed its check since it was created (Docker may have restarted it since), `Served` of
loops that have not thrown and, while there are no agents, of a climb from its beginning,
`Connects` of loops that run or have thrown, `NoDeviceIsLost` of
bookkeeping and not of what a Device does that is released while it tests, `SetupReserves` of
one user's launchers (only they share the lock) while none is cut off, and `OthersUntouched` of
objects that were there when the action tested their owner.

## 4. Proofs

Every theorem holds for all values of its module's constants that satisfy the named ASSUMEs of
that module (the kinds of the constants, and that the values that mean "none" are none of the
others); none is about the small instances above.

### The router

`RouterPlaneProofs` proves, for every finite or infinite set of clients and proxies, every
number and content of routes files, both engines and all policies:

| Theorem | States |
|---|---|
| `Inductive` | `Spec => []IInv` |
| `TypeCorrect` | `TypeOK` |
| `NoUplinkWhenGuarded` | `UplinkOnlyUnguarded`: after the policy is closed no packet reaches the uplink |
| `OwnProxyOnly` | `ExitIsAssigned`: a packet leaves only through a proxy of its sender |
| `UdpContained` | `UdpNeverTunnelled`: with UDP rejected or dropped none enters a tunnel |
| `HealthIsOfThisBoot` | `HealthyMeansBuilt`: a healthy container has finished this boot |
| `EveryLineServed` | `ReadyServesEveryLine`: a ready router carries the TCP of every client of its file, both ways |
| `Refinement` | `RefinesExitGate`: the router implements the abstract gate |

Its assumption is `ConstantsAssumption` of `RouterPlane`: the options have one of
their values (any set of combinations may occur), and a version of the routes file is a sequence of lines. It does not say that
the lines differ or that there are any.

The invariants are not inductive. Where a packet goes depends on the *order* of the chain,
which depends on where in the loop the script has got to and on what every earlier pass
appended. `IInv` therefore adds to the types:

* `PolicyInv`: before the chain is created no rule, route or process exists; from then on
  the policy is DROP; inside the loop `line` is a line of the file that was opened.
* `ChainInv`: an ACCEPT in the chain belongs to a line of the file, and, if UDP is not
  tunnelled, stands behind the UDP rule of the same line; so does the place where the next
  ACCEPT will be put.

Each of the three parts is shown to be preserved by every action (`TypeStep`, `PolicyStep`,
`ChainStep`). The theorems then follow without looking at actions: if a packet is forwarded
while the policy is DROP, some ACCEPT decided (`DecidingRule`), which needs the routing
decision to be that of its own line (`ForwardedIntoTunnel`), whose table leads to that line's
process; so it is neither the uplink nor another client's proxy. A UDP packet that meets the
ACCEPT has met the UDP rule before. For the refinement, `GateStep` shows that each step
opens, closes, reads a new file with all exits blocked, or changes exits within the
assignment.

`HealthIsOfThisBoot` has an invariant of its own, `BuiltInv`: the pids of the running boot
exist only after its last command, because a start makes those of the last one stale and
`router-start.sh` removes the files before anything else.

`EveryLineServed` is the converse of containment: not only does nothing wrong pass, what is
right does. `ServeInv` says what the passes of the loop have left: the rules and processes of
the lines that are done (`Installed`), their ACCEPTs in both directions (`Admitted`), and that
no rule that blocks stands in front of an ACCEPT, since those are appended when the loop is
over (`BlockLast`). A client is served by the first of its lines, which is found without
assuming that it has only one.

### The launcher

`LauncherProofs`, for any number of workers, proxies, images and actions. Its assumption on
the constants is that the initial configuration is one and that `None`, which stands for "no file",
is not a configuration.

| Theorem | States |
|---|---|
| `Inductive`, `InductiveForWorkers` | `Spec => []IInv` and `Spec => []WInv` |
| `TypeCorrect` | `TypeOK` |
| `ReleaseNeedsProbe` | `ReleasedBehindRouter`: a worker is started only while a router runs on the LAN that has passed its check |
| `SavedStateRules` | `StoppedStaysStopped`: and only if the saved configuration says so |
| `SwapIsPaused` | `SwapWithWorkersPaused`: while saved proxies and the router's disagree, no worker runs |
| `ChangesComplete` | `CompletedChangeInSync`: a change that ran to its end leaves everything in step |

What makes a `docker start` of a worker right happened earlier in the same action, so the
invariant speaks of what is left in `todo`. A *rule* has goals, a key and commands that spoil:
each goal still to run comes after the key, with nothing that spoils in between (`Closed`), or
what the key establishes holds now and nothing before the goal spoils it (`Relying`). `IInv` has
four: connecting, starting and waiting come after the creation of the router; waiting
after the connection; starting workers after the wait; starting workers after the save. They are
shown of every sequence of the menu from its parts (`MenuLawful`, by lemmas on
concatenation), and are kept by running the first command (`TailKeeps`), by building images in
front of the rest (`PrefixKeeps`) and by being cut off. Docker's restarts of the router keep what
the keys established (`RebootStep`). The invariant adds to the rules the types and that a
healthy container has passed its check.

What an action has done *when it ends* is a rule as well: its goal is a mark behind the last
command (`View`). But "the workers have been started" is not about one command; each worker
has its own, and a command for another worker must not spoil it. `WInv` therefore looks at `todo`
once for each worker, with the commands for the others blotted out (`Look`), and has rules for

* every action: a container is checked before it is created, and created before it is started
  (`WorkerRules`). Types need them: a container that is started must exist;
* the three changes: at the end the worker runs if it shall, with the present image, and is
  stopped if not; the configuration is saved; the router runs, was created when the old one
  was gone, with the routes of the configuration on the disk (`ChangeRules`);
* a change of a proxy: the worker is stopped before anything else happens, and nothing is saved
  before (`SwapRules`). Neither suffices alone: a save with one worker still to be stopped would be
  followed by a moment in which it runs against the saved file.

### The folders

`FoldersProofs`, for any number of folders, users, names, subnets, actions and cuts:

| Theorem | States |
|---|---|
| `Inductive` | `Spec => []IInv` |
| `TypeCorrect` | `TypeOK` |
| `ForeignUntouched` | `OthersUntouched`: no command changes another folder's object that was there when its owner was tested |
| `CopiesStartAfresh` | `CopyStartsAfresh`: a copy never takes over what its original still has |
| `NamesAreReserved` | `SetupReserves`: the network of what an uncut setup saved is its folder's |

It assumes that `None` is no folder, name, subnet or object. None of the properties is
inductive: whether a command is right depends on the tests before it in the same action and on
what other folders have done since. `IInv` is the conjunction of

* `Types`, which says that what an action has left is the rest of one of the five plans of the
  menu (`Planned`); where a setup stands is then the number of commands it has left (`Left`), and
  the commands of the plans are read off once, in the tables at the start of the module;
* `Held`: the setups between taking the lock and letting go of it are exactly its holders;
* `ThereIsOwn`: an object that was found there, and still is the same, is the tester's. Nobody
  else's command can have changed its owner, since labels are only written at creation;
* `TouchTested`: each command to come that starts, stops or removes has its test before it, in
  the plan or in the past;
* `Session`: the configuration in the launcher's variables against the saved one. It is where a
  launcher that found a copied or an ownerless configuration may go on, and `folder.path`
  against the owner in the file of anybody else;
* `Reserved`: with one user and no cut, a saved configuration has its network from the end of
  the setup to the removal, and during a setup its name and subnet stay free. That part needs
  `Held`: two setups that chose names at once would take the same.

The invariant was checked with TLC on the instance of the run before it was proved. Looking for it
showed that the property itself had to be told which object was tested: an object made by another folder under
a name that was tested and then became free is foreign, and the code does not test again
(`test` is history for this).

### The worker

`WorkerProofs`, for any platforms and any number of crashes, faults and edits: `Inductive`,
`TypeCorrect` (`TypeOK`), `OneDeviceOnly` (`OneDevice`), `MarkerEarned`
(`MarkerMeansAccepted`), `StatusTrue` (`StatusTellsTruth`) and `StopIsFinal`
(`StoppedIsLast`). `IInv` adds to the types

* `Located`: what the process has learned of the files when it stands at a command, for
  instance that the identity it holds is the saved one from `register` on;
* `Requests`: all requests on their way or accepted carry the saved serial and the saved
  digits, which no later step changes, since serial and digits are only ever created when
  there are none;
* `Answers`: an answer that is still waited for is to the request for the present identity;
* `Truthful`: `StatusTellsTruth`, and that the identity then is whole.

### The SDK's tunnels

`TunnelsProofs`, for any number of requests, addresses and alternatives: `Inductive`,
`TunnelTypes` (`TypeOK`), `NoForbiddenTarget` (`OnlyAllowedDialled`), `SocketsAccounted`
(`TunnelsAccounted`) and `AgentsInOrder` (`AlternativesInOrder`). Each tunnel by itself stays
`Good`: well formed, accounted for, allowed. The order rests on `Chain`: all agents before one
that was dialled have been given up.

### The DNS forwarder

`DnsProofs`, for any routes file, flags, sizes and number of concurrent queries: `Inductive`,
`OneClient` (`OneClientPerRoute`) and `Refinement` (`RefinesDnsService`). `IInv` says what a
goroutine knows at each of its steps (`Good`), that a cached HTTP client was made for the route of
its key (`Cache`), and that one with idle connections is cached or about to be
(`Idle`). For the refinement, each step of a goroutine resolves, answers, truncates, refuses or
loses its query, or changes nothing that `DnsService` sees (`HandleMaps`); that a resolver
is allowed is where `Cache` is needed.

### The SDK's devices

`SdkDevicesProofs`, for any finite set of interfaces, any addresses and any number of changes:
`Inductive`, `TypeCorrect` (`TypeOK`), `EveryDeviceAccounted` (`NoDeviceIsLost`) and
`TableFollowsCheck` (`TableIsWhatWasSeen`). The set must be finite because `handle_devs` makes its
Devices one after the other. The three properties are inductive together and not one by
one: that a Device is bound to what the check saw needs that the entry of a name is the
Device of that name, which needs the types. The work is in `handle_devs` (`Handled`): what it does
to every Device there was, to every one it makes, and to each entry of the table, for which a
set of names is turned into places of a list and back (`Listing`).

### The SDK's connection loop

`ConnLadderProofs`: `Inductive` and `TypeCorrect` (`TypeOK`) for lists of any sizes, and
`AgentsAreLast` (`AlternativesExhausted`) for `ShippedSizes`: no more alternative hosts than
hosts, and at least two alternative addresses, which `sdk_conf.js` satisfies. A hypothesis of
this kind is needed: names that fail leave `host_idx` at the number of hosts (the disagreement
shown by `ladder_bug_host`), and with more alternative hosts the round over them begins in the
middle of their list. With 4 alternative hosts for 2 hosts, or with a single alternative
address, TLC finds agents that are dialled too early; with 3 it finds none, since the round is
then over before it has had the three tries after which agents follow. `IInv` adds to the types

* `Grounded`: on the first rung nothing is counted, and `host_idx` is beyond the list only after a
  redirect;
* `Counted`: the count of tries runs at most two ahead of the place in the list, which is why it
  is bounded although redirects and losses repeat places. `TypeOK` bounds it by one more than
  the number of alternatives;
* `Aimed`: on the second rung a forced retry is aimed at the place where the indices stand.

`AgentsAreLast` adds `Swept`: a round over the alternatives has dialled all before its place, or
began beyond the end of the list and has not counted a try, so that it starts again.

### Only model-checked

Every invariant and action property of every passing run is stated by a theorem. The liveness
properties are not, since the prover does neither fairness nor ENABLED: `Recovers`,
`ResumeRepairs`, `Served`, `OfflineEnds`, `Connects`, `ReleaseEndsLoop`, `TcpTunnelsEnd` and
`Settles` are checked on the instances of the runs.

## 5. Not modelled

* `sdk/util/*`, `sdk/web_request.js`: obfuscated vendor code. What `client.js` needs from it
  (Task, sockets, streams, errors) is external.
* The second reading of the routes file by `dnsrouter`, in no property (see *DnsRouter* above).
* Of the cloud configuration, which may replace the lists of hosts, ports and addresses of the
  SDK's loop while it runs, only the list of agents.
* Of the SDK: the consent file, the tracking id (written again at every start,
  `client.js:1561`) and the idle monitor; local addresses, milestones and reports of tunnels;
  IPv6 tests of Devices. A UDP tunnel that is looked up or connected when its agent is lost
  has neither a stream that ends nor a timeout: it stays, and `TcpTunnelsEnd` is not about it.
* `dnsrouter/probe.go`: one-shot diagnostics. In `main.go`, the bytes of SOCKS and HTTP
  CONNECT handshakes and the walk over DNS records.
* Of the launcher: link collection (`collect` writes files that nothing but the display
  reads), ports, the second network of NAT mode 1, the addresses in a subnet, menus, art and
  parsing; finding and loading an AppArmor profile (only that one may appear).
* In the worker: parsing of profiles, the command `identity`, which prints, and which version
  is found (only that the lookup ends).
* `tools/health.cjs`, whose result nothing in the repository acts on; Dockerfiles, tests,
  fixtures and reference copies.

## 6. Plan

Written, in this order: `RouterPlane` with `ExitGate` and its proofs (containment is what
the system is for), `Launcher`, `ConnLadder`, `SdkDevices`, `Worker`, `DnsRouter`; then
`Tunnels`, `Folders`, `DnsService` and the proofs of `Worker`, `Tunnels`, `DnsRouter` and
`Launcher`; then the proofs of `Folders`, `ConnLadder` and `SdkDevices`, and what was left of
`RouterPlane` and `Launcher`.

Left to model:

1. Link collection against the next save (`collect` and `save`): a link that was collected is
   not lost, unless another action was running.
2. `Deployment`, composing `Launcher` and `RouterPlane`: after a reboot of the host Docker
   starts workers without the launcher's wait. It should implement an abstract
   *assignment*: each running worker's traffic leaves by its saved proxy or not at all.

Left to prove: that `Launcher` and `Folders` each implement an abstract deployment (a command of
`todo` is a step of one object or a stutter), for which their invariants have what is needed; and
`AlternativesExhausted` for sizes a little beyond `ShippedSizes`, for which TLC finds it to hold.
