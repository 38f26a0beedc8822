------------------------------ MODULE Launcher ------------------------------
(***************************************************************************)
(* earnapp-launcher.sh: the dashboard's actions on one deployment.         *)
(*                                                                         *)
(* An action runs in a subshell under errexit: it loads the saved          *)
(* configuration, changes its own copy, and issues commands (save a file,  *)
(* call docker) one after the other.  The first command that fails, or an  *)
(* interrupt at any point, ends the action and loses the copy; whatever    *)
(* was done stays done.  The message then printed sends the user to menu   *)
(* 3, Resume.  So an action is a sequence of commands, todo, of which a    *)
(* step runs the first.                                                    *)
(*                                                                         *)
(* Docker is modelled by what the launcher's calls do to a container, a    *)
(* network or a volume: external, with --restart unless-stopped.           *)
(*                                                                         *)
(* Abstractions.  Image ids are build numbers (0: never built); the        *)
(* AppArmor profile is a boolean that the host may turn on.  The names are *)
(* fresh, so check_owned always succeeds (two folders are another module); *)
(* a check that fails is an Abort.  The choice of subnets and addresses,   *)
(* links, logs and the menu itself are left out.                           *)
(***************************************************************************)
EXTENDS Naturals, Sequences

CONSTANTS
  Workers,       \* the workers in order, a sequence of names
  Proxy,         \* proxies a user may assign
  InitialProxy,  \* what setup was given, worker -> proxy
  Dns,           \* DNS modes
  InitialDns,    \* the mode setup was given: modes are only compared with each other
  MaxBuild,      \* image builds (bounds options 14 and 16)
  MaxActions,    \* menu actions (bound)
  None           \* no file, no configuration

Worker == {Workers[i] : i \in DOMAIN Workers}
Desired == {"running", "stopped"}
Image == 0..MaxBuild

ASSUME ConstantsAssumption ==
  /\ Workers \in Seq(Worker) /\ Workers # <<>>
  /\ InitialProxy \in [Worker -> Proxy] /\ InitialDns \in Dns
  /\ MaxBuild \in Nat \ {0} /\ MaxActions \in Nat
  /\ None \notin [proxy : [Worker -> Proxy], desired : [Worker -> Desired], dns : Dns,
                  rimg : Image, wimg : Image]

VARIABLES
  config,    \* config.tsv, or None
  routes,    \* routes.conf, or None
  mem,       \* the running action's copy of the configuration
  action,    \* the menu action, "menu" when none runs
  todo,      \* its commands still to run
  router,    \* the router container
  worker,    \* worker -> its container
  volume,    \* workers whose identity volume exists
  nets,      \* networks that exist
  built,     \* builds so far
  apparmor,  \* the host has a profile for the deployment
  actions,   \* menu actions chosen so far
  calm       \* nothing is interrupted any more (liveness only)

disk == <<config, routes>>
dock == <<router, worker, volume, nets>>
vars == <<disk, mem, action, todo, dock, built, apparmor, actions, calm>>

NoContainer == [state |-> "absent"]
Exists(c) == c.state # "absent"
Running(c) == c.state = "running"

(***************************************************************************)
(* The actions as sequences of commands.                                   *)
(***************************************************************************)
Cmd(c) == <<[cmd |-> c]>>
N == Len(Workers)

\* for ((i=0;i<${#IPS[@]};i++)); do the commands, for worker i; done
ForWorkers(cmds) ==
  [k \in 1..(N * Len(cmds)) |->
     [cmd |-> cmds[((k - 1) % Len(cmds)) + 1], w |-> Workers[((k - 1) \div Len(cmds)) + 1]]]

OneWorker(cmds, w) == [k \in DOMAIN cmds |-> [cmd |-> cmds[k], w |-> w]]

\* Mutant: the router is started without waiting for Docker's health status.
RouterStartNoWait == Cmd("r_profile") \o Cmd("r_create") \o Cmd("r_connect") \o Cmd("r_start")

\* Mutant: the profile is compared, and the old container removed, after the creation.
RouterStartProfileLast ==
  Cmd("r_create") \o Cmd("r_connect") \o Cmd("r_profile") \o Cmd("r_start") \o Cmd("r_wait")

RouterStart ==
  Cmd("r_profile") \o Cmd("r_create") \o Cmd("r_connect") \o Cmd("r_start") \o Cmd("r_wait")

WorkerStart == <<"w_check", "w_volume", "w_create", "w_start">>

BuildImages == Cmd("r_build") \o Cmd("w_build") \o Cmd("save")
Networks == Cmd("lan") \o Cmd("wan")

\* deploy rebuilds a configuration whose images are not the bundled ones (568-571): only a
\* version before these saved such a one, and no deployment here begins with it.
Deploy == Cmd("routes") \o Cmd("if_built") \o Networks \o RouterStart \o ForWorkers(WorkerStart)

SetupSteps == Cmd("save") \o Networks \o BuildImages \o Deploy

\* Mutant: the configuration is saved before the workers are paused.
ChangeProxySaveFirst ==
  Cmd("save") \o Cmd("routes") \o ForWorkers(<<"w_stop">>) \o Cmd("r_remove") \o RouterStart
    \o ForWorkers(WorkerStart)

ChangeProxy ==
  ForWorkers(<<"w_stop">>) \o Cmd("save") \o Cmd("routes") \o Cmd("r_remove") \o RouterStart
    \o ForWorkers(WorkerStart)

\* Mutant: the router is restarted where it would have to be created anew.
ApplyDnsKeepsRouter ==
  Cmd("r_build") \o Cmd("save") \o Cmd("routes") \o ForWorkers(<<"w_stop">>) \o RouterStart
    \o ForWorkers(WorkerStart)

ApplyDns ==
  Cmd("r_build") \o Cmd("save") \o Cmd("routes") \o ForWorkers(<<"w_stop">>) \o Cmd("r_remove")
    \o RouterStart \o ForWorkers(WorkerStart)

RebuildDeployment ==
  ForWorkers(<<"w_stop">>) \o BuildImages \o ForWorkers(<<"w_rm">>) \o Cmd("r_remove") \o Deploy

RemoveDeployment ==
  ForWorkers(<<"w_remove">>) \o Cmd("r_remove") \o Cmd("lan_rm") \o Cmd("wan_rm") \o Cmd("forget")

StopOne(w) == Cmd("save") \o OneWorker(<<"w_stop">>, w)
StartOne(w) == Cmd("save") \o RouterStart \o OneWorker(WorkerStart, w)
StopAll == ForWorkers(<<"w_mark", "save", "w_stop">>) \o Cmd("r_stop")

(***************************************************************************)
(* The menu.                                                               *)
(***************************************************************************)
Choose(a, m, cmds) ==
  /\ action = "menu" /\ (actions < MaxActions \/ calm)
  /\ action' = a /\ mem' = m /\ todo' = cmds
  /\ actions' = IF calm THEN actions ELSE actions + 1
  /\ UNCHANGED <<disk, dock, built, apparmor, calm>>

\* Option 1.  A second setup would get names of its own: see the abstractions.
Setup ==
  /\ config = None /\ volume = {} /\ ~calm
  /\ Choose("setup",
       [proxy |-> InitialProxy, desired |-> [w \in Worker |-> "running"], dns |-> InitialDns,
        rimg |-> 0, wimg |-> 0], SetupSteps)

\* Option 3, and 17 once a profile is found.
Resume == config # None /\ Choose("resume", config, Deploy)

\* Options 4, 5, 6, 8, 12, 13, 14 and 16.
MenuStopOne == \E w \in Worker :
  Choose("stop", [config EXCEPT !.desired[w] = "stopped"], StopOne(w))
MenuStartOne == \E w \in Worker :
  Choose("start", [config EXCEPT !.desired[w] = "running"], StartOne(w))
MenuChangeProxy == \E w \in Worker, p \in Proxy :
  p # config.proxy[w] /\ Choose("proxy", [config EXCEPT !.proxy[w] = p], ChangeProxy)
MenuStopAll == Choose("stop_all", config, StopAll)
MenuRemove == Choose("remove", config, RemoveDeployment)
MenuStartAll ==
  Choose("start_all", [config EXCEPT !.desired = [w \in Worker |-> "running"]],
         Cmd("save") \o Deploy)
MenuRebuild == built < MaxBuild /\ Choose("rebuild", config, RebuildDeployment)
MenuDns == \E d \in Dns :
  built < MaxBuild /\ Choose("dns", [config EXCEPT !.dns = d], ApplyDns)

MenuOther ==
  /\ config # None /\ ~calm
  /\ \/ MenuStopOne \/ MenuStartOne \/ MenuChangeProxy \/ MenuStopAll \/ MenuRemove
     \/ MenuStartAll \/ MenuRebuild \/ MenuDns

(***************************************************************************)
(* The commands.  Each is the next of the running action.                  *)
(***************************************************************************)
Step(c) == todo # <<>> /\ Head(todo).cmd = c /\ todo' = Tail(todo)
Subject == Head(todo).w
Wanted(w) == mem.desired[w] = "running"
Rest == <<action, actions, apparmor, calm>>

SaveConfig ==
  /\ Step("save") /\ config' = mem
  /\ UNCHANGED <<routes, mem, dock, built, Rest>>

WriteRoutes ==
  /\ Step("routes") /\ routes' = mem.proxy
  /\ UNCHANGED <<config, mem, dock, built, Rest>>

\* rm -f config.tsv routes.conf
ForgetConfig ==
  /\ Step("forget") /\ config' = None /\ routes' = None
  /\ UNCHANGED <<mem, dock, built, Rest>>

\* Mutant: only the router image is looked for.
BuildIfRouterMissing ==
  /\ todo # <<>> /\ Head(todo).cmd = "if_built"
  /\ todo' = IF mem.rimg = 0 THEN BuildImages \o Tail(todo) ELSE Tail(todo)
  /\ UNCHANGED <<disk, mem, dock, built, Rest>>

\* deploy builds only if an image is missing.
BuildIfMissing ==
  /\ todo # <<>> /\ Head(todo).cmd = "if_built"
  /\ todo' = IF mem.rimg = 0 \/ mem.wimg = 0 THEN BuildImages \o Tail(todo) ELSE Tail(todo)
  /\ UNCHANGED <<disk, mem, dock, built, Rest>>

\* A build number is taken by the router image and used by the worker image too.
BuildRouter ==
  /\ Step("r_build")
  /\ built' = IF built < MaxBuild THEN built + 1 ELSE built
  /\ mem' = [mem EXCEPT !.rimg = built']
  /\ UNCHANGED <<disk, dock, Rest>>

BuildWorker ==
  /\ Step("w_build") /\ mem' = [mem EXCEPT !.wimg = built]
  /\ UNCHANGED <<disk, dock, built, Rest>>

NetworkCommand ==
  /\ \/ Step("lan") /\ nets' = nets \cup {"lan"}
     \/ Step("wan") /\ nets' = nets \cup {"wan"}
     \/ Step("lan_rm") /\ nets' = nets \ {"lan"}
     \/ Step("wan_rm") /\ nets' = nets \ {"wan"}
  /\ UNCHANGED <<disk, mem, router, worker, volume, built, Rest>>

(***************************************************************************)
(* The router container.                                                   *)
(***************************************************************************)
RouterIs(r) == router' = r /\ UNCHANGED <<disk, mem, worker, volume, nets, built, Rest>>

RouterRemove == Step("r_remove") /\ RouterIs(NoContainer)

\* docker rm -f if the profile of the container is not the host's.
RouterProfile ==
  /\ Step("r_profile")
  /\ RouterIs(IF Exists(router) /\ apparmor /\ ~router.apparmor THEN NoContainer ELSE router)

\* The environment and the image are fixed when the container is created.  passed: this
\* container has been healthy.
NewRouter == [state |-> "created", lan |-> FALSE, healthy |-> FALSE, passed |-> FALSE,
              routes |-> None, dns |-> mem.dns, image |-> mem.rimg, apparmor |-> apparmor]

RouterCreate ==
  /\ Step("r_create")
  /\ Exists(router) \/ ("wan" \in nets /\ mem.rimg # 0)
  /\ RouterIs(IF Exists(router) THEN router ELSE NewRouter)

RouterConnect ==
  /\ Step("r_connect") /\ "lan" \in nets
  /\ RouterIs([router EXCEPT !.lan = TRUE])

\* docker start is a no-op on a running container; a boot reads routes.conf.
Booted(r) == [r EXCEPT !.state = "running", !.healthy = FALSE, !.routes = routes]

RouterStartCommand ==
  /\ Step("r_start") /\ RouterIs(IF Running(router) THEN router ELSE Booted(router))

RouterWait == Step("r_wait") /\ router.healthy /\ RouterIs(router)

RouterStop ==
  /\ Step("r_stop")
  /\ RouterIs(IF Running(router) THEN [router EXCEPT !.state = "exited", !.healthy = FALSE]
              ELSE router)

(***************************************************************************)
(* The worker containers.                                                  *)
(***************************************************************************)
WorkerIs(w, c) ==
  /\ worker' = [worker EXCEPT ![w] = c]
  /\ UNCHANGED <<disk, mem, router, volume, nets, built, Rest>>

Stopped(c) == IF Running(c) THEN [c EXCEPT !.state = "exited"] ELSE c

WorkerStop == Step("w_stop") /\ WorkerIs(Subject, Stopped(worker[Subject]))
WorkerMark ==
  /\ Step("w_mark") /\ mem' = [mem EXCEPT !.desired[Subject] = "stopped"]
  /\ UNCHANGED <<disk, dock, built, Rest>>

\* docker rm refuses a running container; docker rm -f does not.
WorkerRm == Step("w_rm") /\ ~Running(worker[Subject]) /\ WorkerIs(Subject, NoContainer)

WorkerRemove == Step("w_remove") /\ WorkerIs(Subject, NoContainer)

Outdated(c) == (apparmor /\ ~c.apparmor) \/ c.image # mem.wimg

\* The commands of worker_start, for the workers whose desired state is running
\* (option 5 has just set it for its one worker).
WorkerCheck ==
  /\ Step("w_check")
  /\ LET c == worker[Subject]
     IN  WorkerIs(Subject, IF Wanted(Subject) /\ Exists(c) /\ Outdated(c) THEN NoContainer ELSE c)

WorkerVolume ==
  /\ Step("w_volume")
  /\ volume' = IF Wanted(Subject) /\ ~Exists(worker[Subject])
               THEN volume \cup {Subject} ELSE volume
  /\ UNCHANGED <<disk, mem, router, worker, nets, built, Rest>>

WorkerCreate ==
  /\ Step("w_create")
  /\ Wanted(Subject) /\ ~Exists(worker[Subject]) => mem.wimg # 0
  /\ WorkerIs(Subject, IF Wanted(Subject) /\ ~Exists(worker[Subject])
                       THEN [state |-> "created", image |-> mem.wimg, apparmor |-> apparmor]
                       ELSE worker[Subject])

\* Mutant: the test of DESIRED is forgotten.
WorkerStartAlways ==
  /\ Step("w_start")
  /\ WorkerIs(Subject, IF Exists(worker[Subject]) THEN [worker[Subject] EXCEPT !.state = "running"]
                       ELSE worker[Subject])

WorkerStartCommand ==
  /\ Step("w_start")
  /\ WorkerIs(Subject, IF Wanted(Subject) THEN [worker[Subject] EXCEPT !.state = "running"]
                       ELSE worker[Subject])

(***************************************************************************)
(* The end of an action, and what happens outside the launcher.            *)
(***************************************************************************)
BackToMenu ==
  /\ action' = "menu" /\ todo' = <<>> /\ mem' = None
  /\ UNCHANGED <<disk, dock, built, apparmor, actions, calm>>

Done == action # "menu" /\ todo = <<>> /\ BackToMenu

\* A command that cannot succeed: an image or a network is missing, or the router has
\* no routes to become healthy with.
Refused ==
  /\ todo # <<>>
  /\ LET c == Head(todo)
     IN  \/ c.cmd = "r_create" /\ ~Exists(router) /\ ("wan" \notin nets \/ mem.rimg = 0)
         \/ c.cmd = "r_connect" /\ "lan" \notin nets
         \/ c.cmd = "r_wait" /\ routes = None
         \/ c.cmd = "w_create" /\ Wanted(c.w) /\ ~Exists(worker[c.w]) /\ mem.wimg = 0
  /\ BackToMenu

\* A command fails (errexit), Ctrl-C, the 90 seconds of router_start run out, or the
\* host goes down with the launcher.
Abort == ~calm /\ todo # <<>> /\ BackToMenu

\* Docker restarts the router: a component died, or the host came back.
RouterReboot ==
  /\ ~calm /\ Running(router)
  /\ router' = Booted(router)
  /\ UNCHANGED <<disk, mem, action, todo, worker, volume, nets, built, apparmor, actions, calm>>

\* Without a routes file the entrypoint exits and Docker starts it again, until there is one.
RouterRetry ==
  /\ Running(router) /\ router.routes = None /\ routes # None
  /\ router' = Booted(router)
  /\ UNCHANGED <<disk, mem, action, todo, worker, volume, nets, built, apparmor, actions, calm>>

RouterHealthy ==
  /\ Running(router) /\ ~router.healthy /\ router.routes # None
  /\ router' = [router EXCEPT !.healthy = TRUE, !.passed = TRUE]
  /\ UNCHANGED <<disk, mem, action, todo, worker, volume, nets, built, apparmor, actions, calm>>

ProfileAppears ==
  /\ ~calm /\ ~apparmor /\ action = "menu" /\ apparmor' = TRUE
  /\ UNCHANGED <<disk, mem, action, todo, dock, built, actions, calm>>

\* Bound: at the menu.  An action running then would only have been one that is not
\* interrupted.
Calm ==
  /\ ~calm /\ action = "menu" /\ calm' = TRUE
  /\ UNCHANGED <<disk, mem, action, todo, dock, built, apparmor, actions>>

(***************************************************************************)
(* The specification.                                                      *)
(***************************************************************************)
Init ==
  /\ config = None /\ routes = None /\ mem = None /\ action = "menu" /\ todo = <<>>
  /\ router = NoContainer /\ worker = [w \in Worker |-> NoContainer]
  /\ volume = {} /\ nets = {} /\ built = 0 /\ apparmor = FALSE /\ actions = 0 /\ calm = FALSE

Command ==
  \/ SaveConfig \/ WriteRoutes \/ ForgetConfig \/ BuildIfMissing \/ BuildRouter \/ BuildWorker
  \/ NetworkCommand
  \/ RouterRemove \/ RouterProfile \/ RouterCreate \/ RouterConnect \/ RouterStartCommand
  \/ RouterWait \/ RouterStop
  \/ WorkerStop \/ WorkerMark \/ WorkerRm \/ WorkerRemove
  \/ WorkerCheck \/ WorkerVolume \/ WorkerCreate \/ WorkerStartCommand
  \/ Done \/ Refused

Next ==
  \/ Setup \/ Resume \/ MenuOther
  \/ Command \/ Abort
  \/ RouterReboot \/ RouterRetry \/ RouterHealthy \/ ProfileAppears \/ Calm

Spec == Init /\ [][Next]_vars

\* The shell runs its commands, Docker's probe its script, and the user follows the
\* advice printed after a failure.
Fairness == WF_vars(Command) /\ WF_vars(RouterRetry) /\ WF_vars(RouterHealthy) /\ WF_vars(Resume)

FairSpec == Spec /\ Fairness

(***************************************************************************)
(* Properties.                                                             *)
(***************************************************************************)
Configuration == [proxy : [Worker -> Proxy], desired : [Worker -> Desired], dns : Dns,
                  rimg : Image, wimg : Image]
RouterContainer ==
  [state : {"created", "running", "exited"}, lan : BOOLEAN, healthy : BOOLEAN,
   passed : BOOLEAN, routes : [Worker -> Proxy] \cup {None}, dns : Dns,
   image : Image \ {0}, apparmor : BOOLEAN]
WorkerContainer ==
  [state : {"created", "running", "exited"}, image : Image \ {0}, apparmor : BOOLEAN]

\* Types; in particular a container is created from an image that was built.
TypeOK ==
  /\ config \in Configuration \cup {None} /\ mem \in Configuration \cup {None}
  /\ routes \in [Worker -> Proxy] \cup {None}
  /\ router \in RouterContainer \cup {NoContainer}
  /\ \A w \in Worker : worker[w] \in WorkerContainer \cup {NoContainer}
  /\ volume \subseteq Worker /\ nets \subseteq {"lan", "wan"}
  /\ built \in Image /\ actions \in 0..MaxActions
  /\ (action = "menu") = (mem = None)

Released(w) == ~Running(worker[w]) /\ Running(worker'[w])

\* router_start waits for health and its error says "workers were not released": whatever
\* was interrupted before, the launcher starts a worker only while a router container
\* runs on the LAN that has passed its health check.
ReleasedBehindRouter ==
  [][\A w \in Worker : Released(w) => Running(router) /\ router.lan /\ router.passed]_vars

\* The saved desired state is the launcher's word: it starts a worker only if config.tsv
\* says so at that moment (options 3, 6, 14, 16 and 17 never wake a stopped worker).
StoppedStaysStopped ==
  [][\A w \in Worker : Released(w) => config.desired[w] = "running"]_vars

\* change_proxy pauses every worker before it saves the new assignment: while the saved
\* file and the router's routes disagree, no worker sends through the old proxy.
SwapWithWorkersPaused ==
  action = "proxy" /\ config = mem /\ (Running(router) => router.routes # config.proxy)
    => \A w \in Worker : ~Running(worker[w])

\* Options 6, 14 and 16 run to their end leave nothing stale, whatever was interrupted
\* before them: router and running workers are those of the saved configuration.
CompletedChangeInSync ==
  action \in {"proxy", "dns", "rebuild"} /\ todo = <<>> =>
    /\ Running(router) /\ router.routes = config.proxy
    /\ router.dns = config.dns /\ router.image = config.rimg
    /\ \A w \in Worker :
         IF config.desired[w] = "running"
         THEN Running(worker[w]) /\ worker[w].image = config.wimg
         ELSE ~Running(worker[w])

Deployed ==
  config # None =>
    /\ Running(router) /\ router.healthy
    /\ \A w \in Worker : config.desired[w] = "running" => Running(worker[w])

\* Wherever the last action was cut off, Resume, tried again, brings the saved deployment
\* up, and it stays up however often Resume is chosen (the message of line 809).
ResumeRepairs == calm ~> []Deployed

\* Expected to fail.  "Action failed; saved configuration can be resumed from menu 3."
\* (line 809): after Resume the traffic uses the saved proxies, names are resolved in the
\* saved mode, and no worker saved as stopped runs.
ResumeRestoresSaved ==
  action = "resume" /\ todo = <<>> =>
    /\ router.routes = config.proxy
    /\ router.dns = config.dns
    /\ \A w \in Worker : config.desired[w] = "stopped" => ~Running(worker[w])
=============================================================================
