------------------------------ MODULE Folders ------------------------------
(***************************************************************************)
(* Several folders of the launcher share one Docker daemon: what           *)
(* earnapp-launcher.sh does so that their deployments stay apart.          *)
(*                                                                         *)
(* A deployment is a network NAME-lan, a router NAME-router, a worker      *)
(* PREFIX-1 and its volume PREFIX-1, all labelled with the folder's OWNER. *)
(* setup chooses the names and the subnet while it holds the setup lock,   *)
(* check_owned tests a label before a command touches the object, and      *)
(* prepare_folder recognizes a folder that was copied together with its    *)
(* settings.  Every docker command that makes, starts, stops or removes an *)
(* object is one step, other folders run between any two of them, and an   *)
(* action may be cut off at each.  The questions that lead to one decision *)
(* are asked at one instant: whether a name is free, and whose a folder is *)
(* when its launcher starts (prepare_folder asks up to four times).        *)
(*                                                                         *)
(* Abstractions.  One worker for each deployment, NAT mode 2 (mode 1 adds  *)
(* a second network that is made and removed with the first).  Of images   *)
(* remains what building them does to the settings, and that a container   *)
(* may be removed to be made again; what the router's files say is the     *)
(* subject of Launcher.  A subnet is free or taken; the addresses in it    *)
(* are left out.  A suffix is another name of the set.                     *)
(***************************************************************************)
EXTENDS Naturals, Sequences

CONSTANTS Folder, Users, Names, Subnets, MaxActions, MaxCuts, None

VARIABLES
  obj,    \* Docker's networks, routers, workers and volumes
  cfg,    \* config.tsv of each folder
  path,   \* folder.path of each folder
  user,   \* who runs the launcher of each folder
  lock,   \* /tmp/earnapp-setup-$UID.lock
  open,   \* the folders whose launcher runs
  todo,   \* what the action of a launcher still has to do
  mem,    \* the configuration in its variables
  test,   \* what it found of each object whose owner it tested (history)
  orderly, \* no action was cut off, no old configuration copied (history)
  cut, actions  \* actions cut off so far, actions left to begin (bounds)

disk == <<cfg, path>>
bounds == <<orderly, cut, actions>>
vars == <<obj, disk, user, lock, open, todo, mem, test, bounds>>

Kinds == {"net", "router", "worker", "volume"}
Objects == Kinds \X Names
Object == [owner : Folder, at : Names \cup Subnets \cup {None}, up : BOOLEAN]
Config == [owner : Folder \cup {None}, name : Names \cup {None},
           prefix : Names \cup {None}, subnet : Subnets \cup {None}]
NoConfig == [owner |-> None, name |-> None, prefix |-> None, subnet |-> None]

ASSUME FoldersAssumption ==
  /\ None \notin Folder \cup Names \cup Subnets \cup Object
  /\ MaxActions \in Nat /\ MaxCuts \in Nat

\* An object is not tested yet; was there, and is still; or was not, at the test or since.
Found == {"untested", "there", "gone"}

Exists(o) == obj[o] # None
Lan(c) == <<"net", c.name>>
Router(c) == <<"router", c.name>>
Worker(c) == <<"worker", c.prefix>>
Volume(c) == <<"volume", c.prefix>>
The(kind, c) == CASE kind = "net" -> Lan(c) [] kind = "router" -> Router(c)
                  [] kind = "worker" -> Worker(c) [] kind = "volume" -> Volume(c)

(***************************************************************************)
(* The menu's actions, as the commands they run.                           *)
(***************************************************************************)
Do(op, kind) == <<op, kind>>
Step(op) == <<op, None>>

networks == <<Do("check", "net"), Do("make", "net")>>

deploy == <<Step("build")>> \o networks \o
  <<Do("check", "router"), Do("renew", "router"), Do("make", "router"), Do("start", "router"),
    Do("check", "worker"), Do("check", "volume"), Step("attached"), Do("renew", "worker"),
    Do("make", "volume"), Do("make", "worker"), Do("start", "worker")>>

\* Mutant: nothing keeps another folder's setup out between the tests and the
\* networks.
SetupUnlocked ==
  <<Step("name"), Step("subnet"), Step("prefix"), Step("tests"), Step("save")>> \o networks \o deploy

\* The images that setup builds save what it has just saved; deploy begins with them.
setup ==
  <<Step("lock"), Step("name"), Step("subnet"), Step("prefix"), Step("tests"), Step("save")>>
    \o networks \o <<Step("unlock")>> \o deploy

stop_worker == <<Do("check", "worker"), Do("stop", "worker")>>
worker_stop == <<Step("save")>> \o stop_worker

\* Images are built and saved between the two loops; the second does not test again.
rebuild_deployment ==
  stop_worker \o <<Step("save"), Do("rm", "worker"), Do("check", "router"), Do("rm_f", "router")>>
    \o deploy

\* Mutant: what belongs to the deployment's names is removed, whoever made it.
RemoveUntested == <<Do("rm_f", "worker"), Do("rm_f", "router"), Do("rm", "net"), Step("forget")>>

remove_deployment ==
  <<Do("check", "worker"), Do("rm_f", "worker"), Do("check", "router"), Do("rm_f", "router"),
    Do("check", "net"), Do("rm", "net"), Step("forget")>>

At(f, op) == todo[f] # <<>> /\ Head(todo[f])[1] = op
Target(f) == The(Head(todo[f])[2], mem[f])

Goes(f) == todo' = [todo EXCEPT ![f] = Tail(@)]
Quiet == UNCHANGED <<disk, user, open, bounds>>

\* Mutant: an action that fails leaves the lock as it is.
Keeps(f) == lock

\* The subshell of an action ends, and with it its hold on the lock.
Releases(f) == [u \in Users |-> IF lock[u] = f THEN None ELSE lock[u]]

Fail(f) ==
  /\ todo' = [todo EXCEPT ![f] = <<>>] /\ lock' = Releases(f)
  /\ UNCHANGED <<obj, mem, test>> /\ Quiet

Skip(f) == Goes(f) /\ UNCHANGED <<obj, lock, mem, test>> /\ Quiet

Becomes(f, o, r) ==
  /\ obj' = [obj EXCEPT ![o] = r]
  /\ Goes(f) /\ UNCHANGED <<lock, mem, test>> /\ Quiet

(***************************************************************************)
(* Docker's objects.                                                       *)
(***************************************************************************)
Owned(f, o) == Exists(o) => obj[o].owner = f

check_owned(f) ==
  /\ At(f, "check")
  /\ IF Owned(f, Target(f))
     THEN /\ test' = [test EXCEPT ![f][Target(f)] = IF Exists(Target(f)) THEN "there" ELSE "gone"]
          /\ Goes(f) /\ UNCHANGED <<obj, lock, mem>> /\ Quiet
     ELSE Fail(f)

\* Docker takes no network whose addresses overlap with another's.
Available(sub) == \A n \in Names : Exists(<<"net", n>>) => obj[<<"net", n>>].at # sub
New(f, kind) ==
  [owner |-> f, up |-> FALSE,
   at |-> CASE kind = "net" -> mem[f].subnet [] kind = "volume" -> None [] OTHER -> mem[f].name]
CanMake(f, kind) ==
  CASE kind = "net" -> Available(mem[f].subnet)
    [] kind = "volume" -> TRUE
    [] OTHER -> Exists(Lan(mem[f]))

\* exists || docker create.  What another folder made since the owner was
\* tested is taken as it is if exists sees it; otherwise docker create refuses
\* it, or, for a volume, returns it.
Make(f) ==
  /\ At(f, "make")
  /\ LET o == Target(f) kind == Head(todo[f])[2] IN
     IF ~Exists(o)
     THEN IF CanMake(f, kind) THEN Becomes(f, o, New(f, kind)) ELSE Fail(f)
     ELSE LET differs == (kind = "net") /\ obj[o].at # mem[f].subnet IN
          \/ ~differs /\ Skip(f)
          \/ (differs \/ (kind # "volume" /\ test[f][o] # "there")) /\ Fail(f)

\* A worker on another network is refused.
Attached(f) ==
  /\ At(f, "attached")
  /\ LET o == Worker(mem[f]) IN
     IF Exists(o) /\ obj[o].at # mem[f].name THEN Fail(f) ELSE Skip(f)

Set(f, o, up) == Becomes(f, o, [obj[o] EXCEPT !.up = up])

\* Docker starts no container whose network is gone.
Start(f) ==
  /\ At(f, "start")
  /\ LET o == Target(f) IN
     IF Exists(o) /\ Exists(<<"net", obj[o].at>>) THEN Set(f, o, TRUE) ELSE Fail(f)

Stop(f) ==
  /\ At(f, "stop")
  /\ IF Exists(Target(f)) THEN Set(f, Target(f), FALSE) ELSE Skip(f)

InUse(o) ==
  CASE o[1] = "net" -> \E p \in {"router", "worker"} \X Names : Exists(p) /\ obj[p].up /\ obj[p].at = o[2]
    [] OTHER -> obj[o].up

Vanishes(f, o) ==
  /\ obj' = [obj EXCEPT ![o] = None]
  /\ test' = [g \in Folder |-> [test[g] EXCEPT ![o] = IF @ = "there" THEN "gone" ELSE @]]
  /\ Goes(f) /\ UNCHANGED <<lock, mem>> /\ Quiet

\* docker rm refuses a running container, docker network rm a network in use.
Remove(f) ==
  /\ At(f, "rm") \/ At(f, "rm_f")
  /\ LET o == Target(f) IN
     \/ ~Exists(o) /\ Skip(f)
     \/ Exists(o) /\ At(f, "rm") /\ InUse(o) /\ Fail(f)
     \/ Exists(o) /\ ~(At(f, "rm") /\ InUse(o)) /\ Vanishes(f, o)

\* A container with other AppArmor options or of another image is made again.
Renew(f) ==
  /\ At(f, "renew")
  /\ Skip(f) \/ (Exists(Target(f)) /\ Vanishes(f, Target(f)))

(***************************************************************************)
(* setup.                                                                  *)
(***************************************************************************)
\* Only the launchers of one user have the lock in common.
Lock(f) ==
  /\ At(f, "lock") /\ lock[user[f]] = None
  /\ lock' = [lock EXCEPT ![user[f]] = f]
  /\ Goes(f) /\ UNCHANGED <<obj, mem, test>> /\ Quiet

Unlock(f) ==
  /\ At(f, "unlock") /\ lock' = [lock EXCEPT ![user[f]] = None]
  /\ Goes(f) /\ UNCHANGED <<obj, mem, test>> /\ Quiet

Chosen(f, c) ==
  mem' = [mem EXCEPT ![f] = c] /\ Goes(f) /\ UNCHANGED <<obj, lock, test>> /\ Quiet

unique_prefix(n) == \A k \in Kinds : ~Exists(<<k, n>>)

ChooseName(f) ==
  /\ At(f, "name")
  /\ \E n \in Names : unique_prefix(n) /\ Chosen(f, [mem[f] EXCEPT !.name = n])

\* The suggestion is free, and check_overlap tests what the user made of it.
ChooseSubnet(f) ==
  /\ At(f, "subnet")
  /\ \E s \in Subnets :
       IF Available(s) THEN Chosen(f, [mem[f] EXCEPT !.subnet = s]) ELSE Fail(f)

ChoosePrefix(f) ==
  /\ At(f, "prefix")
  /\ \E n \in Names :
       /\ ~Exists(<<"worker", n>>) /\ ~Exists(<<"volume", n>>)
       /\ Chosen(f, [mem[f] EXCEPT !.prefix = n])

Tests(f) ==
  /\ At(f, "tests")
  /\ IF \/ \E o \in {Lan(mem[f]), Router(mem[f]), Worker(mem[f])} : Exists(o)
        \/ ~Owned(f, Volume(mem[f]))
     THEN Fail(f) ELSE Skip(f)

Writes(f, c) ==
  /\ cfg' = [cfg EXCEPT ![f] = c]
  /\ Goes(f) /\ UNCHANGED <<obj, path, user, lock, open, mem, test, bounds>>

save(f) == At(f, "save") /\ Writes(f, mem[f])
\* Images that are missing are built, and build_images saves.
Build(f) == At(f, "build") /\ (Writes(f, mem[f]) \/ Skip(f))
Forget(f) == At(f, "forget") /\ Writes(f, NoConfig)

(***************************************************************************)
(* A launcher starts and chooses what to do.                               *)
(***************************************************************************)
\* Mutant: only the router's label is asked.
SavedOwnerOfRouter(c) ==
  IF c.owner = None /\ Exists(Router(c)) THEN obj[Router(c)].owner ELSE c.owner

\* Whose a configuration is: what it says, or, if it is older than
\* CONFIG_OWNER, what the labels of its router or its network say.
SavedOwner(c) ==
  IF c.owner # None THEN c.owner
  ELSE IF Exists(Router(c)) THEN obj[Router(c)].owner
  ELSE IF Exists(Lan(c)) THEN obj[Lan(c)].owner
  ELSE None

Copied(f) == path[f] \notin {None, f} \/ SavedOwner(cfg[f]) \notin {None, f}

prepare_folder(f) ==
  /\ cfg' = [cfg EXCEPT ![f] = IF @ # NoConfig /\ Copied(f) THEN NoConfig ELSE @]
  /\ path' = [path EXCEPT ![f] = f]

\* manager.lock admits one launcher to a folder.
Launch(f) ==
  /\ f \notin open /\ open' = open \cup {f} /\ prepare_folder(f)
  /\ UNCHANGED <<obj, user, lock, todo, mem, test, bounds>>

Idle(f) == f \in open /\ todo[f] = <<>>
Quit(f) ==
  /\ Idle(f) /\ open' = open \ {f}
  /\ UNCHANGED <<obj, disk, user, lock, todo, mem, test, bounds>>

Untested == [o \in Objects |-> "untested"]

Begin(f, c, commands) ==
  /\ actions > 0 /\ actions' = actions - 1
  /\ todo' = [todo EXCEPT ![f] = commands]
  /\ mem' = [mem EXCEPT ![f] = c] /\ test' = [test EXCEPT ![f] = Untested]
  /\ UNCHANGED <<obj, disk, user, lock, open, orderly, cut>>

\* load takes a configuration without an owner for its folder's own.
Setup(f) == Idle(f) /\ cfg[f] = NoConfig /\ Begin(f, [NoConfig EXCEPT !.owner = f], setup)
Choose(f) ==
  /\ Idle(f) /\ cfg[f] # NoConfig /\ cfg[f].owner \in {None, f}
  /\ \E commands \in {deploy, worker_stop, rebuild_deployment, remove_deployment} :
       Begin(f, [cfg[f] EXCEPT !.owner = f], commands)

\* Ctrl-C, a docker command that fails, or the end of the launcher.
CutOff(f) ==
  /\ todo[f] # <<>> /\ cut < MaxCuts /\ cut' = cut + 1
  /\ todo' = [todo EXCEPT ![f] = <<>>] /\ open' \in {open, open \ {f}}
  /\ lock' = Releases(f) /\ orderly' = FALSE
  /\ UNCHANGED <<obj, disk, user, mem, test, actions>>

\* A folder is copied with its .data while no launcher runs in the copy.
Copy(f, g) ==
  /\ f # g /\ g \notin open /\ cfg[f] # NoConfig /\ cfg[g] = NoConfig /\ path[g] = None
  /\ cfg' = [cfg EXCEPT ![g] = cfg[f]] /\ path' = [path EXCEPT ![g] = path[f]]
  /\ orderly' = (orderly /\ cfg[f].owner # None)
  /\ UNCHANGED <<obj, user, lock, open, todo, mem, test, cut, actions>>

(***************************************************************************)
(* The specification.  One folder may hold a deployment of a version that  *)
(* saved neither CONFIG_OWNER nor folder.path; its containers, or, after a *)
(* removal that was cut off, its network may be gone.                      *)
(***************************************************************************)
OldObjects(f, n, s, there) ==
  [o \in Objects |->
     IF o \notin there \X {n} THEN None
     ELSE [owner |-> f, up |-> o[1] \in {"router", "worker"},
           at |-> CASE o[1] = "net" -> s [] o[1] = "volume" -> None [] OTHER -> n]]

InitFresh ==
  cfg = [f \in Folder |-> NoConfig] /\ obj = [o \in Objects |-> None] /\ orderly = TRUE
InitOld(f, n, s, there) ==
  /\ cfg = [g \in Folder |->
       IF g = f THEN [owner |-> None, name |-> n, prefix |-> n, subnet |-> s] ELSE NoConfig]
  /\ obj = OldObjects(f, n, s, there)
  /\ orderly = ("net" \in there)

Init ==
  /\ path = [f \in Folder |-> None] /\ user \in [Folder -> Users]
  /\ lock = [u \in Users |-> None] /\ open = {}
  /\ todo = [f \in Folder |-> <<>>] /\ test = [f \in Folder |-> Untested]
  /\ mem = [f \in Folder |-> NoConfig] /\ cut = 0 /\ actions = MaxActions
  /\ \/ InitFresh
     \/ \E f \in Folder, n \in Names, s \in Subnets,
          there \in {Kinds, {"net", "volume"}, {"volume"}} : InitOld(f, n, s, there)

Commands(f) ==
  \/ check_owned(f) \/ Make(f) \/ Attached(f) \/ Start(f) \/ Stop(f) \/ Remove(f) \/ Renew(f)
  \/ Lock(f) \/ ChooseName(f) \/ ChooseSubnet(f) \/ ChoosePrefix(f) \/ Tests(f)
  \/ save(f) \/ Build(f) \/ Unlock(f) \/ Forget(f)
Menu(f) == Launch(f) \/ Quit(f) \/ Setup(f) \/ Choose(f)

Next ==
  \/ \E f \in Folder : Commands(f) \/ Menu(f) \/ CutOff(f)
  \/ \E f, g \in Folder : Copy(f, g)

Spec == Init /\ [][Next]_vars

(***************************************************************************)
(* Properties.                                                             *)
(***************************************************************************)

\* Docker's objects and the folders' files are well formed, and the setup
\* lock is held by a setup that will release it or by nobody.
TypeOK ==
  /\ obj \in [Objects -> Object \cup {None}] /\ cfg \in [Folder -> Config]
  /\ path \in [Folder -> Folder \cup {None}] /\ mem \in [Folder -> Config]
  /\ open \subseteq Folder /\ orderly \in BOOLEAN
  /\ lock \in [Users -> Folder \cup {None}]
  /\ test \in [Folder -> [Objects -> Found]]
  /\ \A f \in Folder : todo[f] # <<>> => f \in open
  /\ \A u \in Users, f \in Folder : lock[u] = f => Step("unlock") \in {todo[f][i] : i \in DOMAIN todo[f]}

\* No command of a folder starts, stops or removes an object that its action has
\* not tested, or one of another folder that was there when the action tested it,
\* however long ago: the only foreign object it can meet is one that took the name
\* after the test found it free.
OthersUntouched ==
  [][\A f \in Folder, o \in Objects :
       todo'[f] # todo[f] /\ Exists(o) /\ obj'[o] # obj[o] =>
         obj[o].owner = f \/ test[f][o] = "gone"]_vars

\* While one user's launchers are never cut off, what a setup saves is
\* reserved: the network of a configuration exists and is its folder's as
\* soon as the setup has let go of the lock, whatever others set up meanwhile.
\* (A copy of a configuration without an owner is used as it is when nothing
\* of the original is left, and takes its names without the lock.)
OneUser == \E u \in Users : user = [f \in Folder |-> u]
Settled(f) == \A i \in DOMAIN todo[f] : todo[f][i][1] \notin {"unlock", "forget"}
SetupReserves ==
  orderly /\ OneUser => \A f \in Folder :
    cfg[f].owner = f /\ f \in open /\ Settled(f) =>
      Exists(Lan(cfg[f])) /\ obj[Lan(cfg[f])].owner = f

\* A configuration without an owner is kept by the folder that starts with it
\* unless all that is left of its network and its router is another folder's:
\* a copy never takes control of a deployment that the original still has.
CopyStartsAfresh ==
  [][\A f \in open' \ open : \A g \in Folder \ {f} :
       LET left == {o \in {Lan(cfg'[f]), Router(cfg'[f])} : Exists(o)} IN
       cfg'[f] # NoConfig /\ cfg'[f].owner # f /\ left # {} =>
         \E o \in left : obj[o].owner # g]_vars
=============================================================================
