------------------------------- MODULE Worker -------------------------------
(***************************************************************************)
(* One worker container and its identity directory: worker.cjs `run`,      *)
(* prepareIdentity of platform.cjs, registerDevice of registration.cjs,    *)
(* and the installation server as they use it.                             *)
(*                                                                         *)
(* JavaScript runs to the next await, so a signal is handled only while    *)
(* the process waits (Waiting); a crash comes between any two system       *)
(* calls.  writeFileSync creates the file and then fills it: a crash in    *)
(* between leaves it Empty.  atomicWrite renames a finished file.          *)
(*                                                                         *)
(* Abstractions.  An identity is its prefix and a number for its 32 hex    *)
(* digits, 0 for those that the operator supplies; a supplied UUID names   *)
(* the profile's own prefix.  What fails before the identity is read has   *)
(* no effect.  The version lookup only takes time, the tracking ID matters *)
(* to nothing else, and the two copies of the link are one.  Docker and    *)
(* the server are external.                                                *)
(***************************************************************************)
EXTENDS Naturals, FiniteSets

CONSTANTS
  Platform,   \* prefixes of the profiles an operator selects
  Legacy,     \* the prefixes that the migration recognises
  MaxEvents,  \* crashes, faults, stops and edits (bound)
  None, Empty

ASSUME LegacyAssumption == Legacy \subseteq Platform
ASSUME BoundAssumption == MaxEvents \in Nat
ASSUME NoneAssumption ==
  /\ None # Empty /\ {None, Empty} \cap [prefix : Platform, hex : Nat] = {}
  /\ None \notin Nat /\ None \notin {"ok", "refused", "running", "paused", "stopped"}

VARIABLES
  disk,      \* the files of the profile's directory, and status.json
  proc,      \* the worker process
  wire,      \* requests on their way; live: the sender still waits
  accepted,  \* what the server has registered
  profile,   \* the selected profile and EDGE_CONSENT
  desired,   \* the container was not stopped by the operator
  made,      \* identities and serials generated so far
  events     \* events so far

vars == <<disk, proc, wire, accepted, profile, desired, made, events>>

Profile == [platform : Platform, uuid : {None, 0}, serial : {None, 0}, consent : BOOLEAN]
Id == [prefix : Platform, hex : Nat]
Pc == {"off", "read", "backup", "prefix", "create", "version", "register",
       "serial", "send", "wait", "mark", "link", "go", "run", "ending"}
Files == [uuid : Id \cup {None, Empty}, backup : [Platform -> Id \cup {None, Empty}],
          serial : Nat \cup {None}, marker : Id \cup {None}, link : Id \cup {None},
          status : {None, "running", "paused", "stopped"}]
Process == [cmd : {"run", "register"}, pc : Pc, uuid : Id \cup {None},
            answer : {None, "ok", "refused"}, stopping : BOOLEAN]

NoProcess == [cmd |-> "run", pc |-> "off", uuid |-> None, answer |-> None, stopping |-> FALSE]

Spend == events < MaxEvents /\ events' = events + 1

Goto(pc) == proc' = [proc EXCEPT !.pc = pc]

\* Where the process waits: the version lookup, the registration request,
\* the running SDK, and the 250 ms before process.exit.
Waiting == proc.pc \in {"version", "wait", "run", "ending"}

\* metadata of worker.cjs has been filled in.
Known == proc.uuid # None

(***************************************************************************)
(* shutdown(code): uninit, the last status, and an exit 250 ms later.  A   *)
(* second call does nothing.                                               *)
(***************************************************************************)
Shutdown(pc) ==
  /\ proc' = [proc EXCEPT !.pc = pc, !.stopping = TRUE]
  /\ disk' = IF Known /\ ~proc.stopping THEN [disk EXCEPT !.status = "stopped"] ELSE disk

\* An exception thrown in the main function.
Fail == Shutdown("ending")

(***************************************************************************)
(* prepareIdentity                                                         *)
(***************************************************************************)
Registered == disk.marker = disk.uuid

\* An unregistered identity of another prefix is migrated, unless the
\* operator supplies one.
Migrates ==
  /\ disk.uuid.prefix # profile.platform /\ disk.uuid.prefix \in Legacy
  /\ profile.uuid = None /\ ~Registered

Usable ==
  disk.uuid.prefix = profile.platform /\ profile.uuid \in {None, disk.uuid.hex}

\* platform.cjs:58-76: absent, usable, to be migrated, or refused.
ReadIdentity ==
  /\ proc.pc = "read"
  /\ \/ disk.uuid = None /\ Goto("create") /\ UNCHANGED disk
     \/ disk.uuid \in Id /\ Usable /\ Goto("version") /\ UNCHANGED disk
     \/ /\ disk.uuid \in Id /\ Migrates
        /\ Goto(IF disk.backup[profile.platform] = None THEN "backup" ELSE "prefix")
        /\ UNCHANGED disk
     \/ (disk.uuid = Empty \/ (disk.uuid \in Id /\ ~Usable /\ ~Migrates)) /\ Fail
  /\ UNCHANGED made

WriteBackup ==
  /\ proc.pc = "backup"
  /\ disk' = [disk EXCEPT !.backup[profile.platform] = disk.uuid]
  /\ Goto("prefix") /\ UNCHANGED made

\* Mutant: the migrated identity gets new digits.
WritePrefixFresh ==
  /\ proc.pc = "prefix"
  /\ disk' = [disk EXCEPT !.uuid = [prefix |-> profile.platform, hex |-> made + 1]]
  /\ made' = made + 1 /\ Goto("version")

WritePrefix ==
  /\ proc.pc = "prefix"
  /\ disk' = [disk EXCEPT !.uuid.prefix = profile.platform]
  /\ Goto("version") /\ UNCHANGED made

\* What the operator supplies, or random digits.
Digit(supplied) == IF supplied = None THEN made + 1 ELSE supplied
Uses(supplied) == made' = IF supplied = None THEN made + 1 ELSE made

CreateIdentity ==
  /\ proc.pc = "create"
  /\ disk' = [disk EXCEPT !.uuid = [prefix |-> profile.platform, hex |-> Digit(profile.uuid)]]
  /\ Uses(profile.uuid) /\ Goto("version")

\* The lookup ends, one way or another; the SDK reads the saved identity.
VersionKnown ==
  /\ proc.pc = "version" /\ ~proc.stopping
  /\ proc' = [proc EXCEPT !.uuid = disk.uuid,
                 !.pc = IF profile.consent \/ proc.cmd = "register" THEN "register" ELSE "go"]
  /\ UNCHANGED <<disk, made>>

(***************************************************************************)
(* registerDevice                                                          *)
(***************************************************************************)
Cached == disk.marker = proc.uuid
SerialDiffers == profile.serial # None /\ disk.serial \notin {None, profile.serial}

\* Mutant: a registered worker does not write its links again.
CheckMarkerOnly ==
  /\ proc.pc = "register"
  /\ Goto(IF Cached THEN "go" ELSE IF disk.serial = None THEN "serial" ELSE "send")
  /\ UNCHANGED <<disk, made>>

\* Mutant: a missing serial is not generated.
CheckMarkerNoSerial ==
  /\ proc.pc = "register"
  /\ Goto(IF Cached THEN "link" ELSE "send")
  /\ UNCHANGED <<disk, made>>

\* registration.cjs:72-85.
CheckMarker ==
  /\ proc.pc = "register" /\ UNCHANGED made
  /\ IF ~Cached /\ SerialDiffers THEN Fail
     ELSE /\ Goto(IF Cached THEN "link" ELSE IF disk.serial = None THEN "serial" ELSE "send")
          /\ UNCHANGED disk

SaveSerial ==
  /\ proc.pc = "serial"
  /\ disk' = [disk EXCEPT !.serial = Digit(profile.serial)]
  /\ Uses(profile.serial) /\ Goto("send")

Send ==
  /\ proc.pc = "send"
  /\ wire' = wire \cup {[uuid |-> proc.uuid, serial |-> disk.serial, live |-> TRUE]}
  /\ Goto("wait")
  /\ UNCHANGED <<disk, accepted, profile, desired, made, events>>

\* The sender no longer waits: a later answer finds `done` set.
Abandoned == {[r EXCEPT !.live = FALSE] : r \in wire}

Outstanding == \E r \in wire : r.live

\* The answer arrives: `ok` or `preinstall`, or anything else.
\* Mutant: any answer that arrives counts as a registration.
AnsweredAny ==
  /\ proc.pc = "wait" /\ proc.answer # None
  /\ Goto("mark") /\ UNCHANGED <<disk, made>>

Answered ==
  /\ proc.pc = "wait" /\ proc.answer # None
  /\ IF proc.answer = "ok" THEN Goto("mark") /\ UNCHANGED disk ELSE Fail
  /\ UNCHANGED made

\* Mutant: a request without an answer waits for ever.
TimeoutNever == FALSE /\ UNCHANGED vars

\* 30 s without an answer; an event when the answer was still to come.
Timeout ==
  /\ proc.pc = "wait" /\ proc.answer = None
  /\ IF Outstanding THEN Spend ELSE UNCHANGED events
  /\ wire' = Abandoned
  /\ Fail
  /\ UNCHANGED <<accepted, profile, desired, made>>

WriteMarker ==
  /\ proc.pc = "mark"
  /\ disk' = [disk EXCEPT !.marker = proc.uuid]
  /\ Goto("link") /\ UNCHANGED made

WriteLinks ==
  /\ proc.pc = "link"
  /\ disk' = [disk EXCEPT !.link = proc.uuid]
  /\ Goto("go") /\ UNCHANGED made

(***************************************************************************)
(* The end of the main function, and the heartbeat.                        *)
(***************************************************************************)
Status == IF profile.consent THEN "running" ELSE "paused"

Runs == disk' = [disk EXCEPT !.status = Status] /\ Goto("run")

\* Mutant: `stopping` is not looked at after the registration.
StartSdkAlways == proc.pc = "go" /\ Runs /\ UNCHANGED made

\* worker.cjs:93-105.
StartSdk ==
  /\ proc.pc = "go" /\ UNCHANGED made
  /\ CASE proc.stopping -> Goto("ending") /\ UNCHANGED disk
       [] ~proc.stopping /\ proc.cmd = "register" -> Shutdown("ending")
       [] OTHER -> Runs

Heartbeat ==
  /\ proc.pc = "run" /\ ~proc.stopping
  /\ disk' = [disk EXCEPT !.status = Status] /\ UNCHANGED <<proc, made>>

Code == \/ ReadIdentity \/ WriteBackup \/ WritePrefix \/ CreateIdentity
        \/ VersionKnown \/ CheckMarker \/ SaveSerial \/ Answered
        \/ WriteMarker \/ WriteLinks \/ StartSdk \/ Heartbeat

Step == Code /\ UNCHANGED <<wire, accepted, profile, desired, events>>

(***************************************************************************)
(* Docker, the operator and the server.                                    *)
(***************************************************************************)
Exit ==
  /\ proc.stopping /\ Waiting
  /\ proc' = NoProcess /\ wire' = Abandoned
  /\ UNCHANGED <<disk, accepted, profile, desired, made, events>>

\* docker start, and the restart policy unless-stopped.
Boot ==
  /\ desired /\ proc.pc = "off" /\ Goto("read")
  /\ UNCHANGED <<disk, wire, accepted, profile, desired, made, events>>

OperatorStop ==
  /\ desired /\ Spend /\ desired' = FALSE
  /\ UNCHANGED <<disk, proc, wire, accepted, profile, made>>

OperatorStart ==
  /\ ~desired /\ proc.pc = "off" /\ Spend /\ desired' = TRUE
  /\ UNCHANGED <<disk, proc, wire, accepted, profile, made>>

\* "For registration-only testing, stop the ordinary worker first."
RegisterOnly ==
  /\ ~desired /\ proc.pc = "off" /\ Spend
  /\ proc' = [NoProcess EXCEPT !.cmd = "register", !.pc = "read"]
  /\ UNCHANGED <<disk, wire, accepted, profile, desired, made>>

\* SIGTERM of docker stop, or Ctrl-C of a registration.
Terminate ==
  /\ ~desired /\ Waiting /\ ~proc.stopping
  /\ IF proc.cmd = "register" THEN Spend ELSE UNCHANGED events
  /\ Shutdown(proc.pc)
  /\ UNCHANGED <<wire, accepted, profile, desired, made>>

\* uncaughtException or unhandledRejection in the running SDK.
SdkThrows ==
  /\ proc.pc = "run" /\ ~proc.stopping /\ Spend
  /\ Shutdown("run")
  /\ UNCHANGED <<wire, accepted, profile, desired, made>>

\* What a crash leaves: a file that was being written may be Empty.
AfterCrash ==
  {disk} \cup (IF proc.pc = "backup" THEN {[disk EXCEPT !.backup[profile.platform] = Empty]} ELSE {})
         \cup (IF proc.pc \in {"prefix", "create"} THEN {[disk EXCEPT !.uuid = Empty]} ELSE {})

Crash ==
  /\ proc.pc # "off" /\ Spend
  /\ disk' \in AfterCrash
  /\ proc' = NoProcess /\ wire' = Abandoned
  /\ UNCHANGED <<accepted, profile, desired, made>>

\* The profile is edited under its name; the container is recreated.
EditProfile ==
  /\ proc.pc = "off" /\ Spend
  /\ \E p \in Profile \ {profile} : profile' = p
  /\ UNCHANGED <<disk, proc, wire, accepted, desired, made>>

\* The answer goes back, or is lost on the way.
Reply(r, answer) ==
  \/ /\ r.live /\ proc' = [proc EXCEPT !.answer = answer]
     /\ UNCHANGED events
  \/ ~r.live /\ UNCHANGED <<proc, events>>
  \/ r.live /\ Spend /\ UNCHANGED proc

Accept ==
  \E r \in wire :
    /\ wire' = wire \ {r}
    /\ accepted' = accepted \cup {[uuid |-> r.uuid, serial |-> r.serial]}
    /\ Reply(r, "ok")
    /\ UNCHANGED <<disk, profile, desired, made>>

Refuse ==
  \E r \in wire :
    /\ Spend /\ wire' = wire \ {r}
    /\ proc' = IF r.live THEN [proc EXCEPT !.answer = "refused"] ELSE proc
    /\ UNCHANGED <<disk, accepted, profile, desired, made>>

Init ==
  /\ disk = [uuid |-> None, backup |-> [p \in Platform |-> None], serial |-> None,
             marker |-> None, link |-> None, status |-> None]
  /\ proc = NoProcess /\ wire = {} /\ accepted = {}
  /\ profile \in Profile /\ desired = TRUE
  /\ made = 0 /\ events = 0

Next ==
  \/ Step \/ Send \/ Timeout \/ Exit \/ Boot \/ Terminate
  \/ OperatorStop \/ OperatorStart \/ RegisterOnly \/ SdkThrows \/ Crash \/ EditProfile
  \/ Accept \/ Refuse

Spec == Init /\ [][Next]_vars

\* Code runs, timers fire, Docker restarts what was not stopped, and a
\* request that is not lost is answered.
FairSpec ==
  /\ Spec
  /\ WF_vars(Step) /\ WF_vars(Send) /\ WF_vars(Timeout) /\ WF_vars(Exit)
  /\ WF_vars(Boot) /\ WF_vars(Terminate) /\ WF_vars(Accept)

-----------------------------------------------------------------------------
(***************************************************************************)
(* Properties                                                              *)
(***************************************************************************)
\* The variables stay in their types (all of the state above).
TypeOK ==
  /\ disk \in Files /\ proc \in Process
  /\ wire \subseteq [uuid : Id, serial : Nat, live : BOOLEAN]
  /\ accepted \subseteq [uuid : Id, serial : Nat]
  /\ profile \in Profile /\ desired \in BOOLEAN
  /\ made \in Nat /\ events \in 0..MaxEvents

\* However often registration is repeated, after crashes, lost answers and
\* edits of the profile that supply or withdraw a UUID or a serial, the server
\* sees one serial and one set of digits for this directory
\* (registration.cjs:77-85, platform.cjs:58-77).
OneDevice ==
  \A r, s \in accepted : r.serial = s.serial /\ r.uuid.hex = s.uuid.hex

\* A marker exists only for an identity that the server accepted: failures,
\* timeouts and late answers leave none (registration.cjs:95-97).
MarkerMeansAccepted ==
  disk.marker # None => \E r \in accepted : r.uuid = disk.marker

\* A status file that says "running", also one that a crash left, tells the
\* truth: the saved identity is the registered one and the link shown to the
\* user is its link, whatever was edited since (worker.cjs:91-103,
\* registration.cjs:74-76, 97-98).
StatusTellsTruth ==
  disk.status = "running" => disk.uuid = disk.marker /\ disk.link = disk.marker

\* Once shutdown has begun, neither an answer that still arrives nor the
\* heartbeat starts the SDK or overwrites the last status
\* (worker.cjs:43-54, 82, 97).
StoppedIsLast ==
  [][proc.stopping /\ proc'.stopping =>
       disk'.status = disk.status /\ (proc'.pc = "run" => proc.pc = "run")]_vars

\* What no restart repairs: an identity that is torn, or that the profile
\* refuses, or a serial that it contradicts.
Blocked ==
  \/ disk.uuid = Empty
  \/ disk.uuid \in Id /\ ~Usable /\ ~Migrates
  \/ profile.consent /\ SerialDiffers /\ ~Registered

\* In the end the worker runs registered, or it is stopped or blocked: no lost
\* request leaves it waiting for ever (registration.cjs:60-63, the restart
\* policy).
Settles == <>[](proc.pc = "run" \/ ~desired \/ Blocked)
=============================================================================
