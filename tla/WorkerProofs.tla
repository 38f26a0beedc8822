---------------------------- MODULE WorkerProofs ----------------------------
(***************************************************************************)
(* Worker for any platforms and any number of crashes, faults and edits:   *)
(* one device, a marker that is earned, and a status that tells the truth. *)
(*                                                                         *)
(* None of the three is inductive.  They rest on what the process has      *)
(* learned of the files when it stands at a command (Located), on what the *)
(* requests on their way have in common with the files (Requests), and on  *)
(* what an answer proves (Answers).                                        *)
(***************************************************************************)
EXTENDS Worker, TLAPS

\* What holds of the files while the process stands at a command.
Located ==
  /\ proc.pc \in {"backup", "prefix"} => disk.uuid \in Id /\ disk.marker # disk.uuid
  /\ proc.pc = "create" => disk.uuid = None
  /\ proc.pc = "version" => disk.uuid \in Id
  /\ proc.pc \in {"register", "serial", "send", "wait", "mark", "link", "go", "run"} =>
       proc.uuid = disk.uuid /\ disk.uuid \in Id
  /\ proc.pc = "serial" => disk.serial = None
  /\ proc.pc \in {"send", "wait", "mark"} => disk.serial # None
  /\ proc.pc \in {"serial", "send", "wait", "mark"} => disk.marker # disk.uuid
  /\ proc.pc = "link" => disk.marker = disk.uuid
  /\ proc.pc \in {"go", "run"} /\ profile.consent => disk.marker = disk.uuid /\ disk.link = disk.uuid

\* Every request that was sent names the saved serial and the saved digits.
Requests ==
  /\ \A r, s \in wire \cup accepted : r.uuid.hex = s.uuid.hex
  /\ \A r \in wire \cup accepted :
       /\ disk.serial = r.serial /\ disk.uuid # None
       /\ disk.uuid \in Id => disk.uuid.hex = r.uuid.hex

\* What an answer and a marker prove.
Answers ==
  /\ \A r \in wire : r.live => proc.pc = "wait" /\ proc.answer = None /\ r.uuid = proc.uuid
  /\ \A r, s \in wire : r.live /\ s.live => r = s
  /\ proc.pc \in {"off", "read", "backup", "prefix", "create", "version", "register", "serial", "send"} =>
       proc.answer = None
  /\ proc.pc = "mark" => proc.answer = "ok"
  /\ proc.answer = "ok" => \E r \in accepted : r.uuid = proc.uuid
  /\ MarkerMeansAccepted

Truthful == disk.status = "running" => disk.uuid \in Id /\ disk.uuid = disk.marker /\ disk.link = disk.marker

IInv == TypeOK /\ Located /\ Requests /\ Answers /\ Truthful

\* Nothing but the status and the process changes (Fail, Terminate, SdkThrows).
LEMMA ShutdownLeaves ==
  ASSUME TypeOK, NEW pc \in Pc, Shutdown(pc)
  PROVE  /\ disk' \in Files /\ proc' \in Process
         /\ proc'.pc = pc /\ proc'.uuid = proc.uuid /\ proc'.answer = proc.answer
         /\ disk'.uuid = disk.uuid /\ disk'.serial = disk.serial
         /\ disk'.marker = disk.marker /\ disk'.link = disk.link
         /\ disk'.status \in {disk.status, "stopped"}
BY DEF TypeOK, Shutdown, Files, Process

\* The process goes to its next command.
LEMMA GotoLeaves ==
  ASSUME TypeOK, NEW pc \in Pc, Goto(pc)
  PROVE  /\ proc' \in Process
         /\ proc'.pc = pc /\ proc'.uuid = proc.uuid /\ proc'.answer = proc.answer
BY DEF TypeOK, Goto, Process

\* An event that is counted keeps the bound.
LEMMA SpendKeepsBound == ASSUME TypeOK, Spend PROVE events' \in 0..MaxEvents
BY BoundAssumption DEF TypeOK, Spend

LEMMA InitIInv == Init => IInv
BY NoneAssumption, BoundAssumption DEF Init, NoProcess, IInv, TypeOK, Located, Requests, Answers, MarkerMeansAccepted, Truthful,
   Files, Process, Pc

-----------------------------------------------------------------------------
\* A failure of the main function, when no answer is awaited.
LEMMA FailIInv ==
  ASSUME IInv, Fail, \A r \in wire : ~r.live, UNCHANGED <<wire, accepted, profile, desired, made, events>>
  PROVE  IInv'
<1> USE NoneAssumption
<1>1. /\ disk' \in Files /\ proc' \in Process
      /\ proc'.pc = "ending" /\ proc'.uuid = proc.uuid /\ proc'.answer = proc.answer
      /\ disk'.uuid = disk.uuid /\ disk'.serial = disk.serial
      /\ disk'.marker = disk.marker /\ disk'.link = disk.link
      /\ disk'.status \in {disk.status, "stopped"}
  BY ShutdownLeaves DEF IInv, Fail, Pc
<1>2. TypeOK'
  BY <1>1 DEF IInv, TypeOK
<1>3. Located' /\ Requests' /\ Truthful'
  BY <1>1 DEF IInv, Located, Requests, Truthful
<1>4. Answers'
  BY <1>1 DEF IInv, Answers, MarkerMeansAccepted
<1>5. QED
  BY <1>2, <1>3, <1>4 DEF IInv

LEMMA GotoIInv ==
  ASSUME IInv, NEW pc \in {"create", "version", "backup", "prefix", "link", "serial", "send", "mark", "ending"},
         Goto(pc), UNCHANGED <<disk, wire, accepted, profile, desired, made, events>>, \A r \in wire : ~r.live,
         pc \in {"create", "version", "backup", "prefix", "serial", "send"} => proc.answer = None,
         pc = "mark" => proc.answer = "ok",
         pc \in {"backup", "prefix"} => disk.uuid \in Id /\ disk.marker # disk.uuid,
         pc = "create" => disk.uuid = None,
         pc = "version" => disk.uuid \in Id,
         pc \in {"serial", "send", "mark", "link"} => proc.uuid = disk.uuid /\ disk.uuid \in Id,
         pc = "serial" => disk.serial = None,
         pc \in {"send", "mark"} => disk.serial # None,
         pc \in {"serial", "send", "mark"} => disk.marker # disk.uuid,
         pc = "link" => disk.marker = disk.uuid
  PROVE  IInv'
<1>1. proc' \in Process /\ proc'.pc = pc /\ proc'.uuid = proc.uuid /\ proc'.answer = proc.answer
  BY GotoLeaves DEF IInv, Pc
<1>2. TypeOK'
  BY <1>1 DEF IInv, TypeOK
<1>3. Located' /\ Requests' /\ Truthful'
  BY <1>1 DEF IInv, Located, Requests, Truthful
<1>4. Answers'
  BY <1>1 DEF IInv, Answers, MarkerMeansAccepted
<1>5. QED
  BY <1>2, <1>3, <1>4 DEF IInv

-----------------------------------------------------------------------------
\* The commands of the main function.

LEMMA ReadIdentityIInv ==
  ASSUME IInv, ReadIdentity, UNCHANGED <<wire, accepted, profile, desired, events>>
  PROVE  IInv'
<1> USE NoneAssumption
<1>1. proc.answer = None /\ made' = made /\ \A r \in wire : ~r.live
  BY DEF ReadIdentity, IInv, Answers
<1>2. CASE Fail
  BY <1>1, <1>2, FailIInv
<1>3. CASE disk.uuid = None /\ Goto("create") /\ UNCHANGED disk
  BY <1>1, <1>3, GotoIInv
<1>4. CASE disk.uuid \in Id /\ Goto("version") /\ UNCHANGED disk
  BY <1>1, <1>4, GotoIInv
<1>5. ASSUME disk.uuid \in Id, Migrates, NEW pc \in {"backup", "prefix"}, Goto(pc), UNCHANGED disk
      PROVE  IInv'
  BY <1>1, <1>5, GotoIInv DEF Migrates, Registered
<1>6. QED
  BY <1>2, <1>3, <1>4, <1>5 DEF ReadIdentity

LEMMA WriteBackupIInv ==
  ASSUME IInv, WriteBackup, UNCHANGED <<wire, accepted, profile, desired, events>>
  PROVE  IInv'
<1> USE NoneAssumption
<1>1. TypeOK'
  BY DEF WriteBackup, IInv, TypeOK, Located, Files, Process, Pc, Goto
<1>2. Located'
  BY DEF WriteBackup, IInv, TypeOK, Located, Files, Process, Goto
<1>3. Requests'
  BY DEF WriteBackup, IInv, TypeOK, Located, Requests, Files, Process, Goto
<1>4. Answers'
  BY DEF WriteBackup, IInv, TypeOK, Located, Answers, MarkerMeansAccepted, Files, Process, Goto
<1>5. Truthful'
  BY DEF WriteBackup, IInv, TypeOK, Located, Truthful, Files, Process, Goto
<1>6. QED
  BY <1>1, <1>2, <1>3, <1>4, <1>5 DEF IInv

LEMMA WritePrefixIInv ==
  ASSUME IInv, WritePrefix, UNCHANGED <<wire, accepted, profile, desired, events>>
  PROVE  IInv'
<1> USE NoneAssumption
<1> DEFINE u == [disk.uuid EXCEPT !.prefix = profile.platform]
<1>1. disk.uuid \in Id /\ disk.marker # disk.uuid /\ proc.answer = None
  BY DEF IInv, Located, Answers, WritePrefix
<1>2. u \in Id /\ u.hex = disk.uuid.hex
  BY <1>1 DEF IInv, TypeOK, Profile, Id
<1>3. disk' = [disk EXCEPT !.uuid = u]
  BY <1>1 DEF WritePrefix, IInv, TypeOK, Files
<1> HIDE DEF u
<1>4. /\ disk' \in Files /\ disk'.uuid = u /\ disk'.serial = disk.serial
      /\ disk'.marker = disk.marker /\ disk'.link = disk.link /\ disk'.status = disk.status
  BY <1>2, <1>3 DEF IInv, TypeOK, Files
<1>5. proc' \in Process /\ proc'.pc = "version" /\ proc'.uuid = proc.uuid /\ proc'.answer = None
  BY <1>1, GotoLeaves DEF WritePrefix, IInv, Pc
<1>6. TypeOK'
  BY <1>4, <1>5 DEF WritePrefix, IInv, TypeOK
<1>7. Located' /\ Requests'
  BY <1>1, <1>2, <1>4, <1>5 DEF IInv, Located, Requests, Id
<1>8. Answers' /\ Truthful'
  BY <1>1, <1>4, <1>5 DEF WritePrefix, IInv, Answers, MarkerMeansAccepted, Truthful
<1>9. QED
  BY <1>6, <1>7, <1>8 DEF IInv

LEMMA CreateIdentityIInv ==
  ASSUME IInv, CreateIdentity, UNCHANGED <<wire, accepted, profile, desired, events>>
  PROVE  IInv'
<1> USE NoneAssumption
<1> DEFINE u == [prefix |-> profile.platform, hex |-> Digit(profile.uuid)]
<1>1. disk.uuid = None /\ proc.answer = None
  BY DEF IInv, Located, Answers, CreateIdentity
<1>2. Digit(profile.uuid) \in Nat /\ made' \in Nat
  BY DEF CreateIdentity, Uses, Digit, IInv, TypeOK, Profile
<1>3. u \in Id
  BY <1>2 DEF IInv, TypeOK, Profile, Id
<1>4. disk' = [disk EXCEPT !.uuid = u]
  BY DEF CreateIdentity
<1> HIDE DEF u
<1>5. /\ disk' \in Files /\ disk'.uuid = u /\ disk'.serial = disk.serial
      /\ disk'.marker = disk.marker /\ disk'.link = disk.link /\ disk'.status = disk.status
  BY <1>3, <1>4 DEF IInv, TypeOK, Files
<1>6. proc' \in Process /\ proc'.pc = "version" /\ proc'.uuid = proc.uuid /\ proc'.answer = None
  BY <1>1, GotoLeaves DEF CreateIdentity, IInv, Pc
<1>7. TypeOK'
  BY <1>2, <1>5, <1>6 DEF IInv, TypeOK
<1>8. Located' /\ Requests'
  BY <1>1, <1>3, <1>5, <1>6 DEF IInv, Located, Requests
<1>9. disk.status # "running"
  BY <1>1 DEF IInv, Truthful, Id
<1>10. Answers' /\ Truthful'
  BY <1>1, <1>5, <1>6, <1>9 DEF CreateIdentity, IInv, Answers, MarkerMeansAccepted, Truthful
<1>11. QED
  BY <1>7, <1>8, <1>10 DEF IInv

LEMMA VersionKnownIInv ==
  ASSUME IInv, VersionKnown, UNCHANGED <<wire, accepted, profile, desired, events>>
  PROVE  IInv'
<1> USE NoneAssumption
<1>1. TypeOK'
  BY DEF VersionKnown, IInv, TypeOK, Located, Files, Process, Pc, Goto
<1>2. Located'
  BY DEF VersionKnown, IInv, TypeOK, Located, Files, Process, Goto
<1>3. Requests'
  BY DEF VersionKnown, IInv, TypeOK, Located, Requests, Files, Process, Goto
<1>4. Answers'
  BY DEF VersionKnown, IInv, TypeOK, Located, Answers, MarkerMeansAccepted, Files, Process, Goto
<1>5. Truthful'
  BY DEF VersionKnown, IInv, TypeOK, Located, Truthful, Files, Process, Goto
<1>6. QED
  BY <1>1, <1>2, <1>3, <1>4, <1>5 DEF IInv

LEMMA CheckMarkerIInv ==
  ASSUME IInv, CheckMarker, UNCHANGED <<wire, accepted, profile, desired, events>>
  PROVE  IInv'
<1> USE NoneAssumption
<1>1. /\ made' = made /\ \A r \in wire : ~r.live
      /\ proc.uuid = disk.uuid /\ disk.uuid \in Id /\ proc.answer = None
  BY DEF CheckMarker, IInv, Answers, Located
<1>2. CASE Fail
  BY <1>1, <1>2, FailIInv
<1>3. CASE UNCHANGED disk /\ Cached /\ Goto("link")
  BY <1>1, <1>3, GotoIInv DEF Cached
<1>4. CASE UNCHANGED disk /\ ~Cached /\ disk.serial = None /\ Goto("serial")
  BY <1>1, <1>4, GotoIInv DEF Cached
<1>5. CASE UNCHANGED disk /\ ~Cached /\ disk.serial # None /\ Goto("send")
  BY <1>1, <1>5, GotoIInv DEF Cached
<1>6. QED
  BY <1>2, <1>3, <1>4, <1>5 DEF CheckMarker

LEMMA SaveSerialIInv ==
  ASSUME IInv, SaveSerial, UNCHANGED <<wire, accepted, profile, desired, events>>
  PROVE  IInv'
<1> USE NoneAssumption
<1>1. TypeOK'
  BY DEF SaveSerial, IInv, TypeOK, Located, Files, Process, Pc, Goto, Digit, Uses, Profile
<1>2. Located'
  BY DEF SaveSerial, IInv, TypeOK, Located, Files, Process, Goto, Digit, Uses, Profile
<1>3. Requests'
  BY DEF SaveSerial, IInv, TypeOK, Located, Requests, Files, Process, Goto, Digit, Uses, Profile
<1>4. Answers'
  BY DEF SaveSerial, IInv, TypeOK, Located, Answers, MarkerMeansAccepted, Files, Process, Goto, Digit, Uses, Profile
<1>5. Truthful'
  BY DEF SaveSerial, IInv, TypeOK, Located, Truthful, Files, Process, Goto, Digit, Uses, Profile
<1>6. QED
  BY <1>1, <1>2, <1>3, <1>4, <1>5 DEF IInv

LEMMA AnsweredIInv ==
  ASSUME IInv, Answered, UNCHANGED <<wire, accepted, profile, desired, events>>
  PROVE  IInv'
<1>1. /\ made' = made /\ \A r \in wire : ~r.live
      /\ proc.uuid = disk.uuid /\ disk.uuid \in Id /\ disk.serial # None /\ disk.marker # disk.uuid
  BY DEF Answered, IInv, Answers, Located
<1>2. CASE Fail
  BY <1>1, <1>2, FailIInv
<1>3. CASE proc.answer = "ok" /\ Goto("mark") /\ UNCHANGED disk
  BY <1>1, <1>3, GotoIInv
<1>4. QED
  BY <1>2, <1>3 DEF Answered

LEMMA WriteMarkerIInv ==
  ASSUME IInv, WriteMarker, UNCHANGED <<wire, accepted, profile, desired, events>>
  PROVE  IInv'
<1> USE NoneAssumption
<1>1. TypeOK'
  BY DEF WriteMarker, IInv, TypeOK, Located, Files, Process, Pc, Goto
<1>2. Located'
  BY DEF WriteMarker, IInv, TypeOK, Located, Files, Process, Goto
<1>3. Requests'
  BY DEF WriteMarker, IInv, TypeOK, Located, Requests, Files, Process, Goto
<1>4. Answers'
  BY DEF WriteMarker, IInv, TypeOK, Located, Answers, MarkerMeansAccepted, Files, Process, Goto
<1>5. Truthful'
  BY DEF WriteMarker, IInv, TypeOK, Located, Truthful, Files, Process, Goto
<1>6. QED
  BY <1>1, <1>2, <1>3, <1>4, <1>5 DEF IInv

LEMMA WriteLinksIInv ==
  ASSUME IInv, WriteLinks, UNCHANGED <<wire, accepted, profile, desired, events>>
  PROVE  IInv'
<1> USE NoneAssumption
<1>1. TypeOK'
  BY DEF WriteLinks, IInv, TypeOK, Located, Files, Process, Pc, Goto
<1>2. Located'
  BY DEF WriteLinks, IInv, TypeOK, Located, Files, Process, Goto
<1>3. Requests'
  BY DEF WriteLinks, IInv, TypeOK, Located, Requests, Files, Process, Goto
<1>4. Answers'
  BY DEF WriteLinks, IInv, TypeOK, Located, Answers, MarkerMeansAccepted, Files, Process, Goto
<1>5. Truthful'
  BY DEF WriteLinks, IInv, TypeOK, Located, Truthful, Files, Process, Goto
<1>6. QED
  BY <1>1, <1>2, <1>3, <1>4, <1>5 DEF IInv

LEMMA StartSdkIInv ==
  ASSUME IInv, StartSdk, UNCHANGED <<wire, accepted, profile, desired, events>>
  PROVE  IInv'
<1> USE NoneAssumption
<1>1. made' = made /\ \A r \in wire : ~r.live
  BY DEF StartSdk, IInv, Answers
<1>2. CASE Fail
  BY <1>1, <1>2, FailIInv
<1>3. CASE Goto("ending") /\ UNCHANGED disk
  BY <1>1, <1>3, GotoIInv
<1>4. CASE Runs
  <2>1. TypeOK'
    BY <1>1, <1>4 DEF IInv, TypeOK, Files, Process, Pc, Runs, Goto, Status
  <2>2. Located' /\ Requests' /\ Truthful'
    BY <1>4 DEF StartSdk, IInv, TypeOK, Located, Requests, Truthful, Files, Process, Runs, Goto, Status
  <2>3. Answers'
    BY <1>1, <1>4 DEF IInv, TypeOK, Answers, MarkerMeansAccepted, Files, Process, Runs, Goto
  <2>4. QED
    BY <2>1, <2>2, <2>3 DEF IInv
<1>5. QED
  BY <1>2, <1>3, <1>4 DEF StartSdk, Fail

LEMMA HeartbeatIInv ==
  ASSUME IInv, Heartbeat, UNCHANGED <<wire, accepted, profile, desired, events>>
  PROVE  IInv'
<1> USE NoneAssumption
<1>1. TypeOK'
  BY DEF Heartbeat, IInv, TypeOK, Located, Files, Process, Pc, Status
<1>2. Located'
  BY DEF Heartbeat, IInv, TypeOK, Located, Files, Process, Status
<1>3. Requests'
  BY DEF Heartbeat, IInv, TypeOK, Located, Requests, Files, Process, Status
<1>4. Answers'
  BY DEF Heartbeat, IInv, TypeOK, Located, Answers, MarkerMeansAccepted, Files, Process, Status
<1>5. Truthful'
  BY DEF Heartbeat, IInv, TypeOK, Located, Truthful, Files, Process, Status
<1>6. QED
  BY <1>1, <1>2, <1>3, <1>4, <1>5 DEF IInv

LEMMA StepIInv ==
  ASSUME IInv, Step
  PROVE  IInv'
BY ReadIdentityIInv, WriteBackupIInv, WritePrefixIInv, CreateIdentityIInv, VersionKnownIInv,
   CheckMarkerIInv, SaveSerialIInv, AnsweredIInv, WriteMarkerIInv, WriteLinksIInv, StartSdkIInv,
   HeartbeatIInv DEF Step, Code

-----------------------------------------------------------------------------
\* Requests, signals, crashes, Docker, the operator and the server.

LEMMA AbandonedLeaves ==
  ASSUME TypeOK
  PROVE  /\ Abandoned \subseteq [uuid : Id, serial : Nat, live : BOOLEAN]
         /\ \A a \in Abandoned : a.live = FALSE
         /\ \A a \in Abandoned : \E r \in wire : a.uuid = r.uuid /\ a.serial = r.serial
<1>1. ASSUME NEW r \in wire
      PROVE  /\ [r EXCEPT !.live = FALSE] \in [uuid : Id, serial : Nat, live : BOOLEAN]
             /\ [r EXCEPT !.live = FALSE].live = FALSE
             /\ [r EXCEPT !.live = FALSE].uuid = r.uuid /\ [r EXCEPT !.live = FALSE].serial = r.serial
  BY DEF TypeOK
<1>2. QED
  BY <1>1 DEF Abandoned

\* The process ends, and its files are as they were or its identity is torn.
LEMMA EndIInv ==
  ASSUME IInv, proc' = NoProcess, wire' = Abandoned, UNCHANGED <<accepted, profile, desired, made>>,
         events' \in 0..MaxEvents,
         disk' \in Files, UNCHANGED <<disk.serial, disk.marker, disk.link, disk.status>>,
         \/ disk'.uuid = disk.uuid
         \/ disk'.uuid = Empty /\ disk.status # "running"
  PROVE  IInv'
<1> USE NoneAssumption
<1>1. /\ proc' \in Process /\ proc'.pc = "off" /\ proc'.answer = None /\ proc'.uuid = None
  BY DEF NoProcess, Process, Pc
<1>2. TypeOK'
  BY <1>1, AbandonedLeaves DEF IInv, TypeOK
<1>3. Located'
  BY <1>1 DEF Located
<1>4. \A r \in wire' \cup accepted' : \E s \in wire \cup accepted :
         r.uuid = s.uuid /\ r.serial = s.serial
  BY AbandonedLeaves DEF IInv
<1>5. Requests'
  BY <1>4 DEF IInv, Requests, Id
<1>6. Answers'
  BY <1>1, AbandonedLeaves DEF IInv, Answers, MarkerMeansAccepted
<1>7. Truthful'
  BY DEF IInv, Truthful
<1>8. QED
  BY <1>2, <1>3, <1>5, <1>6, <1>7 DEF IInv

LEMMA ExitIInv ==
  ASSUME IInv, Exit
  PROVE  IInv'
BY EndIInv DEF Exit, IInv, TypeOK

LEMMA CrashIInv ==
  ASSUME IInv, Crash
  PROVE  IInv'
<1> USE NoneAssumption
<1>0. events' \in 0..MaxEvents
  BY SpendKeepsBound DEF Crash, IInv
<1>1. CASE disk' = disk
  BY <1>0, <1>1, EndIInv DEF Crash, IInv, TypeOK
<1>2. CASE disk' = [disk EXCEPT !.backup[profile.platform] = Empty]
  <2>1. /\ disk' \in Files /\ disk'.uuid = disk.uuid
        /\ UNCHANGED <<disk.serial, disk.marker, disk.link, disk.status>>
    BY <1>2 DEF IInv, TypeOK, Files, Profile
  <2>2. QED
    BY <1>0, <2>1, EndIInv DEF Crash
<1>3. CASE proc.pc \in {"prefix", "create"} /\ disk' = [disk EXCEPT !.uuid = Empty]
  <2>1. /\ disk' \in Files /\ disk'.uuid = Empty
        /\ UNCHANGED <<disk.serial, disk.marker, disk.link, disk.status>>
    BY <1>3 DEF IInv, TypeOK, Files
  <2>2. disk.status # "running"
    BY <1>3 DEF IInv, Located, Truthful, Id
  <2>3. QED
    BY <1>0, <2>1, <2>2, EndIInv DEF Crash
<1>4. QED
  BY <1>1, <1>2, <1>3 DEF Crash, AfterCrash

LEMMA SendIInv ==
  ASSUME IInv, Send
  PROVE  IInv'
<1> USE NoneAssumption
<1> DEFINE q == [uuid |-> proc.uuid, serial |-> disk.serial, live |-> TRUE]
<1>1. /\ disk.uuid \in Id /\ proc.uuid = disk.uuid /\ disk.serial \in Nat /\ disk.marker # disk.uuid
      /\ \A r \in wire : ~r.live
  BY DEF Send, IInv, TypeOK, Located, Answers, Files
<1>2. /\ q \in [uuid : Id, serial : Nat, live : BOOLEAN]
      /\ q.uuid = disk.uuid /\ q.serial = disk.serial
  BY <1>1
<1>3. wire' = wire \cup {q} /\ UNCHANGED <<disk, accepted, profile, desired, made, events>>
  BY DEF Send
<1> HIDE DEF q
<1>4. proc' \in Process /\ proc'.pc = "wait" /\ proc'.uuid = proc.uuid /\ proc'.answer = proc.answer
  BY GotoLeaves DEF Send, IInv, Pc
<1>5. TypeOK'
  BY <1>2, <1>3, <1>4 DEF IInv, TypeOK
<1>6. Located' /\ Truthful'
  BY <1>1, <1>3, <1>4 DEF IInv, Located, Truthful
<1>7. Requests'
  BY <1>1, <1>2, <1>3 DEF IInv, Requests, Id
<1>8. proc.answer = None
  BY DEF Send, IInv, Answers
<1>9. Answers'
  BY <1>1, <1>2, <1>3, <1>4, <1>8 DEF IInv, Answers, MarkerMeansAccepted
<1>10. QED
  BY <1>5, <1>6, <1>7, <1>9 DEF IInv

LEMMA TimeoutIInv ==
  ASSUME IInv, Timeout
  PROVE  IInv'
<1> USE NoneAssumption
<1>1. /\ disk' \in Files /\ proc' \in Process
      /\ proc'.pc = "ending" /\ proc'.uuid = proc.uuid /\ proc'.answer = proc.answer
      /\ disk'.uuid = disk.uuid /\ disk'.serial = disk.serial
      /\ disk'.marker = disk.marker /\ disk'.link = disk.link
      /\ disk'.status \in {disk.status, "stopped"}
  BY ShutdownLeaves DEF Timeout, IInv, Fail, Pc
<1>2. TypeOK'
  BY <1>1, AbandonedLeaves, SpendKeepsBound DEF Timeout, IInv, TypeOK
<1>3. \A r \in wire' \cup accepted' : \E s \in wire \cup accepted :
         r.uuid = s.uuid /\ r.serial = s.serial
  BY AbandonedLeaves DEF Timeout, IInv
<1>4. Located' /\ Requests' /\ Truthful'
  BY <1>1, <1>3 DEF IInv, Located, Requests, Truthful
<1>5. Answers'
  BY <1>1, AbandonedLeaves DEF Timeout, IInv, Answers, MarkerMeansAccepted
<1>6. QED
  BY <1>2, <1>4, <1>5 DEF IInv

LEMMA AcceptIInv ==
  ASSUME IInv, Accept
  PROVE  IInv'
<1> USE NoneAssumption
<1> PICK r \in wire :
      /\ wire' = wire \ {r}
      /\ accepted' = accepted \cup {[uuid |-> r.uuid, serial |-> r.serial]}
      /\ Reply(r, "ok") /\ UNCHANGED <<disk, profile, desired, made>>
  BY DEF Accept
<1>0. events' \in 0..MaxEvents
  BY SpendKeepsBound DEF Reply, IInv, TypeOK
<1> DEFINE a == [uuid |-> r.uuid, serial |-> r.serial]
<1>1. a \in [uuid : Id, serial : Nat] /\ a.uuid = r.uuid /\ a.serial = r.serial
  BY DEF IInv, TypeOK
<1>2. accepted' = accepted \cup {a}
  OBVIOUS
<1> HIDE DEF a
<1>3. /\ proc' \in Process /\ proc'.pc = proc.pc /\ proc'.uuid = proc.uuid
      /\ proc'.answer = proc.answer \/ (r.live /\ proc'.answer = "ok")
  BY DEF Reply, IInv, TypeOK, Process
<1>4. TypeOK'
  BY <1>0, <1>1, <1>2, <1>3 DEF IInv, TypeOK
<1>5. Located' /\ Truthful'
  BY <1>3 DEF IInv, Located, Truthful
<1>6. Requests'
  BY <1>1, <1>2 DEF IInv, Requests
<1>7. Answers'
  <2>1. \A s \in wire' : s.live => proc'.pc = "wait" /\ proc'.answer = None /\ s.uuid = proc'.uuid
    BY <1>3 DEF IInv, Answers
  <2>2. proc'.answer = "ok" => \E s \in accepted' : s.uuid = proc'.uuid
    BY <1>1, <1>2, <1>3 DEF IInv, Answers
  <2>3. MarkerMeansAccepted'
    BY <1>2 DEF IInv, Answers, MarkerMeansAccepted
  <2>4. r.live => proc.pc = "wait"
    BY DEF IInv, Answers
  <2>5. QED
    BY <1>3, <2>1, <2>2, <2>3, <2>4 DEF IInv, Answers
<1>8. QED
  BY <1>4, <1>5, <1>6, <1>7 DEF IInv

LEMMA BootIInv ==
  ASSUME IInv, Boot
  PROVE  IInv'
<1> USE NoneAssumption
<1>1. TypeOK'
  BY DEF Boot, IInv, TypeOK, Located, Files, Process, Pc, Goto
<1>2. Located'
  BY DEF Boot, IInv, TypeOK, Located, Files, Process, Goto
<1>3. Requests'
  BY DEF Boot, IInv, TypeOK, Located, Requests, Files, Process, Goto
<1>4. Answers'
  BY DEF Boot, IInv, TypeOK, Located, Answers, MarkerMeansAccepted, Files, Process, Goto
<1>5. Truthful'
  BY DEF Boot, IInv, TypeOK, Located, Truthful, Files, Process, Goto
<1>6. QED
  BY <1>1, <1>2, <1>3, <1>4, <1>5 DEF IInv

LEMMA TerminateIInv ==
  ASSUME IInv, Terminate
  PROVE  IInv'
<1> USE NoneAssumption
<1>1. TypeOK'
  BY SpendKeepsBound DEF Terminate, IInv, TypeOK, Located, Files, Process, Pc, Shutdown
<1>2. Located'
  BY DEF Terminate, IInv, TypeOK, Located, Files, Process, Shutdown
<1>3. Requests'
  BY DEF Terminate, IInv, TypeOK, Located, Requests, Files, Process, Shutdown
<1>4. Answers'
  BY DEF Terminate, IInv, TypeOK, Located, Answers, MarkerMeansAccepted, Files, Process, Shutdown
<1>5. Truthful'
  BY DEF Terminate, IInv, TypeOK, Located, Truthful, Files, Process, Shutdown
<1>6. QED
  BY <1>1, <1>2, <1>3, <1>4, <1>5 DEF IInv

LEMMA OperatorStopIInv ==
  ASSUME IInv, OperatorStop
  PROVE  IInv'
<1> USE NoneAssumption
<1>1. TypeOK'
  BY SpendKeepsBound DEF OperatorStop, IInv, TypeOK
<1>2. Located'
  BY DEF OperatorStop, IInv, TypeOK, Located, Files, Process
<1>3. Requests'
  BY DEF OperatorStop, IInv, TypeOK, Located, Requests, Files, Process
<1>4. Answers'
  BY DEF OperatorStop, IInv, TypeOK, Located, Answers, MarkerMeansAccepted, Files, Process
<1>5. Truthful'
  BY DEF OperatorStop, IInv, TypeOK, Located, Truthful, Files, Process
<1>6. QED
  BY <1>1, <1>2, <1>3, <1>4, <1>5 DEF IInv

LEMMA OperatorStartIInv ==
  ASSUME IInv, OperatorStart
  PROVE  IInv'
<1> USE NoneAssumption
<1>1. TypeOK'
  BY SpendKeepsBound DEF OperatorStart, IInv, TypeOK
<1>2. Located'
  BY DEF OperatorStart, IInv, TypeOK, Located, Files, Process
<1>3. Requests'
  BY DEF OperatorStart, IInv, TypeOK, Located, Requests, Files, Process
<1>4. Answers'
  BY DEF OperatorStart, IInv, TypeOK, Located, Answers, MarkerMeansAccepted, Files, Process
<1>5. Truthful'
  BY DEF OperatorStart, IInv, TypeOK, Located, Truthful, Files, Process
<1>6. QED
  BY <1>1, <1>2, <1>3, <1>4, <1>5 DEF IInv

LEMMA RegisterOnlyIInv ==
  ASSUME IInv, RegisterOnly
  PROVE  IInv'
<1> USE NoneAssumption
<1>1. TypeOK'
  BY ZenonT(30), SpendKeepsBound DEF RegisterOnly, IInv, TypeOK, Located, Files, Process, Pc, NoProcess
<1>2. Located'
  BY DEF RegisterOnly, IInv, TypeOK, Located, Files, Process, NoProcess
<1>3. Requests'
  BY DEF RegisterOnly, IInv, TypeOK, Located, Requests, Files, Process, NoProcess
<1>4. Answers'
  BY DEF RegisterOnly, IInv, TypeOK, Located, Answers, MarkerMeansAccepted, Files, Process, NoProcess
<1>5. Truthful'
  BY DEF RegisterOnly, IInv, TypeOK, Located, Truthful, Files, Process, NoProcess
<1>6. QED
  BY <1>1, <1>2, <1>3, <1>4, <1>5 DEF IInv

LEMMA SdkThrowsIInv ==
  ASSUME IInv, SdkThrows
  PROVE  IInv'
<1> USE NoneAssumption
<1>1. TypeOK'
  BY SpendKeepsBound DEF SdkThrows, IInv, TypeOK, Located, Files, Process, Pc, Shutdown
<1>2. Located'
  BY DEF SdkThrows, IInv, TypeOK, Located, Files, Process, Shutdown
<1>3. Requests'
  BY DEF SdkThrows, IInv, TypeOK, Located, Requests, Files, Process, Shutdown
<1>4. Answers'
  BY DEF SdkThrows, IInv, TypeOK, Located, Answers, MarkerMeansAccepted, Files, Process, Shutdown
<1>5. Truthful'
  BY DEF SdkThrows, IInv, TypeOK, Located, Truthful, Files, Process, Shutdown
<1>6. QED
  BY <1>1, <1>2, <1>3, <1>4, <1>5 DEF IInv

LEMMA EditProfileIInv ==
  ASSUME IInv, EditProfile
  PROVE  IInv'
<1> USE NoneAssumption
<1>1. TypeOK'
  BY SpendKeepsBound DEF EditProfile, IInv, TypeOK, Located, Files, Process, Pc
<1>2. Located'
  BY DEF EditProfile, IInv, TypeOK, Located, Files, Process
<1>3. Requests'
  BY DEF EditProfile, IInv, TypeOK, Located, Requests, Files, Process
<1>4. Answers'
  BY DEF EditProfile, IInv, TypeOK, Located, Answers, MarkerMeansAccepted, Files, Process
<1>5. Truthful'
  BY DEF EditProfile, IInv, TypeOK, Located, Truthful, Files, Process
<1>6. QED
  BY <1>1, <1>2, <1>3, <1>4, <1>5 DEF IInv

LEMMA RefuseIInv ==
  ASSUME IInv, Refuse
  PROVE  IInv'
<1> USE NoneAssumption
<1>1. TypeOK'
  BY SpendKeepsBound DEF Refuse, IInv, TypeOK, Located, Files, Process, Pc
<1>2. Located'
  BY DEF Refuse, IInv, TypeOK, Located, Files, Process
<1>3. Requests'
  BY DEF Refuse, IInv, TypeOK, Located, Requests, Files, Process
<1>4. Answers'
  BY DEF Refuse, IInv, TypeOK, Located, Answers, MarkerMeansAccepted, Files, Process
<1>5. Truthful'
  BY DEF Refuse, IInv, TypeOK, Located, Truthful, Files, Process
<1>6. QED
  BY <1>1, <1>2, <1>3, <1>4, <1>5 DEF IInv

LEMMA NextIInv == IInv /\ [Next]_vars => IInv'
<1> SUFFICES ASSUME IInv, [Next]_vars PROVE IInv'
  OBVIOUS
<1>1. CASE Next
  BY <1>1, StepIInv, SendIInv, TimeoutIInv, ExitIInv, BootIInv, TerminateIInv, OperatorStopIInv,
     OperatorStartIInv, RegisterOnlyIInv, SdkThrowsIInv, CrashIInv, EditProfileIInv, AcceptIInv,
     RefuseIInv DEF Next
<1>2. CASE UNCHANGED vars
  BY <1>2 DEF vars, IInv, TypeOK, Located, Requests, Answers, MarkerMeansAccepted, Truthful
<1>3. QED
  BY <1>1, <1>2

-----------------------------------------------------------------------------
\* The strengthened invariant holds in every reachable state, for all prefixes
\* and every number of crashes, faults, stops and edits.
THEOREM Inductive == Spec => []IInv
BY InitIInv, NextIInv, PTL DEF Spec

\* The files, the process and the requests stay in their types.
THEOREM TypeCorrect == Spec => []TypeOK
<1>1. IInv => TypeOK
  BY DEF IInv
<1>2. QED
  BY <1>1, Inductive, PTL

\* The server sees one serial and one set of digits for a directory, however
\* often it is registered (platform.cjs:58-80, registration.cjs:77-87).
THEOREM OneDeviceOnly == Spec => []OneDevice
<1>1. IInv => OneDevice
  BY DEF IInv, Requests, OneDevice
<1>2. QED
  BY <1>1, Inductive, PTL

\* A marker is written for what the server accepted and for nothing else
\* (registration.cjs:95-97).
THEOREM MarkerEarned == Spec => []MarkerMeansAccepted
<1>1. IInv => MarkerMeansAccepted
  BY DEF IInv, Answers
<1>2. QED
  BY <1>1, Inductive, PTL

\* Whoever reads "running" in status.json, after a crash too, finds the saved
\* identity registered and its link shown (worker.cjs:91-103).
THEOREM StatusTrue == Spec => []StatusTellsTruth
<1>1. IInv => StatusTellsTruth
  BY DEF IInv, Truthful, StatusTellsTruth
<1>2. QED
  BY <1>1, Inductive, PTL

\* No step of a process that has begun to stop starts the SDK or overwrites
\* the last status (worker.cjs:43-54, 82, 97).
THEOREM StopIsFinal == Spec => StoppedIsLast
<1> DEFINE Last == proc.stopping /\ proc'.stopping =>
                     disk'.status = disk.status /\ (proc'.pc = "run" => proc.pc = "run")
<1>1. IInv /\ [Next]_vars => [Last]_vars
  <2> SUFFICES ASSUME IInv, Next, proc.stopping, proc'.stopping
               PROVE  disk'.status = disk.status /\ (proc'.pc = "run" => proc.pc = "run")
    OBVIOUS
  <2> USE DEF IInv, TypeOK, Files, Process
  <2>1. CASE Step
    BY <2>1 DEF Step, Code, ReadIdentity, WriteBackup, WritePrefix, CreateIdentity, VersionKnown,
       CheckMarker, SaveSerial, Answered, WriteMarker, WriteLinks, StartSdk, Heartbeat, Runs, Goto, Fail, Shutdown
  <2>2. CASE Send \/ Timeout \/ Boot \/ Terminate \/ SdkThrows
    BY <2>2 DEF Send, Timeout, Boot, Terminate, SdkThrows, Goto, Fail, Shutdown
  <2>3. CASE Exit \/ Crash \/ RegisterOnly
    <3>1. NoProcess.stopping = FALSE /\ [NoProcess EXCEPT !.cmd = "register", !.pc = "read"].stopping = FALSE
      BY DEF NoProcess
    <3>2. QED
      BY <2>3, <3>1 DEF Exit, Crash, RegisterOnly
  <2>4. CASE OperatorStop \/ OperatorStart \/ EditProfile \/ Accept \/ Refuse
    BY <2>4 DEF OperatorStop, OperatorStart, EditProfile, Accept, Refuse, Reply
  <2>5. QED
    BY <2>1, <2>2, <2>3, <2>4 DEF Next
<1>2. QED
  BY <1>1, Inductive, PTL DEF Spec, StoppedIsLast
=============================================================================
