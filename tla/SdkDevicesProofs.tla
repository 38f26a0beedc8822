-------------------------- MODULE SdkDevicesProofs --------------------------
(***************************************************************************)
(* SdkDevices for every value of its constants: the bookkeeping of Devices. *)
(*                                                                         *)
(* handle_devs turns a set of interfaces into Devices through a list, so   *)
(* that a name's entry in the table has to be the place of its Device in   *)
(* that list: the first lemmas are about the list.                         *)
(***************************************************************************)
EXTENDS SdkDevices, FiniteSetTheorems, SequenceTheorems, TLAPS

IInv == TypeOK /\ NoDeviceIsLost /\ TableIsWhatWasSeen

-----------------------------------------------------------------------------
\* SetToSeq lists every element of a finite set once.
LEMMA Listing ==
  ASSUME NEW S, IsFiniteSet(S)
  PROVE  /\ Cardinality(S) \in Nat
         /\ SetToSeq(S) \in [1..Cardinality(S) -> S]
         /\ \A a, b \in 1..Cardinality(S) : SetToSeq(S)[a] = SetToSeq(S)[b] => a = b
         /\ \A x \in S : \E k \in 1..Cardinality(S) : SetToSeq(S)[k] = x
<1> DEFINE C == Cardinality(S)
           f == SetToSeq(S)
<1>1. C \in Nat /\ ExistsBijection(1..C, S)
  BY FS_CardinalityType
<1>2. PICK b : b \in [1..C -> S] /\ IsInjective(b)
  BY <1>1 DEF ExistsBijection, Bijection, Injection
<1>3. f \in [1..C -> S] /\ IsInjective(f)
  BY <1>2, Zenon DEF SetToSeq
<1> HIDE DEF f
<1>4. f \in Surjection(1..C, S)
  <2>1. f \in Injection(1..C, S)
    BY <1>3 DEF Injection
  <2>2. Cardinality(1..C) = C
    BY <1>1, FS_Interval
  <2>3. QED
    BY <2>1, <2>2, FS_Injection
<1>5. QED
  BY <1>1, <1>3, <1>4 DEF f, IsInjective, Surjection

\* A check makes one Device for each interface in fresh, in some order.
NewDevices(fresh) == [k \in DOMAIN fresh |-> NewDevice(fresh[k])]
Stays == {n \in Present : table[n] # 0 /\ ~Stale(n)}

\* What handle_devs does to a Device there was, to one it makes, and to the table.
LEMMA Handled ==
  ASSUME TypeOK, HandleDevs
  PROVE  /\ device' \in Seq(DeviceRecord) /\ Len(device) <= Len(device')
         /\ table' \in [Name -> 0..Len(device')]
         /\ \A i \in 1..Len(device) :
              device'[i] = IF i \in Released THEN Closed(device[i]) ELSE device[i]
         /\ \A i \in (Len(device) + 1)..Len(device') : table'[device'[i].name] = i
         /\ \A n \in Stays : table'[n] = table[n]
         /\ \A n \in Present \ Stays :
              /\ table'[n] \in (Len(device) + 1)..Len(device')
              /\ device'[table'[n]].addr = ifaces[n]
              /\ device'[table'[n]].ladder = "none"
         /\ \A n \in Name \ Present : table'[n] = 0
<1> DEFINE fresh == SetToSeq(Present \ Stays)
           L == Len(device)
           C == Cardinality(Present \ Stays)
           old == [i \in Devices |-> IF i \in Released THEN Closed(device[i]) ELSE device[i]]
           new == NewDevices(fresh)
<1>1. L \in Nat /\ Devices = 1..L /\ \A i \in 1..L : device[i] \in DeviceRecord
  BY DEF TypeOK, Devices
<1>2. /\ C \in Nat /\ fresh \in [1..C -> Present \ Stays]
      /\ \A a, b \in 1..C : fresh[a] = fresh[b] => a = b
      /\ \A n \in Present \ Stays : \E k \in 1..C : fresh[k] = n
  <2>1. IsFiniteSet(Present \ Stays)
    BY ConstantsAssumption, FS_Subset DEF Present
  <2>2. QED
    BY <2>1, Listing
<1>3. /\ device' = old \o new
      /\ table' = [n \in Name |->
                     IF n \in Stays THEN table[n]
                     ELSE IF n \in Present THEN L + (CHOOSE k \in DOMAIN fresh : fresh[k] = n)
                          ELSE 0]
  BY DEF HandleDevs, Stays, NewDevices
<1> HIDE DEF fresh, C
<1>4. old \in Seq(DeviceRecord) /\ Len(old) = L
  <2>1. \A i \in 1..L : Closed(device[i]) \in DeviceRecord
    BY <1>1 DEF Closed, DeviceRecord
  <2>2. old \in [1..L -> DeviceRecord]
    BY <1>1, <2>1
  <2>3. QED
    BY <1>1, <2>2
<1>5. new \in Seq(DeviceRecord) /\ Len(new) = C
  <2>1. \A n \in Present : NewDevice(n) \in DeviceRecord
    BY DEF Present, NewDevice, DeviceRecord, TypeOK
  <2>2. new \in [1..C -> DeviceRecord]
    BY <1>2, <2>1 DEF NewDevices
  <2>3. QED
    BY <1>2, <2>2
<1>6. /\ device' \in Seq(DeviceRecord) /\ Len(device') = L + C
      /\ \A i \in 1..L : device'[i] = old[i]
      /\ \A i \in (L + 1)..(L + C) : device'[i] = new[i - L]
  <2>1. /\ device' \in Seq(DeviceRecord) /\ Len(device') = Len(old) + Len(new)
        /\ \A i \in 1..(Len(old) + Len(new)) :
             device'[i] = IF i <= Len(old) THEN old[i] ELSE new[i - Len(old)]
    BY <1>3, <1>4, <1>5, ConcatProperties
  <2> HIDE DEF old, new
  <2>2. QED
    BY <1>1, <1>2, <1>4, <1>5, <2>1
<1>7. \A k \in 1..C : new[k] = NewDevice(fresh[k]) /\ fresh[k] \in Present \ Stays
  BY <1>2 DEF NewDevices
<1>8. ASSUME NEW k \in 1..C PROVE table'[fresh[k]] = L + k
  <2>1. fresh[k] \in Name /\ fresh[k] \in Present \ Stays /\ DOMAIN fresh = 1..C
    BY <1>2 DEF Present
  <2>2. (CHOOSE j \in DOMAIN fresh : fresh[j] = fresh[k]) = k
    BY <1>2, <2>1
  <2>3. QED
    BY <1>3, <2>1, <2>2
<1>9. ASSUME NEW i \in (L + 1)..(L + C)
      PROVE  table'[device'[i].name] = i
  <2>1. i - L \in 1..C /\ L + (i - L) = i
    BY <1>1, <1>2
  <2>2. device'[i] = NewDevice(fresh[i - L])
    BY <1>6, <1>7, <2>1
  <2>3. device'[i].name = fresh[i - L]
    BY <2>2 DEF NewDevice
  <2>4. QED
    BY <1>8, <2>1, <2>3
<1>10. ASSUME NEW n \in Present \ Stays
       PROVE  /\ table'[n] \in (L + 1)..(L + C)
              /\ device'[table'[n]].addr = ifaces[n]
              /\ device'[table'[n]].ladder = "none"
  <2>1. PICK k \in 1..C : fresh[k] = n
    BY <1>2
  <2>2. table'[n] = L + k /\ L + k \in (L + 1)..(L + C) /\ (L + k) - L = k
    BY <1>1, <1>2, <1>8, <2>1
  <2>3. device'[table'[n]] = NewDevice(n)
    BY <1>6, <1>7, <2>1, <2>2
  <2>4. QED
    BY <2>2, <2>3 DEF NewDevice
<1>11. \A n \in Stays : table'[n] = table[n]
  BY <1>3 DEF Stays, Present
<1>12. \A n \in Name \ Present : table'[n] = 0
  BY <1>3 DEF Stays
<1>13. table' \in [Name -> 0..(L + C)]
  <2>1. \A n \in Name : table'[n] \in 0..(L + C)
    <3>1. \A n \in Stays : table[n] \in 0..L
      BY DEF TypeOK, Stays, Present
    <3>2. QED
      BY <1>1, <1>2, <1>10, <1>11, <1>12, <3>1
  <2>2. DOMAIN table' = Name /\ table' = [n \in Name |-> table'[n]]
    BY <1>3
  <2>3. QED
    BY <2>1, <2>2
<1> HIDE DEF new
<1>14. QED
  BY <1>1, <1>2, <1>6, <1>9, <1>10, <1>11, <1>12, <1>13

-----------------------------------------------------------------------------
(* The steps.                                                              *)

\* The interface of an unreleased Device has kept its address, so its entry stays.
LEMMA CheckStep == IInv /\ CheckDevs => IInv'
<1> SUFFICES ASSUME IInv, CheckDevs PROVE IInv'
  OBVIOUS
<1> DEFINE L == Len(device)
<1>1. TypeOK /\ HandleDevs /\ seen' = ifaces /\ UNCHANGED <<ifaces, main>>
  BY DEF CheckDevs, IInv
<1>2. /\ L \in Nat /\ Devices = 1..L /\ \A i \in 1..L : device[i] \in DeviceRecord
      /\ Len(device') \in Nat /\ Devices' = 1..Len(device')
      /\ \A i \in 1..Len(device') : device'[i] \in DeviceRecord
  BY <1>1, Handled DEF TypeOK, Devices
<1>3. \A i \in 1..L :
        /\ device'[i].name = device[i].name /\ device'[i].addr = device[i].addr
        /\ device'[i].ladder = device[i].ladder
        /\ ~device'[i].closed => ~device[i].closed /\ i \notin Released
  <2> SUFFICES ASSUME NEW i \in 1..L
               PROVE  /\ device'[i].name = device[i].name /\ device'[i].addr = device[i].addr
                      /\ device'[i].ladder = device[i].ladder
                      /\ ~device'[i].closed => ~device[i].closed /\ i \notin Released
    OBVIOUS
  <2>1. device'[i] = IF i \in Released THEN Closed(device[i]) ELSE device[i]
    BY <1>1, Handled
  <2>2. QED
    BY <1>2, <2>1 DEF Closed, DeviceRecord
<1>4. TypeOK'
  <2>1. ifaces' \in [Name -> Addr \cup {None}] /\ seen' \in [Name -> Addr \cup {None}] \cup {None}
    BY <1>1 DEF TypeOK
  <2>2. device' \in Seq(DeviceRecord) /\ table' \in [Name -> 0..Len(device')] /\ L <= Len(device')
    BY <1>1, Handled
  <2>3. main' \in 0..Len(device')
    BY <1>1, <1>2, <2>2 DEF TypeOK
  <2>4. ASSUME NEW i \in 1..Len(device'), device'[i].ladder \in {"dial", "open"} PROVE main' # 0
    <3>1. CASE i \in 1..L
      <4>1. i \in Devices /\ device[i].ladder \in {"dial", "open"}
        <5>1. i \in Devices
          BY <1>2, <3>1
        <5>2. device'[i].ladder = device[i].ladder
          BY <1>3, <3>1
        <5>3. QED
          BY <2>4, <5>1, <5>2
      <4>2. main # 0
        BY <1>1, <4>1 DEF TypeOK
      <4>3. QED
        BY <1>1, <4>2
    <3>2. CASE i \in (L + 1)..Len(device')
      <4>1. table'[device'[i].name] = i /\ device'[i].name \in Name
        BY <1>1, <1>2, <3>2, Handled DEF DeviceRecord
      <4>2. device'[i].name \in Present \ Stays
        <5>1. i \notin 0..L
          BY <1>2, <3>2
        <5>2. \A n \in Stays : table'[n] \in 0..L
          BY <1>1, Handled DEF TypeOK, Stays, Present
        <5>3. \A n \in Name \ Present : table'[n] \in 0..L
          BY <1>1, <1>2, Handled
        <5>4. QED
          BY <4>1, <5>1, <5>2, <5>3
      <4>3. QED
        BY <1>1, <2>4, <4>1, <4>2, Handled
    <3>3. QED
      BY <1>2, <3>1, <3>2
  <2>5. QED
    BY <1>2, <2>1, <2>2, <2>3, <2>4 DEF TypeOK
<1>5. NoDeviceIsLost'
  <2> SUFFICES ASSUME NEW i \in 1..Len(device'), ~device'[i].closed
               PROVE  table'[device'[i].name] = i
    BY <1>2 DEF NoDeviceIsLost
  <2>1. CASE i \in 1..L
    <3> DEFINE n == device[i].name
    <3>1. table[n] = i /\ i # 0 /\ n \in Name /\ device[i].addr \in Addr /\ i \notin Released
      <4>1. i \in Devices /\ ~device[i].closed /\ i \notin Released /\ i # 0
        <5>1. i \in Devices /\ i # 0
          BY <1>2, <2>1
        <5>2. ~device[i].closed /\ i \notin Released
          BY <1>3, <2>1
        <5>3. QED
          BY <5>1, <5>2
      <4>2. n \in Name /\ device[i].addr \in Addr
        BY <1>2, <2>1 DEF DeviceRecord
      <4>3. QED
        BY <4>1, <4>2 DEF IInv, NoDeviceIsLost
    <3>2. ~Stale(n)
      BY <3>1 DEF Released
    <3>3. n \in Stays
      BY <3>1, <3>2, ConstantsAssumption DEF Stays, Stale, Present
    <3>4. QED
      BY <1>1, <1>3, <2>1, <3>1, <3>3, Handled
  <2>2. CASE i \in (L + 1)..Len(device')
    BY <1>1, <2>2, Handled
  <2>3. QED
    BY <1>2, <2>1, <2>2
<1>6. TableIsWhatWasSeen'
  <2>1. seen' # None
    BY <1>1, ConstantsAssumption DEF TypeOK
  <2>2. ASSUME NEW n \in Stays
        PROVE  ifaces[n] # None /\ table'[n] # 0 /\ device'[table'[n]].addr = ifaces[n]
    <3>1. /\ n \in Name /\ ifaces[n] # None /\ table'[n] = table[n] /\ table[n] \in 1..L
          /\ device[table[n]].addr = ifaces[n]
      BY <1>1, <1>2, Handled DEF Stays, Stale, Present, TypeOK
    <3>2. device'[table[n]].addr = device[table[n]].addr /\ table[n] # 0
      <4>1. table[n] # 0
        BY <1>2, <3>1
      <4>2. device'[table[n]].addr = device[table[n]].addr
        BY <1>3, <3>1
      <4>3. QED
        BY <4>1, <4>2
    <3>3. QED
      BY <3>1, <3>2
  <2>3. ASSUME NEW n \in Present \ Stays
        PROVE  ifaces[n] # None /\ table'[n] # 0 /\ device'[table'[n]].addr = ifaces[n]
    <3>1. table'[n] \in (L + 1)..Len(device') /\ device'[table'[n]].addr = ifaces[n]
      BY <1>1, Handled
    <3>2. QED
      BY <1>2, <3>1 DEF Present
  <2>4. \A n \in Name \ Present : ifaces[n] = None /\ table'[n] = 0
    BY <1>1, Handled DEF Present
  <2>5. QED
    BY <1>1, <2>1, <2>2, <2>3, <2>4 DEF TableIsWhatWasSeen
<1>7. QED
  BY <1>4, <1>5, <1>6 DEF IInv

\* Stop closes whatever the table names, which is every Device that is open.
LEMMA StopStep == IInv /\ Stop => IInv'
<1> SUFFICES ASSUME IInv, Stop PROVE IInv'
  OBVIOUS
<1>1. /\ Devices = 1..Len(device) /\ Len(device) \in Nat
      /\ \A i \in 1..Len(device) : device[i] \in DeviceRecord
  BY DEF IInv, TypeOK, Devices
<1>2. /\ device' = [i \in Devices |-> IF \E n \in Name : table[n] = i THEN Closed(device[i]) ELSE device[i]]
      /\ table' = Nobody /\ seen' = None /\ UNCHANGED <<ifaces, main>>
  BY DEF Stop
<1>3. \A i \in 1..Len(device) :
        /\ device'[i] \in DeviceRecord /\ device'[i].ladder = device[i].ladder
        /\ (\E n \in Name : table[n] = i) => device'[i].closed
        /\ (\A n \in Name : table[n] # i) => device'[i] = device[i]
  <2> SUFFICES ASSUME NEW i \in 1..Len(device)
               PROVE  /\ device'[i] \in DeviceRecord /\ device'[i].ladder = device[i].ladder
                      /\ (\E n \in Name : table[n] = i) => device'[i].closed
                      /\ (\A n \in Name : table[n] # i) => device'[i] = device[i]
    OBVIOUS
  <2>1. device'[i] = IF \E n \in Name : table[n] = i THEN Closed(device[i]) ELSE device[i]
    BY <1>1, <1>2
  <2>2. Closed(device[i]) \in DeviceRecord /\ Closed(device[i]).closed /\ Closed(device[i]).ladder = device[i].ladder
    BY <1>1 DEF Closed, DeviceRecord
  <2>3. QED
    BY <1>1, <2>1, <2>2
<1>4. device' \in Seq(DeviceRecord) /\ Len(device') = Len(device) /\ Devices' = 1..Len(device)
  <2>1. DOMAIN device' = 1..Len(device)
    BY <1>1, <1>2
  <2>2. device' \in [1..Len(device) -> DeviceRecord]
    BY <1>1, <1>2, <1>3, <2>1
  <2>3. QED
    BY <1>1, <2>1, <2>2 DEF Devices
<1>5. TypeOK'
  <2>1. table' \in [Name -> 0..Len(device')]
    BY <1>1, <1>2, <1>4 DEF Nobody
  <2>2. QED
    BY <1>1, <1>2, <1>3, <1>4, <2>1 DEF IInv, TypeOK
<1>6. NoDeviceIsLost'
  <2> SUFFICES ASSUME NEW i \in 1..Len(device) PROVE device'[i].closed
    BY <1>4 DEF NoDeviceIsLost
  <2>1. CASE \E n \in Name : table[n] = i
    BY <1>3, <2>1
  <2>2. CASE \A n \in Name : table[n] # i
    <3>1. device[i].closed
      BY <1>1, <2>2 DEF IInv, NoDeviceIsLost, DeviceRecord
    <3>2. QED
      BY <1>3, <2>2, <3>1
  <2>3. QED
    BY <2>1, <2>2
<1>7. TableIsWhatWasSeen'
  BY <1>2 DEF TableIsWhatWasSeen, Nobody
<1>8. QED
  BY <1>5, <1>6, <1>7 DEF IInv

\* A Device that moves on keeps its name, its address and whether it was released.
LEMMA MovesOn ==
  ASSUME IInv, NEW i \in Devices, NEW d \in DeviceRecord, Becomes(i, d),
         d.name = device[i].name, d.addr = device[i].addr, d.closed = device[i].closed,
         main' \in 0..Len(device), main # 0 => main' # 0,
         d.ladder \in {"dial", "open"} => main' # 0
  PROVE  IInv'
<1>1. /\ Devices = 1..Len(device) /\ Len(device) \in Nat
      /\ \A j \in 1..Len(device) : device[j] \in DeviceRecord
  BY DEF IInv, TypeOK, Devices
<1>2. device' = [device EXCEPT ![i] = d] /\ UNCHANGED <<ifaces, seen, table>>
  BY DEF Becomes
<1>3. device' \in Seq(DeviceRecord) /\ Len(device') = Len(device) /\ Devices' = Devices
  BY <1>1, <1>2 DEF IInv, TypeOK, Devices
<1>4. \A j \in 1..Len(device) :
        /\ device'[j].name = device[j].name /\ device'[j].addr = device[j].addr
        /\ device'[j].closed = device[j].closed
        /\ device'[j].ladder \in {"dial", "open"} => main' # 0
  BY <1>1, <1>2 DEF IInv, TypeOK
<1>5. TypeOK'
  BY <1>1, <1>2, <1>3, <1>4 DEF IInv, TypeOK
<1>6. NoDeviceIsLost'
  BY <1>1, <1>2, <1>3, <1>4 DEF IInv, NoDeviceIsLost
<1>7. TableIsWhatWasSeen'
  <2>1. \A n \in Name : table[n] # 0 => table[n] \in 1..Len(device)
    BY <1>1 DEF IInv, TypeOK
  <2>2. QED
    BY <1>2, <1>4, <2>1 DEF IInv, TableIsWhatWasSeen
<1>8. QED
  BY <1>5, <1>6, <1>7 DEF IInv

LEMMA DeviceStep ==
  ASSUME IInv, NEW i \in Devices, Test(i) \/ Ladder(i) \/ ServerRedirects(i)
  PROVE  IInv'
<1>1. /\ device[i] \in DeviceRecord /\ main \in 0..Len(device) /\ i \in 1..Len(device)
      /\ Len(device) \in Nat
      /\ device[i].ladder \in {"dial", "open"} => main # 0
  BY DEF IInv, TypeOK, Devices
<1>2. CASE Test(i)
  <2>1. CASE TestSucceeds(i)
    BY <1>1, <2>1, MovesOn DEF TestSucceeds, DeviceRecord
  <2>2. CASE TestFails(i)
    BY <1>1, <2>2, MovesOn DEF TestFails, DeviceRecord
  <2>3. CASE TestAgain(i)
    BY <1>1, <2>3, MovesOn DEF TestAgain, DeviceRecord
  <2>4. QED
    BY <1>2, <2>1, <2>2, <2>3 DEF Test
<1>3. CASE Ladder(i)
  <2>1. CASE LadderEnds(i)
    BY <1>1, <2>1, MovesOn DEF LadderEnds, DeviceRecord
  <2>2. CASE LadderDials(i)
    <3>1. i \in 0..Len(device) /\ i # 0
      BY <1>1
    <3>2. QED
      BY <1>1, <2>2, <3>1, MovesOn DEF LadderDials, DeviceRecord
  <2>3. CASE DialFails(i)
    <3>1. PICK l \in {"top", "last"} : Becomes(i, [device[i] EXCEPT !.ladder = l])
      BY <2>3 DEF DialFails
    <3>2. QED
      BY <1>1, <2>3, <3>1, MovesOn DEF DialFails, DeviceRecord
  <2>4. CASE DialSucceeds(i)
    BY <1>1, <2>4, MovesOn DEF DialSucceeds, DeviceRecord
  <2>5. CASE Disconnected(i)
    BY <1>1, <2>5, MovesOn DEF Disconnected, DeviceRecord
  <2>6. CASE LadderThrows(i)
    BY <1>1, <2>6, MovesOn DEF LadderThrows, DeviceRecord
  <2>7. QED
    BY <1>3, <2>1, <2>2, <2>3, <2>4, <2>5, <2>6 DEF Ladder
<1>4. CASE ServerRedirects(i)
  BY <1>1, <1>4, MovesOn DEF ServerRedirects, DeviceRecord
<1>5. QED
  BY <1>2, <1>3, <1>4

-----------------------------------------------------------------------------
\* The types and the two invariants of the table support each other.
THEOREM Inductive == Spec => []IInv
<1>1. Init => IInv
  <2> SUFFICES ASSUME Init PROVE IInv
    OBVIOUS
  <2>1. Devices = {} /\ Len(device) = 0 /\ device \in Seq(DeviceRecord)
    BY EmptySeq DEF Init, Devices
  <2>2. TypeOK
    BY <2>1 DEF Init, TypeOK, Nobody
  <2>3. QED
    BY <2>1, <2>2 DEF Init, IInv, NoDeviceIsLost, TableIsWhatWasSeen
<1>2. IInv /\ [Next]_vars => IInv'
  <2> SUFFICES ASSUME IInv, [Next]_vars PROVE IInv'
    OBVIOUS
  <2>1. ASSUME UNCHANGED <<seen, table, device, main>>, ifaces' \in [Name -> Addr \cup {None}]
        PROVE  IInv'
    BY <2>1 DEF IInv, TypeOK, NoDeviceIsLost, TableIsWhatWasSeen, Devices
  <2>2. CASE Start \/ Calm \/ UNCHANGED vars
    BY <2>1, <2>2 DEF Start, Calm, vars, IInv, TypeOK
  <2>3. ASSUME NEW n \in Name, InterfaceChanges(n) PROVE IInv'
    BY <2>1, <2>3 DEF InterfaceChanges, IInv, TypeOK
  <2>4. QED
    BY <2>2, <2>3, CheckStep, StopStep, DeviceStep DEF Next
<1>3. QED
  BY <1>1, <1>2, PTL DEF Spec

\* The monitor's data stay in their types, for any finite set of interfaces.
THEOREM TypeCorrect == Spec => []TypeOK
<1>1. IInv => TypeOK
  BY DEF IInv
<1>2. QED
  BY <1>1, Inductive, PTL

\* A Device that was not released is the one its interface's entry names, however often
\* interfaces flap and the client is stopped and started.
THEOREM EveryDeviceAccounted == Spec => []NoDeviceIsLost
<1>1. IInv => NoDeviceIsLost
  BY DEF IInv
<1>2. QED
  BY <1>1, Inductive, PTL

\* Every entry is bound to the address that the last check saw.
THEOREM TableFollowsCheck == Spec => []TableIsWhatWasSeen
<1>1. IInv => TableIsWhatWasSeen
  BY DEF IInv
<1>2. QED
  BY <1>1, Inductive, PTL
=============================================================================
