------------------------------ MODULE DnsProofs ------------------------------
(***************************************************************************)
(* DnsRouter for any routes file, flags, sizes and number of queries: one  *)
(* HTTP client for each route, and the forwarder is a DnsService.          *)
(*                                                                         *)
(* The refinement rests on what a goroutine knows of its query wherever it *)
(* stands (Good) and on the cache: a number in it is that of an HTTP       *)
(* client that was made for the key's own route.                           *)
(***************************************************************************)
EXTENDS DnsRouter, SequenceTheorems, WellFoundedInduction, TLAPS

TaskRecord ==
  [client : Client, proto : {"udp", "tcp"}, limit : Size \cup {0}, short : BOOLEAN,
   pc : {"lookup", "dial", "load", "store", "do", "reply", "done"},
   http : Nat, via : Proxy \cup {Host, None}, asked : Nat,
   size : Size \cup {0}, reply : {"none", "refused", "full", "truncated"}]
HttpClient == [route : Proxy \cup {None}, idle : BOOLEAN]

\* What holds of query i and its record t wherever its goroutine stands.
Good(i, t) ==
  /\ t \in TaskRecord
  /\ t.pc \notin {"reply", "done"} => t.via = None /\ t.asked = 0 /\ t.size = 0 /\ t.reply = "none"
  /\ t.pc \notin {"lookup", "done"} => ~Refuses(t.client)
  /\ t.pc = "dial" => mode \notin Doh
  /\ t.pc \in {"load", "store", "do"} => mode \in Doh
  /\ t.pc \in {"store", "do"} =>
       t.http \in DOMAIN http /\ http[t.http].route = DohRoute(t.client)
  /\ t.pc = "do" => cached[Key(DohRoute(t.client))] = t.http
  /\ t.pc = "reply" =>
       t.asked = i /\ t.via \in MayUse(t.client) /\ t.size \in Size /\ t.reply = "none"

Keys == Proxy \cup {Host}

\* What is cached under a key was made for its route.
Cache ==
  \A k \in Keys : cached[k] # 0 => cached[k] \in DOMAIN http /\ Key(http[cached[k]].route) = k

\* A client with idle connections is cached, or a goroutine is about to try.
Idle ==
  \A k \in DOMAIN http : http[k].idle =>
    \/ cached[Key(http[k].route)] = k
    \/ \E i \in Tasks : task[i].pc = "store" /\ task[i].http = k

IInv ==
  /\ mode \in Mode /\ unmapped \in Unmapped /\ up \in BOOLEAN
  /\ task \in Seq(TaskRecord) /\ http \in Seq(HttpClient) /\ cached \in [Keys -> Nat]
  /\ \A i \in Tasks : Good(i, task[i])
  /\ Cache /\ Idle

-----------------------------------------------------------------------------
\* The last line of a client exists: the greatest of some numbers up to n.
LEMMA Greatest ==
  ASSUME NEW n \in Nat, NEW S, S \subseteq 1..n, S # {}
  PROVE  \E k \in S : \A j \in S : j <= k
<1> DEFINE R == {ss \in Nat \X Nat : ss[1] < ss[2]}
           D == {n - k : k \in S}
<1>1. IsWellFoundedOn(R, Nat)
  BY NatLessThanWellFounded DEF OpToRel
<1>2. \A k \in S : k \in Nat /\ n - k \in Nat
  OBVIOUS
<1>3. D \subseteq Nat /\ D # {}
  BY <1>2
<1>4. PICK d \in D : \A e \in D : ~(<<e, d>> \in R)
  <2> HIDE DEF D, R
  <2> QED  BY <1>1, <1>3, WFMin
<1>5. PICK k \in S : d = n - k
  OBVIOUS
<1>6. ASSUME NEW j \in S PROVE j <= k
  <2>1. n - j \in D /\ n - j \in Nat /\ d \in Nat
    BY <1>2
  <2>2. ~(n - j < d)
    BY <1>4, <2>1
  <2>3. QED
    BY <1>2, <1>5, <2>2
<1>7. QED
  BY <1>5, <1>6

\* A client's route is a proxy of the file, or none.
LEMMA LookupType == \A c \in Client : Lookup(c) \in Proxy \cup {None}
<1> SUFFICES ASSUME NEW c \in Client PROVE Lookup(c) \in Proxy \cup {None}
  OBVIOUS
<1>1. LinesOf(c) \subseteq 1..Len(Routes) /\ Len(Routes) \in Nat
  BY RoutesAssumption DEF LinesOf
<1>2. CASE LinesOf(c) = {}
  BY <1>2 DEF Lookup, byClient
<1>3. CASE LinesOf(c) # {}
  <2> DEFINE k == CHOOSE k \in LinesOf(c) : \A j \in LinesOf(c) : j <= k
  <2>1. k \in LinesOf(c)
    BY <1>1, <1>3, Greatest
  <2>2. Routes[k].proxy \in Proxy
    <3>1. k \in 1..Len(Routes)
      BY <1>1, <2>1
    <3> HIDE DEF k
    <3>2. Routes[k] \in [client : Client, proxy : Proxy]
      BY <3>1, RoutesAssumption, ElementOfSeq, Zenon
    <3>3. QED
      BY <3>2
  <2>3. QED
    BY <1>3, <2>2 DEF Lookup, byClient
<1>4. QED
  BY <1>2, <1>3

LEMMA RouteType == \A c \in Client : DohRoute(c) \in Proxy \cup {None} /\ Key(DohRoute(c)) \in Keys
BY LookupType DEF DohRoute, Key, Keys

\* One key for each route.
LEMMA KeyIsInjective ==
  ASSUME NEW r \in Proxy \cup {None}, NEW s \in Proxy \cup {None}, Key(r) = Key(s)
  PROVE  r = s
BY RoutesAssumption DEF Key

LEMMA MayUseType == \A c \in Client : MayUse(c) \subseteq Keys /\ None \notin MayUse(c)
BY LookupType, RoutesAssumption DEF MayUse, Keys

LEMMA HttpType ==
  ASSUME IInv
  PROVE  /\ DOMAIN http = 1..Len(http) /\ Len(http) \in Nat
         /\ \A k \in DOMAIN http : http[k] \in HttpClient /\ http[k].route \in Proxy \cup {None}
<1>1. http \in Seq(HttpClient)
  BY DEF IInv
<1>2. DOMAIN http = 1..Len(http) /\ Len(http) \in Nat
  BY <1>1
<1>3. \A k \in 1..Len(http) : http[k] \in HttpClient
  BY <1>1, ElementOfSeq, Zenon
<1>4. \A h \in HttpClient : h.route \in Proxy \cup {None}
  BY DEF HttpClient
<1>5. QED
  BY <1>2, <1>3, <1>4

-----------------------------------------------------------------------------
\* A step that changes one query, or only the HTTP clients around it.
LEMMA InitIInv == Init => IInv
<1> SUFFICES ASSUME Init PROVE IInv
  OBVIOUS
<1>1. task \in Seq(TaskRecord) /\ http \in Seq(HttpClient) /\ Tasks = {} /\ DOMAIN http = {}
  BY DEF Init, Tasks
<1>2. QED
  BY <1>1 DEF Init, IInv, Cache, Idle, Keys

\* Query i goes on while the HTTP clients and the cache stay as they are.
LEMMA SetIInv ==
  ASSUME IInv, NEW i \in Tasks, NEW t, Set(i, t), Good(i, t), task[i].pc # "store",
         UNCHANGED <<Flags, http, cached>>
  PROVE  IInv'
<1>1. task' \in Seq(TaskRecord) /\ DOMAIN task' = DOMAIN task
      /\ \A j \in DOMAIN task : task'[j] = IF j = i THEN t ELSE task[j]
  BY DEF Set, IInv, Good, Tasks
<1>2. ASSUME NEW j \in Tasks' PROVE Good(j, task[j])'
  <2>1. Good(j, task'[j])
    BY <1>1 DEF IInv, Tasks
  <2>2. QED
    BY <2>1 DEF Flags, Good, Refuses, DohRoute, MayUse, Lookup
<1>3. Cache'
  BY DEF IInv, Cache
<1>4. Idle'
  BY ZenonT(30), <1>1 DEF IInv, Idle, Tasks
<1>5. QED
  BY <1>1, <1>2, <1>3, <1>4 DEF IInv, Flags

LEMMA ReceiveIInv ==
  ASSUME IInv, Receive
  PROVE  IInv'
<1> PICK c \in Client, p \in {"udp", "tcp"}, l \in {0} \cup (Size \ {Bare}), s \in BOOLEAN :
      task' = Append(task, [client |-> c, proto |-> p, limit |-> l, short |-> s,
                            pc |-> "lookup", http |-> 0, via |-> None, asked |-> 0,
                            size |-> 0, reply |-> "none"])
  BY DEF Receive
<1> DEFINE t == [client |-> c, proto |-> p, limit |-> l, short |-> s,
                 pc |-> "lookup", http |-> 0, via |-> None, asked |-> 0,
                 size |-> 0, reply |-> "none"]
<1>1. t \in TaskRecord /\ t.pc = "lookup" /\ t.via = None /\ t.asked = 0 /\ t.size = 0 /\ t.reply = "none"
  BY DEF TaskRecord
<1> HIDE DEF t
<1>2. task' = Append(task, t)
  BY DEF t
<1>3. /\ task' \in Seq(TaskRecord) /\ Len(task') = Len(task) + 1
      /\ \A j \in 1..Len(task) : task'[j] = task[j]
      /\ task'[Len(task) + 1] = t
  BY <1>1, <1>2 DEF IInv
<1>4. \A j \in Tasks' : j \in Tasks \/ task'[j] = t
  BY <1>3 DEF IInv, Tasks
<1>5. ASSUME NEW j \in Tasks' PROVE Good(j, task[j])'
  <2>1. Good(j, task'[j])
    BY <1>1, <1>3, <1>4 DEF IInv, Tasks, Good
  <2>2. QED
    BY <2>1 DEF Receive, Flags, Good, Refuses, DohRoute, MayUse, Lookup
<1>6. Cache'
  BY DEF Receive, IInv, Cache
<1>7. Idle'
  <2>1. \A i \in Tasks : i \in Tasks' /\ task'[i] = task[i]
    BY <1>3 DEF IInv, Tasks
  <2>2. UNCHANGED <<http, cached>>
    BY DEF Receive
  <2>3. ASSUME NEW k \in DOMAIN http, http[k].idle
        PROVE  \/ cached[Key(http[k].route)] = k
               \/ \E i \in Tasks' : task'[i].pc = "store" /\ task'[i].http = k
    <3>1. CASE \E i \in Tasks : task[i].pc = "store" /\ task[i].http = k
      BY <2>1, <3>1, Zenon
    <3>2. QED
      BY <2>3, <3>1 DEF IInv, Idle
  <2>4. QED
    BY <2>2, <2>3 DEF Idle, Key
<1>8. QED
  BY <1>3, <1>5, <1>6, <1>7 DEF Receive, IInv, Flags

\* The steps of one goroutine.
LEMMA HandleIInv ==
  ASSUME IInv, NEW i \in Tasks, Handle(i)
  PROVE  IInv'
<1> USE RoutesAssumption, SizesAssumption
<1>0. Good(i, task[i]) /\ task[i] \in TaskRecord /\ i \in Nat
  BY DEF IInv, Good, Tasks
<1>1. CASE Refuse(i)
  <2> PICK t \in {Ends(task[i]), [task[i] EXCEPT !.pc = "done", !.asked = Query(i), !.reply = "refused"]} :
        Set(i, t)
    BY <1>1 DEF Refuse
  <2>1. t \in TaskRecord /\ t.pc = "done"
    BY ZenonT(30), <1>0 DEF TaskRecord, Ends, Query
  <2>2. Good(i, t)
    BY <2>1 DEF Good
  <2>3. QED
    BY <1>1, <2>2, SetIInv DEF Refuse
<1>2. CASE Choose(i)
  <2> DEFINE t == [task[i] EXCEPT !.pc = IF mode \in Doh THEN "load" ELSE "dial"]
  <2>1. t \in TaskRecord /\ t.pc = (IF mode \in Doh THEN "load" ELSE "dial")
        /\ t.client = task[i].client /\ t.via = None /\ t.asked = 0 /\ t.size = 0 /\ t.reply = "none"
    BY <1>0, <1>2 DEF TaskRecord, Choose, Good
  <2>2. Set(i, t) /\ ~Refuses(task[i].client)
    BY <1>2 DEF Choose
  <2> HIDE DEF t
  <2>3. Good(i, t)
    BY <2>1, <2>2 DEF Good
  <2>4. QED
    BY <1>2, <2>2, <2>3, SetIInv DEF Choose
<1>3. CASE Plain(i) \/ DohDo(i)
  <2>1. PICK via \in MayUse(task[i].client) :
          task' \in {[task EXCEPT ![i] = t] :
                       t \in Answered(task[i], Query(i), via) \cup {[Ends(task[i]) EXCEPT !.via = via]}}
    <3>1. CASE Plain(i)
      BY <1>0, <3>1, ModesAssumption DEF Plain, MayUse, Good, Refuses, Doh, IInv
    <3>2. CASE DohDo(i)
      BY <1>0, <3>2, ModesAssumption DEF DohDo, MayUse, Good, Refuses, Doh, DohRoute, IInv
    <3>3. QED
      BY <1>3, <3>1, <3>2
  <2>2. PICK t \in Answered(task[i], Query(i), via) \cup {[Ends(task[i]) EXCEPT !.via = via]} : Set(i, t)
    BY <2>1 DEF Set
  <2>3. via \in Proxy \cup {Host, None} /\ task[i].client \in Client
    BY <1>0, MayUseType DEF TaskRecord, Keys
  <2>4. CASE t = [Ends(task[i]) EXCEPT !.via = via]
    <3>1. t \in TaskRecord /\ t.pc = "done"
      BY <1>0, <2>3, <2>4 DEF TaskRecord, Ends
    <3>2. Good(i, t)
      BY <3>1 DEF Good
    <3>3. QED
      BY <1>3, <2>2, <3>2, SetIInv DEF Plain, DohDo
  <2>5. CASE t \in Answered(task[i], Query(i), via)
    <3>1. PICK n \in Size : t = [task[i] EXCEPT !.pc = "reply", !.via = via, !.asked = i, !.size = n]
      BY <2>5 DEF Answered, Query
    <3>2. t \in TaskRecord /\ t.pc = "reply" /\ t.asked = i /\ t.via = via /\ t.size \in Size
          /\ t.client = task[i].client /\ t.reply = task[i].reply
      BY <1>0, <2>3, <3>1 DEF TaskRecord
    <3>3. task[i].reply = "none" /\ ~Refuses(task[i].client)
      BY <1>0, <1>3 DEF Good, Plain, DohDo
    <3>4. Good(i, t)
      BY <3>2, <3>3 DEF Good
    <3>5. QED
      BY <1>3, <2>2, <3>4, SetIInv DEF Plain, DohDo
  <2>6. QED
    BY <2>2, <2>4, <2>5
<1>4. CASE Respond(i)
  <2> DEFINE full == [task[i] EXCEPT !.pc = "done", !.reply = "full"]
             cut == [task[i] EXCEPT !.pc = "done", !.reply = "truncated", !.size = 0]
  <2>0. PICK t \in {full, cut, Ends(task[i])} : Set(i, t)
    BY <1>4 DEF Respond
  <2>1. Set(i, t) /\ t \in TaskRecord /\ t.pc = "done"
    <3>1. full \in TaskRecord /\ full.pc = "done"
      BY <1>0 DEF TaskRecord
    <3>2. cut \in TaskRecord /\ cut.pc = "done"
      BY <1>0 DEF TaskRecord
    <3>3. Ends(task[i]) \in TaskRecord /\ Ends(task[i]).pc = "done"
      BY <1>0 DEF TaskRecord, Ends
    <3> HIDE DEF full, cut
    <3>4. QED
      BY <2>0, <3>1, <3>2, <3>3
  <2>2. Good(i, t)
    BY <2>1 DEF Good
  <2>3. QED
    BY <1>4, <2>1, <2>2, SetIInv DEF Respond
<1>5. CASE DohLoad(i)
  <2> DEFINE r == DohRoute(task[i].client)
  <2>1. task[i].client \in Client /\ r \in Proxy \cup {None} /\ Key(r) \in Keys /\ task[i].pc = "load"
    BY <1>0, <1>5, RouteType DEF TaskRecord, DohLoad
  <2>2. CASE Set(i, Ends(task[i])) /\ UNCHANGED http
    <3>1. Good(i, Ends(task[i]))
      BY ZenonT(30), <1>0 DEF Ends, TaskRecord, Good
    <3>2. QED
      BY <1>5, <2>1, <2>2, <3>1, SetIInv DEF DohLoad
  <2>3. CASE cached[Key(r)] # 0 /\ UNCHANGED http
             /\ Set(i, [task[i] EXCEPT !.pc = "do", !.http = cached[Key(r)]])
    <3> DEFINE t == [task[i] EXCEPT !.pc = "do", !.http = cached[Key(r)]]
    <3>1. cached[Key(r)] \in DOMAIN http /\ cached[Key(r)] \in Nat /\ http[cached[Key(r)]].route = r
      <4>1. cached[Key(r)] \in DOMAIN http /\ Key(http[cached[Key(r)]].route) = Key(r)
        BY <2>1, <2>3 DEF IInv, Cache
      <4>2. http[cached[Key(r)]].route \in Proxy \cup {None}
        BY <4>1, HttpType
      <4>3. QED
        BY <2>1, <4>1, <4>2, KeyIsInjective DEF IInv
    <3>2. /\ t \in TaskRecord /\ t.pc = "do" /\ t.http = cached[Key(r)] /\ t.client = task[i].client
          /\ t.via = task[i].via /\ t.asked = task[i].asked /\ t.size = task[i].size /\ t.reply = task[i].reply
      BY <1>0, <3>1 DEF TaskRecord
    <3>3. Set(i, t)
      BY <2>3
    <3> HIDE DEF t
    <3>4. Good(i, t)
      BY <1>0, <2>1, <3>1, <3>2 DEF Good
    <3>5. QED
      BY <1>5, <2>1, <2>3, <3>3, <3>4, SetIInv DEF DohLoad
  <2>4. CASE /\ http' = Append(http, [route |-> r, idle |-> TRUE])
             /\ Set(i, [task[i] EXCEPT !.pc = "store", !.http = Len(http) + 1])
    <3> DEFINE t == [task[i] EXCEPT !.pc = "store", !.http = Len(http) + 1]
               h == [route |-> r, idle |-> TRUE]
    <3>1. h \in HttpClient /\ h.route = r
      BY <2>1 DEF HttpClient
    <3>2. /\ t \in TaskRecord /\ t.pc = "store" /\ t.http = Len(http) + 1 /\ t.client = task[i].client
          /\ t.via = task[i].via /\ t.asked = task[i].asked /\ t.size = task[i].size /\ t.reply = task[i].reply
      <4>1. Len(http) + 1 \in Nat
        BY HttpType
      <4>2. QED
        BY <1>0, <4>1 DEF TaskRecord
    <3>3. task' = [task EXCEPT ![i] = t] /\ http' = Append(http, h)
      BY <2>4 DEF Set
    <3> HIDE DEF t, h
    <3>4. /\ http' \in Seq(HttpClient) /\ DOMAIN http' = 1..(Len(http) + 1) /\ DOMAIN http = 1..Len(http)
          /\ Len(http) \in Nat /\ http'[Len(http) + 1] = h
          /\ \A k \in DOMAIN http : k \in DOMAIN http' /\ http'[k] = http[k]
      BY <3>1, <3>3 DEF IInv
    <3>5. /\ task' \in Seq(TaskRecord) /\ DOMAIN task' = DOMAIN task
          /\ \A j \in DOMAIN task : task'[j] = IF j = i THEN t ELSE task[j]
      BY <3>2, <3>3 DEF IInv, Tasks
    <3>6. UNCHANGED <<Flags, cached>>
      BY <1>5 DEF DohLoad
    <3>7. ASSUME NEW j \in Tasks' PROVE Good(j, task[j])'
      <4>1. CASE j = i
        BY <1>0, <2>1, <3>1, <3>2, <3>4, <3>5, <3>6, <4>1
           DEF Flags, Good, Refuses, DohRoute, MayUse, Lookup, Tasks
      <4>2. CASE j # i
        <5>1. Good(j, task'[j])
          BY <3>5, <4>2 DEF IInv, Tasks
        <5>2. QED
          BY <3>4, <3>6, <5>1 DEF Flags, Good, Refuses, DohRoute, MayUse, Lookup
      <4>3. QED
        BY <4>1, <4>2
    <3>8. Cache'
      BY <3>4, <3>6 DEF IInv, Cache, Key
    <3>9. Idle'
      <4>1. ASSUME NEW k \in DOMAIN http, http[k].idle
            PROVE  \/ cached[Key(http[k].route)] = k
                   \/ \E j \in Tasks : task'[j].pc = "store" /\ task'[j].http = k
        <5>1. CASE \E j \in Tasks : task[j].pc = "store" /\ task[j].http = k
          BY <2>1, <3>5, <5>1 DEF Tasks
        <5>2. QED
          BY <4>1, <5>1 DEF IInv, Idle
      <4>2. task'[i].pc = "store" /\ task'[i].http = Len(http) + 1 /\ Tasks' = Tasks
        BY <3>2, <3>5 DEF Tasks
      <4>3. \A k \in DOMAIN http' : k \in DOMAIN http \/ k = Len(http) + 1
        BY <3>4
      <4>4. QED
        BY <3>4, <3>6, <4>1, <4>2, <4>3 DEF Idle, Key
    <3>10. QED
      BY <3>4, <3>5, <3>6, <3>7, <3>8, <3>9 DEF IInv, Flags
  <2>5. QED
    BY <1>5, <2>2, <2>3, <2>4 DEF DohLoad
<1>6. CASE DohStore(i)
  <2> DEFINE r == DohRoute(task[i].client)
             mine == task[i].http
             first == IF cached[Key(r)] = 0 THEN mine ELSE cached[Key(r)]
             t == [task[i] EXCEPT !.pc = "do", !.http = first]
  <2>1. /\ task[i].client \in Client /\ r \in Proxy \cup {None} /\ Key(r) \in Keys
        /\ task[i].pc = "store" /\ mine \in DOMAIN http /\ http[mine].route = r
    BY <1>0, <1>6, RouteType DEF TaskRecord, DohStore, Good
  <2>2. first \in DOMAIN http /\ http[first].route = r
    <3>1. CASE cached[Key(r)] = 0
      BY <2>1, <3>1
    <3>2. CASE cached[Key(r)] # 0
      <4>1. cached[Key(r)] \in DOMAIN http /\ Key(http[cached[Key(r)]].route) = Key(r)
        BY <2>1, <3>2 DEF IInv, Cache
      <4>2. http[cached[Key(r)]].route \in Proxy \cup {None}
        BY <4>1, HttpType
      <4>3. QED
        BY <2>1, <3>2, <4>1, <4>2, KeyIsInjective
    <3>3. QED
      BY <3>1, <3>2
  <2>3. DOMAIN http = 1..Len(http) /\ Len(http) \in Nat /\ first \in Nat \ {0}
    BY <2>2 DEF IInv
  <2>4. /\ t \in TaskRecord /\ t.pc = "do" /\ t.http = first /\ t.client = task[i].client
        /\ t.via = task[i].via /\ t.asked = task[i].asked /\ t.size = task[i].size /\ t.reply = task[i].reply
    BY <1>0, <2>3 DEF TaskRecord
  <2>5. /\ task' = [task EXCEPT ![i] = t]
        /\ cached' = [cached EXCEPT ![Key(r)] = first]
        /\ http' = [http EXCEPT ![mine].idle = (first = mine)]
        /\ UNCHANGED Flags
    BY <1>6 DEF DohStore, Set
  <2>6. first = cached[Key(r)] \/ (cached[Key(r)] = 0 /\ first = mine)
    OBVIOUS
  <2> HIDE DEF t, first, mine, r
  <2>7. /\ http' \in Seq(HttpClient) /\ DOMAIN http' = DOMAIN http
        /\ \A k \in DOMAIN http : http'[k].route = http[k].route
        /\ \A k \in DOMAIN http : k # mine => http'[k] = http[k]
        /\ http'[mine].idle = (first = mine)
    <3>1. DOMAIN http = 1..Len(http) /\ http \in Seq(HttpClient) /\ http[mine] \in HttpClient
      BY <2>1, HttpType DEF IInv
    <3> DEFINE h == [http[mine] EXCEPT !.idle = (first = mine)]
    <3>2. h \in HttpClient /\ h.route = http[mine].route /\ h.idle = (first = mine)
      BY <3>1 DEF HttpClient
    <3>3. http' = [http EXCEPT ![mine] = h]
      BY <2>5
    <3> HIDE DEF h
    <3>4. QED
      BY <2>1, <3>1, <3>2, <3>3
  <2>8. /\ task' \in Seq(TaskRecord) /\ DOMAIN task' = DOMAIN task
        /\ \A j \in DOMAIN task : task'[j] = IF j = i THEN t ELSE task[j]
    BY <2>4, <2>5 DEF IInv, Tasks
  <2>9. /\ cached' \in [Keys -> Nat] /\ cached'[Key(r)] = first
        /\ \A k \in Keys : cached[k] # 0 => cached'[k] = cached[k]
        /\ \A k \in Keys : k # Key(r) => cached'[k] = cached[k]
    BY <2>1, <2>3, <2>5, <2>6 DEF IInv
  <2>10. ASSUME NEW j \in Tasks' PROVE Good(j, task[j])'
    <3>1. CASE j = i
      BY <1>0, <2>1, <2>2, <2>4, <2>5, <2>7, <2>8, <2>9, <3>1
         DEF r, Flags, Good, Refuses, DohRoute, MayUse, Lookup, Key, Tasks
    <3>2. CASE j # i
      <4>1. Good(j, task'[j]) /\ task'[j].client \in Client
        BY SMTT(30), <2>8, <3>2 DEF IInv, Tasks, Good, TaskRecord
      <4>2. task'[j].pc = "do" => cached'[Key(DohRoute(task'[j].client))] = task'[j].http
        BY <2>3, <2>9, <4>1, RouteType DEF Good
      <4>3. QED
        BY <2>5, <2>7, <4>1, <4>2 DEF Flags, Good, Refuses, DohRoute, MayUse, Lookup, Key
    <3>3. QED
      BY <3>1, <3>2
  <2>11. Cache'
    <3>1. ASSUME NEW k \in Keys, cached'[k] # 0
          PROVE  cached'[k] \in DOMAIN http /\ Key(http[cached'[k]].route) = k
      <4>1. CASE k = Key(r)
        BY <2>2, <2>9, <4>1
      <4>2. CASE k # Key(r)
        BY <2>9, <3>1, <4>2 DEF IInv, Cache
      <4>3. QED
        BY <4>1, <4>2
    <3>2. \A k \in Keys : cached'[k] # 0 => cached'[k] \in DOMAIN http' /\ http'[cached'[k]].route = http[cached'[k]].route
      BY <2>7, <3>1
    <3>3. QED
      BY <3>1, <3>2 DEF Cache, Key
  <2>12. Idle'
    <3>1. ASSUME NEW k \in DOMAIN http, http'[k].idle, k # mine
          PROVE  \/ cached'[Key(http[k].route)] = k
                 \/ \E j \in Tasks : task'[j].pc = "store" /\ task'[j].http = k
      <4>1. http[k].idle /\ k \in Nat \ {0} /\ Key(http[k].route) \in Keys
        <5>1. http[k].route \in Proxy \cup {None} /\ k \in Nat \ {0}
          BY <2>3, HttpType
        <5>2. QED
          BY <2>7, <3>1, <5>1 DEF Key, Keys
      <4>2. CASE cached[Key(http[k].route)] = k
        BY <2>9, <4>1, <4>2
      <4>3. CASE \E j \in Tasks : task[j].pc = "store" /\ task[j].http = k
        BY <2>8, <3>1, <4>3 DEF Tasks, mine
      <4>4. QED
        BY <3>1, <4>1, <4>2, <4>3 DEF IInv, Idle
    <3>2. http'[mine].idle => cached'[Key(http[mine].route)] = mine
      BY <2>1, <2>7, <2>9
    <3>3. QED
      BY <2>7, <2>8, <3>1, <3>2 DEF Idle, Tasks, Key
  <2>13. QED
    BY <2>5, <2>7, <2>8, <2>9, <2>10, <2>11, <2>12 DEF IInv, Flags
<1>7. QED
  BY <1>1, <1>2, <1>3, <1>4, <1>5, <1>6 DEF Handle

LEMMA NextIInv == IInv /\ [Next]_vars => IInv'
<1> SUFFICES ASSUME IInv, [Next]_vars PROVE IInv'
  OBVIOUS
<1>1. CASE Receive \/ \E i \in Tasks : Handle(i)
  BY <1>1, ReceiveIInv, HandleIInv
<1>2. CASE ListenerStops \/ UNCHANGED vars
  <2>1. UNCHANGED <<mode, unmapped, task, http, cached>> /\ up' \in BOOLEAN
    BY <1>2 DEF ListenerStops, vars, IInv
  <2>2. \A j \in Tasks : Good(j, task[j])'
    BY ZenonT(30), <2>1 DEF IInv, Good, Refuses, DohRoute, MayUse, Lookup, Key
  <2>3. QED
    BY <2>1, <2>2 DEF IInv, Cache, Idle, Tasks, Key
<1>3. QED
  BY <1>1, <1>2 DEF Next

-----------------------------------------------------------------------------
\* What is known of each query and of the cache holds at every step (doh.go:31-57).
THEOREM Inductive == Spec => []IInv
BY InitIInv, NextIInv, PTL DEF Spec

\* For any routes file and any number of queries at once: goroutines that miss
\* the cache together go on with one HTTP client for each route (doh.go:55-57).
THEOREM OneClient == Spec => []OneClientPerRoute
<1>1. IInv => OneClientPerRoute
  BY DEF IInv, Good, Idle, OneClientPerRoute
<1>2. QED
  BY <1>1, Inductive, PTL

-----------------------------------------------------------------------------
(***************************************************************************)
(* The refinement.                                                         *)
(***************************************************************************)
policyBar == [c \in Client |-> MayUse(c)]
Seen(t) == [client |-> t.client, proto |-> t.proto, limit |-> t.limit,
            state |-> Fate(t), via |-> t.via, about |-> t.asked, size |-> t.size]
queryBar == [i \in Tasks |-> Seen(task[i])]

\* The service's queries and policy are those read from the forwarder's state.
LEMMA Reading ==
  ASSUME IInv
  PROVE  /\ DOMAIN queryBar = Tasks
         /\ \A i \in Tasks : queryBar[i] = Seen(task[i])
         /\ \A c \in Client : policyBar[c] = MayUse(c)
BY DEF queryBar, policyBar

\* A query as the service reads it, and what a change of some fields makes of it.
Row(c, p, l, st, v, a, n) ==
  [client |-> c, proto |-> p, limit |-> l, state |-> st, via |-> v, about |-> a, size |-> n]

LEMMA Nested ==
  ASSUME NEW q, NEW x, NEW y, NEW z
  PROVE  /\ [q EXCEPT !.state = x, !.via = y] = [[q EXCEPT !.state = x] EXCEPT !.via = y]
         /\ [q EXCEPT !.state = x, !.about = y] = [[q EXCEPT !.state = x] EXCEPT !.about = y]
         /\ [q EXCEPT !.state = x, !.size = y] = [[q EXCEPT !.state = x] EXCEPT !.size = y]
         /\ [q EXCEPT !.via = x, !.about = y, !.size = z]
              = [[[q EXCEPT !.via = x] EXCEPT !.about = y] EXCEPT !.size = z]
<1>1. [q EXCEPT !.state = x, !.via = y] = [[q EXCEPT !.state = x] EXCEPT !.via = y]
  OBVIOUS
<1>2. [q EXCEPT !.state = x, !.about = y] = [[q EXCEPT !.state = x] EXCEPT !.about = y]
  OBVIOUS
<1>3. [q EXCEPT !.state = x, !.size = y] = [[q EXCEPT !.state = x] EXCEPT !.size = y]
  OBVIOUS
<1>4. [q EXCEPT !.via = x, !.about = y, !.size = z]
        = [[[q EXCEPT !.via = x] EXCEPT !.about = y] EXCEPT !.size = z]
  OBVIOUS
<1>5. QED
  BY <1>1, <1>2, <1>3, <1>4, Zenon

\* How a query is seen after a change of its record.
LEMMA SeenAfter ==
  ASSUME NEW u, NEW t, t.client = u.client, t.proto = u.proto, t.limit = u.limit
  PROVE  /\ Fate(t) = "lost" /\ t.asked = u.asked /\ t.size = u.size
              => Seen(t) = [Seen(u) EXCEPT !.state = "lost", !.via = t.via]
         /\ Fate(t) = "refused" /\ t.via = u.via /\ t.size = u.size
              => Seen(t) = [Seen(u) EXCEPT !.state = "refused", !.about = t.asked]
         /\ Fate(t) = Fate(u)
              => Seen(t) = [Seen(u) EXCEPT !.via = t.via, !.about = t.asked, !.size = t.size]
         /\ Fate(t) = "truncated" /\ t.via = u.via /\ t.asked = u.asked /\ t.size = 0
              => Seen(t) = [Seen(u) EXCEPT !.state = "truncated", !.size = 0]
<1> DEFINE After(st, v, a, n) == Row(u.client, u.proto, u.limit, st, v, a, n)
<1>1. Seen(u) = After(Fate(u), u.via, u.asked, u.size) /\ Seen(t) = After(Fate(t), t.via, t.asked, t.size)
  BY Zenon DEF Seen, Row
<1>2. ASSUME Fate(t) = "lost", t.asked = u.asked, t.size = u.size
      PROVE  Seen(t) = [Seen(u) EXCEPT !.state = "lost", !.via = t.via]
  <2>1. [Seen(u) EXCEPT !.state = "lost"] = After("lost", u.via, u.asked, u.size)
    BY <1>1 DEF Row
  <2>2. [After("lost", u.via, u.asked, u.size) EXCEPT !.via = t.via] = After("lost", t.via, u.asked, u.size)
    BY DEF Row
  <2>3. QED
    BY <1>1, <1>2, <2>1, <2>2, Nested, Zenon
<1>3. ASSUME Fate(t) = "refused", t.via = u.via, t.size = u.size
      PROVE  Seen(t) = [Seen(u) EXCEPT !.state = "refused", !.about = t.asked]
  <2>1. [Seen(u) EXCEPT !.state = "refused"] = After("refused", u.via, u.asked, u.size)
    BY <1>1 DEF Row
  <2>2. [After("refused", u.via, u.asked, u.size) EXCEPT !.about = t.asked]
          = After("refused", u.via, t.asked, u.size)
    BY DEF Row
  <2>3. QED
    BY <1>1, <1>3, <2>1, <2>2, Nested, Zenon
<1>4. ASSUME Fate(t) = Fate(u)
      PROVE  Seen(t) = [Seen(u) EXCEPT !.via = t.via, !.about = t.asked, !.size = t.size]
  <2>1. [Seen(u) EXCEPT !.via = t.via] = After(Fate(u), t.via, u.asked, u.size)
    BY <1>1 DEF Row
  <2>2. [After(Fate(u), t.via, u.asked, u.size) EXCEPT !.about = t.asked]
          = After(Fate(u), t.via, t.asked, u.size)
    BY DEF Row
  <2>3. [After(Fate(u), t.via, t.asked, u.size) EXCEPT !.size = t.size]
          = After(Fate(u), t.via, t.asked, t.size)
    BY DEF Row
  <2>4. QED
    BY <1>1, <1>4, <2>1, <2>2, <2>3, Nested, Zenon
<1>5. ASSUME Fate(t) = "truncated", t.via = u.via, t.asked = u.asked, t.size = 0
      PROVE  Seen(t) = [Seen(u) EXCEPT !.state = "truncated", !.size = 0]
  <2>1. [Seen(u) EXCEPT !.state = "truncated"] = After("truncated", u.via, u.asked, u.size)
    BY <1>1 DEF Row
  <2>2. [After("truncated", u.via, u.asked, u.size) EXCEPT !.size = 0]
          = After("truncated", u.via, u.asked, 0)
    BY DEF Row
  <2>3. QED
    BY <1>1, <1>5, <2>1, <2>2, Nested, Zenon
<1>6. QED
  BY <1>2, <1>3, <1>4, <1>5

LEMMA PolicyStays == UNCHANGED Flags => UNCHANGED policyBar
BY DEF Flags, policyBar, MayUse, Lookup

\* A goroutine's step changes its own query only.
LEMMA SetQuery ==
  ASSUME IInv, NEW i \in Tasks, NEW t, Set(i, t)
  PROVE  queryBar' = [queryBar EXCEPT ![i] = Seen(t)]
<1>1. DOMAIN task' = DOMAIN task /\ \A j \in DOMAIN task : task'[j] = IF j = i THEN t ELSE task[j]
  BY DEF Set, Tasks, IInv
<1>2. queryBar' = [j \in Tasks |-> Seen(task'[j])]
  BY <1>1 DEF queryBar, Tasks, Seen, Fate
<1>3. \A j \in Tasks : Seen(task'[j]) = IF j = i THEN Seen(t) ELSE queryBar[j]
  BY <1>1 DEF queryBar, Tasks
<1>4. QED
  BY <1>2, <1>3 DEF queryBar

\* What it takes to be a step of the service, over the queries as they are read.
LEMMA ServiceSteps ==
  ASSUME up, UNCHANGED <<up, policyBar>>, NEW i \in DOMAIN queryBar, queryBar[i].state = "open",
         NEW q, queryBar' = [queryBar EXCEPT ![i] = q]
  PROVE  /\ \A v \in policyBar[queryBar[i].client], n \in Size :
              queryBar[i].via = None /\ q = [queryBar[i] EXCEPT !.via = v, !.about = i, !.size = n]
                => Service!Resolve(i)
         /\ queryBar[i].via # None /\ Service!Fits(queryBar[i]) /\ q = [queryBar[i] EXCEPT !.state = "answered"]
                => Service!Answer(i)
         /\ queryBar[i].via # None /\ queryBar[i].proto = "udp"
            /\ q = [queryBar[i] EXCEPT !.state = "truncated", !.size = 0]
                => Service!Truncate(i)
         /\ policyBar[queryBar[i].client] = {} /\ q = [queryBar[i] EXCEPT !.state = "refused", !.about = i]
                => Service!Refuse(i)
         /\ \A v \in policyBar[queryBar[i].client] \cup {queryBar[i].via} :
              q = [queryBar[i] EXCEPT !.state = "lost", !.via = v]
                => Service!Lose(i)
<1>1. Service!Open(i) /\ Service!Becomes(i, q)
  BY DEF queryBar, policyBar, Seen, Service!Open, Service!Becomes
<1>2. Service!Resolve(i) <=>
        /\ Service!Open(i) /\ queryBar[i].via = None
        /\ \E v \in policyBar[queryBar[i].client], n \in Size :
             Service!Becomes(i, [queryBar[i] EXCEPT !.via = v, !.about = i, !.size = n])
  BY Zenon DEF queryBar, policyBar, Seen, Service!Resolve
<1>3. Service!Answer(i) <=>
        /\ Service!Open(i) /\ queryBar[i].via # None /\ Service!Fits(queryBar[i])
        /\ Service!Becomes(i, [queryBar[i] EXCEPT !.state = "answered"])
  BY Zenon DEF queryBar, Seen, Service!Answer
<1>4. Service!Truncate(i) <=>
        /\ Service!Open(i) /\ queryBar[i].via # None /\ queryBar[i].proto = "udp"
        /\ Service!Becomes(i, [queryBar[i] EXCEPT !.state = "truncated", !.size = 0])
  BY Zenon DEF queryBar, Seen, Service!Truncate
<1>5. Service!Refuse(i) <=>
        /\ Service!Open(i) /\ policyBar[queryBar[i].client] = {}
        /\ Service!Becomes(i, [queryBar[i] EXCEPT !.state = "refused", !.about = i])
  BY Zenon DEF queryBar, policyBar, Seen, Service!Refuse
<1>6. Service!Lose(i) <=>
        /\ Service!Open(i)
        /\ \E v \in policyBar[queryBar[i].client] \cup {queryBar[i].via} :
             Service!Becomes(i, [queryBar[i] EXCEPT !.state = "lost", !.via = v])
  BY Zenon DEF queryBar, policyBar, Seen, Service!Lose
<1>7. ASSUME NEW v \in policyBar[queryBar[i].client], NEW n \in Size,
             queryBar[i].via = None, q = [queryBar[i] EXCEPT !.via = v, !.about = i, !.size = n]
      PROVE  Service!Resolve(i)
  <2>1. Service!Becomes(i, [queryBar[i] EXCEPT !.via = v, !.about = i, !.size = n])
    <3>1. queryBar' = [queryBar EXCEPT ![i] = [queryBar[i] EXCEPT !.via = v, !.about = i, !.size = n]]
      BY <1>7, Zenon
    <3>2. QED
      BY <3>1, Zenon DEF queryBar, policyBar, Seen, Service!Becomes
  <2>2. QED
    BY <1>1, <1>2, <1>7, <2>1, Zenon
<1>8. ASSUME NEW v \in policyBar[queryBar[i].client] \cup {queryBar[i].via},
             q = [queryBar[i] EXCEPT !.state = "lost", !.via = v]
      PROVE  Service!Lose(i)
  <2>1. Service!Becomes(i, [queryBar[i] EXCEPT !.state = "lost", !.via = v])
    <3>1. queryBar' = [queryBar EXCEPT ![i] = [queryBar[i] EXCEPT !.state = "lost", !.via = v]]
      BY <1>8, Zenon
    <3>2. QED
      BY <3>1, Zenon DEF queryBar, policyBar, Seen, Service!Becomes
  <2>2. QED
    BY <1>1, <1>6, <1>8, <2>1, Zenon
<1>9. QED
  <2>1. q = [queryBar[i] EXCEPT !.state = "answered"] => Service!Becomes(i, [queryBar[i] EXCEPT !.state = "answered"])
    BY Zenon DEF queryBar, policyBar, Seen, Service!Becomes
  <2>2. q = [queryBar[i] EXCEPT !.state = "truncated", !.size = 0]
          => Service!Becomes(i, [queryBar[i] EXCEPT !.state = "truncated", !.size = 0])
    BY Zenon DEF queryBar, policyBar, Seen, Service!Becomes
  <2>3. q = [queryBar[i] EXCEPT !.state = "refused", !.about = i]
          => Service!Becomes(i, [queryBar[i] EXCEPT !.state = "refused", !.about = i])
    BY Zenon DEF queryBar, policyBar, Seen, Service!Becomes
  <2>4. QED
    BY <1>1, <1>3, <1>4, <1>5, <1>7, <1>8, <2>1, <2>2, <2>3, Zenon

LEMMA Stutters == UNCHANGED <<up, policyBar, queryBar>> => UNCHANGED Service!vars
BY Zenon DEF queryBar, policyBar, Seen, Service!vars

\* A query that ends, or is answered, does so for the service too.
LEMMA HandleMaps ==
  ASSUME IInv, NEW i \in Tasks, Handle(i)
  PROVE  [Service!Next]_(Service!vars)
<1> USE RoutesAssumption, SizesAssumption
<1>1. up /\ UNCHANGED <<up, policyBar>>
  <2>1. up /\ UNCHANGED Flags
    BY DEF Handle, Refuse, Choose, Plain, DohLoad, DohStore, DohDo, Respond
  <2>2. QED
    BY <2>1, PolicyStays DEF Flags
<1>2. /\ Good(i, task[i]) /\ task[i] \in TaskRecord /\ task[i].client \in Client
      /\ i \in DOMAIN queryBar /\ queryBar[i] = Seen(task[i])
      /\ policyBar[task[i].client] = MayUse(task[i].client)
  BY Reading DEF IInv, Good, TaskRecord
<1>3. task[i].pc # "done" /\ queryBar[i].state = "open"
  <2>1. task[i].pc # "done"
    BY DEF Handle, Refuse, Choose, Plain, DohLoad, DohStore, DohDo, Respond
  <2>2. QED
    BY <1>2, <2>1 DEF Seen, Fate
<1>4. Service!Resolve(i) \/ Service!Answer(i) \/ Service!Truncate(i) \/ Service!Refuse(i) \/ Service!Lose(i)
        => [Service!Next]_(Service!vars)
  <2>1. DOMAIN queryBar = DOMAIN [j \in Tasks |->
          [client |-> task[j].client, proto |-> task[j].proto, limit |-> task[j].limit,
           state |-> Fate(task[j]), via |-> task[j].via, about |-> task[j].asked, size |-> task[j].size]]
    BY DEF queryBar
  <2>2. QED
    BY <1>2, <2>1, Zenon DEF Service!Next, Service!End
\* Ends(t) with another via is a loss, if the client may use that resolver.
<1>5. ASSUME NEW v \in MayUse(task[i].client) \cup {task[i].via},
             Set(i, [Ends(task[i]) EXCEPT !.via = v]), task[i].reply = "none"
      PROVE  Service!Lose(i)
  <2> DEFINE t == [Ends(task[i]) EXCEPT !.via = v]
  <2>1. queryBar' = [queryBar EXCEPT ![i] = Seen(t)]
    BY <1>5, SetQuery, Zenon
  <2>2. v \in policyBar[queryBar[i].client] \cup {queryBar[i].via}
    BY <1>2 DEF Seen
  <2>3. Seen(t) = [queryBar[i] EXCEPT !.state = "lost", !.via = v]
    <3>1. Seen(t) = [Seen(task[i]) EXCEPT !.state = "lost", !.via = v]
      <4>1. /\ t.pc = "done" /\ t.reply = "none" /\ t.via = v /\ t.asked = task[i].asked /\ t.size = task[i].size
            /\ t.client = task[i].client /\ t.proto = task[i].proto /\ t.limit = task[i].limit
        BY <1>2, <1>5 DEF Ends, TaskRecord
      <4> HIDE DEF t
      <4>2. QED
        <5>1. Fate(t) = "lost"
          BY <4>1 DEF Fate
        <5>2. Seen(t) = [Seen(task[i]) EXCEPT !.state = "lost", !.via = t.via]
          BY <4>1, <5>1, SeenAfter, Zenon
        <5>3. QED
          BY <4>1, <5>2, Zenon
    <3>2. QED
      BY <1>2, <3>1, Zenon
  <2>4. QED
    BY <1>1, <1>2, <1>3, <2>1, <2>2, <2>3, ServiceSteps, Zenon
<1>6. ASSUME Set(i, Ends(task[i])), task[i].reply = "none"
      PROVE  Service!Lose(i)
  <2>1. Ends(task[i]) = [Ends(task[i]) EXCEPT !.via = task[i].via]
    BY <1>2 DEF Ends, TaskRecord
  <2>2. QED
    BY <1>5, <1>6, <2>1
\* Steps of the goroutine that its client cannot see.
<1>7. ASSUME NEW t, Set(i, t), Seen(t) = Seen(task[i])
      PROVE  [Service!Next]_(Service!vars)
  <2>1. queryBar' = [queryBar EXCEPT ![i] = queryBar[i]]
    BY <1>2, <1>7, SetQuery
  <2>2. queryBar' = queryBar
    BY <2>1 DEF queryBar
  <2>3. QED
    BY <1>1, <2>2, Stutters
<1>8. CASE Refuse(i)
  <2>1. MayUse(task[i].client) = {} /\ task[i].reply = "none" /\ task[i].pc = "lookup"
    BY <1>2, <1>8 DEF Refuse, Refuses, MayUse, Good
  <2>2. CASE Set(i, Ends(task[i]))
    BY <1>4, <1>6, <2>1, <2>2
  <2>3. CASE Set(i, [task[i] EXCEPT !.pc = "done", !.asked = Query(i), !.reply = "refused"])
    <3> DEFINE t == [task[i] EXCEPT !.pc = "done", !.asked = Query(i), !.reply = "refused"]
    <3>1. queryBar' = [queryBar EXCEPT ![i] = Seen(t)]
      BY <2>3, SetQuery, Zenon
    <3>2. Seen(t) = [queryBar[i] EXCEPT !.state = "refused", !.about = i]
      <4>1. Seen(t) = [Seen(task[i]) EXCEPT !.state = "refused", !.about = i]
        <5>1. /\ t.pc = "done" /\ t.reply = "refused" /\ t.via = task[i].via /\ t.asked = i /\ t.size = task[i].size
              /\ t.client = task[i].client /\ t.proto = task[i].proto /\ t.limit = task[i].limit
          BY <1>2 DEF Query, TaskRecord
        <5> HIDE DEF t
        <5>2. QED
          <6>1. Fate(t) = "refused"
            BY <5>1 DEF Fate
          <6>2. Seen(t) = [Seen(task[i]) EXCEPT !.state = "refused", !.about = t.asked]
            BY <5>1, <6>1, SeenAfter, ZenonT(30)
          <6>3. QED
            BY <5>1, <6>2, Zenon
      <4>2. QED
        BY <1>2, <4>1, Zenon
    <3>3. policyBar[queryBar[i].client] = {}
      BY <1>2, <2>1 DEF Seen
    <3>4. QED
      BY <1>1, <1>2, <1>3, <1>4, <3>1, <3>2, <3>3, ServiceSteps, Zenon
  <2>4. QED
    BY <1>8, <2>2, <2>3 DEF Refuse
<1>9. CASE Choose(i)
  <2> DEFINE t == [task[i] EXCEPT !.pc = IF mode \in Doh THEN "load" ELSE "dial"]
  <2>1. Set(i, t)
    BY <1>9 DEF Choose
  <2>2. Seen(t) = Seen(task[i])
    BY <1>2, <1>3 DEF Seen, Fate, TaskRecord
  <2>3. QED
    BY <1>7, <2>1, <2>2, Zenon
<1>10. CASE Plain(i) \/ DohDo(i)
  <2>1. PICK via \in MayUse(task[i].client) :
          task' \in {[task EXCEPT ![i] = t] :
                       t \in Answered(task[i], Query(i), via) \cup {[Ends(task[i]) EXCEPT !.via = via]}}
    <3>1. CASE Plain(i)
      BY <1>2, <3>1, ModesAssumption DEF Plain, MayUse, Good, Refuses, Doh, IInv
    <3>2. CASE DohDo(i)
      BY <1>2, <3>2, ModesAssumption DEF DohDo, MayUse, Good, Refuses, Doh, DohRoute, IInv
    <3>3. QED
      BY <1>10, <3>1, <3>2
  <2>2. PICK t \in Answered(task[i], Query(i), via) \cup {[Ends(task[i]) EXCEPT !.via = via]} : Set(i, t)
    BY <2>1 DEF Set
  <2>3. task[i].reply = "none" /\ task[i].via = None
    BY <1>2, <1>10 DEF Good, Plain, DohDo
  <2>4. CASE t = [Ends(task[i]) EXCEPT !.via = via]
    BY <1>4, <1>5, <2>2, <2>3, <2>4
  <2>5. CASE t \in Answered(task[i], Query(i), via)
    <3>1. PICK n \in Size : t = [task[i] EXCEPT !.pc = "reply", !.via = via, !.asked = i, !.size = n]
      BY <2>5 DEF Answered, Query
    <3>2. queryBar' = [queryBar EXCEPT ![i] = Seen(t)]
      BY <2>2, SetQuery
    <3>3. Seen(t) = [queryBar[i] EXCEPT !.via = via, !.about = i, !.size = n]
      <4>1. Seen(t) = [Seen(task[i]) EXCEPT !.via = via, !.about = i, !.size = n]
        <5>1. /\ t.pc = "reply" /\ t.via = via /\ t.asked = i /\ t.size = n
              /\ t.client = task[i].client /\ t.proto = task[i].proto /\ t.limit = task[i].limit
          BY <1>2, <3>1 DEF TaskRecord
        <5>2. Fate(t) = Fate(task[i])
          BY <1>2, <1>3, <5>1 DEF Fate, Seen
        <5>3. QED
          <6>1. Seen(t) = [Seen(task[i]) EXCEPT !.via = t.via, !.about = t.asked, !.size = t.size]
            BY <5>1, <5>2, SeenAfter, ZenonT(30)
          <6>2. QED
            BY <5>1, <6>1, Zenon
      <4>2. QED
        BY <1>2, <4>1, Zenon
    <3>4. queryBar[i].via = None /\ via \in policyBar[queryBar[i].client]
      BY <1>2, <2>3 DEF Seen
    <3>5. QED
      BY <1>1, <1>2, <1>3, <1>4, <3>2, <3>3, <3>4, ServiceSteps, Zenon
  <2>6. QED
    BY <2>2, <2>4, <2>5
<1>11. CASE Respond(i)
  <2> DEFINE full == [task[i] EXCEPT !.pc = "done", !.reply = "full"]
             cut == [task[i] EXCEPT !.pc = "done", !.reply = "truncated", !.size = 0]
  <2>1. /\ task[i].pc = "reply" /\ task[i].reply = "none" /\ task[i].via # None
        /\ task[i].size \in Size /\ task[i].limit \in Size \cup {0} /\ task[i].proto \in {"udp", "tcp"}
    BY <1>2, <1>11, MayUseType DEF Respond, Good, TaskRecord
  <2>2. queryBar[i].via # None /\ queryBar[i].proto = task[i].proto
    BY <1>2, <2>1 DEF Seen
  <2>3. CASE Set(i, full) /\ (task[i].proto = "udp" => task[i].size <= MaxUDPSize(i))
    <3>1. queryBar' = [queryBar EXCEPT ![i] = Seen(full)]
      BY <2>3, SetQuery, Zenon
    <3>2. Seen(full) = [queryBar[i] EXCEPT !.state = "answered"]
      BY <1>2, <1>3 DEF Seen, Fate, TaskRecord
    <3>3. Service!Fits(queryBar[i])
      BY <1>2, <2>1, <2>3 DEF Seen, Service!Fits, MaxUDPSize
    <3>4. QED
      BY <1>1, <1>2, <1>3, <1>4, <2>2, <3>1, <3>2, <3>3, ServiceSteps, Zenon
  <2>4. CASE Set(i, cut) /\ task[i].proto = "udp"
    <3>1. queryBar' = [queryBar EXCEPT ![i] = Seen(cut)]
      BY <2>4, SetQuery, Zenon
    <3>2. Seen(cut) = [queryBar[i] EXCEPT !.state = "truncated", !.size = 0]
      <4>1. Seen(cut) = [Seen(task[i]) EXCEPT !.state = "truncated", !.size = 0]
        <5>1. /\ cut.pc = "done" /\ cut.reply = "truncated" /\ cut.via = task[i].via
              /\ cut.asked = task[i].asked /\ cut.size = 0
              /\ cut.client = task[i].client /\ cut.proto = task[i].proto /\ cut.limit = task[i].limit
          BY <1>2 DEF TaskRecord
        <5> HIDE DEF cut, full
        <5>2. QED
          <6>1. Fate(cut) = "truncated"
            BY <5>1 DEF Fate
          <6>2. QED
            BY <5>1, <6>1, SeenAfter, Zenon
      <4>2. QED
        BY <1>2, <4>1, Zenon
    <3>3. QED
      BY <1>1, <1>2, <1>3, <1>4, <2>2, <2>4, <3>1, <3>2, ServiceSteps, Zenon
  <2>5. CASE Set(i, Ends(task[i]))
    BY <1>4, <1>6, <2>1, <2>5
  <2>6. (task[i].size > MaxUDPSize(i)) \/ (task[i].size <= MaxUDPSize(i))
    <3> HIDE DEF cut, full
    <3>1. task[i].size \in Nat /\ task[i].limit \in Nat /\ Bare \in Nat /\ Cap \in Nat
      <4>1. Size \cup {0} \subseteq Nat /\ Bare \in Nat /\ Cap \in Nat
        <5>1. 0 \in Nat
          OBVIOUS
        <5>2. QED
          BY <5>1, SizesAssumption, Zenon
      <4>2. QED
        BY <2>1, <4>1, Zenon
    <3>2. MaxUDPSize(i) \in Nat
      BY <3>1 DEF MaxUDPSize
    <3>3. QED
      BY <3>1, <3>2
  <2>7. QED
    BY <1>11, <2>1, <2>3, <2>4, <2>5, <2>6 DEF Respond, Query
<1>12. CASE DohLoad(i)
  <2>1. CASE Set(i, Ends(task[i]))
    <3>1. task[i].reply = "none"
      BY <1>2, <1>12 DEF DohLoad, Good
    <3>2. QED
      BY <1>4, <1>6, <2>1, <3>1
  <2>2. ASSUME NEW pc \in {"store", "do"}, NEW n, Set(i, [task[i] EXCEPT !.pc = pc, !.http = n])
        PROVE  [Service!Next]_(Service!vars)
    <3> DEFINE t == [task[i] EXCEPT !.pc = pc, !.http = n]
    <3>1. Seen(t) = Seen(task[i])
      BY <1>2, <1>3 DEF Seen, Fate, TaskRecord
    <3>2. QED
      BY <1>7, <2>2, <3>1, Zenon
  <2>3. QED
    BY <1>12, <2>1, <2>2 DEF DohLoad
<1>13. CASE DohStore(i)
  <2>1. PICK n : Set(i, [task[i] EXCEPT !.pc = "do", !.http = n])
    BY <1>13 DEF DohStore
  <2> DEFINE t == [task[i] EXCEPT !.pc = "do", !.http = n]
  <2>2. Seen(t) = Seen(task[i])
    BY <1>2, <1>3 DEF Seen, Fate, TaskRecord
  <2>3. QED
    BY <1>7, <2>1, <2>2, Zenon
<1>14. QED
  BY <1>8, <1>9, <1>10, <1>11, <1>12, <1>13 DEF Handle

LEMMA InitMaps == Init => Service!Init
<1> SUFFICES ASSUME Init PROVE Service!Init
  OBVIOUS
<1>1. up = TRUE /\ queryBar = <<>>
  BY DEF Init, queryBar, Tasks
<1>2. policyBar \in [Client -> SUBSET Keys]
  BY MayUseType DEF policyBar
<1>3. QED
  BY <1>1, <1>2 DEF queryBar, policyBar, Seen, Keys, Service!Init

\* A datagram or a message on a connection is a query asked of the service.
LEMMA ReceiveMaps ==
  ASSUME IInv, Receive
  PROVE  Service!Ask
<1> PICK c \in Client, p \in {"udp", "tcp"}, l \in {0} \cup (Size \ {Bare}), s \in BOOLEAN :
      task' = Append(task, [client |-> c, proto |-> p, limit |-> l, short |-> s,
                            pc |-> "lookup", http |-> 0, via |-> None, asked |-> 0,
                            size |-> 0, reply |-> "none"])
  BY DEF Receive
<1> DEFINE t == [client |-> c, proto |-> p, limit |-> l, short |-> s,
                 pc |-> "lookup", http |-> 0, via |-> None, asked |-> 0,
                 size |-> 0, reply |-> "none"]
           q == [client |-> c, proto |-> p, limit |-> l,
                 state |-> "open", via |-> None, about |-> 0, size |-> 0]
<1>1. Seen(t) = q
  BY DEF Seen, Fate
<1> HIDE DEF t
<1>2. task' = Append(task, t) /\ task \in Seq(TaskRecord)
  BY DEF t, IInv
<1>3. /\ DOMAIN task = 1..Len(task) /\ Len(task) \in Nat /\ DOMAIN task' = 1..(Len(task) + 1)
      /\ \A j \in 1..Len(task) : task'[j] = task[j]
      /\ task'[Len(task) + 1] = t
  BY <1>2
<1> HIDE DEF q
<1>4. queryBar' = [j \in 1..(Len(task) + 1) |-> Seen(task'[j])]
  BY <1>3 DEF queryBar, Tasks, Seen, Fate
<1>5. \A j \in 1..(Len(task) + 1) : Seen(task'[j]) = IF j \in 1..Len(task) THEN queryBar[j] ELSE q
  BY <1>1, <1>3 DEF queryBar, Tasks
<1>6. queryBar \in Seq({Seen(task[j]) : j \in Tasks}) /\ Len(queryBar) = Len(task)
  <2>1. queryBar = [j \in 1..Len(task) |-> Seen(task[j])]
    BY <1>3 DEF queryBar, Tasks
  <2>2. queryBar \in [1..Len(task) -> {Seen(task[j]) : j \in Tasks}]
    BY <1>3, <2>1 DEF Tasks
  <2>3. QED
    BY <1>3, <2>1, <2>2, SeqDef
<1>7. queryBar' = Append(queryBar, q)
  <2> DEFINE S == {Seen(task[j]) : j \in Tasks} \cup {q}
             x == Append(queryBar, q)
  <2>1. queryBar \in Seq(S) /\ q \in S
    BY <1>6, SeqMonotonic, Zenon
  <2>2. /\ x \in Seq(S) /\ Len(x) = Len(task) + 1
        /\ \A j \in 1..Len(task) : x[j] = queryBar[j]
        /\ x[Len(task) + 1] = q
    <3> HIDE DEF S, x
    <3>1. x \in Seq(S) /\ Len(x) = Len(queryBar) + 1
          /\ (\A j \in 1..Len(queryBar) : x[j] = queryBar[j]) /\ x[Len(queryBar) + 1] = q
      BY <2>1, AppendProperties DEF x
    <3>2. QED
      BY <1>6, <3>1
  <2> HIDE DEF S, x
  <2>3. x = [j \in 1..(Len(task) + 1) |-> x[j]]
    BY <1>3, <2>2
  <2>4. \A j \in 1..(Len(task) + 1) : x[j] = Seen(task'[j])
    BY <1>3, <1>5, <2>2
  <2>5. x = queryBar'
    BY <1>4, <2>3, <2>4, Zenon
  <2>6. QED
    BY <2>5 DEF x
<1>8. up /\ UNCHANGED <<up, policyBar>>
  BY PolicyStays DEF Receive, Flags
<1>9. Service!Ask <=>
        /\ up
        /\ \E c1 \in Client, p1 \in {"udp", "tcp"}, l1 \in Size \cup {0} :
             queryBar' = Append(queryBar, [client |-> c1, proto |-> p1, limit |-> l1,
                                           state |-> "open", via |-> None, about |-> 0, size |-> 0])
        /\ UNCHANGED <<up, policyBar>>
  BY Zenon DEF queryBar, policyBar, Seen, Service!Ask, Service!Asked
<1>10. l \in Size \cup {0}
  OBVIOUS
<1>11. QED
  BY <1>7, <1>8, <1>9, <1>10, Zenon DEF q

LEMMA NextMaps == IInv /\ [Next]_vars => [Service!Next]_(Service!vars)
<1> SUFFICES ASSUME IInv, [Next]_vars PROVE [Service!Next]_(Service!vars)
  OBVIOUS
<1>1. CASE Receive
  BY <1>1, ReceiveMaps, Zenon DEF Service!Next
<1>2. CASE ListenerStops
  <2>1. UNCHANGED <<policyBar, queryBar>>
    BY <1>2 DEF ListenerStops, policyBar, queryBar, MayUse, Lookup, Tasks, Seen, Fate
  <2>2. Service!Stop
    BY <1>2, <2>1, Zenon DEF ListenerStops, queryBar, policyBar, Seen, Service!Stop
  <2>3. QED
    BY <2>2, Zenon DEF Service!Next
<1>3. CASE \E i \in Tasks : Handle(i)
  BY <1>3, HandleMaps
<1>4. CASE UNCHANGED vars
  <2>1. UNCHANGED <<up, policyBar, queryBar>>
    BY <1>4 DEF vars, policyBar, queryBar, MayUse, Lookup, Tasks, Seen, Fate
  <2>2. QED
    BY <2>1, Stutters
<1>5. QED
  BY <1>1, <1>2, <1>3, <1>4 DEF Next

\* For any routes file, flags, sizes and number of queries: each client's
\* queries leave as its route and the mode say, through whatever HTTP client the
\* cache holds, and its answer is to its own question and fits (main.go, doh.go).
THEOREM Refinement == Spec => RefinesDnsService
BY InitIInv, InitMaps, NextIInv, NextMaps, PTL DEF Spec, Service!Spec, RefinesDnsService
=============================================================================
