----------------------------- MODULE DnsRouter -----------------------------
(***************************************************************************)
(* dnsrouter (main.go, doh.go): one goroutine per datagram, one per TCP    *)
(* connection, and a cache of HTTP clients that they share.                *)
(*                                                                         *)
(* A task is the handling of one query.  The queries of one connection are *)
(* handled one after the other by a loop that keeps nothing between them   *)
(* but the route it looked up, and the map of routes never changes: they   *)
(* are tasks like any other.                                               *)
(*                                                                         *)
(* Abstractions.  A query is the number of its task; what matters of its   *)
(* bytes is whether it has a whole header and which UDP size it advertises *)
(* (0: none, or less than 512).  Sizes are small numbers, Bare for 512 and *)
(* Cap for 4096; over TCP they do not matter.                              *)
(* Handshakes with a proxy are part of the exchange, which succeeds or     *)
(* fails; the resolvers, proxies and clients are external.  The flag       *)
(* -fallback, which the entrypoint never gives, is left out.               *)
(***************************************************************************)
EXTENDS Naturals, Sequences

CONSTANTS
  Client,      \* addresses on the LAN, in the routes file or not
  Proxy,       \* proxy URLs
  Routes,      \* the routes file, a sequence of [client, proxy]
  Mode,        \* DNS modes the container may be created with
  Unmapped,    \* values of -unmapped
  Size, Bare, Cap,  \* message sizes; 512 and 4096 among them
  MaxQueries,  \* queries (bound)
  None, Host   \* no route; resolution from the host itself

ASSUME RoutesAssumption ==
  /\ Routes \in Seq([client : Client, proxy : Proxy]) /\ Routes # <<>>
  /\ None \notin Proxy /\ Host \notin Proxy /\ None # Host
ASSUME ModesAssumption ==
  /\ Mode \subseteq {"proxy", "dns-leak", "doh-proxy", "doh-direct"}
  /\ Unmapped \subseteq {"direct", "refuse"}
ASSUME SizesAssumption == Size \subseteq Nat \ {0} /\ {Bare, Cap} \subseteq Size /\ Bare <= Cap

VARIABLES
  mode, unmapped,  \* the flags of this process
  up,      \* both listeners run
  buf,     \* the query whose bytes are in serveUDP's buffer
  task,    \* the queries received so far
  http,    \* the HTTP clients ever made
  cached   \* dohClients: key -> HTTP client, 0 for none

vars == <<mode, unmapped, up, buf, task, http, cached>>

Tasks == DOMAIN task
Doh == {"doh-proxy", "doh-direct"}

(***************************************************************************)
(* loadRoutes and lookup: a map, so the last line of a client counts.      *)
(***************************************************************************)
LinesOf(c) == {k \in DOMAIN Routes : Routes[k].client = c}

byClient ==
  [c \in Client |->
    IF LinesOf(c) = {} THEN None
    ELSE Routes[CHOOSE k \in LinesOf(c) : \A j \in LinesOf(c) : j <= k].proxy]

Lookup(c) == byClient[c]

\* The route exchangeDoH uses: none at all when the mode is direct.
DohRoute(c) == IF mode = "doh-direct" THEN None ELSE Lookup(c)

\* Mutant: one key for every route.
KeyDirect(r) == Host

Key(r) == IF r = None THEN Host ELSE r

\* The bytes the goroutine works on: its own copy.
Query(i) == i

MaxUDPSize(q) ==
  IF task[q].limit < Bare THEN Bare ELSE IF task[q].limit > Cap THEN Cap ELSE task[q].limit

(***************************************************************************)
(* Receiving.                                                              *)
(***************************************************************************)
Set(i, t) == task' = [task EXCEPT ![i] = t]
Flags == <<mode, unmapped, up>>

Receive ==
  /\ up /\ Len(task) < MaxQueries
  /\ \E c \in Client, p \in {"udp", "tcp"}, l \in {0} \cup (Size \ {Bare}), s \in BOOLEAN :
       /\ s \/ p = "tcp" => l = 0
       /\ task' = Append(task, [client |-> c, proto |-> p, limit |-> l, short |-> s,
                                pc |-> "lookup", http |-> 0, via |-> None, asked |-> 0,
                                size |-> 0, reply |-> "none"])
       /\ buf' = IF p = "udp" THEN Len(task) + 1 ELSE buf
  /\ UNCHANGED <<Flags, http, cached>>

Ends(t) == [t EXCEPT !.pc = "done"]

(***************************************************************************)
(* The three ways a query is handled (exchange, exchangeDirect, refuse).   *)
(***************************************************************************)
Refuses(c) == Lookup(c) = None /\ unmapped = "refuse"

\* refuse() needs a whole header; over TCP an empty message is sent without one.
Refuse(i) ==
  /\ up /\ task[i].pc = "lookup" /\ Refuses(task[i].client)
  /\ Set(i, IF task[i].short /\ task[i].proto = "udp" THEN Ends(task[i])
            ELSE [task[i] EXCEPT !.pc = "done", !.asked = Query(i), !.reply = "refused"])
  /\ UNCHANGED <<Flags, buf, http, cached>>

Choose(i) ==
  /\ up /\ task[i].pc = "lookup" /\ ~Refuses(task[i].client)
  /\ Set(i, [task[i] EXCEPT !.pc = IF mode \in Doh THEN "load" ELSE "dial"])
  /\ UNCHANGED <<Flags, buf, http, cached>>

\* The answer comes; it is for the query that was sent.
Answered(t, q, via) ==
  {[t EXCEPT !.pc = "reply", !.via = via, !.asked = q, !.size = n] :
     n \in IF t.proto = "udp" THEN Size ELSE {Bare}}

\* exchange in mode proxy; exchangeDirect, with no route or in mode dns-leak.
Plain(i) ==
  /\ up /\ task[i].pc = "dial"
  /\ LET r == Lookup(task[i].client)
         via == IF mode = "dns-leak" \/ r = None THEN Host ELSE r
     IN  task' \in {[task EXCEPT ![i] = t] :
                      t \in Answered(task[i], Query(i), via) \cup {[Ends(task[i]) EXCEPT !.via = via]}}
  /\ UNCHANGED <<Flags, buf, http, cached>>

\* exchangeDoH: the cached client, or a new one.
DohLoad(i) ==
  LET r == DohRoute(task[i].client)
  IN  /\ up /\ task[i].pc = "load"
      /\ \/ task[i].short /\ Set(i, Ends(task[i])) /\ UNCHANGED http
         \/ /\ ~task[i].short /\ cached[Key(r)] # 0
            /\ Set(i, [task[i] EXCEPT !.pc = "do", !.http = cached[Key(r)]])
            /\ UNCHANGED http
         \/ /\ ~task[i].short /\ cached[Key(r)] = 0
            /\ http' = Append(http, [route |-> r, idle |-> TRUE])
            /\ Set(i, [task[i] EXCEPT !.pc = "store", !.http = Len(http) + 1])
      /\ UNCHANGED <<Flags, buf, cached>>

\* Mutant: Store for LoadOrStore.
DohStoreOverwrites(i) ==
  LET k == Key(DohRoute(task[i].client))
  IN  /\ up /\ task[i].pc = "store"
      /\ cached' = [cached EXCEPT ![k] = task[i].http]
      /\ Set(i, [task[i] EXCEPT !.pc = "do"])
      /\ UNCHANGED <<Flags, buf, http>>

\* LoadOrStore: the client that came first is used, the other is closed.
DohStore(i) ==
  LET k == Key(DohRoute(task[i].client))
      first == IF cached[k] = 0 THEN task[i].http ELSE cached[k]
  IN  /\ up /\ task[i].pc = "store"
      /\ cached' = [cached EXCEPT ![k] = first]
      /\ http' = [http EXCEPT ![task[i].http].idle = (first = task[i].http)]
      /\ Set(i, [task[i] EXCEPT !.pc = "do", !.http = first])
      /\ UNCHANGED <<Flags, buf>>

DohDo(i) ==
  /\ up /\ task[i].pc = "do"
  /\ LET r == http[task[i].http].route
         via == IF r = None THEN Host ELSE r
     IN  task' \in {[task EXCEPT ![i] = t] :
                      t \in Answered(task[i], Query(i), via) \cup {[Ends(task[i]) EXCEPT !.via = via]}}
  /\ UNCHANGED <<Flags, buf, http, cached>>

\* Over UDP an answer that is too long becomes a header with TC; over TCP the write may
\* come after the connection's deadline.
Respond(i) ==
  /\ up /\ task[i].pc = "reply"
  /\ IF task[i].proto = "udp"
     THEN Set(i, IF task[i].size > MaxUDPSize(Query(i))
                 THEN [task[i] EXCEPT !.pc = "done", !.reply = "truncated", !.size = 0]
                 ELSE [task[i] EXCEPT !.pc = "done", !.reply = "full"])
     ELSE \E sent \in BOOLEAN :
            Set(i, IF sent THEN [task[i] EXCEPT !.pc = "done", !.reply = "full"] ELSE Ends(task[i]))
  /\ UNCHANGED <<Flags, buf, http, cached>>

\* log.Fatalf when the first listener returns: every goroutine goes with the process.
ListenerStops ==
  /\ up /\ up' = FALSE
  /\ UNCHANGED <<mode, unmapped, buf, task, http, cached>>

Init ==
  /\ mode \in Mode /\ unmapped \in Unmapped /\ up = TRUE
  /\ buf = 0 /\ task = <<>> /\ http = <<>>
  /\ cached = [k \in Proxy \cup {Host} |-> 0]

Handle(i) == \/ Refuse(i) \/ Choose(i) \/ Plain(i)
             \/ DohLoad(i) \/ DohStore(i) \/ DohDo(i) \/ Respond(i)

Next == Receive \/ ListenerStops \/ \E i \in Tasks : Handle(i)

Spec == Init /\ [][Next]_vars

-----------------------------------------------------------------------------
(***************************************************************************)
(* Properties                                                              *)
(***************************************************************************)
\* Where the flags say a client's names are to be resolved.
MayUse(c) ==
  IF Lookup(c) = None THEN IF unmapped = "refuse" THEN {} ELSE {Host}
  ELSE IF mode \in {"dns-leak", "doh-direct"} THEN {Host} ELSE {Lookup(c)}

\* Goroutines that miss the cache together end up with one HTTP client per route; the
\* candidates of the others are closed (LoadOrStore, doh.go:55-57).
OneClientPerRoute ==
  /\ \A i \in Tasks : task[i].pc = "do" => cached[Key(DohRoute(task[i].client))] = task[i].http
  /\ \A k \in DOMAIN http : http[k].idle =>
       \/ cached[Key(http[k].route)] = k
       \/ \E i \in Tasks : task[i].pc = "store" /\ task[i].http = k

\* What became of a query, for its client.
Fate(t) ==
  IF t.pc # "done" THEN "open"
  ELSE CASE t.reply = "none" -> "lost"
         [] t.reply = "full" -> "answered"
         [] OTHER -> t.reply

Service == INSTANCE DnsService WITH
  Resolver <- Proxy \cup {Host},
  policy <- [c \in Client |-> MayUse(c)],
  query <- [i \in Tasks |->
    [client |-> task[i].client, proto |-> task[i].proto, limit |-> task[i].limit,
     state |-> Fate(task[i]), via |-> task[i].via, about |-> task[i].asked, size |-> task[i].size]]

\* The forwarder is a DNS service: a query leaves by its client's own proxy or
\* as the mode says, never through an HTTP client that another route put into
\* the cache, and not at all for a client that is to be refused (doh.go:31-57);
\* the answer is to the client's own question, though all datagrams arrive in
\* one buffer (main.go:456-464), and no longer than a datagram may be.
RefinesDnsService == Service!Spec
=============================================================================
