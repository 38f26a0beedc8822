----------------------------- MODULE DnsService -----------------------------
(***************************************************************************)
(* What the DNS forwarder promises, without goroutines, buffers, caches or *)
(* HTTP clients.                                                           *)
(*                                                                         *)
(* A query leaves only to a resolver that its client may use, its client   *)
(* gets the answer to that query, in a datagram that it is able to take.   *)
(* Answers may be lost, and the service may stop.                          *)
(***************************************************************************)
EXTENDS Naturals, Sequences

CONSTANTS Client, Resolver, Size, Bare, None

VARIABLES
  up,      \* the service runs
  policy,  \* client -> the resolvers it may use
  query    \* the queries received, each with what became of it

vars == <<up, policy, query>>

Asked(c, p, l) ==
  [client |-> c, proto |-> p, limit |-> l,
   state |-> "open", via |-> None, about |-> 0, size |-> 0]

Init == up = TRUE /\ policy \in [Client -> SUBSET Resolver] /\ query = <<>>

Ask ==
  /\ up
  /\ \E c \in Client, p \in {"udp", "tcp"}, l \in Size \cup {0} : query' = Append(query, Asked(c, p, l))
  /\ UNCHANGED <<up, policy>>

Open(i) == up /\ i \in DOMAIN query /\ query[i].state = "open"
Becomes(i, q) == query' = [query EXCEPT ![i] = q] /\ UNCHANGED <<up, policy>>

\* A resolver has answered; its answer is n long.
Resolve(i) ==
  /\ Open(i) /\ query[i].via = None
  /\ \E v \in policy[query[i].client], n \in Size :
       Becomes(i, [query[i] EXCEPT !.via = v, !.about = i, !.size = n])

Fits(q) == q.proto = "tcp" \/ q.size <= Bare \/ q.size <= q.limit

Answer(i) ==
  /\ Open(i) /\ query[i].via # None /\ Fits(query[i])
  /\ Becomes(i, [query[i] EXCEPT !.state = "answered"])

\* The client is told to ask again over TCP.
Truncate(i) ==
  /\ Open(i) /\ query[i].via # None /\ query[i].proto = "udp"
  /\ Becomes(i, [query[i] EXCEPT !.state = "truncated", !.size = 0])

Refuse(i) ==
  /\ Open(i) /\ policy[query[i].client] = {}
  /\ Becomes(i, [query[i] EXCEPT !.state = "refused", !.about = i])

\* No answer, or none that reaches the client; the query may have left.
Lose(i) ==
  /\ Open(i)
  /\ \E v \in policy[query[i].client] \cup {query[i].via} :
       Becomes(i, [query[i] EXCEPT !.state = "lost", !.via = v])

Stop == up /\ up' = FALSE /\ UNCHANGED <<policy, query>>

End(i) == Resolve(i) \/ Answer(i) \/ Truncate(i) \/ Refuse(i) \/ Lose(i)

Next == Ask \/ Stop \/ \E i \in DOMAIN query : End(i)

Spec == Init /\ [][Next]_vars
=============================================================================
