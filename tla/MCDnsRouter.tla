---------------------------- MODULE MCDnsRouter ----------------------------
(* Two mapped clients, one of them on two lines, and one unmapped; two      *)
(* proxies.                                                                *)
EXTENDS DnsRouter

CONSTANTS c1, c2, c3, p1, p2

TwoRoutes == <<[client |-> c1, proxy |-> p2], [client |-> c1, proxy |-> p1],
               [client |-> c2, proxy |-> p2]>>
===========================================================================
