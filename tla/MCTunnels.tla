----------------------------- MODULE MCTunnels -----------------------------
(* Two tunnels at a time; an address that is allowed and one that is not.  *)
EXTENDS Tunnels, TLC

CONSTANTS Web, Lan, T1, T2
MCAddresses == {Web, Lan}
MCBlocked == {Lan}
MCTuns == {T1, T2}
=============================================================================
