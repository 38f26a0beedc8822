--------------------------- MODULE MCRouterPlane ---------------------------
(* Two mapped workers and one stranger on the LAN, two proxies.            *)
EXTENDS RouterPlane

CONSTANTS w1, w2, stranger, p1, p2

To(c, p) == [client |-> c, proxy |-> p]

\* The launcher's file; then each worker has the other's proxy and one is named twice, as
\* a file written by hand may do; then one worker is left.
Files == <<
  <<To(w1, p1), To(w2, p2)>>,
  <<To(w1, p2), To(w1, p1), To(w2, p1)>>,
  <<To(w2, p2)>>>>

\* What the launcher creates the container with, and the other values.
Kinds == {[engine |-> "tun2socks", udp |-> "reject", unmapped |-> "block"],
          [engine |-> "hev", udp |-> "tunnel", unmapped |-> "direct"]}
=============================================================================
