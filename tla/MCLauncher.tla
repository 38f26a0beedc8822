---------------------------- MODULE MCLauncher ----------------------------
(* A deployment of two workers and two proxies.                            *)
EXTENDS Launcher, TLC

CONSTANTS w1, w2, p1, p2

InOrder == <<w1, w2>>
OneEach == (w1 :> p1) @@ (w2 :> p2)
=============================================================================
