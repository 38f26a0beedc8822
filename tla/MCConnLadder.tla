--------------------------- MODULE MCConnLadder ---------------------------
(* The sizes of sdk_conf.js are given in the cfg files.                    *)
EXTENDS ConnLadder
=============================================================================
