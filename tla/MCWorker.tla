----------------------------- MODULE MCWorker -----------------------------
(* Two prefixes that are migrated and one that is not.                     *)
EXTENDS Worker

CONSTANTS node, ios, tizen
===========================================================================
