----------------------------- MODULE MCFolders -----------------------------
(* Two folders, and the names that make them meet: as many as a deployment  *)
(* has, so that either folder's name may be the other's prefix.            *)
EXTENDS Folders, TLC

CONSTANTS Here, There, Me, You, N1, N2, S1, S2
MCFolder == {Here, There}
MCUsers == {Me, You}
MCNames == {N1, N2}
MCSubnets == {S1, S2}
MCSymmetry == Permutations(MCFolder) \cup Permutations(MCUsers) \cup Permutations(MCNames) \cup Permutations(MCSubnets)
=============================================================================
