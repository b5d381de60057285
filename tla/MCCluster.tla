------------------------------- MODULE MCCluster -------------------------------
(***************************************************************************)
(* Cluster for TLC.  Workers are interchangeable; symmetry is used by the  *)
(* runs that check safety only.                                            *)
(***************************************************************************)
EXTENDS Cluster, TLC

CONSTANTS a, b, c, x, y

Two == {a, b}
Three == {a, b, c}
OneMailbox == {x}
TwoMailboxes == {x, y}

Symmetric == Permutations(Three)
===============================================================================
