------------------------------ MODULE MCUpdater ------------------------------
(* Bounded instances of Updater for TLC. *)
EXTENDS Updater, TLC

CONSTANTS b1, b2, b3, v1, v2, v3

\* Every build has a version of its own.
OwnVersion == b1 :> v1 @@ b2 :> v2 @@ b3 :> v3
=============================================================================
