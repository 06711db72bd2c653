------------------------------ MODULE MCRadio ------------------------------
(* Small instances of Radio for TLC. *)
EXTENDS Radio, TLC

CONSTANTS t1, t2

\* Launches at one level, and at another with the gate closed.
TwoLaunches == {[power |-> 1, on |-> 1], [power |-> 2, on |-> 0]}
\* Tunes of the level alone and of the gate alone.
SomeTunes == {[power |-> 2, on |-> None], [power |-> None, on |-> 0], [power |-> None, on |-> 1]}
=============================================================================
