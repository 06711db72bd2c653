---------------------------- MODULE MCScheduler -----------------------------
(* Bounded instances of Scheduler for TLC. *)
EXTENDS Scheduler, TLC

CONSTANTS e1, e2, t1, t2

\* Both events drive the same task, or each its own.
OneTask == [e \in Event |-> t1]
OwnTask == [e \in Event |-> IF e = e1 THEN t1 ELSE t2]

\* Two windows that meet: one late tick finds an event to stop and one to start.
Meeting == {<<1, 2>>, <<2, 3>>}
=============================================================================
