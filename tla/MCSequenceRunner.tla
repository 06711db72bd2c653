-------------------------- MODULE MCSequenceRunner --------------------------
(* Bounded instances of SequenceRunner for TLC. *)
EXTENDS SequenceRunner, TLC

CONSTANTS r1, r2, t1

S(act, task, base, off) ==
  [act |-> act, task |-> task, base |-> base, off |-> off, of |-> 0, key |-> "power"]

Window(from, to) ==
  [steps |-> <<S("start", t1, "start", 0), S("stop", t1, "stop", 0), S("tune", t1, "start", 1)>>,
   on |-> from, off |-> to, hold |-> Never]
Short(from, to) == [Window(from, to) EXCEPT !.steps = SubSeq(@, 1, 2)]

\* Two windows of one task.
Two == r1 :> Window(1, 3) @@ r2 :> Short(4, 5)

\* A run with a Hold, and a window that can be armed only once its end is known.
Held ==
  r1 :> [steps |-> <<S("start", t1, "start", 0), S("stop", t1, "stop", 0), S("tune", t1, "stop", -1)>>,
         on |-> 1, off |-> 0, hold |-> 1]
  @@ r2 :> Short(2, 3)
=============================================================================
