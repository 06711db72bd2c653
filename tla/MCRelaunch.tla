----------------------------- MODULE MCRelaunch -----------------------------
(* Small instances of Relaunch for TLC. *)
EXTENDS Relaunch

NoRamp == [start |-> 0, stop |-> 1, steps |-> 1, step |-> 0, hold |-> Unit, dur |-> 0,
           first |-> TRUE, last |-> TRUE]
Step(act, anchor, off, set) ==
  [act |-> act, anchor |-> anchor, off |-> Unit * off, end |-> 0, of |-> 0, edge |-> "end",
   set |-> set, replace |-> FALSE, param |-> "power", ramp |-> NoRamp]
Set(p, g) == ("power" :> p) @@ ("rf" :> g)
Command == ("power" :> 1) @@ ("mode" :> 1)

\* A muted pre-roll, a staircase of two ramps back to back, and a ramp down.
Staircase == <<
  Step("start", "start", -1, "rf" :> Off),
  Step("tune", "start", 0, ("rf" :> On) @@ ("restart" :> On)),
  [Step("ramp", "start", 0, <<>>) EXCEPT !.ramp = [NoRamp EXCEPT !.start = 2, !.stop = 4]],
  [Step("ramp", "step", 0, <<>>) EXCEPT !.of = 3,
     !.ramp = [NoRamp EXCEPT !.start = 4, !.stop = 6, !.first = FALSE]],
  [Step("ramp", "stop", 0, <<>>) EXCEPT
     !.ramp = [NoRamp EXCEPT !.start = 5, !.stop = 3, !.steps = 0, !.step = 2, !.hold = 0, !.dur = 2 * Unit]],
  Step("stop", "stop", 1, <<>>) >>
\* Two epochs with a silence between them.
Epochs == <<
  [Step("start", "start", -1, Set(1, On)) EXCEPT !.replace = TRUE],
  Step("tune", "start", 1, ("mode" :> 2) @@ ("restart" :> On)),
  Step("stop", "start", 2, <<>>),
  Step("start", "start", 3, Set(3, On)),
  Step("tune", "start", 4, "power" :> 4),
  Step("stop", "stop", 1, <<>>) >>
\* A ramp that fills the window, by its steps although it gives a step as well.
Filled == <<
  Step("start", "start", -1, Set(1, On)),
  [Step("ramp", "both", 0, <<>>) EXCEPT
     !.ramp = [NoRamp EXCEPT !.start = 2, !.stop = 4, !.step = 1, !.hold = 0]],
  Step("stop", "stop", 0, <<>>) >>
\* A trigger a moment after the launch, and a second launch of what is running.
Doubled == <<
  Step("start", "start", -1, Set(1, On)),
  [Step("tune", "start", -1, "restart" :> On) EXCEPT !.off = @ + 1],
  Step("start", "start", 1, Set(2, On)),
  Step("tune", "start", 2, "power" :> 5),
  Step("stop", "stop", 0, <<>>) >>
\* Two steps that hang off each other.
Looped == <<
  Step("start", "start", 0, <<>>),
  [Step("tune", "step", 1, "mode" :> 2) EXCEPT !.of = 3],
  [Step("tune", "step", 1, "mode" :> 3) EXCEPT !.of = 2],
  Step("stop", "stop", 0, <<>>) >>

SomeSequences == {Staircase, Epochs, Filled, Doubled, Looped}
SomeWindows == {[on |-> 2 * Unit, off |-> 6 * Unit], [on |-> 2 * Unit, off |-> 5 * Unit]}
SomeHandTunes == {("mode" :> 3) @@ ("power" :> 9) @@ ("restart" :> On)}
SomeRecoveries == {<<"resync", "resync">>, <<"replay", "resync">>, <<"replay", "replay">>}
ResyncThenReplay == {<<"resync", "replay">>}
=============================================================================
