------------------------- MODULE MCCalibratedChain -------------------------
(* Small calibrations for TLC: an SDR measured at two slopes, a step        *)
(* attenuator, and a cable whose loss grows with the frequency (1 to 3).    *)
EXTENDS CalibratedChain
Curve == <<<<0, -40>>, <<20, -20>>, <<40, -10>>>>
Sloped == <<<<1, -2>>, <<3, -6>>>>
Plane(name) ==
  [name |-> name, measured |-> FALSE, bypass |-> FALSE, of |-> NoPlane, table |-> Flat,
   active |-> <<>>, curve |-> <<>>, offset |-> 0, mode |-> "none", deembed |-> <<>>]
Sdr == [Plane("sdr") EXCEPT !.measured = TRUE, !.curve = Curve]
Step(hi, lo) == [hi |-> hi, lo |-> lo, step |-> 2, engage |-> 50]
Coarse == [Step(0, -9) EXCEPT !.step = 3]
Att == [Plane("att") EXCEPT !.of = "sdr", !.table = <<<<0, -1>>>>, !.active = <<Step(0, -8)>>]
Fixed == [Att EXCEPT !.active = <<>>]
Cable == [Plane("cable") EXCEPT !.of = "att", !.table = Sloped]
Amp == [Plane("amp") EXCEPT !.measured = TRUE, !.curve = <<<<4, 0>>, <<40, 36>>>>]
Same == [kind |-> "same", k |-> 0, cap |-> Inf, curve |-> <<>>]
Lim(plane, side, max) == [plane |-> plane, side |-> side, max |-> max]
Bench ==
  [planes |-> <<Sdr, Att, Cable>>, operating |-> "cable", limits |-> {}, min |-> 0, max |-> 40,
   step |-> 2, measuredAt |-> 1, bias |-> <<>>, reported |-> Same, limiting |-> Same]

ManyLimits == {{}, {Lim("sdr", "output", -15)}, {Lim("cable", "output", -20)},
               {Lim("cable", "input", -17), Lim("sdr", "output", -15)}}
Biases == {<<>>, <<<<1, 2>>, <<3, 6>>>>}
Readings == {Same, [Same EXCEPT !.kind = "law", !.k = 2], [Same EXCEPT !.k = 1]}
Usual == {[Bench EXCEPT !.limits = l, !.bias = b, !.limiting = r] :
            l \in ManyLimits, b \in Biases, r \in Readings}
\* The amplifier is measured again: its limit is gauged on the SDR's curve.
Remeasured ==
  [Bench EXCEPT !.planes = <<Sdr, [Amp EXCEPT !.of = "sdr"]>>, !.operating = "amp",
               !.limits = {Lim("amp", "output", -15)}]
Unusual ==
  {[Bench EXCEPT !.planes = <<Sdr, Fixed, Cable>>, !.reported.k = 3, !.limits = {Lim("cable", "output", -20)}],
   [Bench EXCEPT !.planes[2].bypass = TRUE, !.limits = {Lim("att", "output", -30), Lim("cable", "output", -20)}],
   [Bench EXCEPT !.planes[1].deembed = Sloped, !.min = 7, !.limits = {Lim("cable", "output", -35)}],
   [Bench EXCEPT !.planes[1].mode = "both", !.planes[2].active = <<Coarse>>, !.max = Inf,
                !.limits = {Lim("sdr", "output", -6)}, !.step = 4],
   [Bench EXCEPT !.planes = <<Sdr, Amp>>, !.operating = "amp", !.limits = {Lim("amp", "input", -15)}],
   Remeasured,
   [Bench EXCEPT !.bias = <<<<1, 2>>, <<3, 6>>>>, !.min = 14, !.limits = {Lim("sdr", "output", -25)}],
   [Bench EXCEPT !.operating = "sdr", !.limiting = [Same EXCEPT !.k = 1, !.cap = -19]],
   [Bench EXCEPT !.operating = "sdr", !.reported = [Same EXCEPT !.kind = "law", !.k = 3],
                !.bias = <<<<1, 2>>, <<3, 6>>>>, !.limits = {Lim("sdr", "output", -15)}]}
SomeDocuments == Usual \cup Unusual
SomePowers == {-46, -25, -18, -12}
SomeFreqs == {1, 3}
ASSUME AllButOne == \A d \in SomeDocuments \ {Remeasured} : Agreeable(d)
=============================================================================
