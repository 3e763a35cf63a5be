------------------------------- MODULE MCScan -------------------------------
(* Sources of every kind, honest and malformed ones. *)
EXTENDS Scan

Cap(kind, min, max, amps) ==
  [kind |-> kind, min |-> min, max |-> max, amps |-> amps, low |-> 0, high |-> 0, watts |-> 0,
   limited |-> FALSE]
Fixed(v, amps) == Cap("fixed", v, v, amps)
PPS(min, max, amps, limited) == [Cap("pps", min, max, amps) EXCEPT !.limited = limited]
EPRAVS(min, max, watts) == [Cap("eprAVS", min, max, 0) EXCEPT !.watts = watts]
SPRAVS(low, high) == [Cap("sprAVS", 0, 0, 0) EXCEPT !.low = low, !.high = high]

\* What may stand beside the 5 V object.
Some == {Fixed(9000, 300), Fixed(20000, 225), Fixed(20000, 1023), Fixed(28000, 500),
         Fixed(4950, 300), PPS(3300, 11000, 500, TRUE), PPS(3300, 21000, 325, FALSE),
         EPRAVS(15000, 48000, 60), EPRAVS(15000, 28000, 0), SPRAVS(500, 0), SPRAVS(300, 225),
         SPRAVS(0, 0), Cap("battery", 9000, 20000, 100), Cap("variable", 9000, 20000, 300)}

Source(caps, stale, received, pdp, fail) ==
  [caps |-> caps, stale |-> stale, received |-> received, pdp |-> pdp, eprCableFail |-> fail]

\* The power of a source is no less than any of its fixed objects claims.
Power(caps) ==
  Max({15} \cup {(caps[i].max * caps[i].amps) \div 100000 : i \in {j \in DOMAIN caps :
                   caps[j].kind = "fixed" /\ caps[j].max <= 20000}})

MCSources ==
  {Source(caps, <<>>, Len(caps), Power(caps), fail) :
     caps \in {<<Fixed(5000, 300)>> \o SetToSeq(two) : two \in kSubset(2, Some)}
               \cup {<<Fixed(5000, 300)>>},
     fail \in BOOLEAN}
  \cup {Source(<<Fixed(5000, 300)>>, <<Fixed(20000, 500)>>, 1, 15, FALSE),
        Source(<<Fixed(5000, 300), Fixed(9000, 300)>>, <<>>, 255, 27, FALSE),
        Source(<<Fixed(5000, 300), Fixed(9000, 300), PPS(3300, 11000, 500, TRUE)>>, <<>>, 3, 45, FALSE)}

MCVolts == {0, 5000, 9000, 11000, 15000, 18000, 20000, 21000, 28000}
MCCurrents == {-1000, 3000, 4000, 6000}

Symmetry == Permutations(Units)
=============================================================================
