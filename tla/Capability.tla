----------------------------- MODULE Capability -----------------------------
(***************************************************************************)
(* internal/pdo: the capture log decoded, and whether the source it        *)
(* describes can supply a voltage at a current.                            *)
(*                                                                         *)
(* Voltages are in mV, powers in W, currents in the wire's 10 mA; only the *)
(* current asked for is in mA.  A word is its four bytes, the least        *)
(* significant first, as in the blob.                                      *)
(***************************************************************************)
EXTENDS Integers, Sequences, FiniteSetsExt, SequencesExt

CONSTANT MaxPDOs   \* slots of the array

MaxCableCurrent == 500
EPRThreshold == 20000
SPRAVSMin == 9000
SPRAVSSplit == 15000
SPRAVSMax == 20000
EPRAVSLowestMin == 15000

-----------------------------------------------------------------------------
(* Parse *)

\* The word without its two topmost bits, which the type is.
Low30(w) == w[1] + 256 * w[2] + 65536 * w[3] + 16777216 * (w[4] % 64)

\* A field of so many values, of which the lowest bit weighs that much: 1024 is bit 10,
\* 131072 bit 17, 1048576 bit 20, 134217728 bit 27 and 268435456 bit 28.
Bits(w, unit, values) == (Low30(w) \div unit) % values
Type(w) == w[4] \div 64

\* What a class does not carry is zero, and an object that is not there nothing.
Blank == [kind |-> "none", valid |-> FALSE, epr |-> FALSE, min |-> 0, max |-> 0, amps |-> 0,
          low |-> 0, high |-> 0, watts |-> 0, limited |-> FALSE, budget |-> 0]

RangeOK(p) == p.min > 0 /\ p.max >= p.min

DecodeFixed(w) ==
  LET v == 50 * Bits(w, 1024, 1024)
      a == Bits(w, 1, 1024)
  IN [Blank EXCEPT !.kind = "fixed", !.min = v, !.max = v, !.amps = a,
                   !.valid = v >= 5000 /\ a > 0, !.epr = v > EPRThreshold]

\* Battery and Variable, reported and never matched.
DecodeRange(w, kind) ==
  LET p == [Blank EXCEPT !.kind = kind, !.max = 50 * Bits(w, 1048576, 1024), !.min = 50 * Bits(w, 1024, 1024),
                         !.amps = Bits(w, 1, 1024)]
  IN [p EXCEPT !.valid = RangeOK(p) /\ p.amps > 0, !.epr = p.max > EPRThreshold]

DecodePPS(w) ==
  LET p == [Blank EXCEPT !.kind = "pps", !.max = 100 * Bits(w, 131072, 256), !.min = 100 * Bits(w, 256, 256),
                         !.amps = 5 * Bits(w, 1, 128), !.limited = Bits(w, 134217728, 2) = 1]
  IN [p EXCEPT !.valid = RangeOK(p) /\ p.amps > 0]

DecodeEPRAVS(w) ==
  LET p == [Blank EXCEPT !.kind = "eprAVS", !.max = 100 * Bits(w, 131072, 512), !.min = 100 * Bits(w, 256, 256),
                         !.watts = Bits(w, 1, 256), !.epr = TRUE]
  IN [p EXCEPT !.valid = RangeOK(p) /\ p.watts > 0]

\* No range on the wire, but a current for each of two bands.
DecodeSPRAVS(w) ==
  LET low == Bits(w, 1, 1024)
      high == Bits(w, 1024, 1024)
  IN [Blank EXCEPT !.kind = "sprAVS", !.low = low, !.high = high, !.valid = low > 0 \/ high > 0]

DecodeAugmented(w) ==
  CASE Bits(w, 268435456, 4) = 0 -> DecodePPS(w)
    [] Bits(w, 268435456, 4) = 1 -> DecodeEPRAVS(w)
    [] Bits(w, 268435456, 4) = 2 -> DecodeSPRAVS(w)
    [] OTHER -> [Blank EXCEPT !.kind = "unknown"]

DecodePDO(w) ==
  CASE Type(w) = 0 -> DecodeFixed(w)
    [] Type(w) = 1 -> DecodeRange(w, "battery")
    [] Type(w) = 2 -> DecodeRange(w, "variable")
    [] OTHER -> DecodeAugmented(w)

\* The source's SPR power as its fixed objects tell it, whole watts; nothing if
\* the 5 V object, which every source has, is the only one to tell.
Budget(objects) ==
  LET spr == {p \in ToSet(objects) : p.kind = "fixed" /\ p.valid /\ p.max <= EPRThreshold}
  IN IF \E p \in spr : p.max > 5000
     THEN Max({(p.max * p.amps) \div 100000 : p \in spr}) ELSE 0

ApplyPPSPowerBudget(objects) ==
  [i \in DOMAIN objects |->
     IF objects[i].kind = "pps" /\ objects[i].limited
     THEN [objects[i] EXCEPT !.budget = Budget(objects)] ELSE objects[i]]

\* The slots that hold data: as many as were received, a corrupt count apart,
\* and of those the ones that are not zero.
Filled(blob) == {i \in 1 .. MaxPDOs : i <= blob.received /\ blob.words[i] # <<0, 0, 0, 0>>}

\* An object keeps the slot it was in.
Parse(blob) ==
  LET objects == [i \in Filled(blob) |-> DecodePDO(blob.words[i])]
  IN [objects |-> ApplyPPSPowerBudget(objects),
      eprCableFail |-> blob.eprCableFail \/ \E i \in DOMAIN objects :
                                               objects[i].kind = "eprAVS" /\ ~objects[i].valid]

-----------------------------------------------------------------------------
(* What an object supplies at a voltage *)

BoundCurrent(a) == IF a > MaxCableCurrent THEN MaxCableCurrent ELSE a

\* Mutant of OfPower: rounded up to the wire's step.
OfPowerUp(watts, v) == (watts * 100000 + v - 1) \div v

\* A power at a voltage, rounded down to the wire's step.
OfPower(watts, v) == (watts * 100000) \div v

\* What the object claims there, whatever a cable can carry.
DeclaredAt(p, v) ==
  CASE p.kind = "eprAVS" -> OfPower(p.watts, v)
    [] p.kind = "sprAVS" -> IF v > SPRAVSSplit THEN p.high ELSE p.low
    [] OTHER -> p.amps

CurrentAt(p, v) ==
  LET a == BoundCurrent(DeclaredAt(p, v))
  IN IF p.kind = "pps" /\ p.limited /\ p.budget > 0 THEN Min({a, OfPower(p.budget, v)}) ELSE a

Covers(p, v) ==
  IF p.kind = "sprAVS" THEN SPRAVSMin <= v /\ v <= SPRAVSMax ELSE p.min <= v /\ v <= p.max

\* The valid object of a kind that covers v and supplies the most, the first of
\* equals.
Best(log, kind, v) ==
  LET fits == {i \in DOMAIN log.objects :
                 log.objects[i].kind = kind /\ log.objects[i].valid /\ Covers(log.objects[i], v)}
      amps(i) == CurrentAt(log.objects[i], v)
      most == {i \in fits : \A j \in fits : amps(j) <= amps(i)}
  IN IF most = {} THEN Blank ELSE log.objects[Min(most)]

-----------------------------------------------------------------------------
(* Evaluate.  Each branch picks an object, and perhaps a better one after it. *)

Short(a, i) == 10 * a < i

\* Is there a current at all?  Does a fall short of the request where b has more?
Supplies(a, v) == CurrentAt(a, v) > 0
Beaten(a, b, v, i) == Short(CurrentAt(a, v), i) /\ CurrentAt(b, v) > CurrentAt(a, v)

EPRObjects(fixed, avs, pps, v, i) ==
  CASE Supplies(fixed, v) -> IF Beaten(fixed, avs, v, i) THEN <<fixed, avs>> ELSE <<fixed>>
    [] ~Supplies(fixed, v) /\ Supplies(avs, v) -> <<avs>>
    [] OTHER -> IF Supplies(pps, v) THEN <<pps>> ELSE <<>>

PicksEPR(log, v, i) ==
  EPRObjects(Best(log, "fixed", v), Best(log, "eprAVS", v), Best(log, "pps", v), v, i)

\* Here SPR AVS takes over from PPS whatever was asked for.
SPRObjects(fixed, pps, avs, v, i) ==
  CASE Supplies(fixed, v) -> IF Beaten(fixed, pps, v, i) THEN <<fixed, pps>> ELSE <<fixed>>
    [] ~Supplies(fixed, v) /\ Supplies(pps, v) ->
         IF CurrentAt(avs, v) > CurrentAt(pps, v) THEN <<pps, avs>> ELSE <<pps>>
    [] OTHER -> IF Supplies(avs, v) THEN <<avs>> ELSE <<>>

\* Mutant of OrEPR: an EPR range is looked at above 20 V only.
OrEPRNever(picked, avs, v, i) == picked

\* An EPR range reaches below 20 V.
OrEPR(picked, avs, v, i) ==
  IF IF picked = <<>> THEN Supplies(avs, v) ELSE Beaten(Last(picked), avs, v, i)
  THEN Append(picked, avs) ELSE picked

PicksSPR(log, v, i) ==
  OrEPR(SPRObjects(Best(log, "fixed", v), Best(log, "pps", v), Best(log, "sprAVS", v), v, i),
        Best(log, "eprAVS", v), v, i)

Picks(log, v, i) == IF v > EPRThreshold THEN PicksEPR(log, v, i) ELSE PicksSPR(log, v, i)

\* What a refusal rests on besides the scan.  The note on an SPR AVS object cites
\* its assumed range unless every such object is empty.
RefusalCaveats(log, v) ==
  {c \in {"assumed range", "cable fail"} :
     CASE c = "assumed range" ->
            v <= EPRThreshold /\ \E p \in ToSet(log.objects) : p.kind = "sprAVS" /\ p.valid
       [] c = "cable fail" -> log.eprCableFail /\ v >= EPRAVSLowestMin}

\* Does Power Limited leave something to be said of the current reported?
LimitDisclosed(p, v) ==
  /\ p.kind = "pps" /\ p.limited
  /\ p.budget = 0 \/ CurrentAt(p, v) < BoundCurrent(p.amps)

\* What a verdict on an object rests on besides the scan.
VerdictCaveats(log, picked, v) ==
  LET p == Last(picked) IN
  {c \in {"cable bound", "assumed range", "power limited", "cable fail"} :
     CASE c = "cable bound" -> DeclaredAt(p, v) > MaxCableCurrent
       [] c = "assumed range" -> \E q \in ToSet(picked) : q.kind = "sprAVS"
       [] c = "power limited" -> LimitDisclosed(p, v)
       [] c = "cable fail" -> log.eprCableFail /\ (v > EPRThreshold \/ p.epr)}

Verdict(log, picked, v, i) ==
  IF picked = <<>>
  THEN [ok |-> FALSE, chosen |-> Blank, amps |-> 0, caveats |-> RefusalCaveats(log, v)]
  ELSE [ok |-> ~Short(CurrentAt(Last(picked), v), i), chosen |-> Last(picked),
        amps |-> CurrentAt(Last(picked), v), caveats |-> VerdictCaveats(log, picked, v)]

\* A voltage that is none and a current below zero are refused before the log is
\* looked at.
Evaluate(log, v, i) ==
  IF v <= 0 \/ i < 0 THEN [ok |-> FALSE, chosen |-> Blank, amps |-> 0, caveats |-> {}]
  ELSE Verdict(log, Picks(log, v, i), v, i)
=============================================================================
