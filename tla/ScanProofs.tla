----------------------------- MODULE ScanProofs -----------------------------
(***************************************************************************)
(* Theorems about Scan, for any number of units, moves, chunks and         *)
(* attempts, and any sources whose fields the wire can carry; and about    *)
(* Evaluate, for any log.                                                  *)
(***************************************************************************)
EXTENDS Scan, SequenceTheorems, WellFoundedInduction, TLAPS

-----------------------------------------------------------------------------
(* A word and the object in it *)

\* The bytes of a word give its fields and its type back.
LEMMA Unpacked ==
  ASSUME NEW f \in Nat, f < 1073741824, NEW t \in Nat, t < 4
  PROVE  Low30(FourBytes(f, t)) = f /\ Type(FourBytes(f, t)) = t
<1> DEFINE w == FourBytes(f, t)
           top == f \div 16777216
<1>1. w[1] = f % 256 /\ w[2] = (f \div 256) % 256 /\ w[3] = (f \div 65536) % 256 /\ w[4] = top + 64 * t
  BY SMT DEF FourBytes
<1>2. top \in Nat /\ top < 64
  BY SMT
<1> HIDE DEF w, top
<1>3. w[4] \div 64 = t /\ w[4] % 64 = top
  BY <1>1, <1>2, SMT
<1>4. f = (f % 256) + 256 * ((f \div 256) % 256) + 65536 * ((f \div 65536) % 256) + 16777216 * (f \div 16777216)
  BY SMT
<1> QED
  BY <1>1, <1>3, <1>4, SMT DEF Low30, Type, w, top

\* What is known of every decoded object.
IsObject(p) ==
  /\ DOMAIN p = DOMAIN Blank
  /\ p.min \in Nat /\ p.max \in Nat /\ p.amps \in Nat /\ p.low \in Nat /\ p.high \in Nat
  /\ p.watts \in Nat /\ p.budget \in Nat

\* What the decoder makes of an object that is not nothing.
Shows(p, cap) ==
  /\ IsObject(p) /\ p.kind = cap.kind
  /\ cap.kind = "fixed" =>
       /\ p.min = cap.max /\ p.max = cap.max /\ p.amps = cap.amps
       /\ (p.valid <=> cap.max >= 5000 /\ cap.amps > 0)
  /\ cap.kind = "pps" =>
       /\ p.min = cap.min /\ p.max = cap.max /\ p.amps = cap.amps /\ (p.limited <=> cap.limited)
       /\ (p.valid <=> cap.min > 0 /\ cap.max >= cap.min /\ cap.amps > 0)
  /\ cap.kind = "eprAVS" =>
       /\ p.min = cap.min /\ p.max = cap.max /\ p.watts = cap.watts
       /\ (p.valid <=> cap.min > 0 /\ cap.max >= cap.min /\ cap.watts > 0)
  /\ cap.kind = "sprAVS" =>
       /\ p.low = cap.low /\ p.high = cap.high /\ (p.valid <=> cap.low > 0 \/ cap.high > 0)

\* What an object on the wire is decoded as: a fixed supply,
LEMMA FixedDecoded ==
  ASSUME NEW cap, cap.kind = "fixed", Representable(cap)
  PROVE  Shows(DecodePDO(Word(cap)), cap) /\ DecodePDO(Word(cap)).budget = 0
<1> DEFINE w == Word(cap)
           n == cap.max \div 50
           a == cap.amps
<1>1. cap.max = 50 * n /\ n \in Nat /\ n < 1024 /\ a \in Nat /\ a < 1024
  BY SMT DEF Representable, Carries
<1>2. Fields(cap) = 1024 * n + a /\ TypeField(cap) = 0
  BY SMT DEF Fields, TypeField
<1> HIDE DEF n, a
<1>3. Low30(w) = 1024 * n + a /\ Type(w) = 0
  <2>1. 1024 * n + a \in Nat /\ 1024 * n + a < 1073741824
    BY <1>1, SMT
  <2> QED
    BY <1>2, <2>1, Unpacked, SMT DEF Word
<1>4. Bits(w, 1024, 1024) = n /\ Bits(w, 1, 1024) = a
  BY <1>1, <1>3, SMT DEF Bits
<1> HIDE DEF w
<1>5. DecodePDO(w) = DecodeFixed(w)
  BY <1>3, SMT DEF DecodePDO
<1> DEFINE p == DecodeFixed(w)
           ok == cap.max >= 5000 /\ a > 0
<1>6. DOMAIN p = DOMAIN Blank
  BY SMT DEF DecodeFixed
<1>7. /\ p.kind = "fixed" /\ p.min = cap.max /\ p.max = cap.max /\ p.amps = a
      /\ p.valid = ok
      /\ p.low = 0 /\ p.high = 0 /\ p.watts = 0 /\ p.limited = FALSE /\ p.budget = 0
  BY <1>1, <1>4, SMT DEF DecodeFixed, Blank
<1>8. cap.max \in Nat /\ cap.amps = a
  BY <1>1, SMT DEF a
<1>9. ok <=> cap.max >= 5000 /\ cap.amps > 0
  BY SMT DEF a
<1> HIDE DEF p, ok
<1>10. p.valid <=> ok
  BY <1>7
<1>11. IsObject(p)
  BY <1>1, <1>7, <1>8, <1>6, SMT DEF IsObject
<1>12. Shows(p, cap)
  BY <1>7, <1>8, <1>11, <1>9, <1>10, SMT DEF Shows
<1> QED
  BY <1>5, <1>7, <1>12 DEF p, w

\* a range that nothing is made of,
LEMMA RangeDecoded ==
  ASSUME NEW cap, cap.kind \in {"battery", "variable"}, Representable(cap)
  PROVE  Shows(DecodePDO(Word(cap)), cap) /\ DecodePDO(Word(cap)).budget = 0
<1> DEFINE w == Word(cap)
           m == cap.max \div 50
           n == cap.min \div 50
           a == cap.amps
           t == TypeField(cap)
<1>1. m \in Nat /\ m < 1024 /\ n \in Nat /\ n < 1024 /\ a \in Nat /\ a < 1024
  BY SMT DEF Representable, Carries
<1>2. Fields(cap) = 1048576 * m + 1024 * n + a /\ TypeField(cap) = t
  BY <1>1, SMT DEF Fields, TypeField
<1>3. t \in Nat /\ t < 4 /\ (cap.kind = "battery" => t = 1) /\ (cap.kind = "variable" => t = 2)
  BY SMT DEF TypeField
<1> HIDE DEF m, n, a, t
<1>4. Low30(w) = 1048576 * m + 1024 * n + a /\ Type(w) = t
  <2>1. 1048576 * m + 1024 * n + a \in Nat /\ 1048576 * m + 1024 * n + a < 1073741824
    BY <1>1, SMT
  <2> QED
    BY <1>2, <1>3, <2>1, Unpacked, SMT DEF Word
<1>5. Bits(w, 1048576, 1024) = m /\ Bits(w, 1024, 1024) = n /\ Bits(w, 1, 1024) = a
  BY <1>1, <1>4, SMT DEF Bits
<1> HIDE DEF w
<1>6. DecodePDO(w) = DecodeRange(w, cap.kind)
  <2>1. CASE cap.kind = "battery"
    BY <1>3, <1>4, <2>1, SMT DEF DecodePDO
  <2>2. CASE cap.kind = "variable"
    BY <1>3, <1>4, <2>2, SMT DEF DecodePDO
  <2> QED
    BY <2>1, <2>2
<1> DEFINE p == DecodeRange(w, cap.kind)
<1>7. DOMAIN p = DOMAIN Blank
  BY SMT DEF DecodeRange
<1>8. /\ p.kind = cap.kind /\ p.budget = 0
      /\ p.min = 50 * n /\ p.max = 50 * m /\ p.amps = a /\ p.low = 0 /\ p.high = 0 /\ p.watts = 0
  BY <1>1, <1>5, SMT DEF DecodeRange, Blank, RangeOK
<1> HIDE DEF p
<1>9. IsObject(p)
  BY <1>1, <1>8, <1>7, SMT DEF IsObject
<1>10. Shows(p, cap)
  BY <1>1, <1>8, <1>9, SMT DEF Shows
<1> QED
  BY <1>6, <1>8, <1>10 DEF p, w

\* a programmable supply,
LEMMA PPSDecoded ==
  ASSUME NEW cap, cap.kind = "pps", Representable(cap)
  PROVE  Shows(DecodePDO(Word(cap)), cap) /\ DecodePDO(Word(cap)).budget = 0
<1> DEFINE w == Word(cap)
           l == IF cap.limited THEN 1 ELSE 0
           m == cap.max \div 100
           n == cap.min \div 100
           a == cap.amps \div 5
<1>1. /\ m \in Nat /\ m < 256 /\ n \in Nat /\ n < 256 /\ a \in Nat /\ a < 128 /\ l \in {0, 1}
      /\ cap.max = 100 * m /\ cap.min = 100 * n /\ cap.amps = 5 * a /\ (cap.limited <=> l = 1)
  BY SMT DEF Representable, Carries
<1>2. Fields(cap) = 134217728 * l + 131072 * m + 256 * n + a /\ TypeField(cap) = 3
  BY <1>1, SMT DEF Fields, TypeField
<1> HIDE DEF l, m, n, a
<1>3. Low30(w) = 134217728 * l + 131072 * m + 256 * n + a /\ Type(w) = 3
  <2>1. 134217728 * l + 131072 * m + 256 * n + a \in Nat /\ 134217728 * l + 131072 * m + 256 * n + a < 1073741824
    BY <1>1, SMT
  <2> QED
    BY <1>2, <2>1, Unpacked, SMT DEF Word
<1>4. /\ Bits(w, 131072, 256) = m /\ Bits(w, 256, 256) = n /\ Bits(w, 1, 128) = a
      /\ Bits(w, 134217728, 2) = l /\ Bits(w, 268435456, 4) = 0
  BY <1>1, <1>3, SMT DEF Bits
<1> HIDE DEF w
<1>5. DecodePDO(w) = DecodePPS(w)
  BY <1>3, <1>4, SMT DEF DecodePDO, DecodeAugmented
<1> DEFINE p == DecodePPS(w)
           on == l = 1
           ok == 100 * n > 0 /\ 100 * m >= 100 * n /\ 5 * a > 0
<1>6. DOMAIN p = DOMAIN Blank
  BY SMT DEF DecodePPS
<1>7. /\ p.kind = "pps" /\ p.budget = 0
      /\ p.min = 100 * n /\ p.max = 100 * m /\ p.amps = 5 * a /\ p.low = 0 /\ p.high = 0 /\ p.watts = 0
      /\ p.limited = on /\ p.valid = ok
  BY <1>1, <1>4, SMT DEF DecodePPS, Blank, RangeOK
<1>8. ok <=> cap.min > 0 /\ cap.max >= cap.min /\ cap.amps > 0
  BY <1>1, SMT
<1>9. on <=> cap.limited
  BY <1>1, SMT
<1> HIDE DEF p, ok, on
<1>10. (p.valid <=> ok) /\ (p.limited <=> on)
  BY <1>7
<1>11. IsObject(p)
  BY <1>1, <1>7, <1>6, SMT DEF IsObject
<1>12. Shows(p, cap)
  BY <1>1, <1>7, <1>11, <1>8, <1>10, <1>9, SMT DEF Shows
<1> QED
  BY <1>5, <1>7, <1>12 DEF p, w

\* an adjustable one of the extended range,
LEMMA EPRAVSDecoded ==
  ASSUME NEW cap, cap.kind = "eprAVS", Representable(cap)
  PROVE  Shows(DecodePDO(Word(cap)), cap) /\ DecodePDO(Word(cap)).budget = 0
<1> DEFINE w == Word(cap)
           m == cap.max \div 100
           n == cap.min \div 100
           a == cap.watts
<1>1. /\ m \in Nat /\ m < 512 /\ n \in Nat /\ n < 256 /\ a \in Nat /\ a < 256
      /\ cap.max = 100 * m /\ cap.min = 100 * n /\ cap.watts = a
  BY SMT DEF Representable, Carries
<1>2. Fields(cap) = 268435456 + 131072 * m + 256 * n + a /\ TypeField(cap) = 3
  BY <1>1, SMT DEF Fields, TypeField
<1> HIDE DEF m, n, a
<1>3. Low30(w) = 268435456 + 131072 * m + 256 * n + a /\ Type(w) = 3
  <2>1. 268435456 + 131072 * m + 256 * n + a \in Nat /\ 268435456 + 131072 * m + 256 * n + a < 1073741824
    BY <1>1, SMT
  <2> QED
    BY <1>2, <2>1, Unpacked, SMT DEF Word
<1>4. /\ Bits(w, 131072, 512) = m /\ Bits(w, 256, 256) = n /\ Bits(w, 1, 256) = a
      /\ Bits(w, 268435456, 4) = 1
  BY <1>1, <1>3, SMT DEF Bits
<1> HIDE DEF w
<1>5. DecodePDO(w) = DecodeEPRAVS(w)
  BY <1>3, <1>4, SMT DEF DecodePDO, DecodeAugmented
<1> DEFINE p == DecodeEPRAVS(w)
           ok == 100 * n > 0 /\ 100 * m >= 100 * n /\ a > 0
<1>6. DOMAIN p = DOMAIN Blank
  BY SMT DEF DecodeEPRAVS
<1>7. /\ p.kind = "eprAVS" /\ p.budget = 0
      /\ p.min = 100 * n /\ p.max = 100 * m /\ p.watts = a /\ p.low = 0 /\ p.high = 0 /\ p.amps = 0
      /\ p.valid = ok
  BY <1>1, <1>4, SMT DEF DecodeEPRAVS, Blank, RangeOK
<1>8. ok <=> cap.min > 0 /\ cap.max >= cap.min /\ cap.watts > 0
  BY <1>1, SMT
<1> HIDE DEF p, ok
<1>9. p.valid <=> ok
  BY <1>7
<1>10. IsObject(p)
  BY <1>1, <1>7, <1>6, SMT DEF IsObject
<1>11. Shows(p, cap)
  BY <1>1, <1>7, <1>10, <1>8, <1>9, SMT DEF Shows
<1> QED
  BY <1>5, <1>7, <1>11 DEF p, w

\* and one of the standard range.
LEMMA SPRAVSDecoded ==
  ASSUME NEW cap, cap.kind = "sprAVS", Representable(cap)
  PROVE  Shows(DecodePDO(Word(cap)), cap) /\ DecodePDO(Word(cap)).budget = 0
<1> DEFINE w == Word(cap)
           h == cap.high
           a == cap.low
<1>1. h \in Nat /\ h < 1024 /\ a \in Nat /\ a < 1024 /\ cap.high = h /\ cap.low = a
  BY SMT DEF Representable, Carries
<1>2. Fields(cap) = 2 * 268435456 + 1024 * h + a /\ TypeField(cap) = 3
  BY <1>1, SMT DEF Fields, TypeField
<1> HIDE DEF h, a
<1>3. Low30(w) = 2 * 268435456 + 1024 * h + a /\ Type(w) = 3
  <2>1. 2 * 268435456 + 1024 * h + a \in Nat /\ 2 * 268435456 + 1024 * h + a < 1073741824
    BY <1>1, SMT
  <2> QED
    BY <1>2, <2>1, Unpacked, SMT DEF Word
<1>4. Bits(w, 1024, 1024) = h /\ Bits(w, 1, 1024) = a /\ Bits(w, 268435456, 4) = 2
  BY <1>1, <1>3, SMT DEF Bits
<1> HIDE DEF w
<1>5. DecodePDO(w) = DecodeSPRAVS(w)
  BY <1>3, <1>4, SMT DEF DecodePDO, DecodeAugmented
<1> DEFINE p == DecodeSPRAVS(w)
           ok == a > 0 \/ h > 0
<1>6. DOMAIN p = DOMAIN Blank
  BY SMT DEF DecodeSPRAVS
<1>7. /\ p.kind = "sprAVS" /\ p.budget = 0
      /\ p.min = 0 /\ p.max = 0 /\ p.amps = 0 /\ p.low = a /\ p.high = h /\ p.watts = 0
      /\ p.valid = ok
  BY <1>1, <1>4, SMT DEF DecodeSPRAVS, Blank, RangeOK
<1>8. ok <=> cap.low > 0 \/ cap.high > 0
  BY <1>1, SMT
<1> HIDE DEF p, ok
<1>9. p.valid <=> ok
  BY <1>7
<1>10. IsObject(p)
  BY <1>1, <1>7, <1>6, SMT DEF IsObject
<1>11. Shows(p, cap)
  BY <1>1, <1>7, <1>10, <1>8, <1>9, SMT DEF Shows
<1> QED
  BY <1>5, <1>7, <1>11 DEF p, w

\* All of them: the fields come back, and nothing is said of a limit yet.
LEMMA Decoded ==
  ASSUME NEW cap, Representable(cap)
  PROVE  /\ Shows(DecodePDO(Word(cap)), cap) /\ DecodePDO(Word(cap)).budget = 0
         /\ cap.kind \in {"fixed", "battery", "variable", "pps", "eprAVS", "sprAVS"}
<1>1. cap.kind \in {"fixed", "battery", "variable", "pps", "eprAVS", "sprAVS"}
  BY SMT DEF Representable
<1>2. CASE cap.kind = "fixed"
  BY <1>1, <1>2, FixedDecoded
<1>3. CASE cap.kind \in {"battery", "variable"}
  BY <1>1, <1>3, RangeDecoded
<1>4. CASE cap.kind = "pps"
  BY <1>1, <1>4, PPSDecoded
<1>5. CASE cap.kind = "eprAVS"
  BY <1>1, <1>5, EPRAVSDecoded
<1>6. CASE cap.kind = "sprAVS"
  BY <1>1, <1>6, SPRAVSDecoded
<1> QED
  BY <1>1, <1>2, <1>3, <1>4, <1>5, <1>6

\* An empty slot would be decoded as an object that is not valid.
LEMMA NothingDecoded == DecodePDO(<<0, 0, 0, 0>>).kind = "fixed" /\ ~DecodePDO(<<0, 0, 0, 0>>).valid
<1> DEFINE w == <<0, 0, 0, 0>>
<1>1. w[1] = 0 /\ w[2] = 0 /\ w[3] = 0 /\ w[4] = 0
  OBVIOUS
<1> HIDE DEF w
<1>2. Low30(w) = 0 /\ Type(w) = 0
  BY <1>1, SMT DEF Low30, Type
<1>3. DecodePDO(w) = DecodeFixed(w) /\ Bits(w, 1024, 1024) = 0
  BY <1>2, SMT DEF DecodePDO, Bits
<1> DEFINE ok == 0 >= 5000 /\ Bits(w, 1, 1024) > 0
<1>4. DecodeFixed(w).kind = "fixed" /\ DecodeFixed(w).valid = ok
  BY <1>3, SMT DEF DecodeFixed, Blank
<1>5. ~ok
  BY SMT
<1> HIDE DEF ok
<1>6. ~DecodeFixed(w).valid
  BY <1>4, <1>5
<1>7. DecodePDO(w).kind = "fixed" /\ ~DecodePDO(w).valid
  BY <1>3, <1>4, <1>6
<1> QED
  BY <1>7 DEF w

\* A limit that is told changes nothing else.
LEMMA Limited ==
  ASSUME NEW p, NEW cap, Shows(p, cap), NEW b \in Nat
  PROVE  LET q == [p EXCEPT !.budget = b] IN Shows(q, cap) /\ q.budget = b
<1> DEFINE q == [p EXCEPT !.budget = b]
<1>1. /\ DOMAIN p = {"kind", "valid", "epr", "min", "max", "amps", "low", "high", "watts", "limited", "budget"}
      /\ IsObject(p)
  BY SMT DEF Shows, IsObject, Blank
<1>2. /\ q.budget = b /\ q.kind = p.kind /\ q.valid = p.valid /\ q.min = p.min /\ q.max = p.max
      /\ q.amps = p.amps /\ q.low = p.low /\ q.high = p.high /\ q.watts = p.watts /\ q.limited = p.limited
      /\ DOMAIN q = DOMAIN p
  BY <1>1, SMT
<1> HIDE DEF q
<1>3. IsObject(q)
  BY <1>1, <1>2, SMT DEF IsObject
<1>4. Shows(q, cap)
  BY <1>2, <1>3, SMT DEF Shows
<1> QED
  BY <1>2, <1>4 DEF q

-----------------------------------------------------------------------------
(* What an object supplies *)

\* A set of naturals has a smallest member,
LEMMA SmallestOf ==
  ASSUME NEW S \in SUBSET Nat, S # {}
  PROVE  \E x \in S : \A y \in S : x <= y
<1> DEFINE R == OpToRel(<, Nat)
<1>1. IsWellFoundedOn(R, Nat)
  BY NatLessThanWellFounded
<1>2. \A x, y \in Nat : <<x, y>> \in R <=> x < y
  BY DEF OpToRel
<1> HIDE DEF R
<1>3. PICK x \in S : \A y \in S : ~(<<y, x>> \in R)
  BY <1>1, WFMin
<1>4. \A y \in S : x \in Nat /\ y \in Nat /\ ~(y < x)
  BY <1>2, <1>3
<1> QED
  BY <1>3, <1>4

\* and a bounded function takes a largest value.
LEMMA LargestOf ==
  ASSUME NEW F, F # {}, NEW B \in Nat, NEW a \in [F -> 0 .. B]
  PROVE  \E n \in F : \A m \in F : a[m] <= a[n]
<1> DEFINE S == {B - a[n] : n \in F}
<1>1. S \in SUBSET Nat /\ S # {}
  <2>1. \A n \in F : a[n] \in 0 .. B
    OBVIOUS
  <2>2. \A n \in F : B - a[n] \in Nat
    BY <2>1
  <2> QED
    BY <2>2
<1>2. PICK x \in S : \A y \in S : x <= y
  BY <1>1, SmallestOf
<1>3. PICK n \in F : x = B - a[n]
  BY <1>2
<1>4. \A m \in F : a[m] <= a[n]
  <2>1. \A m \in F : B - a[n] <= B - a[m]
    BY <1>2, <1>3
  <2>2. \A m \in F : a[m] \in 0 .. B
    OBVIOUS
  <2> QED
    BY <2>1, <2>2
<1> QED
  BY <1>4

\* What Min picks.
LEMMA MinIs ==
  ASSUME NEW S \in SUBSET Nat, S # {}
  PROVE  Min(S) \in S /\ \A y \in S : Min(S) <= y
BY SmallestOf DEF Min

\* More power is more current.
LEMMA PowerGrows ==
  ASSUME NEW a \in Nat, NEW b \in Nat, a <= b, NEW v \in Nat \ {0}
  PROVE  OfPower(a, v) \in Nat /\ OfPower(b, v) \in Nat /\ OfPower(a, v) <= OfPower(b, v)
<1> DEFINE x == a * 100000
           y == b * 100000
<1>1. x \in Nat /\ y \in Nat /\ x <= y
  BY SMT
<1> HIDE DEF x, y
<1>2. x \div v \in Nat /\ y \div v \in Nat /\ x \div v <= y \div v
  BY <1>1, SMT
<1> QED
  BY <1>2 DEF OfPower, x, y

\* A watt is some current at every voltage a range can reach.
LEMMA AWattIsSome ==
  ASSUME NEW b \in Nat, b > 0, NEW v \in Nat \ {0}, v <= 100000
  PROVE  OfPower(b, v) > 0
<1> DEFINE y == b * 100000
<1>1. y \in Nat /\ v <= y
  BY SMT
<1> HIDE DEF y
<1>2. y \div v > 0
  BY <1>1, SMT
<1> QED
  BY <1>2 DEF OfPower, y

\* The constants, as far as they matter here.
LEMMA Thresholds ==
  /\ MaxCableCurrent \in Nat /\ MaxCableCurrent > 0 /\ EPRThreshold \in Nat
  /\ SPRAVSMin \in Nat /\ SPRAVSSplit \in Nat /\ SPRAVSMax \in Nat
  /\ 0 < SPRAVSMin /\ SPRAVSMin <= SPRAVSSplit /\ SPRAVSSplit <= SPRAVSMax /\ SPRAVSMax <= EPRThreshold
BY SMT DEF MaxCableCurrent, EPRThreshold, SPRAVSMin, SPRAVSSplit, SPRAVSMax

\* The classes Evaluate knows how to use, and what their fields hold.
Usable == {"fixed", "pps", "eprAVS", "sprAVS"}
Amount(cap) ==
  /\ cap.kind \in {"fixed", "pps"} => cap.amps \in Nat /\ cap.max \in Nat
  /\ cap.kind \in {"pps", "eprAVS"} => cap.min \in Nat /\ cap.max \in Nat /\ cap.max <= 100000
  /\ cap.kind = "eprAVS" => cap.watts \in Nat
  /\ cap.kind = "sprAVS" => cap.low \in Nat /\ cap.high \in Nat
\* An object that its word can carry has such fields.
LEMMA Amounts ==
  ASSUME NEW cap, Representable(cap)
  PROVE  Amount(cap)
<1>1. CASE cap.kind = "fixed"
  BY <1>1, SMT DEF Representable, Carries, Amount
<1>2. CASE cap.kind = "pps"
  BY <1>2, SMT DEF Representable, Carries, Amount
<1>3. CASE cap.kind = "eprAVS"
  BY <1>3, SMT DEF Representable, Carries, Amount
<1>4. CASE cap.kind = "sprAVS"
  BY <1>4, SMT DEF Representable, Carries, Amount
<1> QED
  BY <1>1, <1>2, <1>3, <1>4, SMT DEF Amount

\* The lesser of two.
LEMMA MinOfTwo ==
  ASSUME NEW a \in Nat, NEW b \in Nat
  PROVE  Min({a, b}) = IF a <= b THEN a ELSE b
<1>1. CASE a <= b
  <2>1. \A y \in {a, b} : a <= y
    BY <1>1, SMT
  <2>2. \A x \in {a, b} : (\A y \in {a, b} : x <= y) => x = a
    BY <1>1, SMT
  <2> QED
    BY <1>1, <2>1, <2>2 DEF Min
<1>2. CASE ~(a <= b)
  <2>1. \A y \in {a, b} : b <= y
    BY <1>2, SMT
  <2>2. \A x \in {a, b} : (\A y \in {a, b} : x <= y) => x = b
    BY <1>2, SMT
  <2> QED
    BY <1>2, <2>1, <2>2 DEF Min
<1> QED
  BY <1>1, <1>2

\* What is in force where an object of the log stands for an object on the wire.
Stands(p, cap, s, v) ==
  /\ Representable(cap) /\ Shows(p, cap) /\ s.pdp \in Nat /\ p.budget <= s.pdp
  /\ v \in Nat \ {0}

\* What is supplied is on offer, except where a limit is not told.
LEMMA SuppliedIsOffered ==
  ASSUME NEW p, NEW cap, NEW s, NEW v, Stands(p, cap, s, v),
         cap.kind \in Usable, p.valid, Covers(p, v)
  PROVE  CurrentAt(p, v) <= Offers(cap, s, v) \/ (p.kind = "pps" /\ p.limited /\ p.budget = 0)
<1>1. /\ IsObject(p) /\ Shows(p, cap) /\ p.kind = cap.kind /\ s.pdp \in Nat /\ p.budget \in Nat
      /\ p.budget <= s.pdp /\ v \in Nat \ {0} /\ Amount(cap)
  BY Amounts DEF Stands, Shows, IsObject
<1>2. \A a \in Nat : BoundCurrent(a) \in Nat /\ BoundCurrent(a) <= a
  BY Thresholds, SMT DEF BoundCurrent
<1>3. CASE cap.kind = "fixed"
  <2>1. v = cap.max /\ v >= 5000 /\ cap.amps \in Nat /\ p.amps = cap.amps
    BY <1>1, <1>3, SMT DEF Shows, Covers, Amount
  <2>2. Offers(cap, s, v) = cap.amps
    BY <1>3, <2>1, SMT DEF Offers
  <2>3. CurrentAt(p, v) = BoundCurrent(p.amps)
    BY <1>1, <1>3, SMT DEF CurrentAt, DeclaredAt
  <2> QED
    BY <1>2, <2>1, <2>2, <2>3
<1>4. CASE cap.kind = "eprAVS"
  <2>1. cap.min > 0 /\ cap.min <= v /\ v <= cap.max /\ cap.watts \in Nat /\ p.watts = cap.watts
    BY <1>1, <1>4, SMT DEF Shows, Covers, Amount
  <2>2. Offers(cap, s, v) = OfPower(cap.watts, v)
    BY <1>4, <2>1, SMT DEF Offers, OfPower
  <2>3. CurrentAt(p, v) = BoundCurrent(OfPower(p.watts, v))
    BY <1>1, <1>4, SMT DEF CurrentAt, DeclaredAt
  <2>4. OfPower(cap.watts, v) \in Nat
    BY <1>1, <2>1, PowerGrows
  <2> QED
    BY <1>2, <2>1, <2>2, <2>3, <2>4
<1>5. CASE cap.kind = "sprAVS"
  <2>1. SPRAVSMin <= v /\ v <= SPRAVSMax /\ cap.low \in Nat /\ cap.high \in Nat /\ p.low = cap.low /\ p.high = cap.high
    BY <1>1, <1>5, SMT DEF Shows, Covers, Amount
  <2>2. CASE v <= SPRAVSSplit
    <3>1. v \in SPRAVSMin .. SPRAVSSplit /\ v \notin SPRAVSSplit + 1 .. SPRAVSMax /\ ~(v > SPRAVSSplit)
      BY <1>1, <2>1, <2>2, Thresholds, SMT
    <3>2. Offers(cap, s, v) = cap.low
      BY <1>5, <3>1, SMT DEF Offers
    <3>3. CurrentAt(p, v) = BoundCurrent(p.low)
      BY <1>1, <1>5, <3>1, SMT DEF CurrentAt, DeclaredAt
    <3> QED
      BY <1>2, <2>1, <3>2, <3>3
  <2>3. CASE ~(v <= SPRAVSSplit)
    <3>1. v \notin SPRAVSMin .. SPRAVSSplit /\ v \in SPRAVSSplit + 1 .. SPRAVSMax /\ v > SPRAVSSplit
      BY <1>1, <2>1, <2>3, Thresholds, SMT
    <3>2. Offers(cap, s, v) = cap.high
      BY <1>5, <3>1, SMT DEF Offers
    <3>3. CurrentAt(p, v) = BoundCurrent(p.high)
      BY <1>1, <1>5, <3>1, SMT DEF CurrentAt, DeclaredAt
    <3> QED
      BY <1>2, <2>1, <3>2, <3>3
  <2> QED
    BY <2>2, <2>3
<1>6. CASE cap.kind = "pps"
  <2>1. /\ cap.min > 0 /\ cap.min <= v /\ v <= cap.max /\ cap.amps \in Nat /\ p.amps = cap.amps
        /\ (p.limited <=> cap.limited)
    BY <1>1, <1>6, SMT DEF Shows, Covers, Amount
  <2>2. DeclaredAt(p, v) = cap.amps
    BY <1>1, <1>6, <2>1, SMT DEF DeclaredAt
  <2>3. CASE ~cap.limited
    <3>1. Offers(cap, s, v) = cap.amps
      BY <1>6, <2>1, <2>3, SMT DEF Offers
    <3>2. CurrentAt(p, v) = BoundCurrent(cap.amps)
      BY <2>1, <2>2, <2>3, SMT DEF CurrentAt
    <3> QED
      BY <1>2, <2>1, <3>1, <3>2
  <2>4. CASE cap.limited /\ p.budget > 0
    <3>1. Offers(cap, s, v) = Min({cap.amps, OfPower(s.pdp, v)})
      BY <1>6, <2>1, <2>4, SMT DEF Offers, OfPower
    <3>2. CurrentAt(p, v) = Min({BoundCurrent(cap.amps), OfPower(p.budget, v)})
      BY <1>1, <1>6, <2>1, <2>2, <2>4, SMT DEF CurrentAt
    <3>3. OfPower(s.pdp, v) \in Nat /\ OfPower(p.budget, v) \in Nat /\ OfPower(p.budget, v) <= OfPower(s.pdp, v)
      BY <1>1, PowerGrows
    <3>4. BoundCurrent(cap.amps) \in Nat /\ BoundCurrent(cap.amps) <= cap.amps
      BY <1>2, <2>1
    <3> QED
      BY <2>1, <3>1, <3>2, <3>3, <3>4, MinOfTwo
  <2>5. CASE cap.limited /\ ~(p.budget > 0)
    BY <1>1, <1>6, <2>1, <2>5
  <2> QED
    BY <2>3, <2>4, <2>5
<1> QED
  BY <1>3, <1>4, <1>5, <1>6 DEF Usable

\* And what is on offer is supplied, as far as a cable carries it.
LEMMA OfferedIsSupplied ==
  ASSUME NEW p, NEW cap, NEW s, NEW v, Stands(p, cap, s, v)
  PROVE  /\ Offers(cap, s, v) \in Nat
         /\ Offers(cap, s, v) > 0 =>
              /\ cap.kind \in Usable /\ p.valid /\ Covers(p, v) /\ CurrentAt(p, v) > 0
              /\ CurrentAt(p, v) = BoundCurrent(Offers(cap, s, v)) \/ (cap.kind = "pps" /\ cap.limited)
<1>1. /\ IsObject(p) /\ Shows(p, cap) /\ p.kind = cap.kind /\ s.pdp \in Nat /\ p.budget \in Nat
      /\ v \in Nat \ {0} /\ Amount(cap)
  BY Amounts DEF Stands, Shows, IsObject
<1>2. \A a \in Nat : a > 0 => BoundCurrent(a) > 0
  BY Thresholds, SMT DEF BoundCurrent
<1>3. CASE cap.kind = "fixed"
  <2>1. cap.amps \in Nat /\ p.amps = cap.amps
    BY <1>1, <1>3, SMT DEF Shows, Amount
  <2>2. Offers(cap, s, v) = IF v = cap.max /\ v >= 5000 THEN cap.amps ELSE 0
    BY <1>3, SMT DEF Offers
  <2>3. CurrentAt(p, v) = BoundCurrent(cap.amps)
    BY <1>1, <1>3, <2>1, SMT DEF CurrentAt, DeclaredAt
  <2>4. ASSUME Offers(cap, s, v) > 0 PROVE v = cap.max /\ v >= 5000 /\ cap.amps > 0
    BY <2>2, <2>4, SMT
  <2>5. ASSUME Offers(cap, s, v) > 0 PROVE p.valid /\ Covers(p, v)
    BY <1>1, <1>3, <2>1, <2>4, <2>5, SMT DEF Shows, Covers
  <2> QED
    BY <1>2, <1>3, <2>1, <2>2, <2>3, <2>4, <2>5 DEF Usable
<1>4. CASE cap.kind = "eprAVS"
  <2>1. cap.watts \in Nat /\ p.watts = cap.watts /\ cap.min \in Nat /\ cap.max \in Nat
    BY <1>1, <1>4, SMT DEF Shows, Amount
  <2> DEFINE inside == cap.min > 0 /\ cap.min <= v /\ v <= cap.max
  <2>2. Offers(cap, s, v) = IF inside THEN OfPower(cap.watts, v) ELSE 0
    BY <1>4, SMT DEF Offers, OfPower
  <2>3. CurrentAt(p, v) = BoundCurrent(OfPower(cap.watts, v))
    BY <1>1, <1>4, <2>1, SMT DEF CurrentAt, DeclaredAt
  <2>4. OfPower(cap.watts, v) \in Nat
    BY <1>1, <2>1, PowerGrows
  <2>5. ASSUME Offers(cap, s, v) > 0 PROVE inside /\ cap.watts > 0
    <3>1. cap.watts = 0 => OfPower(cap.watts, v) = 0
      BY <1>1, SMT DEF OfPower
    <3> QED
      BY <2>1, <2>2, <2>5, <3>1, SMT
  <2>6. ASSUME Offers(cap, s, v) > 0 PROVE p.valid /\ Covers(p, v)
    BY <1>1, <1>4, <2>1, <2>5, <2>6, SMT DEF Shows, Covers
  <2> HIDE DEF inside
  <2> QED
    BY <1>2, <1>4, <2>2, <2>3, <2>4, <2>5, <2>6 DEF Usable
<1>5. CASE cap.kind = "sprAVS"
  <2>1. cap.low \in Nat /\ cap.high \in Nat /\ p.low = cap.low /\ p.high = cap.high
        /\ (p.valid <=> cap.low > 0 \/ cap.high > 0)
    BY <1>1, <1>5, SMT DEF Shows, Amount
  <2>2. CASE v \in SPRAVSMin .. SPRAVSSplit
    <3>1. v \notin SPRAVSSplit + 1 .. SPRAVSMax /\ ~(v > SPRAVSSplit) /\ SPRAVSMin <= v /\ v <= SPRAVSMax
      BY <1>1, <2>2, Thresholds, SMT
    <3>2. Offers(cap, s, v) = cap.low
      BY <1>5, <2>2, <3>1, SMT DEF Offers
    <3>3. CurrentAt(p, v) = BoundCurrent(p.low)
      BY <1>1, <1>5, <3>1, SMT DEF CurrentAt, DeclaredAt
    <3>4. Covers(p, v)
      BY <1>1, <1>5, <3>1, SMT DEF Covers
    <3> QED
      BY <1>2, <1>5, <2>1, <3>2, <3>3, <3>4 DEF Usable
  <2>3. CASE v \in SPRAVSSplit + 1 .. SPRAVSMax
    <3>1. v \notin SPRAVSMin .. SPRAVSSplit /\ v > SPRAVSSplit /\ SPRAVSMin <= v /\ v <= SPRAVSMax
      BY <1>1, <2>3, Thresholds, SMT
    <3>2. Offers(cap, s, v) = cap.high
      BY <1>5, <2>3, <3>1, SMT DEF Offers
    <3>3. CurrentAt(p, v) = BoundCurrent(p.high)
      BY <1>1, <1>5, <3>1, SMT DEF CurrentAt, DeclaredAt
    <3>4. Covers(p, v)
      BY <1>1, <1>5, <3>1, SMT DEF Covers
    <3> QED
      BY <1>2, <1>5, <2>1, <3>2, <3>3, <3>4 DEF Usable
  <2>4. CASE v \notin SPRAVSMin .. SPRAVSSplit /\ v \notin SPRAVSSplit + 1 .. SPRAVSMax
    <3>1. Offers(cap, s, v) = 0
      BY <1>5, <2>4, SMT DEF Offers
    <3> QED
      BY <3>1
  <2> QED
    BY <2>2, <2>3, <2>4
<1>6. CASE cap.kind = "pps"
  <2>1. /\ cap.min \in Nat /\ cap.max \in Nat /\ cap.max <= 100000 /\ cap.amps \in Nat /\ p.amps = cap.amps
        /\ (p.limited <=> cap.limited)
    BY <1>1, <1>6, SMT DEF Shows, Amount
  <2> DEFINE inside == cap.min > 0 /\ cap.min <= v /\ v <= cap.max
  <2>2. ASSUME inside, cap.amps > 0 PROVE p.valid /\ Covers(p, v) /\ v <= 100000
    BY <1>1, <1>6, <2>1, <2>2, SMT DEF Shows, Covers
  <2>3. DeclaredAt(p, v) = cap.amps
    BY <1>1, <1>6, <2>1, SMT DEF DeclaredAt
  <2>4. CASE ~inside
    <3>1. Offers(cap, s, v) = 0
      BY <1>6, <2>4, SMT DEF Offers
    <3> QED
      BY <3>1
  <2>5. CASE inside /\ ~cap.limited
    <3>1. Offers(cap, s, v) = cap.amps
      BY <1>6, <2>5, SMT DEF Offers
    <3>2. CurrentAt(p, v) = BoundCurrent(cap.amps)
      BY <2>1, <2>3, <2>5, SMT DEF CurrentAt
    <3> HIDE DEF inside
    <3> QED
      BY <1>2, <1>6, <2>1, <2>2, <2>5, <3>1, <3>2 DEF Usable
  <2>6. CASE inside /\ cap.limited
    <3>1. Offers(cap, s, v) = Min({cap.amps, OfPower(s.pdp, v)})
      BY <1>6, <2>6, SMT DEF Offers, OfPower
    <3>2. OfPower(s.pdp, v) \in Nat
      BY <1>1, PowerGrows
    <3>3. Offers(cap, s, v) \in Nat /\ (Offers(cap, s, v) > 0 => cap.amps > 0)
      BY <2>1, <3>1, <3>2, MinOfTwo
    <3>4. ASSUME cap.amps > 0 PROVE CurrentAt(p, v) > 0
      <4>1. BoundCurrent(cap.amps) > 0 /\ BoundCurrent(cap.amps) \in Nat
        BY <1>2, <2>1, <3>4, Thresholds, SMT DEF BoundCurrent
      <4>2. CASE p.budget > 0
        <5>1. CurrentAt(p, v) = Min({BoundCurrent(cap.amps), OfPower(p.budget, v)})
          BY <1>1, <1>6, <2>1, <2>3, <2>6, <4>2, SMT DEF CurrentAt
        <5>2. OfPower(p.budget, v) > 0
          BY <1>1, <2>2, <2>6, <3>4, <4>2, AWattIsSome
        <5>3. OfPower(p.budget, v) \in Nat
          BY <1>1, PowerGrows
        <5> QED
          BY <4>1, <5>1, <5>2, <5>3, MinOfTwo
      <4>3. CASE ~(p.budget > 0)
        <5>1. CurrentAt(p, v) = BoundCurrent(cap.amps)
          BY <2>3, <4>3, SMT DEF CurrentAt
        <5> QED
          BY <4>1, <5>1
      <4> QED
        BY <4>2, <4>3
    <3> HIDE DEF inside
    <3> QED
      BY <1>6, <2>2, <2>6, <3>3, <3>4 DEF Usable
  <2> HIDE DEF inside
  <2> QED
    BY <2>4, <2>5, <2>6
<1>7. CASE cap.kind \notin Usable
  <2>1. Offers(cap, s, v) = 0
    BY <1>7, SMT DEF Offers, Usable
  <2> QED
    BY <2>1
<1> QED
  BY <1>3, <1>4, <1>5, <1>6, <1>7 DEF Usable

\* At no voltage at all nothing is on offer.
LEMMA NothingBelow ==
  ASSUME NEW cap, Representable(cap), NEW s, NEW v \in Int, v <= 0
  PROVE  Offers(cap, s, v) = 0
<1>1. v \notin SPRAVSMin .. SPRAVSSplit /\ v \notin SPRAVSSplit + 1 .. SPRAVSMax /\ ~(v >= 5000)
  BY Thresholds, SMT
<1>2. ~(cap.kind \in {"pps", "eprAVS"} /\ cap.min > 0 /\ cap.min <= v)
  BY Amounts, SMT DEF Amount
<1> QED
  BY <1>1, <1>2, SMT DEF Offers

\* No object is credited with more than a cable carries.
LEMMA CurrentBounded ==
  ASSUME NEW p, IsObject(p), NEW v \in Nat \ {0}
  PROVE  CurrentAt(p, v) \in 0 .. MaxCableCurrent
<1>1. DeclaredAt(p, v) \in Nat
  BY PowerGrows DEF DeclaredAt, IsObject
<1>2. BoundCurrent(DeclaredAt(p, v)) \in 0 .. MaxCableCurrent
  BY <1>1 DEF BoundCurrent, MaxCableCurrent
<1>3. CASE p.kind = "pps" /\ p.limited /\ p.budget > 0
  <2>1. OfPower(p.budget, v) \in Nat
    BY PowerGrows DEF IsObject
  <2>2. CurrentAt(p, v) = Min({BoundCurrent(DeclaredAt(p, v)), OfPower(p.budget, v)})
    BY <1>3 DEF CurrentAt
  <2> DEFINE a == BoundCurrent(DeclaredAt(p, v))
             b == OfPower(p.budget, v)
  <2>3. {a, b} \in SUBSET Nat /\ {a, b} # {}
    BY <1>2, <2>1 DEF MaxCableCurrent
  <2>4. Min({a, b}) \in {a, b} /\ Min({a, b}) <= a
    BY <2>3, MinIs
  <2> QED
    BY <1>2, <2>1, <2>2, <2>4 DEF MaxCableCurrent
<1>4. CASE ~(p.kind = "pps" /\ p.limited /\ p.budget > 0)
  BY <1>2, <1>4 DEF CurrentAt
<1> QED
  BY <1>3, <1>4

-----------------------------------------------------------------------------
(* What Evaluate makes of a log *)

\* A log that can be looked at.
Readable(l) == DOMAIN l.objects \in SUBSET Nat /\ \A n \in DOMAIN l.objects : IsObject(l.objects[n])

\* The object looked up, and the objects it was chosen from.
Fits(l, k, v) ==
  {n \in DOMAIN l.objects :
     l.objects[n].kind = k /\ l.objects[n].valid /\ Covers(l.objects[n], v)}

\* An object that is not there supplies nothing.
LEMMA BlankCurrent ==
  ASSUME NEW v \in Nat \ {0}
  PROVE  CurrentAt(Blank, v) = 0
BY DEF CurrentAt, DeclaredAt, BoundCurrent, Blank, MaxCableCurrent

\* What is looked up fits and supplies the most of what does, or nothing fits.
LEMMA BestIs ==
  ASSUME NEW l, Readable(l), NEW k, NEW v \in Nat \ {0}
  PROVE  /\ Best(l, k, v) = Blank \/ \E n \in Fits(l, k, v) : Best(l, k, v) = l.objects[n]
         /\ \A n \in Fits(l, k, v) : CurrentAt(l.objects[n], v) <= CurrentAt(Best(l, k, v), v)
         /\ CurrentAt(Best(l, k, v), v) \in 0 .. MaxCableCurrent
<1> DEFINE F == Fits(l, k, v)
           A(n) == CurrentAt(l.objects[n], v)
           M == {n \in F : \A m \in F : A(m) <= A(n)}
<1>1. F \in SUBSET Nat /\ \A n \in F : IsObject(l.objects[n])
  BY DEF Fits, Readable
<1>2. \A n \in F : A(n) \in 0 .. MaxCableCurrent
  BY <1>1, CurrentBounded
<1>3. Best(l, k, v) = IF M = {} THEN Blank ELSE l.objects[Min(M)]
  BY DEF Best, Fits
<1>4. M # {} => Min(M) \in M
  BY <1>1, MinIs
<1> HIDE DEF F, A
<1>5. F # {} => M # {}
  <2> DEFINE a == [n \in F |-> A(n)]
  <2>1. a \in [F -> 0 .. MaxCableCurrent]
    BY <1>2
  <2>2. \A n \in F : a[n] = A(n)
    OBVIOUS
  <2>3. MaxCableCurrent \in Nat
    BY DEF MaxCableCurrent
  <2> HIDE DEF a
  <2>4. F # {} => \E n \in F : \A m \in F : a[m] <= a[n]
    BY <2>1, <2>3, LargestOf
  <2> QED
    BY <2>2, <2>4
<1>6. CASE M = {}
  BY <1>3, <1>5, <1>6, BlankCurrent DEF MaxCableCurrent, F, A
<1>7. CASE M # {}
  <2>1. Best(l, k, v) = l.objects[Min(M)] /\ Min(M) \in F /\ \A m \in F : A(m) <= A(Min(M))
    BY <1>3, <1>4, <1>7
  <2> QED
    BY <1>2, <2>1 DEF F, A
<1> QED
  BY <1>6, <1>7
\* The end of the sequences that picking makes.
LEMMA LastIs ==
  /\ \A a : Last(<<a>>) = a /\ <<a>> # <<>>
  /\ \A a, b : Last(<<a, b>>) = b /\ <<a, b>> # <<>>
BY DEF Last

\* The end of a sequence that is added to.
LEMMA LastAppended ==
  ASSUME NEW S, NEW s \in Seq(S), NEW a \in S
  PROVE  Last(Append(s, a)) = a /\ Append(s, a) # <<>> /\ Append(s, a) \in Seq(S)
BY AppendProperties DEF Last

\* What a sequence of picks comes to: nothing where nothing is supplied, and else
\* its last object, which is short only where x, y and z are no better.
Settled(s, S, v, i, few) ==
  /\ s \in Seq(S)
  /\ s = <<>> => \A p \in S : CurrentAt(p, v) = 0
  /\ s # <<>> => /\ Last(s) \in S /\ Supplies(Last(s), v)
                 /\ Short(CurrentAt(Last(s), v), i) =>
                      \A p \in few : CurrentAt(p, v) <= CurrentAt(Last(s), v)

\* Objects looked at from the weakest on.
Amps(S, v) == \A p \in S : CurrentAt(p, v) \in 0 .. MaxCableCurrent

\* Above 20 V, PPS is looked at only where nothing else supplies anything.
LEMMA EPRSettled ==
  ASSUME NEW f, NEW a, NEW p, NEW v, NEW i \in Nat, Amps({f, a, p}, v)
  PROVE  Settled(EPRObjects(f, a, p, v, i), {f, a, p}, v, i, {f, a})
<1> DEFINE s == EPRObjects(f, a, p, v, i)
<1>1. CurrentAt(f, v) \in Nat /\ CurrentAt(a, v) \in Nat /\ CurrentAt(p, v) \in Nat
  BY DEF Amps, MaxCableCurrent
<1>2. s = IF Supplies(f, v) THEN IF Beaten(f, a, v, i) THEN <<f, a>> ELSE <<f>>
          ELSE IF Supplies(a, v) THEN <<a>> ELSE IF Supplies(p, v) THEN <<p>> ELSE <<>>
  BY DEF EPRObjects
<1> HIDE DEF s
<1> SUFFICES Settled(s, {f, a, p}, v, i, {f, a})
  BY DEF s
<1>3. CASE s = <<>>
  <2>1. ~Supplies(f, v) /\ ~Supplies(a, v) /\ ~Supplies(p, v)
    BY <1>2, <1>3
  <2> QED
    BY <1>1, <1>3, <2>1 DEF Settled, Supplies
<1>4. CASE s = <<f, a>> /\ Supplies(f, v) /\ Beaten(f, a, v, i)
  BY <1>1, <1>4, LastIs DEF Settled, Supplies, Beaten
<1>5. CASE s = <<f>> /\ Supplies(f, v) /\ ~Beaten(f, a, v, i)
  BY <1>1, <1>5, LastIs DEF Settled, Supplies, Beaten
<1>6. CASE s = <<a>> /\ ~Supplies(f, v) /\ Supplies(a, v)
  BY <1>1, <1>6, LastIs DEF Settled, Supplies
<1>7. CASE s = <<p>> /\ ~Supplies(f, v) /\ ~Supplies(a, v) /\ Supplies(p, v)
  BY <1>1, <1>7, LastIs DEF Settled, Supplies
<1> QED
  BY <1>2, <1>3, <1>4, <1>5, <1>6, <1>7

\* Up to 20 V, SPR AVS is not looked at beside a fixed object.
LEMMA SPRSettled ==
  ASSUME NEW f, NEW p, NEW a, NEW v, NEW i \in Nat, Amps({f, p, a}, v)
  PROVE  Settled(SPRObjects(f, p, a, v, i), {f, p, a}, v, i,
                 IF Supplies(f, v) THEN {f, p} ELSE {f, p, a})
<1> DEFINE s == SPRObjects(f, p, a, v, i)
           few == IF Supplies(f, v) THEN {f, p} ELSE {f, p, a}
<1>1. (Supplies(f, v) => few = {f, p}) /\ (~Supplies(f, v) => few = {f, p, a})
  OBVIOUS
<1>2. CurrentAt(f, v) \in Nat /\ CurrentAt(p, v) \in Nat /\ CurrentAt(a, v) \in Nat
  BY DEF Amps, MaxCableCurrent
<1>3. s = IF Supplies(f, v) THEN IF Beaten(f, p, v, i) THEN <<f, p>> ELSE <<f>>
          ELSE IF Supplies(p, v)
               THEN IF CurrentAt(a, v) > CurrentAt(p, v) THEN <<p, a>> ELSE <<p>>
               ELSE IF Supplies(a, v) THEN <<a>> ELSE <<>>
  BY DEF SPRObjects
<1> HIDE DEF s, few
<1> SUFFICES Settled(s, {f, p, a}, v, i, few)
  BY DEF s, few
<1>4. CASE s = <<>>
  <2>1. ~Supplies(f, v) /\ ~Supplies(p, v) /\ ~Supplies(a, v)
    BY <1>3, <1>4
  <2> QED
    BY <1>2, <1>4, <2>1 DEF Settled, Supplies
<1>5. CASE s = <<f, p>> /\ Supplies(f, v) /\ Beaten(f, p, v, i)
  BY <1>1, <1>2, <1>5, LastIs DEF Settled, Supplies, Beaten
<1>6. CASE s = <<f>> /\ Supplies(f, v) /\ ~Beaten(f, p, v, i)
  BY <1>1, <1>2, <1>6, LastIs DEF Settled, Supplies, Beaten
<1>7. CASE s = <<p, a>> /\ ~Supplies(f, v) /\ Supplies(p, v) /\ CurrentAt(a, v) > CurrentAt(p, v)
  BY <1>1, <1>2, <1>7, LastIs DEF Settled, Supplies
<1>8. CASE s = <<p>> /\ ~Supplies(f, v) /\ Supplies(p, v) /\ ~(CurrentAt(a, v) > CurrentAt(p, v))
  BY <1>1, <1>2, <1>8, LastIs DEF Settled, Supplies
<1>9. CASE s = <<a>> /\ ~Supplies(f, v) /\ ~Supplies(p, v) /\ Supplies(a, v)
  BY <1>1, <1>2, <1>9, LastIs DEF Settled, Supplies
<1> QED
  BY <1>3, <1>4, <1>5, <1>6, <1>7, <1>8, <1>9

\* EPR AVS is looked at whatever has been picked.
LEMMA OrEPRSettled ==
  ASSUME NEW s, NEW S, NEW few \in SUBSET S, NEW e, NEW v, NEW i \in Nat,
         Amps(S \cup {e}, v), Settled(s, S, v, i, few)
  PROVE  Settled(OrEPR(s, e, v, i), S \cup {e}, v, i, few \cup {e})
<1> DEFINE r == OrEPR(s, e, v, i)
<1>1. \A p \in S \cup {e} : CurrentAt(p, v) \in Nat
  BY DEF Amps, MaxCableCurrent
<1>2. s \in Seq(S \cup {e})
  <2>1. s \in Seq(S)
    BY DEF Settled
  <2> QED
    BY <2>1
<1>3. CASE s = <<>> /\ ~Supplies(e, v)
  <2>1. r = <<>>
    BY <1>3 DEF OrEPR
  <2>2. \A p \in S : CurrentAt(p, v) = 0
    BY <1>3 DEF Settled
  <2>3. CurrentAt(e, v) = 0
    BY <1>1, <1>3 DEF Supplies
  <2> QED
    BY <1>2, <1>3, <2>1, <2>2, <2>3 DEF Settled
<1>4. CASE s # <<>> /\ ~Beaten(Last(s), e, v, i)
  <2>1. r = s
    BY <1>4 DEF OrEPR
  <2> QED
    BY <1>1, <1>2, <1>4, <2>1 DEF Settled, Beaten
<1>5. CASE (s = <<>> /\ Supplies(e, v)) \/ (s # <<>> /\ Beaten(Last(s), e, v, i))
  <2>1. r = Append(s, e)
    BY <1>5 DEF OrEPR
  <2>2. Last(r) = e /\ r # <<>> /\ r \in Seq(S \cup {e})
    BY <1>2, <2>1, LastAppended
  <2>3. \A p \in few \cup {e} : CurrentAt(p, v) <= CurrentAt(e, v)
    BY <1>1, <1>5 DEF Settled, Supplies, Beaten
  <2>4. Supplies(e, v)
    BY <1>1, <1>5 DEF Settled, Supplies, Beaten
  <2> QED
    BY <2>2, <2>3, <2>4 DEF Settled
<1> QED
  BY <1>3, <1>4, <1>5
\* The class that Evaluate does not get round to.
Unused(l, v) ==
  IF v > EPRThreshold THEN {"pps"}
  ELSE IF Supplies(Best(l, "fixed", v), v) THEN {"sprAVS"} ELSE {}

\* The two branches together, by classes.
LEMMA PicksSettled ==
  ASSUME NEW l, Readable(l), NEW v \in Nat \ {0}, NEW i \in Nat
  PROVE  LET s == Picks(l, v, i) IN
         /\ s = <<>> => \A k \in Usable : (v > EPRThreshold => k # "sprAVS") =>
                           CurrentAt(Best(l, k, v), v) = 0
         /\ s # <<>> =>
              /\ \E k \in Usable : Last(s) = Best(l, k, v)
              /\ Supplies(Last(s), v)
              /\ Short(CurrentAt(Last(s), v), i) =>
                   \A k \in Usable \ Unused(l, v) : (v > EPRThreshold => k # "sprAVS") =>
                     CurrentAt(Best(l, k, v), v) <= CurrentAt(Last(s), v)
<1> DEFINE f == Best(l, "fixed", v)
           p == Best(l, "pps", v)
           e == Best(l, "eprAVS", v)
           a == Best(l, "sprAVS", v)
           s == Picks(l, v, i)
<1>1. Amps({f, p, e, a}, v)
  BY BestIs DEF Amps
<1>2. CASE v > EPRThreshold
  <2>1. s = EPRObjects(f, e, p, v, i)
    BY <1>2 DEF Picks, PicksEPR
  <2>2. Unused(l, v) = {"pps"}
    BY <1>2 DEF Unused
  <2> HIDE DEF f, p, e, a, s
  <2>3. Amps({f, e, p}, v)
    BY <1>1 DEF Amps
  <2>4. Settled(s, {f, e, p}, v, i, {f, e})
    BY <2>1, <2>3, EPRSettled
  <2>5. CASE s = <<>>
    <3>1. CurrentAt(f, v) = 0 /\ CurrentAt(e, v) = 0 /\ CurrentAt(p, v) = 0
      BY <2>4, <2>5 DEF Settled
    <3> QED
      BY <1>2, <2>5, <3>1 DEF Usable, f, e, p, s
  <2>6. CASE s # <<>>
    <3>1. Last(s) \in {f, e, p} /\ Supplies(Last(s), v)
      BY <2>4, <2>6 DEF Settled
    <3>2. Short(CurrentAt(Last(s), v), i) =>
            CurrentAt(f, v) <= CurrentAt(Last(s), v) /\ CurrentAt(e, v) <= CurrentAt(Last(s), v)
      BY <2>4, <2>6 DEF Settled
    <3>3. \E k \in Usable : Last(s) = Best(l, k, v)
      BY <3>1 DEF Usable, f, e, p
    <3>4. Short(CurrentAt(Last(s), v), i) =>
            \A k \in Usable \ {"pps"} : k # "sprAVS" =>
              CurrentAt(Best(l, k, v), v) <= CurrentAt(Last(s), v)
      BY <3>2 DEF Usable, f, e
    <3> QED
      BY <1>2, <2>2, <2>6, <3>1, <3>3, <3>4 DEF s
  <2> QED
    BY <2>5, <2>6
<1>3. CASE ~(v > EPRThreshold)
  <2> DEFINE few == IF Supplies(f, v) THEN {f, p} ELSE {f, p, a}
             s0 == SPRObjects(f, p, a, v, i)
  <2>1. s = OrEPR(s0, e, v, i)
    BY <1>3 DEF Picks, PicksSPR
  <2>2. Unused(l, v) = IF Supplies(f, v) THEN {"sprAVS"} ELSE {}
    BY <1>3 DEF Unused
  <2> HIDE DEF f, p, e, a, s
  <2>3. Amps({f, p, a}, v) /\ Amps({f, p, a} \cup {e}, v)
    BY <1>1 DEF Amps
  <2>4. Settled(s0, {f, p, a}, v, i, few)
    BY <2>3, SPRSettled
  <2>5. few \in SUBSET {f, p, a}
    OBVIOUS
  <2>6. (Supplies(f, v) => few = {f, p}) /\ (~Supplies(f, v) => few = {f, p, a})
    OBVIOUS
  <2> HIDE DEF s0, few
  <2>7. Settled(s, {f, p, a} \cup {e}, v, i, few \cup {e})
    BY <2>1, <2>3, <2>4, <2>5, OrEPRSettled
  <2>8. CASE s = <<>>
    <3>1. CurrentAt(f, v) = 0 /\ CurrentAt(p, v) = 0 /\ CurrentAt(a, v) = 0 /\ CurrentAt(e, v) = 0
      BY <2>7, <2>8 DEF Settled
    <3> QED
      BY <2>8, <3>1 DEF Usable, f, p, a, e, s
  <2>9. CASE s # <<>>
    <3>1. Last(s) \in {f, p, a, e} /\ Supplies(Last(s), v)
      BY <2>7, <2>9 DEF Settled
    <3>2. Short(CurrentAt(Last(s), v), i) =>
            \A x \in few \cup {e} : CurrentAt(x, v) <= CurrentAt(Last(s), v)
      BY <2>7, <2>9 DEF Settled
    <3>3. Short(CurrentAt(Last(s), v), i) =>
            /\ CurrentAt(f, v) <= CurrentAt(Last(s), v)
            /\ CurrentAt(p, v) <= CurrentAt(Last(s), v)
            /\ CurrentAt(e, v) <= CurrentAt(Last(s), v)
            /\ ~Supplies(f, v) => CurrentAt(a, v) <= CurrentAt(Last(s), v)
      BY <2>6, <3>2
    <3>4. \E k \in Usable : Last(s) = Best(l, k, v)
      BY <3>1 DEF Usable, f, p, a, e
    <3>5. Short(CurrentAt(Last(s), v), i) =>
            \A k \in Usable \ Unused(l, v) : CurrentAt(Best(l, k, v), v) <= CurrentAt(Last(s), v)
      BY <2>2, <3>3 DEF Usable, f, p, a, e
    <3> QED
      BY <2>9, <3>1, <3>4, <3>5 DEF s
  <2> QED
    BY <2>8, <2>9
<1> QED
  BY <1>2, <1>3
\* A current in steps of the wire meets a request that it is not short of.
LEMMA Steps ==
  \A a \in 0 .. MaxCableCurrent : a \in Nat /\ \A i \in Nat : ~Short(a, i) => i <= 10 * a
BY DEF MaxCableCurrent, Short

\* A current that is reported is what one object of the log supplies at that voltage,
\* valid and covering it, and no more than a cable carries; and a "yes" is to no more
\* than that (evaluate.go:489-592).
THEOREM VerdictEarned ==
  ASSUME NEW l, Readable(l), NEW v \in Nat \ {0}, NEW i \in Nat
  PROVE  LET r == Evaluate(l, v, i) IN
         /\ r.amps \in 0 .. MaxCableCurrent
         /\ r.ok => i <= 10 * r.amps
         /\ r.amps > 0 =>
              \E n \in DOMAIN l.objects :
                /\ l.objects[n].kind \in Usable /\ l.objects[n].valid /\ Covers(l.objects[n], v)
                /\ r.chosen = l.objects[n] /\ r.amps = CurrentAt(l.objects[n], v)
         /\ r.amps > 0 /\ LimitDisclosed(r.chosen, v) => "power limited" \in r.caveats
         /\ r.chosen # Blank => r.amps > 0 /\ (~r.ok => Short(r.amps, i))
<1> DEFINE r == Evaluate(l, v, i)
           s == Picks(l, v, i)
<1>1. r = Verdict(l, s, v, i)
  BY DEF Evaluate
<1>2. CASE s = <<>>
  <2>1. r.ok = FALSE /\ r.amps = 0 /\ r.chosen = Blank
    BY <1>1, <1>2 DEF Verdict
  <2> QED
    BY <2>1 DEF MaxCableCurrent
<1>3. CASE s # <<>>
  <2>1. r.ok = ~Short(r.amps, i) /\ r.chosen = Last(s) /\ r.amps = CurrentAt(Last(s), v)
    BY <1>1, <1>3 DEF Verdict
  <2>2. PICK k \in Usable : Last(s) = Best(l, k, v)
    BY <1>3, PicksSettled
  <2>3. Supplies(Last(s), v)
    BY <1>3, PicksSettled
  <2>4. r.caveats = VerdictCaveats(l, s, v)
    BY <1>1, <1>3 DEF Verdict
  <2>5. LimitDisclosed(r.chosen, v) => "power limited" \in r.caveats
    BY <2>1, <2>4 DEF VerdictCaveats
  <2> HIDE DEF r, s
  <2>6. r.amps \in 0 .. MaxCableCurrent
    BY <2>1, <2>2, BestIs
  <2>7. Last(s) # Blank
    BY <2>3, BlankCurrent DEF Supplies
  <2>8. PICK n \in Fits(l, k, v) : Last(s) = l.objects[n]
    BY <2>2, <2>7, BestIs
  <2>9. /\ n \in DOMAIN l.objects /\ l.objects[n].kind \in Usable /\ l.objects[n].valid
        /\ Covers(l.objects[n], v)
    BY <2>2, <2>8 DEF Fits
  <2>10. r.ok => i <= 10 * r.amps
    BY <2>1, <2>6, Steps
  <2> QED
    BY <2>1, <2>3, <2>6, <2>8, <2>9, <2>10, <2>5 DEF r, Supplies
<1> QED
  BY <1>2, <1>3

\* A "no" is to everything in the log that is looked at: no object supplies the
\* voltage at all, or none of a class that is still in question more than is reported.
THEOREM RefusalEarned ==
  ASSUME NEW l, Readable(l), NEW v \in Nat \ {0}, NEW i \in Nat,
         ~Evaluate(l, v, i).ok, NEW n \in DOMAIN l.objects, l.objects[n].valid,
         l.objects[n].kind \in Usable, Covers(l.objects[n], v)
  PROVE  LET r == Evaluate(l, v, i) IN
         IF r.amps = 0 THEN CurrentAt(l.objects[n], v) = 0
         ELSE l.objects[n].kind \in Unused(l, v) \/ CurrentAt(l.objects[n], v) <= r.amps
<1> DEFINE r == Evaluate(l, v, i)
           s == Picks(l, v, i)
           k == l.objects[n].kind
<1>1. r = Verdict(l, s, v, i)
  BY DEF Evaluate
<1>2. n \in Fits(l, k, v)
  BY DEF Fits
<1>3. CurrentAt(l.objects[n], v) <= CurrentAt(Best(l, k, v), v)
  BY <1>2, BestIs
<1>4. CurrentAt(l.objects[n], v) \in Nat
  <2>1. IsObject(l.objects[n])
    BY DEF Readable
  <2> QED
    BY <2>1, CurrentBounded, Steps
<1>5. k \in Usable /\ (v > EPRThreshold => k # "sprAVS")
  BY DEF Covers, EPRThreshold, SPRAVSMax
<1> HIDE DEF k
<1>6. CASE s = <<>>
  <2>1. r.amps = 0
    BY <1>1, <1>6 DEF Verdict
  <2>2. CurrentAt(Best(l, k, v), v) = 0
    BY <1>5, <1>6, PicksSettled
  <2> QED
    BY <1>3, <1>4, <2>1, <2>2
<1>7. CASE s # <<>>
  <2>1. r.ok = ~Short(r.amps, i) /\ r.amps = CurrentAt(Last(s), v)
    BY <1>1, <1>7 DEF Verdict
  <2>2. Supplies(Last(s), v)
    BY <1>7, PicksSettled
  <2>3. k \notin Unused(l, v) => CurrentAt(Best(l, k, v), v) <= CurrentAt(Last(s), v)
    BY <1>5, <1>7, <2>1, PicksSettled
  <2>4. CurrentAt(Best(l, k, v), v) \in Nat
    BY BestIs, Steps
  <2>5. CurrentAt(Last(s), v) \in Nat
    <3>1. \E c \in Usable : Last(s) = Best(l, c, v)
      BY <1>7, PicksSettled
    <3> QED
      BY <3>1, BestIs, Steps
  <2> HIDE DEF r, s
  <2>6. r.amps # 0
    BY <2>1, <2>2, <2>5 DEF Supplies
  <2>7. k \in Unused(l, v) \/ CurrentAt(l.objects[n], v) <= r.amps
    BY <1>3, <1>4, <2>1, <2>3, <2>4, <2>5
  <2> QED
    BY <2>6, <2>7 DEF r, k
<1> QED
  BY <1>6, <1>7

-----------------------------------------------------------------------------
(* The log of a source *)

\* The budget is at most the power of the source, where no fixed object claims more.
LEMMA BudgetBounded ==
  ASSUME NEW d, \A p \in ToSet(d) : IsObject(p), NEW w \in Nat,
         \A p \in ToSet(d) : p.kind = "fixed" /\ p.valid /\ p.max <= EPRThreshold =>
                               (p.max * p.amps) \div 100000 <= w
  PROVE  Budget(d) \in Nat /\ Budget(d) <= w
<1> DEFINE spr == {p \in ToSet(d) : p.kind = "fixed" /\ p.valid /\ p.max <= EPRThreshold}
           W(p) == (p.max * p.amps) \div 100000
           S == {W(p) : p \in spr}
<1>1. \A p \in spr : W(p) \in Nat /\ W(p) <= w
  <2> SUFFICES ASSUME NEW p \in spr PROVE W(p) \in Nat /\ W(p) <= w
    OBVIOUS
  <2>1. p.max \in Nat /\ p.amps \in Nat /\ W(p) <= w
    BY DEF IsObject
  <2> DEFINE x == p.max * p.amps
  <2>2. x \in Nat
    BY <2>1, SMT
  <2> HIDE DEF x
  <2>3. x \div 100000 \in Nat
    BY <2>2, SMT
  <2> QED
    BY <2>1, <2>3 DEF x
<1> HIDE DEF W
<1>2. Budget(d) = IF \E p \in spr : p.max > 5000 THEN Max(S) ELSE 0
  BY SMT DEF Budget, W
<1> HIDE DEF spr
<1>3. S # {} => Max(S) \in S
  <2> SUFFICES ASSUME S # {} PROVE Max(S) \in S
    OBVIOUS
  <2>1. \A x \in S : x \in 0 .. w
    BY <1>1
  <2> HIDE DEF S
  <2> DEFINE a == [x \in S |-> x]
  <2>2. a \in [S -> 0 .. w]
    BY <2>1
  <2>3. \A x \in S : a[x] = x
    OBVIOUS
  <2> HIDE DEF a
  <2>4. \E n \in S : \A m \in S : a[m] <= a[n]
    BY <2>2, LargestOf
  <2>5. \E n \in S : \A m \in S : n >= m
    BY <2>1, <2>3, <2>4
  <2> QED
    BY <2>5 DEF Max
<1>4. (\E p \in spr : TRUE) => S # {}
  OBVIOUS
<1>5. \A x \in S : \E p \in spr : x = W(p)
  OBVIOUS
<1> HIDE DEF S
<1>6. CASE \E p \in spr : p.max > 5000
  <2>1. S # {}
    BY <1>6, <1>4
  <2>2. PICK p \in spr : Max(S) = W(p)
    BY <1>3, <1>5, <2>1
  <2> QED
    BY <1>1, <1>2, <1>6, <2>2
<1>7. CASE ~(\E p \in spr : p.max > 5000)
  BY <1>2, <1>7
<1> QED
  BY <1>6, <1>7

\* Every object of the log is one the source announced in that slot, with a limit that
\* is no more than its power; and an object that is not in the log offers nothing.
LEMMA LogOf ==
  ASSUME NEW s \in Sources
  PROVE  LET l == Parse(Blob(s)) IN
         /\ Readable(l) /\ DOMAIN l.objects \subseteq DOMAIN s.caps
         /\ \A i \in DOMAIN s.caps : Representable(s.caps[i])
         /\ \A i \in DOMAIN l.objects, v \in Nat \ {0} : Stands(l.objects[i], s.caps[i], s, v)
         /\ \A i \in DOMAIN s.caps \ DOMAIN l.objects, v \in Nat \ {0} : Offers(s.caps[i], s, v) = 0
<1> DEFINE b == Blob(s)
           F == Filled(b)
           d == [i \in F |-> DecodePDO(b.words[i])]
           o == ApplyPPSPowerBudget(d)
<1>1. PICK n \in 0 .. MaxPDOs : DOMAIN s.caps = 1 .. n /\ Len(s.caps) = n
  BY SourceAssumption
<1>2. /\ s.received \in Nat /\ s.pdp \in Nat /\ s.received >= n /\ (s.received = n \/ s.stale = <<>>)
      /\ \A i \in DOMAIN s.caps : Representable(s.caps[i])
      /\ \A i \in DOMAIN s.caps : s.caps[i].kind = "fixed" /\ s.caps[i].max <= EPRThreshold =>
                                    (s.caps[i].max * s.caps[i].amps) \div 100000 <= s.pdp
  BY <1>1, SourceAssumption
<1>3. MaxPDOs \in Nat
  BY ScanAssumption
<1>4. /\ Parse(b).objects = o /\ b.received = s.received
      /\ \A i \in 1 .. MaxPDOs :
           b.words[i] = IF i \in DOMAIN s.caps THEN Word(s.caps[i])
                        ELSE IF i - Len(s.caps) \in DOMAIN s.stale THEN Word(s.stale[i - Len(s.caps)])
                        ELSE <<0, 0, 0, 0>>
  BY DEF Parse, Blob
<1>5. F = {i \in 1 .. MaxPDOs : i <= s.received /\ b.words[i] # <<0, 0, 0, 0>>}
  BY <1>4 DEF Filled
<1> HIDE DEF b, F
<1>6. \A i \in F : i \in DOMAIN s.caps /\ b.words[i] = Word(s.caps[i])
  <2> SUFFICES ASSUME NEW i \in F PROVE i \in DOMAIN s.caps /\ b.words[i] = Word(s.caps[i])
    OBVIOUS
  <2>1. i \in 1 .. MaxPDOs /\ i <= s.received /\ b.words[i] # <<0, 0, 0, 0>>
    BY <1>5
  <2>2. CASE i <= n
    BY <1>1, <1>3, <1>4, <2>1, <2>2
  <2>3. CASE ~(i <= n)
    <3>1. s.stale = <<>>
      BY <1>1, <1>2, <2>1, <2>3
    <3>2. DOMAIN s.stale = {}
      BY <3>1
    <3>3. i \notin DOMAIN s.caps
      BY <1>1, <2>3
    <3> QED
      BY <1>4, <2>1, <3>2, <3>3
  <2> QED
    BY <2>2, <2>3
<1>7. DOMAIN s.caps \subseteq 1 .. MaxPDOs
  BY <1>1, <1>3
<1>8. \A i \in F : Shows(d[i], s.caps[i]) /\ d[i].budget = 0
  BY <1>2, <1>6, Decoded
<1>9. DOMAIN d = F
  OBVIOUS
<1>10. \A i \in DOMAIN s.caps \ F : DecodePDO(Word(s.caps[i])) = DecodePDO(<<0, 0, 0, 0>>)
  <2> SUFFICES ASSUME NEW i \in DOMAIN s.caps \ F PROVE Word(s.caps[i]) = <<0, 0, 0, 0>>
    OBVIOUS
  <2>1. s.received \in Nat /\ s.received >= n
    BY <1>2
  <2>2. i \in 1 .. MaxPDOs /\ i <= s.received
    BY <1>1, <1>7, <2>1
  <2>3. b.words[i] = <<0, 0, 0, 0>>
    BY <1>5, <2>2
  <2> QED
    BY <1>4, <2>2, <2>3
<1> HIDE DEF d
<1>11. Budget(d) \in Nat /\ Budget(d) <= s.pdp
  <2>1. \A p \in ToSet(d) : \E i \in F : p = d[i]
    BY <1>9 DEF ToSet
  <2>2. \A p \in ToSet(d) : IsObject(p)
    BY <1>8, <2>1 DEF Shows
  <2>3. ASSUME NEW p \in ToSet(d), p.kind = "fixed", p.max <= EPRThreshold
        PROVE  (p.max * p.amps) \div 100000 <= s.pdp
    <3>1. PICK i \in F : p = d[i]
      BY <2>1
    <3>2. s.caps[i].kind = "fixed" /\ p.max = s.caps[i].max /\ p.amps = s.caps[i].amps
      BY <1>8, <2>3, <3>1 DEF Shows
    <3> QED
      BY <1>2, <1>6, <2>3, <3>2
  <2> QED
    BY <1>2, <2>2, <2>3, BudgetBounded
<1>12. ASSUME NEW i \in F
       PROVE  Shows(o[i], s.caps[i]) /\ (o[i] = d[i] \/ o[i].budget = Budget(d))
  <2>1. o[i] = IF d[i].kind = "pps" /\ d[i].limited THEN [d[i] EXCEPT !.budget = Budget(d)] ELSE d[i]
    BY <1>9 DEF ApplyPPSPowerBudget
  <2>2. Shows([d[i] EXCEPT !.budget = Budget(d)], s.caps[i]) /\ [d[i] EXCEPT !.budget = Budget(d)].budget = Budget(d)
    BY <1>8, <1>11, Limited
  <2> QED
    BY <1>8, <2>1, <2>2
<1>13. DOMAIN o = F
  BY <1>9 DEF ApplyPPSPowerBudget
<1> HIDE DEF o
<1>14. \A i \in F : IsObject(o[i])
  BY <1>12 DEF Shows
<1>15. Readable(Parse(b)) /\ F \subseteq DOMAIN s.caps
  BY <1>4, <1>5, <1>6, <1>13, <1>14 DEF Readable
<1>16. ASSUME NEW i \in F, NEW v \in Nat \ {0}
       PROVE  Stands(o[i], s.caps[i], s, v)
  <2>1. o[i].budget <= s.pdp
    BY <1>2, <1>8, <1>11, <1>12
  <2> QED
    BY <1>2, <1>6, <1>12, <2>1 DEF Stands
<1>17. ASSUME NEW i \in DOMAIN s.caps \ F, NEW v \in Nat \ {0}
       PROVE  Offers(s.caps[i], s, v) = 0
  <2> DEFINE p == DecodePDO(Word(s.caps[i]))
  <2>1. Shows(p, s.caps[i]) /\ p.budget = 0 /\ Representable(s.caps[i])
    BY <1>2, Decoded
  <2>2. ~p.valid
    BY <1>10, NothingDecoded
  <2> HIDE DEF p
  <2>3. Stands(p, s.caps[i], s, v)
    BY <1>2, <2>1 DEF Stands
  <2> QED
    BY <2>2, <2>3, OfferedIsSupplied
<1> QED
  BY <1>2, <1>4, <1>13, <1>15, <1>16, <1>17 DEF b

-----------------------------------------------------------------------------
(* The invariant *)

Places == {"host", "source", "away"}
Logs == {"before", "empty", "fresh"}
First == {"start", "firmware", "latch", "erase"}
Handover == {"close", "prompt", "replug", "reappear", "leave", "return", "reconnect"}

Types ==
  /\ place \in [Units -> Places] /\ memory \in [Units -> Logs]
  /\ pc \in First \cup Handover \cup {"serial", "download", "decode", "end"}
  /\ cmd \in {"scan", "dump", "clear"} /\ transport \in {"usb", "rawmidi"}
  /\ conn \in Units \cup {Nobody} /\ expected \in Units \cup {Nobody}
  /\ got \in Seq([from : Units, chunk : Nat, held : Logs])

Flags ==
  /\ bound \in [Units -> BOOLEAN] /\ recognised \in [Units -> BOOLEAN]
  /\ noPrompt \in BOOLEAN /\ tty \in BOOLEAN /\ dead \in BOOLEAN /\ confirmed \in BOOLEAN
  /\ travelled \in BOOLEAN /\ company \in BOOLEAN

\* A link is to a unit that is still where it was opened, and so is its port.
Link ==
  /\ pc \in {"firmware", "latch", "erase", "serial", "download"} => conn \in Units
  /\ conn # Nobody /\ ~dead => place[conn] = "host"
  /\ \A u \in Units : bound[u] => place[u] = "host"
  /\ pc \in {"firmware", "latch", "erase"} /\ confirmed /\ transport # "usb" =>
       recognised[conn] /\ (~dead => bound[conn])

\* Only a scan is carried anywhere, and the unit it expects is the one it erased.
Expected ==
  /\ pc \in Handover \cup {"serial", "latch"} => cmd = "scan"
  /\ pc = "erase" /\ cmd = "scan" => expected = conn
  /\ cmd = "scan" /\ pc \notin First \cup {"end"} => expected \in Units /\ memory[expected] # "before"
  /\ pc \in {"prompt", "replug"} => ~noPrompt

\* Where the units have been since the erasure, and what their ports show of it.
Trip ==
  pc \in Handover =>
    /\ ~company => \A u \in Units : place[u] = "host" => u = expected
    /\ ~travelled => place[expected] = "host"
    /\ ~travelled /\ pc = "close" /\ MidiPresenceMeaningful => bound[expected] /\ recognised[expected]
    /\ ~travelled /\ ~company /\ pc = "leave" => bound[expected] /\ recognised[expected]
    /\ pc \in {"return", "reconnect"} /\ noPrompt /\ ~company => travelled

\* What has been read so far is the beginning of one log, of the unit expected.
Copy ==
  /\ pc \in First \cup Handover \cup {"serial"} => got = <<>>
  /\ exit = "ok" => pc = "end"
  /\ \A i \in 1 .. Len(got) : got[i].chunk = i - 1 /\ got[i].held = got[1].held
  /\ cmd = "scan" =>
       \A i \in 1 .. Len(got) : got[i].from = expected /\ got[i].held # "before"
  /\ pc = "download" =>
       /\ Len(got) < Chunks
       /\ cmd = "scan" => conn = expected
       /\ ~dead => \A i \in 1 .. Len(got) : got[i].held = memory[conn]
  /\ pc = "decode" => Len(got) = Chunks
  /\ cmd = "scan" /\ exit = "ok" => Len(got) = Chunks /\ got[1].held # "empty"

\* What is reported is what Evaluate makes of one source and one request.
Answered ==
  Judged => \E s \in Sources, v \in Volts, i \in Currents :
              source = <<s>> /\ request = <<v, i>> /\ verdict = Evaluate(Parse(Blob(s)), v, i)

\* A log that is gone has been spoken of.
Gone == \E u \in Units : memory[u] = "empty"
Told ==
  /\ pc \in First => ~Gone
  /\ Gone => told \cap {"erased", "unacknowledged", "link dead"} # {}
  /\ "nothing sent" \in told => pc = "end" /\ ~Gone

Inv == Types /\ Flags /\ Link /\ Expected /\ Trip /\ Copy /\ Answered /\ Told

USE ScanAssumption DEF units, choices, link, result, history, Goto, End

-----------------------------------------------------------------------------
(* One lemma for each part. *)

\* Opening a unit.
LEMMA OpenedUnit ==
  ASSUME NEW u \in Units, Opens(u), Types, Flags
  PROVE  /\ conn' = u /\ dead' = FALSE /\ place[u] = "host" /\ u # Nobody
         /\ bound' \in [Units -> BOOLEAN] /\ confirmed' \in BOOLEAN
         /\ \A v \in Units : bound'[v] => bound[v]
         /\ confirmed' => recognised[u] /\ transport # "usb"
         /\ transport # "usb" => bound[u] /\ bound' = bound
<1>1. CASE transport = "usb"
  BY <1>1 DEF Opens, Types, Flags
<1>2. CASE transport = "rawmidi"
  BY <1>2 DEF Opens, Types, Flags
<1> QED
  BY <1>1, <1>2 DEF Types

\* Types and flags.
LEMMA TypesStep ==
  ASSUME Types, Flags, Link, [Next]_vars
  PROVE  Types' /\ Flags'
<1>1. CASE RefuseUnattended \/ Fails \/ RequirePDOFirmware \/ LatchSerial \/ CloseSession
           \/ ScanHandover \/ HandoverFails \/ SerialRead \/ DecodeFails
  <2>1. /\ UNCHANGED <<place, memory, cmd, transport, got>> /\ conn' \in {conn, Nobody}
        /\ expected' \in {expected, conn}
        /\ pc' \in First \cup Handover \cup {"serial", "download", "decode", "end"}
        /\ UNCHANGED <<bound, recognised, noPrompt, tty, dead, confirmed, travelled, company>>
    BY <1>1 DEF RefuseUnattended, Fails, RequirePDOFirmware, LatchSerial, CloseSession, ScanHandover,
       WaitFor, Pause, HandoverFails, SerialRead, DecodeFails, First, Handover
  <2>2. Types'
    BY <2>1 DEF Types
  <2>3. Flags'
    BY <2>1 DEF Flags
  <2> QED
    BY <2>2, <2>3
<1>2. CASE Connect \/ Reconnect
  <2>1. PICK u \in Units : Opens(u)
    BY <1>2 DEF Connect, Reconnect
  <2>2. /\ UNCHANGED <<place, memory, cmd, transport, got, expected>>
        /\ pc' \in {"firmware", "serial"}
        /\ UNCHANGED <<recognised, noPrompt, tty, travelled, company>>
    BY <1>2 DEF Connect, Reconnect
  <2>3. Types'
    BY <2>1, <2>2, OpenedUnit DEF Types, First
  <2>4. Flags'
    BY <2>1, <2>2, OpenedUnit DEF Flags
  <2> QED
    BY <2>3, <2>4
<1>3. CASE EraseAcknowledged \/ EraseUnanswered
  <2>1. /\ conn \in Units /\ (Erase \/ UNCHANGED memory)
        /\ UNCHANGED <<place, cmd, transport, got, expected, conn>> /\ pc' \in {"close", "end"}
        /\ UNCHANGED <<bound, recognised, noPrompt, tty, dead, confirmed>>
    BY <1>3 DEF EraseAcknowledged, EraseUnanswered, Link
  <2>2. memory' \in [Units -> Logs]
    BY <2>1 DEF Erase, Types, Logs
  <2>3. travelled' \in BOOLEAN /\ company' \in BOOLEAN
    BY <1>3 DEF EraseAcknowledged, EraseUnanswered, Flags
  <2>4. Types'
    BY <2>1, <2>2 DEF Types, Handover
  <2>5. Flags'
    BY <2>1, <2>3 DEF Flags
  <2> QED
    BY <2>4, <2>5
<1>4. CASE SerialUnread \/ ChunkRejected
  <2>1. /\ UNCHANGED <<place, memory, cmd, transport, got, expected, conn>> /\ pc' \in {pc, "end"}
        /\ UNCHANGED <<bound, recognised, noPrompt, tty, dead, confirmed, travelled, company>>
    BY <1>4 DEF SerialUnread, ChunkRejected, Retry
  <2>2. Types'
    BY <2>1 DEF Types
  <2>3. Flags'
    BY <2>1 DEF Flags
  <2> QED
    BY <2>2, <2>3
<1>5. CASE ChunkAccepted
  <2>1. /\ conn \in Units
        /\ UNCHANGED <<place, memory, cmd, transport, expected, conn>> /\ pc' \in {"decode", "download"}
        /\ UNCHANGED <<bound, recognised, noPrompt, tty, dead, confirmed, travelled, company>>
    BY <1>5 DEF ChunkAccepted, Link
  <2>2. PICK c \in Nat : got' = Append(got, [from |-> conn, chunk |-> c, held |-> memory[conn]])
    BY <1>5 DEF ChunkAccepted
  <2>3. [from |-> conn, chunk |-> c, held |-> memory[conn]] \in [from : Units, chunk : Nat, held : Logs]
    BY <2>1 DEF Types
  <2>4. got' \in Seq([from : Units, chunk : Nat, held : Logs])
    BY <2>2, <2>3, AppendProperties DEF Types
  <2>5. Types'
    BY <2>1, <2>4 DEF Types
  <2>6. Flags'
    BY <2>1 DEF Flags
  <2> QED
    BY <2>5, <2>6
<1>6. CASE Report
  <2>1. /\ UNCHANGED <<place, memory, cmd, transport, got, expected, conn>> /\ pc' = "end"
        /\ UNCHANGED <<bound, recognised, noPrompt, tty, dead, confirmed, travelled, company>>
    BY <1>6 DEF Report
  <2>2. Types'
    BY <2>1 DEF Types
  <2>3. Flags'
    BY <2>1 DEF Flags
  <2> QED
    BY <2>2, <2>3
<1>7. ASSUME NEW u \in Units, Move(u) PROVE Types' /\ Flags'
  <2>1. PICK there \in Places : place' = [place EXCEPT ![u] = there]
                                /\ company' = (company \/ (u # expected /\ there = "host"))
    BY <1>7 DEF Move, Places
  <2>2. /\ UNCHANGED <<memory, cmd, transport, got, expected, conn, pc, recognised, noPrompt, tty, confirmed>>
        /\ bound' = [bound EXCEPT ![u] = FALSE] /\ dead' = (dead \/ conn = u)
        /\ travelled' = (travelled \/ (u = expected /\ place[u] = "host"))
    BY <1>7 DEF Move
  <2>3. Types'
    BY <2>1, <2>2 DEF Types
  <2>4. Flags'
    BY <2>1, <2>2 DEF Flags
  <2> QED
    BY <2>3, <2>4
<1>8. ASSUME NEW u \in Units, Rebind(u) \/ Capture(u) PROVE Types' /\ Flags'
  <2>1. /\ UNCHANGED <<place, cmd, transport, got, expected, conn, pc, recognised, noPrompt, tty, confirmed,
                       dead, travelled, company>>
        /\ bound' \in {bound, [bound EXCEPT ![u] = TRUE]}
        /\ memory' \in {memory, [memory EXCEPT ![u] = "fresh"]}
    BY <1>8 DEF Rebind, Capture
  <2>2. Types'
    BY <2>1 DEF Types, Logs
  <2>3. Flags'
    BY <2>1 DEF Flags
  <2> QED
    BY <2>2, <2>3
<1>9. CASE UNCHANGED vars
  BY <1>9 DEF vars, Types, Flags
<1> QED
  BY <1>1, <1>2, <1>3, <1>4, <1>5, <1>6, <1>7, <1>8, <1>9 DEF Next, Command

\* A unit that is carried off takes the link with it.
LEMMA LinkStep ==
  ASSUME Types, Flags, Link, [Next]_vars
  PROVE  Link'
<1>1. CASE RefuseUnattended \/ Fails \/ HandoverFails \/ DecodeFails \/ Report \/ CloseSession \/ ScanHandover
  <2>1. /\ UNCHANGED <<place, bound, dead>> /\ conn' \in {conn, Nobody}
        /\ pc' \in {"end"} \cup Handover
    BY <1>1 DEF RefuseUnattended, Fails, HandoverFails, DecodeFails, Report, CloseSession, ScanHandover,
       WaitFor, Pause, Handover
  <2> QED
    BY <2>1 DEF Link, Handover
<1>2. CASE RequirePDOFirmware \/ LatchSerial \/ SerialRead \/ ChunkAccepted
  <2>1. /\ UNCHANGED <<place, bound, recognised, transport, confirmed, dead, conn>>
        /\ pc \in {"firmware", "latch", "serial", "download"}
        /\ pc' \in {"firmware", "latch", "erase"} => pc \in {"firmware", "latch"}
    BY <1>2 DEF RequirePDOFirmware, LatchSerial, SerialRead, ChunkAccepted
  <2> QED
    BY <2>1 DEF Link
<1>3. CASE SerialUnread \/ ChunkRejected
  <2>1. UNCHANGED <<place, bound, recognised, transport, confirmed, dead, conn>> /\ pc' \in {pc, "end"}
    BY <1>3 DEF SerialUnread, ChunkRejected, Retry
  <2> QED
    BY <2>1 DEF Link
<1>4. CASE EraseAcknowledged \/ EraseUnanswered
  <2>1. UNCHANGED <<place, bound, dead, conn>> /\ pc' \in {"close", "end"}
    BY <1>4 DEF EraseAcknowledged, EraseUnanswered
  <2> QED
    BY <2>1 DEF Link
<1>5. CASE Connect \/ Reconnect
  <2>1. PICK u \in Units : Opens(u)
    BY <1>5 DEF Connect, Reconnect
  <2>2. UNCHANGED <<place, recognised, transport>>
    BY <1>5 DEF Connect, Reconnect
  <2> QED
    BY <2>1, <2>2, OpenedUnit DEF Link
<1>6. ASSUME NEW u \in Units, Move(u) PROVE Link'
  <2>1. /\ UNCHANGED <<pc, conn, recognised, transport, confirmed>>
        /\ \A v \in Units : v # u => place'[v] = place[v] /\ bound'[v] = bound[v]
        /\ ~bound'[u] /\ (dead' <=> dead \/ conn = u)
    BY <1>6 DEF Move, Types, Flags
  <2>2. conn # Nobody /\ ~dead' => place'[conn] = "host" /\ ~dead /\ bound'[conn] = bound[conn]
    BY <2>1 DEF Link, Types
  <2>3. \A v \in Units : bound'[v] => place'[v] = "host"
    BY <2>1 DEF Link
  <2> QED
    BY <2>1, <2>2, <2>3 DEF Link
<1>7. ASSUME NEW u \in Units, Rebind(u) PROVE Link'
  <2>1. /\ UNCHANGED <<pc, conn, recognised, transport, confirmed, place, dead>> /\ place[u] = "host"
        /\ \A v \in Units : bound'[v] <=> bound[v] \/ v = u
    BY <1>7 DEF Rebind, Flags
  <2> QED
    BY <2>1 DEF Link, Types
<1>8. ASSUME NEW u \in Units, Capture(u) PROVE Link'
  BY <1>8 DEF Capture, Link
<1>9. CASE UNCHANGED vars
  BY <1>9 DEF vars, Link
<1> QED
  BY <1>1, <1>2, <1>3, <1>4, <1>5, <1>6, <1>7, <1>8, <1>9 DEF Next, Command

\* The identity goes from the erasure through the handover into the second session.
LEMMA ExpectedStep ==
  ASSUME Types, Flags, Link, Expected, [Next]_vars
  PROVE  Expected'
<1>1. CASE RefuseUnattended \/ Fails \/ HandoverFails \/ DecodeFails \/ Report \/ EraseUnanswered
  <2>1. pc' = "end"
    BY <1>1 DEF RefuseUnattended, Fails, HandoverFails, DecodeFails, Report, EraseUnanswered
  <2> QED
    BY <2>1 DEF Expected, Handover
<1>2. CASE Connect
  <2>1. pc' = "firmware"
    BY <1>2 DEF Connect
  <2> QED
    BY <2>1 DEF Expected, Handover, First
<1>3. CASE RequirePDOFirmware
  <2>1. UNCHANGED cmd /\ pc' = CASE cmd = "scan" -> "latch" [] cmd = "dump" -> "download" [] OTHER -> "erase"
    BY <1>3 DEF RequirePDOFirmware
  <2> QED
    BY <2>1 DEF Expected, Handover, First, Types
<1>4. CASE LatchSerial
  <2>1. UNCHANGED <<cmd, conn>> /\ pc' = "erase" /\ expected' = conn
    BY <1>4 DEF LatchSerial
  <2> QED
    BY <2>1 DEF Expected, Handover, First
<1>5. CASE EraseAcknowledged
  <2>1. CASE cmd = "scan"
    <3>1. UNCHANGED <<cmd, conn, expected>> /\ pc' = "close" /\ memory' = [memory EXCEPT ![conn] = "empty"]
          /\ pc = "erase"
      BY <1>5, <2>1 DEF EraseAcknowledged, Erase
    <3>2. expected' \in Units /\ memory'[expected'] # "before"
      BY <2>1, <3>1 DEF Expected, Link, Types
    <3> QED
      BY <2>1, <3>1, <3>2 DEF Expected, Handover
  <2>2. CASE cmd # "scan"
    <3>1. pc' = "end"
      BY <1>5, <2>2 DEF EraseAcknowledged
    <3> QED
      BY <3>1 DEF Expected, Handover
  <2> QED
    BY <2>1, <2>2
<1>6. CASE CloseSession \/ ScanHandover \/ Reconnect \/ SerialRead
  <2>1. UNCHANGED <<cmd, expected, memory, noPrompt>> /\ pc \in Handover \cup {"serial"}
    BY <1>6 DEF CloseSession, ScanHandover, WaitFor, Pause, Reconnect, SerialRead, Handover
  <2>2. pc' \in (Handover \ {"close"}) \cup {"serial", "download", "end"}
    BY <1>6 DEF CloseSession, ScanHandover, WaitFor, Pause, Reconnect, SerialRead, Handover
  <2>3. pc' \in {"prompt", "replug"} => ~noPrompt
    BY <1>6 DEF CloseSession, ScanHandover, WaitFor, Pause, Reconnect, SerialRead, Expected
  <2> QED
    BY <2>1, <2>2, <2>3 DEF Expected, Handover, First
<1>7. CASE SerialUnread \/ ChunkRejected \/ ChunkAccepted
  <2>1. UNCHANGED <<cmd, expected, memory, noPrompt, conn>> /\ pc \in {"serial", "download"}
        /\ pc' \in {pc, "end", "decode"}
    BY <1>7 DEF SerialUnread, ChunkRejected, ChunkAccepted, Retry
  <2> QED
    BY <2>1 DEF Expected, Handover, First
<1>8. ASSUME NEW u \in Units, Move(u) \/ Rebind(u) \/ Capture(u) PROVE Expected'
  <2>1. UNCHANGED <<cmd, expected, noPrompt, pc, conn>> /\ memory' \in {memory, [memory EXCEPT ![u] = "fresh"]}
    BY <1>8 DEF Move, Rebind, Capture
  <2>2. \A v \in Units : memory[v] # "before" => memory'[v] # "before"
    BY <2>1 DEF Types
  <2> QED
    BY <2>1, <2>2 DEF Expected
<1>9. CASE UNCHANGED vars
  BY <1>9 DEF vars, Expected
<1> QED
  BY <1>1, <1>2, <1>3, <1>4, <1>5, <1>6, <1>7, <1>8, <1>9 DEF Next, Command

\* A port that disappears while it is watched is the unit's own.
LEMMA TripStep ==
  ASSUME Types, Flags, Link, Expected, Trip, [Next]_vars
  PROVE  Trip'
<1>1. CASE pc' \notin Handover
  BY <1>1 DEF Trip
<1>2. CASE EraseAcknowledged /\ cmd = "scan"
  <2>1. /\ pc = "erase" /\ conn # Nobody /\ ~dead /\ pc' = "close" /\ conn \in Units /\ expected = conn
        /\ UNCHANGED <<place, bound, recognised, transport, confirmed, expected>>
        /\ travelled' = FALSE /\ company' = (\E u \in Units \ {conn} : place[u] = "host")
    BY <1>2 DEF EraseAcknowledged, Answers, Link, Expected
  <2>2. place[conn] = "host"
    BY <2>1 DEF Link
  <2>3. MidiPresenceMeaningful => bound[conn] /\ recognised[conn]
    BY <2>1 DEF Link, MidiPresenceMeaningful
  <2>4. MidiPresenceMeaningful' = MidiPresenceMeaningful
    BY <2>1 DEF MidiPresenceMeaningful
  <2> QED
    BY <2>1, <2>2, <2>3, <2>4 DEF Trip
<1>3. CASE CloseSession
  <2>1. /\ pc = "close" /\ UNCHANGED <<place, bound, recognised, transport, confirmed, expected, noPrompt>>
        /\ UNCHANGED <<travelled, company>>
        /\ pc' = CASE ~noPrompt -> "prompt" [] noPrompt /\ MidiPresenceMeaningful -> "leave"
                   [] OTHER -> "reappear"
    BY <1>3 DEF CloseSession
  <2>2. pc' \in {"prompt", "leave", "reappear"} /\ (pc' = "leave" => MidiPresenceMeaningful)
    BY <2>1 DEF Flags
  <2> QED
    BY <2>1, <2>2 DEF Trip, Handover
<1>4. CASE ScanHandover
  <2>1. /\ UNCHANGED <<place, bound, recognised, transport, confirmed, expected, noPrompt, travelled, company>>
        /\ pc \in Handover /\ pc' \in Handover \ {"close"} /\ cmd = "scan" /\ expected \in Units
    BY <1>4 DEF ScanHandover, WaitFor, Pause, Handover, Expected, First
  <2>2. /\ ~company => \A u \in Units : place[u] = "host" => u = expected
        /\ ~travelled => place[expected] = "host"
    BY <2>1 DEF Trip
  <2>3. ASSUME ~travelled, ~company, pc' = "leave" PROVE bound[expected] /\ recognised[expected]
    <3>1. DevicePresent
      BY <1>4, <2>3 DEF ScanHandover, WaitFor, Pause
    <3> QED
      BY <2>2, <2>3, <3>1 DEF DevicePresent, Link
  <2>4. ASSUME pc' \in {"return", "reconnect"}, noPrompt, ~company PROVE travelled
    <3>1. CASE pc = "leave"
      <4>1. ~DevicePresent
        BY <1>4, <3>1, <2>4 DEF ScanHandover, WaitFor, Pause
      <4> QED
        BY <2>1, <2>4, <3>1, <4>1 DEF Trip, DevicePresent
    <3>2. CASE pc = "return"
      BY <2>1, <2>4, <3>2 DEF Trip
    <3>3. CASE pc \notin {"leave", "return"}
      <4>1. pc \in {"prompt", "replug"}
        BY <1>4, <2>4, <3>3 DEF ScanHandover, WaitFor, Pause
      <4> QED
        BY <2>4, <4>1 DEF Expected
    <3> QED
      BY <3>1, <3>2, <3>3
  <2> QED
    BY <2>1, <2>2, <2>3, <2>4 DEF Trip
<1>5. ASSUME NEW u \in Units, Move(u), pc \in Handover PROVE Trip'
  <2>1. expected \in Units
    BY <1>5 DEF Expected, Handover, First
  <2>2. PICK there \in Places : /\ place' = [place EXCEPT ![u] = there]
                                /\ company' = (company \/ (u # expected /\ there = "host"))
    BY <1>5 DEF Move, Places
  <2>3. /\ UNCHANGED <<expected, pc, recognised, transport, noPrompt, confirmed>>
        /\ \A v \in Units : v # u => bound'[v] = bound[v]
        /\ travelled' = (travelled \/ (u = expected /\ place[u] = "host"))
    BY <1>5 DEF Move, Flags
  <2>4. MidiPresenceMeaningful' = MidiPresenceMeaningful
    BY <2>3 DEF MidiPresenceMeaningful
  <2>5. /\ ~company => \A v \in Units : place[v] = "host" => v = expected
        /\ ~travelled => place[expected] = "host"
    BY <1>5 DEF Trip
  <2>6. ~company' => ~company /\ \A v \in Units : place'[v] = "host" => v = expected
    BY <2>2, <2>5 DEF Types
  <2>7. ~travelled' => ~travelled /\ u # expected /\ place'[expected] = "host"
    BY <2>1, <2>2, <2>3, <2>5 DEF Types
  <2> QED
    BY <1>5, <2>1, <2>3, <2>4, <2>6, <2>7 DEF Trip
<1>6. ASSUME NEW u \in Units, Rebind(u) \/ Capture(u), pc \in Handover PROVE Trip'
  <2>1. /\ UNCHANGED <<place, expected, pc, recognised, transport, noPrompt, confirmed, travelled, company>>
        /\ \A v \in Units : bound[v] => bound'[v]
    BY <1>6 DEF Rebind, Capture, Flags
  <2>2. MidiPresenceMeaningful' = MidiPresenceMeaningful
    BY <2>1 DEF MidiPresenceMeaningful
  <2>3. expected \in Units
    BY <1>6 DEF Expected, Handover, First
  <2> QED
    BY <1>6, <2>1, <2>2, <2>3 DEF Trip
<1>7. CASE UNCHANGED vars
  BY <1>7 DEF vars, Trip, MidiPresenceMeaningful
<1>8. CASE RefuseUnattended \/ Connect \/ Fails \/ RequirePDOFirmware \/ LatchSerial \/ EraseUnanswered
           \/ (EraseAcknowledged /\ cmd # "scan") \/ HandoverFails \/ Reconnect \/ SerialRead \/ SerialUnread
           \/ ChunkAccepted \/ ChunkRejected \/ DecodeFails \/ Report
  <2>1. pc' \notin Handover
    BY <1>8 DEF RefuseUnattended, Connect, Fails, RequirePDOFirmware, LatchSerial, EraseUnanswered,
       EraseAcknowledged, HandoverFails, Reconnect, SerialRead, SerialUnread, ChunkAccepted, ChunkRejected,
       DecodeFails, Report, Retry, Handover
  <2> QED
    BY <1>1, <2>1
<1>9. ASSUME NEW u \in Units, Move(u) \/ Rebind(u) \/ Capture(u) PROVE pc' = pc
  BY <1>9 DEF Move, Rebind, Capture
<1> QED
  BY <1>1, <1>2, <1>3, <1>4, <1>5, <1>6, <1>7, <1>8, <1>9 DEF Next, Command


\* No chunk is of another log than the first: a log changes only away from the host.
LEMMA CopyStep ==
  ASSUME Types, Flags, Link, Expected, Copy, [Next]_vars
  PROVE  Copy'
<1>1. got \in Seq([from : Units, chunk : Nat, held : Logs]) /\ Chunks \in Nat \ {0}
  BY DEF Types
<1>2. CASE RefuseUnattended \/ Fails \/ HandoverFails \/ DecodeFails \/ EraseUnanswered
           \/ (EraseAcknowledged /\ cmd # "scan") \/ (SerialRead /\ pc' = "end")
           \/ ((SerialUnread \/ ChunkRejected) /\ pc' = "end")
  <2>1. UNCHANGED <<cmd, got, expected>> /\ pc' = "end" /\ (cmd = "scan" => exit' # "ok")
    BY <1>2 DEF RefuseUnattended, Fails, HandoverFails, DecodeFails, EraseUnanswered, EraseAcknowledged,
       SerialRead, SerialUnread, ChunkRejected, Retry
  <2> QED
    BY <2>1 DEF Copy, First, Handover
<1>3. CASE Connect \/ LatchSerial \/ (EraseAcknowledged /\ cmd = "scan") \/ CloseSession \/ ScanHandover
           \/ Reconnect \/ (RequirePDOFirmware /\ pc' # "download")
  <2>1. /\ UNCHANGED <<cmd, got, exit>> /\ pc \in First \cup Handover
        /\ pc' \in First \cup Handover \cup {"serial"}
    BY <1>3 DEF RequirePDOFirmware, Connect, LatchSerial, EraseAcknowledged, CloseSession, ScanHandover,
       WaitFor, Pause, Reconnect, First, Handover
  <2>2. got = <<>> /\ Len(got) = 0 /\ exit # "ok"
    BY <2>1 DEF Copy, First, Handover
  <2> QED
    BY <2>1, <2>2 DEF Copy, First, Handover
<1>4. CASE (RequirePDOFirmware /\ pc' = "download") \/ (SerialRead /\ pc' # "end")
  <2>1. /\ UNCHANGED <<cmd, got, exit, expected, conn>> /\ pc \in {"firmware", "serial"}
        /\ pc' = "download" /\ (cmd = "scan" => conn = expected)
    BY <1>4 DEF RequirePDOFirmware, SerialRead
  <2>2. got = <<>> /\ Len(got) = 0 /\ exit # "ok"
    BY <2>1 DEF Copy, First, Handover
  <2> QED
    BY <1>1, <2>1, <2>2 DEF Copy, First, Handover
<1>5. CASE (SerialUnread \/ ChunkRejected) /\ pc' # "end"
  <2>1. UNCHANGED <<cmd, got, exit, expected, conn, dead, memory, pc>>
    BY <1>5 DEF SerialUnread, ChunkRejected, Retry
  <2> QED
    BY <2>1 DEF Copy
<1>6. CASE ChunkAccepted
  <2>1. /\ UNCHANGED <<cmd, exit, expected, conn, dead, memory>> /\ pc = "download" /\ ~dead
        /\ pc' = IF Len(got') = Chunks THEN "decode" ELSE "download"
    BY <1>6 DEF ChunkAccepted, Answers
  <2> DEFINE c == [from |-> conn, chunk |-> Len(got), held |-> memory[conn]]
  <2>2. got' = Append(got, c)
    BY <1>6 DEF ChunkAccepted, Echoes
  <2>3. conn \in Units /\ Len(got) \in Nat
    BY <1>1, <2>1, LenProperties DEF Link
  <2>4. c \in [from : Units, chunk : Nat, held : Logs]
    BY <2>3 DEF Types
  <2>5. c.from = conn /\ c.chunk = Len(got) /\ c.held = memory[conn]
    OBVIOUS
  <2> HIDE DEF c
  <2>6. /\ Len(got') = Len(got) + 1 /\ got'[Len(got) + 1] = c
        /\ \A i \in 1 .. Len(got) : got'[i] = got[i]
    BY <1>1, <2>2, <2>4, AppendProperties
  <2>7. \A i \in 1 .. Len(got) : got[i].chunk = i - 1 /\ got[i].held = memory[conn]
    BY <2>1 DEF Copy
  <2>8. ASSUME NEW i \in 1 .. Len(got') PROVE got'[i].chunk = i - 1 /\ got'[i].held = memory[conn]
    <3>1. CASE i \in 1 .. Len(got)
      BY <2>6, <2>7, <3>1
    <3>2. CASE i = Len(got) + 1
      BY <2>3, <2>5, <2>6, <3>2
    <3> QED
      BY <2>3, <2>6, <3>1, <3>2
  <2>9. ASSUME cmd = "scan", NEW i \in 1 .. Len(got')
        PROVE  got'[i].from = expected /\ got'[i].held # "before"
    <3>1. conn = expected /\ memory[conn] # "before"
      BY <2>1, <2>9 DEF Copy, Expected, First
    <3>2. CASE i \in 1 .. Len(got)
      BY <2>6, <2>9, <3>2 DEF Copy
    <3>3. CASE i = Len(got) + 1
      BY <2>5, <2>6, <3>1, <3>3
    <3> QED
      BY <2>3, <2>6, <3>2, <3>3
  <2>10. 1 \in 1 .. Len(got')
    BY <2>3, <2>6
  <2>11. Len(got) < Chunks /\ (cmd = "scan" => conn = expected)
    BY <2>1 DEF Copy
  <2>12. Len(got') # Chunks => Len(got') < Chunks
    BY <1>1, <2>3, <2>6, <2>11
  <2> QED
    BY <2>1, <2>8, <2>9, <2>10, <2>11, <2>12 DEF Copy, First, Handover
<1>7. CASE Report
  <2>1. UNCHANGED <<cmd, got, expected>> /\ pc = "decode" /\ pc' = "end" /\ got[1].held # "empty"
    BY <1>7 DEF Report, LogEmpty
  <2> QED
    BY <2>1 DEF Copy, First, Handover
<1>8. ASSUME NEW u \in Units, Move(u) \/ Rebind(u) PROVE Copy'
  <2>1. UNCHANGED <<cmd, got, exit, expected, conn, memory, pc>>
    BY <1>8 DEF Move, Rebind
  <2>2. dead => dead'
    BY <1>8, Zenon DEF Move, Rebind
  <2> QED
    BY <2>1, <2>2 DEF Copy
<1>9. ASSUME NEW u \in Units, Capture(u) PROVE Copy'
  <2>1. UNCHANGED <<cmd, got, exit, expected, conn, dead, pc>>
        /\ place[u] = "source" /\ memory' = [memory EXCEPT ![u] = "fresh"]
    BY <1>9 DEF Capture
  <2>2. pc = "download" /\ ~dead => memory'[conn] = memory[conn]
    BY <2>1 DEF Link, Types
  <2> QED
    BY <2>1, <2>2 DEF Copy
<1>10. CASE UNCHANGED vars
  BY <1>10 DEF vars, Copy
<1>11. CASE EraseAcknowledged
  BY <1>2, <1>3, <1>11
<1> QED
  BY <1>2, <1>3, <1>4, <1>5, <1>6, <1>7, <1>8, <1>9, <1>10, <1>11 DEF Next, Command

\* A verdict is given once, at the end.
LEMMA AnsweredStep ==
  ASSUME Copy, Answered, [Next]_vars
  PROVE  Answered'
<1>1. CASE RefuseUnattended \/ Fails \/ EraseUnanswered \/ HandoverFails \/ DecodeFails
  <2>1. exit' \in {"usage", "failed"}
    BY <1>1 DEF RefuseUnattended, Fails, EraseUnanswered, HandoverFails, DecodeFails
  <2> QED
    BY <2>1 DEF Answered, Judged
<1>2. CASE Connect \/ RequirePDOFirmware \/ LatchSerial \/ CloseSession \/ ScanHandover \/ Reconnect
           \/ SerialRead \/ SerialUnread \/ ChunkAccepted \/ ChunkRejected
  <2>1. pc # "end" /\ exit' \in {exit, "failed"}
    BY <1>2 DEF Connect, RequirePDOFirmware, LatchSerial, CloseSession, ScanHandover, WaitFor, Pause,
       Reconnect, SerialRead, SerialUnread, ChunkAccepted, ChunkRejected, Retry
  <2>2. exit # "ok"
    BY <2>1 DEF Copy
  <2> QED
    BY <2>1, <2>2 DEF Answered, Judged
<1>3. CASE EraseAcknowledged
  <2>1. pc # "end" /\ UNCHANGED cmd /\ (cmd = "scan" => exit' = exit)
    BY <1>3 DEF EraseAcknowledged
  <2>2. exit # "ok"
    BY <2>1 DEF Copy
  <2> QED
    BY <2>1, <2>2 DEF Answered, Judged
<1>4. CASE Report
  <2>1. PICK s \in Sources : source' = <<s>> /\ log' = Parse(Blob(s))
    BY <1>4 DEF Report
  <2>2. ASSUME cmd = "scan"
        PROVE  \E v \in Volts, i \in Currents : request' = <<v, i>> /\ verdict' = Evaluate(log', v, i)
    BY <1>4, <2>2 DEF Report
  <2>3. UNCHANGED cmd
    BY <1>4 DEF Report
  <2> QED
    BY <2>1, <2>2, <2>3 DEF Answered, Judged
<1>5. ASSUME NEW u \in Units, Move(u) \/ Rebind(u) \/ Capture(u) PROVE Answered'
  <2>1. UNCHANGED <<cmd, exit, source, request, verdict>>
    BY <1>5 DEF Move, Rebind, Capture
  <2> QED
    BY <2>1 DEF Answered, Judged
<1>6. CASE UNCHANGED vars
  BY <1>6 DEF vars, Answered, Judged
<1> QED
  BY <1>1, <1>2, <1>3, <1>4, <1>5, <1>6 DEF Next, Command

\* Nothing is erased in silence.
LEMMA ToldStep ==
  ASSUME Types, Link, Told, [Next]_vars
  PROVE  Told'
<1>1. CASE RefuseUnattended
  <2>1. pc = "start" /\ pc' = "end" /\ UNCHANGED memory
    BY <1>1 DEF RefuseUnattended
  <2> QED
    BY <2>1 DEF Told, Gone, First
<1>2. CASE Connect \/ RequirePDOFirmware \/ LatchSerial
  <2>1. UNCHANGED <<memory, told>> /\ pc \in First
    BY <1>2 DEF Connect, RequirePDOFirmware, LatchSerial, First
  <2> QED
    BY <2>1 DEF Told, Gone, First
<1>3. CASE EraseAcknowledged \/ EraseUnanswered
  <2>1. /\ pc = "erase" /\ pc' \in {"close", "end"}
        /\ \E w \in {"erased", "unacknowledged", "link dead"} : told' = told \cup {w}
    BY <1>3 DEF EraseAcknowledged, EraseUnanswered
  <2>2. "nothing sent" \notin told
    BY <2>1 DEF Told
  <2>3. "nothing sent" \notin told' /\ told' \cap {"erased", "unacknowledged", "link dead"} # {}
    BY <2>1, <2>2
  <2> QED
    BY <2>1, <2>3 DEF Told, First
<1>4. CASE Fails \/ CloseSession \/ ScanHandover \/ HandoverFails \/ Reconnect \/ SerialRead
           \/ SerialUnread \/ ChunkAccepted \/ ChunkRejected \/ DecodeFails \/ Report
  <2>1. UNCHANGED memory /\ told' \in {told, told \cup {"no capture"}} /\ pc # "end" /\ pc' \notin First
    BY <1>4 DEF Fails, CloseSession, ScanHandover, WaitFor, Pause, HandoverFails, Reconnect, SerialRead,
       SerialUnread, ChunkAccepted, ChunkRejected, DecodeFails, Report, Retry, First
  <2> QED
    BY <2>1 DEF Told, Gone
<1>5. ASSUME NEW u \in Units, Move(u) \/ Rebind(u) \/ Capture(u) PROVE Told'
  <2>1. UNCHANGED <<told, pc>> /\ memory' \in {memory, [memory EXCEPT ![u] = "fresh"]}
    BY <1>5 DEF Move, Rebind, Capture
  <2>2. Gone' => Gone
    BY <2>1 DEF Gone, Types
  <2> QED
    BY <1>5, <2>1, <2>2 DEF Told, Move, Rebind, Capture
<1>6. CASE UNCHANGED vars
  BY <1>6 DEF vars, Told, Gone
<1> QED
  BY <1>1, <1>2, <1>3, <1>4, <1>5, <1>6 DEF Next, Command

-----------------------------------------------------------------------------
(* The invariant holds *)

\* A command that has not begun.
LEMMA Initially ==
  ASSUME Init
  PROVE  Inv
<1>1. /\ place \in [Units -> Places] /\ memory = [u \in Units |-> "before"] /\ pc = "start"
      /\ cmd \in {"scan", "dump", "clear"} /\ transport \in {"usb", "rawmidi"}
      /\ conn = Nobody /\ expected = Nobody /\ got = <<>> /\ told = {} /\ exit = "none"
      /\ bound = [u \in Units |-> place[u] = "host"]
  BY DEF Init, Places
<1>2. /\ recognised \in [Units -> BOOLEAN] /\ noPrompt \in BOOLEAN /\ tty \in BOOLEAN /\ dead = FALSE
      /\ confirmed = FALSE /\ travelled = FALSE /\ company = FALSE
  BY DEF Init
<1>3. Len(got) = 0 /\ got \in Seq([from : Units, chunk : Nat, held : Logs])
  BY <1>1, EmptySeq
<1>4. Types
  BY <1>1, <1>3 DEF Types, First, Logs
<1>5. Flags
  BY <1>1, <1>2 DEF Flags
<1>6. Link /\ Expected /\ Trip
  BY <1>1, <1>2 DEF Link, Expected, Trip, First, Handover
<1>7. Copy
  BY <1>1, <1>3 DEF Copy, First, Handover
<1>8. Told
  BY <1>1 DEF Told, Gone
<1>9. Answered
  BY <1>1 DEF Answered, Judged
<1> QED
  BY <1>4, <1>5, <1>6, <1>7, <1>8, <1>9 DEF Inv

\* The invariant holds throughout: it is Scan's type invariant too.
THEOREM ScanTypeCorrect == Spec => []Inv
<1>1. Init => Inv
  BY Initially
<1>2. Inv /\ [Next]_vars => Inv'
  BY TypesStep, LinkStep, ExpectedStep, TripStep, CopyStep, AnsweredStep, ToldStep DEF Inv
<1> QED
  BY <1>1, <1>2, PTL DEF Spec

\* What a scan reports is the whole of one log, that of the unit whose log it erased,
\* recorded at a source since then, whichever unit comes back and whatever is carried
\* about while it is read.
THEOREM FreshIsReported == Spec => []ReportedIsFresh
<1>1. ASSUME Inv, cmd = "scan", exit = "ok"
      PROVE  got = [i \in 1 .. Chunks |-> [from |-> expected, chunk |-> i - 1, held |-> "fresh"]]
  <2>1. /\ got \in Seq([from : Units, chunk : Nat, held : Logs]) /\ Len(got) = Chunks
        /\ Chunks \in Nat \ {0} /\ got[1].held # "empty"
    BY <1>1 DEF Inv, Types, Copy
  <2>2. got \in [1 .. Len(got) -> [from : Units, chunk : Nat, held : Logs]]
    BY <2>1, LenProperties
  <2>3. /\ got = [i \in 1 .. Chunks |-> got[i]] /\ 1 \in 1 .. Chunks
        /\ \A i \in 1 .. Chunks : got[i] \in [from : Units, chunk : Nat, held : Logs]
    BY <2>1, <2>2
  <2>4. \A i \in 1 .. Chunks : /\ got[i].chunk = i - 1 /\ got[i].held = got[1].held
                              /\ got[i].from = expected /\ got[i].held # "before"
    BY <1>1, <2>1 DEF Inv, Copy
  <2>5. ASSUME NEW i \in 1 .. Chunks
        PROVE  got[i] = [from |-> expected, chunk |-> i - 1, held |-> "fresh"]
    <3>1. got[i].held = "fresh"
      BY <2>1, <2>3, <2>4 DEF Logs
    <3>2. got[i] = [from |-> got[i].from, chunk |-> got[i].chunk, held |-> got[i].held]
      BY <2>3
    <3> QED
      BY <2>4, <3>1, <3>2
  <2> QED
    BY <2>5, <2>3
<1> QED
  BY <1>1, ScanTypeCorrect, PTL DEF ReportedIsFresh

\* Without a prompt, a unit that is alone is not connected to again before it has been
\* unplugged.
THEOREM TripWatched == Spec => []WatchedTheTrip
<1>1. Inv => WatchedTheTrip
  BY DEF Inv, Trip, WatchedTheTrip, Handover
<1> QED
  BY <1>1, ScanTypeCorrect, PTL

\* No current is reported that the source does not supply there or no cable carries,
\* except for one that is said to be uncertain, for every source whose fields its words
\* can carry and every voltage and current.
THEOREM NeverMoreThanSupplied == Spec => []NeverOverReports
<1>1. ASSUME Inv, Judged PROVE NeverOverReports
  <2>1. PICK s \in Sources, v \in Volts, i \in Currents :
          source = <<s>> /\ request = <<v, i>> /\ verdict = Evaluate(Parse(Blob(s)), v, i)
    BY <1>1 DEF Inv, Answered
  <2> DEFINE l == Parse(Blob(s))
             r == Evaluate(l, v, i)
  <2>2. v \in Int /\ i \in Int
    BY SourceAssumption
  <2>3. SUFFICES /\ r.amps <= MaxCableCurrent
                 /\ \/ r.amps = 0 \/ "power limited" \in r.caveats
                    \/ \E n \in DOMAIN s.caps : r.amps <= Offers(s.caps[n], s, v)
                 /\ r.ok => i <= 10 * r.amps
    BY <2>1 DEF NeverOverReports
  <2>4. CASE v <= 0 \/ i < 0
    <3>1. r.amps = 0 /\ ~r.ok
      BY <2>4 DEF Evaluate
    <3> QED
      BY <3>1, Thresholds
  <2>5. CASE ~(v <= 0 \/ i < 0)
    <3>1. v \in Nat \ {0} /\ i \in Nat
      BY <2>2, <2>5
    <3>2. /\ Readable(l) /\ DOMAIN l.objects \subseteq DOMAIN s.caps
          /\ \A n \in DOMAIN l.objects : Stands(l.objects[n], s.caps[n], s, v)
      BY <3>1, LogOf
    <3> HIDE DEF l
    <3>3. /\ r.amps > 0 =>
               \E n \in DOMAIN l.objects :
                 /\ l.objects[n].kind \in Usable /\ l.objects[n].valid /\ Covers(l.objects[n], v)
                 /\ r.chosen = l.objects[n] /\ r.amps = CurrentAt(l.objects[n], v)
          /\ r.amps > 0 /\ LimitDisclosed(r.chosen, v) => "power limited" \in r.caveats
      BY <3>1, <3>2, VerdictEarned
    <3>4. r.amps \in 0 .. MaxCableCurrent /\ (r.ok => i <= 10 * r.amps)
      BY <3>1, <3>2, VerdictEarned
    <3> HIDE DEF r
    <3>5. ASSUME r.amps > 0, "power limited" \notin r.caveats
          PROVE  \E n \in DOMAIN s.caps : r.amps <= Offers(s.caps[n], s, v)
      <4>1. PICK n \in DOMAIN l.objects :
              /\ l.objects[n].kind \in Usable /\ l.objects[n].valid /\ Covers(l.objects[n], v)
              /\ r.chosen = l.objects[n] /\ r.amps = CurrentAt(l.objects[n], v)
        BY <3>3, <3>5
      <4>2. n \in DOMAIN s.caps /\ Stands(l.objects[n], s.caps[n], s, v)
        BY <3>2
      <4>3. l.objects[n].kind = s.caps[n].kind
        BY <4>2 DEF Stands, Shows
      <4>4. ~LimitDisclosed(l.objects[n], v)
        BY <3>3, <3>5, <4>1
      <4>5. ~(l.objects[n].kind = "pps" /\ l.objects[n].limited /\ l.objects[n].budget = 0)
        BY <4>4 DEF LimitDisclosed
      <4>6. r.amps <= Offers(s.caps[n], s, v)
        BY <4>1, <4>2, <4>3, <4>5, SuppliedIsOffered
      <4> QED
        BY <4>2, <4>6
    <3>6. r.amps \in Nat /\ r.amps <= MaxCableCurrent
      BY <3>4, Thresholds
    <3>7. r.amps = 0 \/ r.amps > 0
      BY <3>6
    <3> QED
      BY <3>5, <3>6, <3>4, <3>7
  <2> QED
    BY <2>4, <2>5
<1> QED
  BY <1>1, ScanTypeCorrect, PTL DEF NeverOverReports

\* What lies behind a class that is passed over: a fixed object supplies the voltage.
LEMMA FixedBeside ==
  ASSUME NEW s \in Sources, NEW v \in Nat \ {0}, "sprAVS" \in Unused(Parse(Blob(s)), v)
  PROVE  \E n \in DOMAIN s.caps : s.caps[n].kind = "fixed" /\ Offers(s.caps[n], s, v) > 0
<1> DEFINE l == Parse(Blob(s))
<1>1. /\ Readable(l) /\ DOMAIN l.objects \subseteq DOMAIN s.caps
      /\ \A n \in DOMAIN l.objects : Stands(l.objects[n], s.caps[n], s, v)
  BY LogOf
<1>2. Supplies(Best(l, "fixed", v), v)
  BY DEF Unused
<1> HIDE DEF l
<1>3. Best(l, "fixed", v) # Blank
  BY <1>2, BlankCurrent DEF Supplies
<1>4. PICK n \in Fits(l, "fixed", v) : Best(l, "fixed", v) = l.objects[n]
  BY <1>1, <1>3, BestIs
<1>5. /\ n \in DOMAIN l.objects /\ l.objects[n].kind = "fixed" /\ l.objects[n].valid
      /\ Covers(l.objects[n], v) /\ CurrentAt(l.objects[n], v) > 0
  BY <1>2, <1>4 DEF Fits, Supplies
<1>6. n \in DOMAIN s.caps /\ Stands(l.objects[n], s.caps[n], s, v) /\ s.caps[n].kind = "fixed"
  BY <1>1, <1>5 DEF Stands, Shows
<1>7. CurrentAt(l.objects[n], v) <= Offers(s.caps[n], s, v) /\ Offers(s.caps[n], s, v) \in Nat
  BY <1>5, <1>6, SuppliedIsOffered, OfferedIsSupplied DEF Usable
<1>8. CurrentAt(l.objects[n], v) \in Nat
  BY <1>1, <1>5, CurrentBounded, Steps DEF Readable
<1>9. Offers(s.caps[n], s, v) > 0
  BY <1>5, <1>7, <1>8
<1> QED
  BY <1>6, <1>9

\* A voltage said to be out of reach is out of reach of everything recorded; and if a
\* current is, no object that is looked at supplies it, as far as a cable carries it.
THEOREM NothingMissed == Spec => []NothingReachableMissed
<1>1. ASSUME Inv, Judged, ~verdict.ok, request[2] >= 0 PROVE NothingReachableMissed
  <2>1. PICK s \in Sources, v \in Volts, i \in Currents :
          source = <<s>> /\ request = <<v, i>> /\ verdict = Evaluate(Parse(Blob(s)), v, i)
    BY <1>1 DEF Inv, Answered
  <2> DEFINE l == Parse(Blob(s))
             r == Evaluate(l, v, i)
  <2>2. v \in Int /\ i \in Nat
    BY <1>1, <2>1, SourceAssumption
  <2>3. ~r.ok
    BY <1>1, <2>1
  <2>4. SUFFICES ASSUME NEW n \in DOMAIN s.caps
                 PROVE  IF r.chosen = Blank THEN Offers(s.caps[n], s, v) = 0
                        ELSE PassedOver(s.caps[n], s, v) \/ 10 * BoundCurrent(Offers(s.caps[n], s, v)) < i
    BY <2>1 DEF NothingReachableMissed
  <2> DEFINE amount == Offers(s.caps[n], s, v)
  <2>5. Representable(s.caps[n])
    BY SourceAssumption
  <2>6. CASE v <= 0
    <3>1. r.chosen = Blank
      BY <2>6 DEF Evaluate
    <3>2. amount = 0
      BY <2>2, <2>5, <2>6, NothingBelow
    <3> QED
      BY <3>1, <3>2
  <2>7. CASE ~(v <= 0)
    <3>1. v \in Nat \ {0}
      BY <2>2, <2>7
    <3>2. /\ Readable(l) /\ DOMAIN l.objects \subseteq DOMAIN s.caps
          /\ \A m \in DOMAIN l.objects : Stands(l.objects[m], s.caps[m], s, v)
          /\ n \notin DOMAIN l.objects => amount = 0
      BY <3>1, LogOf
    <3> DEFINE p == l.objects[n]
    <3>3. ASSUME n \in DOMAIN l.objects, amount > 0
          PROVE  /\ p.kind = s.caps[n].kind /\ CurrentAt(p, v) > 0
                 /\ CurrentAt(p, v) = BoundCurrent(amount) \/ (s.caps[n].kind = "pps" /\ s.caps[n].limited)
                 /\ IF r.amps = 0 THEN CurrentAt(p, v) = 0
                    ELSE p.kind \in Unused(l, v) \/ CurrentAt(p, v) <= r.amps
      <4>1. Stands(p, s.caps[n], s, v)
        BY <3>2, <3>3
      <4>2. p.kind = s.caps[n].kind
        BY <4>1 DEF Stands, Shows
      <4>3. /\ p.kind \in Usable /\ p.valid /\ Covers(p, v) /\ CurrentAt(p, v) > 0
            /\ CurrentAt(p, v) = BoundCurrent(amount) \/ (s.caps[n].kind = "pps" /\ s.caps[n].limited)
        BY <3>3, <4>1, <4>2, OfferedIsSupplied
      <4> QED
        BY <2>2, <2>3, <3>1, <3>2, <3>3, <4>2, <4>3, RefusalEarned
    <3>4. amount \in Nat
      <4>1. CASE n \in DOMAIN l.objects
        BY <3>2, <4>1, OfferedIsSupplied
      <4>2. CASE n \notin DOMAIN l.objects
        BY <3>2, <4>2
      <4> QED
        BY <4>1, <4>2
    <3>5. /\ r.amps \in 0 .. MaxCableCurrent
          /\ r.chosen # Blank => r.amps > 0 /\ Short(r.amps, i)
      BY <2>2, <2>3, <3>1, <3>2, VerdictEarned
    <3>6. r.chosen = Blank => r.amps = 0
      <4>1. ASSUME r.amps > 0 PROVE r.chosen # Blank
        <5>1. r.amps > 0 =>
                \E m \in DOMAIN l.objects :
                  /\ l.objects[m].kind \in Usable /\ l.objects[m].valid /\ Covers(l.objects[m], v)
                  /\ r.chosen = l.objects[m] /\ r.amps = CurrentAt(l.objects[m], v)
          BY <2>2, <3>1, <3>2, VerdictEarned
        <5> HIDE DEF r, l
        <5>2. PICK m \in DOMAIN l.objects : r.chosen = l.objects[m] /\ r.amps = CurrentAt(l.objects[m], v)
          BY <4>1, <5>1
        <5>3. CurrentAt(r.chosen, v) > 0
          BY <4>1, <5>2
        <5> QED
          BY <3>1, <5>3, BlankCurrent
      <4> HIDE DEF r
      <4> QED
        BY <3>5, <4>1, Thresholds
    <3>7. "sprAVS" \in Unused(l, v) => \E m \in DOMAIN s.caps : s.caps[m].kind = "fixed" /\ Offers(s.caps[m], s, v) > 0
      BY <3>1, FixedBeside
    <3> DEFINE R == r.amps
               C == CurrentAt(p, v)
    <3>8. CASE r.chosen = Blank
      BY <3>2, <3>3, <3>4, <3>6, <3>8
    <3>9. CASE r.chosen # Blank
      <4>1. R \in Nat /\ R > 0 /\ 10 * R < i
        BY <3>5, <3>9, Thresholds DEF Short
      <4>2. CASE amount = 0
        <5>1. 10 * BoundCurrent(amount) < i
          BY <2>2, <4>1, <4>2, Thresholds DEF BoundCurrent
        <5> QED
          BY <3>9, <5>1
      <4>3. CASE amount # 0
        <5>1. n \in DOMAIN l.objects /\ amount > 0
          BY <3>2, <3>4, <4>3
        <5>2. /\ p.kind = s.caps[n].kind
              /\ C = BoundCurrent(amount) \/ (s.caps[n].kind = "pps" /\ s.caps[n].limited)
              /\ p.kind \in Unused(l, v) \/ C <= R
          BY <3>3, <4>1, <5>1
        <5>3. CASE s.caps[n].kind = "pps" /\ s.caps[n].limited
          BY <3>9, <5>3 DEF PassedOver
        <5>4. CASE p.kind \in Unused(l, v)
          <6>1. (p.kind = "pps" /\ v > EPRThreshold) \/ (p.kind = "sprAVS" /\ "sprAVS" \in Unused(l, v))
            BY <5>4 DEF Unused
          <6> QED
            BY <3>7, <3>9, <5>2, <6>1 DEF PassedOver
        <5>5. CASE C <= R /\ C = BoundCurrent(amount)
          <6>1. BoundCurrent(amount) \in Nat
            BY <3>4, Thresholds DEF BoundCurrent
          <6>2. 10 * BoundCurrent(amount) < i
            BY <2>2, <4>1, <5>5, <6>1
          <6> QED
            BY <3>9, <6>2
        <5> QED
          BY <5>2, <5>3, <5>4, <5>5
      <4> QED
        BY <4>2, <4>3
    <3> QED
      BY <3>8, <3>9
  <2> QED
    BY <2>6, <2>7
<1> QED
  BY <1>1, ScanTypeCorrect, PTL DEF NothingReachableMissed

\* A log that is gone is said to be gone, or that it may be.
THEOREM ErasureIsTold == Spec => []ErasureTold
<1>1. Inv => ErasureTold
  BY DEF Inv, Told, Gone, ErasureTold
<1> QED
  BY <1>1, ScanTypeCorrect, PTL

=============================================================================
