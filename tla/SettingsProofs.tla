--------------------------- MODULE SettingsProofs ---------------------------
(***************************************************************************)
(* Theorems about Settings, for any envelope, default, limits and window,  *)
(* anything a user types, and any number of commands.                      *)
(***************************************************************************)
EXTENDS Settings, SequenceTheorems, TLAPS

-----------------------------------------------------------------------------
(* The invariant *)

Limits == [Sides -> Int]
Values == Int \cup Limits
Frames ==
  [n : Nat, by : Names, field : Fields, value : Values, sides : SUBSET Sides,
   aside : BOOLEAN, agreed : BOOLEAN]

Fits(f, v) == IF f = "window" THEN v \in Limits ELSE v \in Int

Held == held \in [Fields -> Values] /\ held["window"] \in Limits
Flags == ignore \in BOOLEAN /\ agreed \in BOOLEAN

Words == {"nothing", "unconfirmed", "link dead", "acknowledged", "read back", "reported"}

Types ==
  /\ pending \in Seq(Frames)
  /\ \A i \in 1 .. Len(pending) : Fits(pending[i].field, pending[i].value)
  /\ pc \in {"idle", "read", "decide", "write", "ask", "readBack"}
  /\ name \in Names /\ n \in Nat /\ sides \in SUBSET Sides
  /\ limits \in [state : {"unread", "malformed", "valid"}, low : Int, high : Int]
  /\ said \in [Fields -> Words]
  /\ landed \subseteq Fields

\* The fields a command may write.
FieldsOf(cmd) ==
  CASE cmd = "voltage" -> {"voltage"}
    [] cmd = "vlimit" -> {"window"}
    [] cmd = "raw" -> {"voltage", "window"}
    [] OTHER -> Fields \ {"voltage", "window"}

Underway == pc \in {"read", "decide", "write"}

\* What is still to be written: no field twice, each of them a field of the command's.
Plan ==
  Underway =>
    /\ rest \in Seq(Fields) /\ Len(rest) > 0
    /\ \A i \in 1 .. Len(rest) :
         /\ rest[i] \in FieldsOf(name)
         /\ rest[i] \in DOMAIN want /\ Fits(rest[i], want[rest[i]])
         /\ \A j \in 1 .. Len(rest) : i # j => rest[i] # rest[j]
    /\ name = "voltage" => Envelope(want["voltage"])
    /\ name = "vlimit" => want \in [{"window"} -> Limits]
    /\ name = "raw" => IF rest[1] = "window" THEN want["window"] \in Pairs
                       ELSE want["voltage"] \in 0 .. WireMax
    /\ name \in {"voltage", "vlimit", "raw"} => Len(rest) = 1

\* A window that was read is the unit's: nothing is on its way to change it.
Fresh ==
  /\ pc = "read" => limits.state = "unread"
  /\ pc \in {"decide", "write"} /\ limits.state # "unread" =>
       pending = <<>> /\ limits.low = held["window"].low /\ limits.high = held["window"].high

\* What was decided before a write began.
Decided ==
  pc = "write" =>
    /\ name = "voltage" =>
         /\ want["voltage"] > Default => agreed
         /\ IF limits.state = "valid" THEN limits.low <= want["voltage"] /\ want["voltage"] <= limits.high
            ELSE ignore
    /\ name = "vlimit" => CheckVLimit(want["window"]) /\ (Widens(want["window"]) => agreed)
    /\ name = "raw" => agreed

NarrowerThan(p, w) == p.low >= w.low /\ p.high <= w.high

\* What may be done to the rail and to the window by the frame at place i of those
\* on their way, the unit's window being w: only the first can rest on it.
Guarded(F, i, w) ==
  /\ F.field = "voltage" =>
       /\ F.by = "raw" \/ F.aside \/ (i = 1 /\ Within(F.value, w))
       /\ F.by = "raw" \/ Envelope(F.value)
       /\ F.value > Default => F.agreed
  /\ F.field = "window" =>
       F.agreed \/ (i = 1 /\ NarrowerThan(F.value, w))

Sent == \A i \in 1 .. Len(pending) : pending[i].n <= n /\ Guarded(pending[i], i, held["window"])

\* A field the command's own frames may have changed has been spoken of; one it has
\* not come to has not been touched.
Told ==
  /\ \A f \in landed : said[f] # "nothing"
  /\ \A i \in 1 .. Len(pending) : pending[i].n = n => said[pending[i].field] # "nothing"
  /\ Underway =>
       /\ \A i \in 1 .. Len(rest) : rest[i] \notin landed
       /\ \A i \in 1 .. Len(pending) : pending[i].n # n

\* What was read last is still so.
Shown ==
  /\ \A f \in Fields : said[f] \in {"read back", "reported"} =>
       /\ pc = "idle" /\ pending = <<>> /\ shown = held[f]
       /\ said[f] = "read back" /\ ~mismatch => held[f] = Value(f)
  /\ pc = "ask" => name = "voltage"
  /\ pc = "readBack" => name \in {"voltage", "vlimit", "current"}

USE SettingsAssumption

-----------------------------------------------------------------------------
(* Lemmas about values and frames.                                         *)

\* A number that fits the wire crosses it unchanged.
LEMMA WireFits ==
  ASSUME NEW v \in 0 .. WireMax
  PROVE  Wire(v) = v
BY DEF Wire

LEMMA WireNumber ==
  ASSUME NEW v \in Int
  PROVE  Wire(v) \in Int
BY DEF Wire

LEMMA WirePairFits ==
  ASSUME NEW p \in Limits, p.low \in 0 .. WireMax, p.high \in 0 .. WireMax
  PROVE  WirePair(p).low = p.low /\ WirePair(p).high = p.high /\ WirePair(p) \in Limits
BY WireFits DEF WirePair, Limits, Sides

LEMMA WirePairLimits ==
  ASSUME NEW p \in Limits
  PROVE  WirePair(p) \in Limits
BY WireNumber DEF WirePair, Limits, Sides

LEMMA ValueTyped ==
  ASSUME NEW f \in Fields, f \in DOMAIN want, Fits(f, want[f])
  PROVE  Value(f) \in Values /\ Fits(f, Value(f))
<1>1. CASE f = "window"
  BY <1>1, WirePairLimits DEF Value, Fits, Values
<1>2. CASE f # "window"
  BY <1>2, WireNumber DEF Value, Fits, Values
<1> QED
  BY <1>1, <1>2

\* What is left to write, taken apart.
LEMMA RestApart ==
  ASSUME Plan, Underway
  PROVE  /\ rest # <<>> /\ Head(rest) = rest[1] /\ Head(rest) \in Fields /\ Len(rest) \in Nat \ {0}
         /\ Head(rest) \in FieldsOf(name) /\ Head(rest) \in DOMAIN want /\ Fits(Head(rest), want[Head(rest)])
         /\ Tail(rest) \in Seq(Fields) /\ Len(Tail(rest)) = Len(rest) - 1
         /\ \A i \in 1 .. Len(Tail(rest)) : Tail(rest)[i] = rest[i + 1] /\ Tail(rest)[i] # Head(rest)
<1>1. rest \in Seq(Fields) /\ Len(rest) > 0
  BY DEF Plan
<1>2. rest # <<>> /\ Len(rest) \in Nat \ {0} /\ 1 \in 1 .. Len(rest)
  BY <1>1, LenProperties, EmptySeq
<1>3. /\ Head(rest) = rest[1] /\ Head(rest) \in Fields
      /\ Tail(rest) \in Seq(Fields) /\ Len(Tail(rest)) = Len(rest) - 1
      /\ \A i \in 1 .. Len(Tail(rest)) : Tail(rest)[i] = rest[i + 1]
  BY <1>1, <1>2, HeadTailProperties
<1>4. Head(rest) \in FieldsOf(name) /\ Head(rest) \in DOMAIN want /\ Fits(Head(rest), want[Head(rest)])
  BY <1>2, <1>3 DEF Plan
<1>5. ASSUME NEW i \in 1 .. Len(Tail(rest)) PROVE Tail(rest)[i] # Head(rest)
  <2>1. i + 1 \in 1 .. Len(rest) /\ i + 1 # 1 /\ 1 \in 1 .. Len(rest)
    BY <1>2, <1>3
  <2>2. rest[i + 1] # rest[1]
    BY <2>1 DEF Plan
  <2> QED
    BY <1>3, <2>2
<1> QED
  BY <1>2, <1>3, <1>4, <1>5

\* The frame a write sends.
LEMMA FrameTyped ==
  ASSUME Flags, Types, Plan, pc = "write"
  PROVE  /\ Frame \in Frames /\ Frame.n = n /\ Frame.by = name /\ Frame.field = Head(rest)
         /\ Frame.value = Value(Head(rest)) /\ Frame.agreed = agreed
         /\ Frame.aside = (ignore /\ limits.state # "valid")
         /\ Fits(Frame.field, Frame.value)
<1>1. /\ Head(rest) \in Fields /\ Value(Head(rest)) \in Values
      /\ Fits(Head(rest), Value(Head(rest)))
  BY RestApart, ValueTyped DEF Underway
<1> QED
  BY <1>1 DEF Frame, Frames, Flags, Types

\* It is guarded, if it is the first on its way.
LEMMA FrameGuarded ==
  ASSUME Held, Flags, Types, Plan, Fresh, Decided, pc = "write"
  PROVE  /\ Guarded(Frame, 1, held["window"])
         /\ pending # <<>> => \A i \in Nat : \A w : Guarded(Frame, i, w)
<1>1. /\ Frame.by = name /\ Frame.field = Head(rest) /\ Frame.value = Value(Head(rest))
      /\ Frame.agreed = agreed /\ (Frame.aside <=> (ignore /\ limits.state # "valid"))
  BY FrameTyped
<1>2. /\ Head(rest) \in FieldsOf(name) /\ Head(rest) \in DOMAIN want
      /\ Fits(Head(rest), want[Head(rest)]) /\ Head(rest) = rest[1]
  BY RestApart DEF Underway
<1>3. CASE name = "voltage"
  <2>1. Head(rest) = "voltage" /\ want["voltage"] \in 0 .. WireMax /\ Envelope(want["voltage"])
    BY <1>2, <1>3 DEF FieldsOf, Plan, Underway, Envelope
  <2>2. Frame.value = want["voltage"]
    BY <1>1, <2>1, WireFits DEF Value
  <2>3. want["voltage"] > Default => agreed
    BY <1>3 DEF Decided
  <2>4. CASE limits.state = "valid"
    <3>1. Within(want["voltage"], held["window"]) /\ pending = <<>>
      BY <1>3, <2>4 DEF Decided, Fresh, Within
    <3> QED
      BY <1>1, <2>1, <2>2, <2>3, <3>1 DEF Guarded
  <2>5. CASE limits.state # "valid"
    <3>1. Frame.aside
      BY <1>1, <1>3, <2>5 DEF Decided
    <3> QED
      BY <1>1, <2>1, <2>2, <2>3, <3>1 DEF Guarded
  <2> QED
    BY <2>4, <2>5
<1>4. CASE name = "vlimit"
  <2>1. Head(rest) = "window" /\ want["window"] \in Limits /\ CheckVLimit(want["window"])
    BY <1>2, <1>4 DEF FieldsOf, Fits, Decided
  <2>2. want["window"].low \in 0 .. WireMax /\ want["window"].high \in 0 .. WireMax
    BY <2>1 DEF CheckVLimit, VLimitUsable, Limits, Sides
  <2>3. Frame.value.low = want["window"].low /\ Frame.value.high = want["window"].high
    BY <1>1, <2>1, <2>2, WirePairFits DEF Value
  <2>4. CASE Widens(want["window"])
    <3>1. agreed
      BY <1>4, <2>4 DEF Decided
    <3> QED
      BY <1>1, <2>1, <3>1 DEF Guarded
  <2>5. CASE ~Widens(want["window"])
    <3>1. /\ limits.state # "unread" /\ ~(want["window"].low < limits.low)
          /\ ~(want["window"].high > limits.high)
      BY <2>5 DEF Widens
    <3>2. pending = <<>> /\ limits.low = held["window"].low /\ limits.high = held["window"].high
      BY <3>1 DEF Fresh
    <3>3. /\ limits.low \in Int /\ limits.high \in Int
          /\ want["window"].low \in Int /\ want["window"].high \in Int
      <4>1. want["window"].low \in Int /\ want["window"].high \in Int
        BY <2>1 DEF Limits, Sides
      <4> QED
        BY <4>1 DEF Types
    <3>4. NarrowerThan(Frame.value, held["window"])
      BY <2>3, <3>1, <3>2, <3>3 DEF NarrowerThan
    <3> QED
      BY <1>1, <2>1, <3>2, <3>4 DEF Guarded
  <2> QED
    BY <2>4, <2>5
<1>5. CASE name = "raw"
  <2>1. agreed
    BY <1>5 DEF Decided
  <2> QED
    BY <1>1, <1>5, <2>1 DEF Guarded
<1>6. CASE name \notin {"voltage", "vlimit", "raw"}
  <2>1. Head(rest) \notin {"voltage", "window"}
    BY <1>2, <1>6 DEF FieldsOf
  <2> QED
    BY <1>1, <2>1 DEF Guarded
<1> QED
  BY <1>3, <1>4, <1>5, <1>6

\* Frames on their way: one more, and one less.
LEMMA SentAppend ==
  ASSUME Types, NEW F \in Frames
  PROVE  /\ Append(pending, F) \in Seq(Frames) /\ Len(pending) \in Nat
         /\ Len(Append(pending, F)) = Len(pending) + 1 /\ Append(pending, F)[Len(pending) + 1] = F
         /\ \A i \in 1 .. Len(pending) : Append(pending, F)[i] = pending[i]
         /\ (pending = <<>>) <=> (Len(pending) = 0)
<1>1. pending \in Seq(Frames)
  BY DEF Types
<1>2. Len(pending) \in Nat /\ ((pending = <<>>) <=> (Len(pending) = 0))
  BY <1>1, LenProperties, EmptySeq
<1> QED
  BY <1>1, <1>2, AppendProperties

\* Counting to one more than m.
LEMMA OneMore ==
  ASSUME NEW m \in Nat, NEW i \in 1 .. m + 1
  PROVE  i \in 1 .. m \/ i = m + 1
OBVIOUS


LEMMA SentTail ==
  ASSUME Types, pending # <<>>
  PROVE  /\ Tail(pending) \in Seq(Frames) /\ Head(pending) \in Frames /\ Head(pending) = pending[1]
         /\ Len(pending) \in Nat \ {0} /\ Len(Tail(pending)) = Len(pending) - 1
         /\ \A i \in 1 .. Len(Tail(pending)) : Tail(pending)[i] = pending[i + 1] /\ i + 1 # 1
<1>1. pending \in Seq(Frames)
  BY DEF Types
<1>2. Len(pending) \in Nat \ {0}
  BY <1>1, LenProperties, EmptySeq
<1> QED
  BY <1>1, <1>2, HeadTailProperties

-----------------------------------------------------------------------------
(* What the steps have in common.                                          *)

\* A command begins, or its arguments are refused.
LEMMA Begins ==
  ASSUME NEW cmd \in Names, NEW fields, NEW values, NEW first \in {"read", "decide", "write"},
         NEW accepted, Begin(cmd, fields, values, first, accepted)
  PROVE  /\ n' = n + 1 /\ name' = cmd /\ want' = values /\ rest' = fields
         /\ pc' \in {first, "idle"} /\ (pc' = first => accepted)
         /\ limits' = Unread /\ agreed' = FALSE /\ said' = Nothing /\ landed' = {} /\ mismatch' = FALSE
         /\ UNCHANGED <<held, pending, last>> /\ pc = "idle"
BY DEF Begin, device

\* What Start leaves behind, whichever command it is.
Started ==
  /\ pc = "idle" /\ n' = n + 1 /\ name' \in Names /\ sides' \in SUBSET Sides /\ ignore' \in BOOLEAN
  /\ pc' \in {"idle", "read", "decide", "write"}
  /\ limits' = Unread /\ agreed' = FALSE /\ said' = Nothing /\ landed' = {}
  /\ UNCHANGED <<held, pending, last>>
  /\ pc' = "write" => name' \notin {"voltage", "vlimit", "raw"}
  /\ Plan'

LEMMA PlainStarts ==
  ASSUME NEW cmd \in Names \ {"voltage", "vlimit", "raw"}, NEW first \in {"read", "decide", "write"},
         NEW fields \in Seq(Fields \ {"voltage", "window"}), Len(fields) > 0,
         \A i, j \in 1 .. Len(fields) : i # j => fields[i] # fields[j],
         SetPlain(cmd, fields, first), Types
  PROVE  Started
<1> DEFINE values(v) == [f \in {fields[i] : i \in DOMAIN fields} |-> v]
           accepted(v) == \A i \in DOMAIN fields : fields[i] \in DOMAIN Top => v \in 0 .. Top[fields[i]]
<1>1. PICK v \in Args : Begin(cmd, fields, values(v), first, accepted(v))
  BY DEF SetPlain
<1>2. sides' = {} /\ ignore' = FALSE
  BY DEF SetPlain
<1> HIDE DEF accepted
<1>3. /\ n' = n + 1 /\ name' = cmd /\ want' = values(v) /\ rest' = fields /\ pc' \in {first, "idle"}
      /\ limits' = Unread /\ agreed' = FALSE /\ said' = Nothing /\ landed' = {}
      /\ UNCHANGED <<held, pending, last>> /\ pc = "idle"
  BY <1>1, Begins
<1>4. /\ Len(fields) \in Nat /\ DOMAIN fields = 1 .. Len(fields) /\ fields \in Seq(Fields)
      /\ \A i \in 1 .. Len(fields) : fields[i] \in Fields \ {"voltage", "window"}
  BY LenProperties, ElementOfSeq
<1>5. ASSUME NEW i \in 1 .. Len(fields)
      PROVE  /\ fields[i] \in FieldsOf(cmd) /\ fields[i] \in DOMAIN values(v)
             /\ Fits(fields[i], values(v)[fields[i]])
  <2>1. fields[i] \in DOMAIN values(v) /\ values(v)[fields[i]] = v /\ v \in Int
    BY <1>4
  <2> QED
    BY <1>4, <2>1 DEF FieldsOf, Fits
<1> HIDE DEF values
<1>6. Plan'
  BY <1>3, <1>4, <1>5 DEF Plan
<1> QED
  BY <1>2, <1>3, <1>6 DEF Started

LEMMA StartStarts ==
  ASSUME Types, Start
  PROVE  Started
<1> DEFINE P == Fields \ {"voltage", "window"}
<1>1. ASSUME NEW a \in P
      PROVE  /\ <<a>> \in Seq(P) /\ Len(<<a>>) = 1 /\ <<a>>[1] = a
             /\ \A i, j \in 1 .. Len(<<a>>) : i # j => <<a>>[i] # <<a>>[j]
  OBVIOUS
<1>2. ASSUME NEW a \in P, NEW b \in P, a # b
      PROVE  /\ <<a, b>> \in Seq(P) /\ Len(<<a, b>>) = 2
             /\ \A i, j \in 1 .. Len(<<a, b>>) : i # j => <<a, b>>[i] # <<a, b>>[j]
  <2>1. <<a, b>> \in Seq(P) /\ Len(<<a, b>>) = 2 /\ <<a, b>>[1] = a /\ <<a, b>>[2] = b
    OBVIOUS
  <2> QED
    BY <1>2, <2>1
<1>3. P = {"offset", "scale", "lock", "led", "colour", "current", "nominal", "sag"}
  BY DEF Fields, Wide
<1>4. CASE SetVoltage
  <2>1. PICK mv \in Args :
          /\ Begin("voltage", <<"voltage">>, [f \in {"voltage"} |-> mv], "read", Envelope(mv))
          /\ ignore' \in BOOLEAN /\ sides' = {}
    BY <1>4 DEF SetVoltage
  <2>2. /\ n' = n + 1 /\ name' = "voltage" /\ want' = [f \in {"voltage"} |-> mv] /\ rest' = <<"voltage">>
        /\ pc' \in {"read", "idle"}
        /\ limits' = Unread /\ agreed' = FALSE /\ said' = Nothing /\ landed' = {}
        /\ UNCHANGED <<held, pending, last>> /\ pc = "idle"
    BY <2>1, Begins DEF Names
  <2>5. pc' = "read" => Envelope(mv)
    BY <2>1 DEF Begin
  <2>3. <<"voltage">> \in Seq(Fields) /\ Len(<<"voltage">>) = 1 /\ <<"voltage">>[1] = "voltage"
    BY DEF Fields
  <2>4. Plan'
    BY <2>2, <2>3, <2>5 DEF Plan, FieldsOf, Fits, Underway
  <2> QED
    BY <2>1, <2>2, <2>4 DEF Started, Names
<1>5. CASE SetVLimit
  <2>1. PICK given \in SUBSET Sides \ {{}}, typed \in [Sides -> Args] :
          LET p == [s \in Sides |-> IF s \in given THEN typed[s] ELSE 0] IN
          /\ Begin("vlimit", <<"window">>, [f \in {"window"} |-> p], "read",
                   given = Sides => CheckVLimit(p))
          /\ sides' = given /\ ignore' = FALSE
    BY <1>5 DEF SetVLimit
  <2> DEFINE p == [s \in Sides |-> IF s \in given THEN typed[s] ELSE 0]
  <2>2. p \in Limits
    <3>2. typed \in [Sides -> Args]
      BY <2>1
    <3>1. ASSUME NEW s \in Sides PROVE (IF s \in given THEN typed[s] ELSE 0) \in Int
      <4>1. Args \subseteq Int
        OBVIOUS
      <4>2. typed[s] \in Int
        BY ONLY <3>2, <4>1, s \in Sides
      <4> QED
        BY <4>2
    <3> QED
      BY <3>1 DEF Limits
  <2> HIDE DEF p
  <2>3. Begin("vlimit", <<"window">>, [f \in {"window"} |-> p], "read", given = Sides => CheckVLimit(p))
    BY <2>1 DEF p
  <2>4. /\ n' = n + 1 /\ name' = "vlimit" /\ want' = [f \in {"window"} |-> p] /\ rest' = <<"window">>
        /\ pc' \in {"read", "idle"}
        /\ limits' = Unread /\ agreed' = FALSE /\ said' = Nothing /\ landed' = {}
        /\ UNCHANGED <<held, pending, last>> /\ pc = "idle"
    BY <2>3, Begins DEF Names
  <2>5. <<"window">> \in Seq(Fields) /\ Len(<<"window">>) = 1 /\ <<"window">>[1] = "window"
    BY DEF Fields
  <2>6. Plan'
    BY <2>2, <2>4, <2>5 DEF Plan, FieldsOf, Fits, Underway
  <2>7. sides' \in SUBSET Sides /\ ignore' = FALSE
    BY <2>1
  <2> QED
    BY <2>4, <2>6, <2>7 DEF Started, Names
<1>6. CASE SetCurrent
  <2>1. <<"current">> \in Seq(P) /\ Len(<<"current">>) > 0
        /\ \A i, j \in 1 .. Len(<<"current">>) : i # j => <<"current">>[i] # <<"current">>[j]
    BY <1>1, <1>3
  <2> QED
    BY <1>6, <2>1, PlainStarts DEF SetCurrent, Names
<1>7. CASE SetTolerance
  <2>1. PICK fields \in {<<"nominal">>, <<"sag">>, <<"nominal", "sag">>} :
          SetPlain("tolerance", fields, "write")
    BY <1>7 DEF SetTolerance
  <2>2. /\ fields \in Seq(P) /\ Len(fields) > 0
        /\ \A i, j \in 1 .. Len(fields) : i # j => fields[i] # fields[j]
    <3>1. CASE \E f \in {"nominal", "sag"} : fields = <<f>>
      BY <1>1, <1>3, <3>1
    <3>2. CASE fields = <<"nominal", "sag">>
      BY <1>2, <1>3, <3>2
    <3> QED
      BY <2>1, <3>1, <3>2
  <2> QED
    BY <2>1, <2>2, PlainStarts DEF Names
<1>8. CASE SetCalibration
  <2>1. PICK fields \in {<<"offset">>, <<"scale">>, <<"offset", "scale">>} :
          SetPlain("calibrate", fields, "read")
    BY <1>8 DEF SetCalibration
  <2>2. /\ fields \in Seq(P) /\ Len(fields) > 0
        /\ \A i, j \in 1 .. Len(fields) : i # j => fields[i] # fields[j]
    <3>1. CASE \E f \in {"offset", "scale"} : fields = <<f>>
      BY <1>1, <1>3, <3>1
    <3>2. CASE fields = <<"offset", "scale">>
      BY <1>2, <1>3, <3>2
    <3> QED
      BY <2>1, <3>1, <3>2
  <2> QED
    BY <2>1, <2>2, PlainStarts DEF Names
<1>9. CASE SetAuthLock
  <2>1. <<"lock">> \in Seq(P) /\ Len(<<"lock">>) > 0
        /\ \A i, j \in 1 .. Len(<<"lock">>) : i # j => <<"lock">>[i] # <<"lock">>[j]
    BY <1>1, <1>3
  <2> QED
    BY <1>9, <2>1, PlainStarts DEF SetAuthLock, Names
<1>10. CASE SetLED
  <2>1. PICK f \in {"led", "colour"} : SetPlain("led", <<f>>, "write")
    BY <1>10 DEF SetLED
  <2>2. /\ <<f>> \in Seq(P) /\ Len(<<f>>) > 0
        /\ \A i, j \in 1 .. Len(<<f>>) : i # j => <<f>>[i] # <<f>>[j]
    BY <1>1, <1>3
  <2> QED
    BY <2>1, <2>2, PlainStarts DEF Names
<1>11. CASE SendRaw
  <2>1. sides' = {} /\ ignore' = FALSE
    BY <1>11 DEF SendRaw
  <2>2. ASSUME NEW mv \in 0 .. WireMax,
               Begin("raw", <<"voltage">>, [f \in {"voltage"} |-> mv], "decide", TRUE)
        PROVE  Started
    <3>1. /\ n' = n + 1 /\ name' = "raw" /\ want' = [f \in {"voltage"} |-> mv] /\ rest' = <<"voltage">>
          /\ pc' \in {"decide", "idle"}
          /\ limits' = Unread /\ agreed' = FALSE /\ said' = Nothing /\ landed' = {}
          /\ UNCHANGED <<held, pending, last>> /\ pc = "idle"
      BY <2>2, Begins DEF Names
    <3>2. <<"voltage">> \in Seq(Fields) /\ Len(<<"voltage">>) = 1 /\ <<"voltage">>[1] = "voltage"
      BY DEF Fields
    <3>3. Plan'
      BY <3>1, <3>2 DEF Plan, FieldsOf, Fits, Underway
    <3> QED
      BY <2>1, <3>1, <3>3 DEF Started, Names
  <2>3. ASSUME NEW p \in Pairs, Begin("raw", <<"window">>, [f \in {"window"} |-> p], "decide", TRUE)
        PROVE  Started
    <3>1. /\ n' = n + 1 /\ name' = "raw" /\ want' = [f \in {"window"} |-> p] /\ rest' = <<"window">>
          /\ pc' \in {"decide", "idle"}
          /\ limits' = Unread /\ agreed' = FALSE /\ said' = Nothing /\ landed' = {}
          /\ UNCHANGED <<held, pending, last>> /\ pc = "idle"
      BY <2>3, Begins DEF Names
    <3>2. /\ <<"window">> \in Seq(Fields) /\ Len(<<"window">>) = 1 /\ <<"window">>[1] = "window"
          /\ p \in Limits
      BY DEF Fields, Pairs, Limits
    <3>3. Plan'
      BY <3>1, <3>2 DEF Plan, FieldsOf, Fits, Underway
    <3> QED
      BY <2>1, <3>1, <3>3 DEF Started, Names
  <2> QED
    BY <1>11, <2>2, <2>3 DEF SendRaw
<1> QED
  BY <1>4, <1>5, <1>6, <1>7, <1>8, <1>9, <1>10, <1>11 DEF Start

-----------------------------------------------------------------------------
(* The parts of the invariant, action by action.                           *)

\* A frame is acted on.
LEMMA ActTypes ==
  ASSUME Held, Types, NEW F \in Frames, Act(F), Fits(F.field, F.value)
  PROVE  Held' /\ landed' \subseteq Fields /\ landed' \in {landed, landed \cup {F.field}}
<1>1. F.field \in Fields /\ F.value \in Values
  BY DEF Frames
<1> DEFINE h == [held EXCEPT ![F.field] = F.value]
<1>2. h \in [Fields -> Values] /\ h["window"] \in Limits
  BY <1>1 DEF Held, Fits, Fields
<1> HIDE DEF h
<1>3. held' \in {held, h}
  BY DEF Act, h
<1> QED
  BY <1>1, <1>2, <1>3 DEF Act, Held, Types

\* A frame is sent and not answered.
LEMMA SendTypes ==
  ASSUME Flags, Types, Plan, pc = "write", pending' \in {pending, Append(pending, Frame)}
  PROVE  /\ pending' \in Seq(Frames)
         /\ \A i \in 1 .. Len(pending') : Fits(pending'[i].field, pending'[i].value)
<1>1. CASE pending' = pending
  BY <1>1 DEF Types
<1>2. CASE pending' = Append(pending, Frame)
  <2>1. /\ pending' \in Seq(Frames) /\ Len(pending) \in Nat
        /\ Len(pending') = Len(pending) + 1 /\ pending'[Len(pending) + 1] = Frame
        /\ \A i \in 1 .. Len(pending) : pending'[i] = pending[i]
    BY <1>2, FrameTyped, SentAppend
  <2>2. ASSUME NEW i \in 1 .. Len(pending') PROVE Fits(pending'[i].field, pending'[i].value)
    <3>1. CASE i \in 1 .. Len(pending)
      BY <2>1, <3>1 DEF Types
    <3>2. CASE i = Len(pending) + 1
      BY <2>1, <3>2, FrameTyped
    <3> QED
      BY <2>1, <3>1, <3>2
  <2> QED
    BY <2>1, <2>2
<1> QED
  BY <1>1, <1>2

\* The first frame is gone from its way.
LEMMA GoneTypes ==
  ASSUME Types, pending # <<>>, pending' = Tail(pending)
  PROVE  /\ pending' \in Seq(Frames)
         /\ \A i \in 1 .. Len(pending') : Fits(pending'[i].field, pending'[i].value)
         /\ Fits(Head(pending).field, Head(pending).value)
<1>1. /\ Tail(pending) \in Seq(Frames) /\ Head(pending) = pending[1]
      /\ Len(pending) \in Nat \ {0} /\ Len(Tail(pending)) = Len(pending) - 1
      /\ \A i \in 1 .. Len(Tail(pending)) : Tail(pending)[i] = pending[i + 1]
  BY SentTail
<1>2. ASSUME NEW i \in 1 .. Len(pending') PROVE Fits(pending'[i].field, pending'[i].value)
  <2>1. i + 1 \in 1 .. Len(pending) /\ pending'[i] = pending[i + 1]
    BY <1>1
  <2> QED
    BY <2>1 DEF Types
<1>3. Fits(pending[1].field, pending[1].value)
  <2>1. 1 \in 1 .. Len(pending)
    BY <1>1
  <2> QED
    BY <2>1 DEF Types
<1> QED
  BY <1>1, <1>2, <1>3

LEMMA TypesStep ==
  ASSUME Held, Flags, Types, Plan, [Next]_vars
  PROVE  Held' /\ Flags' /\ Types'
<1> USE DEF device, request, progress, report, history, End, Proceed
<1>1. CASE Start
  <2>1. Started
    BY <1>1, StartStarts
  <2>2. /\ Unread \in [state : {"unread", "malformed", "valid"}, low : Int, high : Int]
        /\ Nothing \in [Fields -> Words]
    BY DEF Unread, Nothing, Words
  <2>3. Held' /\ Flags'
    BY <2>1 DEF Started, Held, Flags
  <2>4. /\ pending' = pending /\ pc' \in {"idle", "read", "decide", "write"} /\ name' \in Names
        /\ n' \in Nat /\ sides' \in SUBSET Sides /\ limits' = Unread /\ said' = Nothing /\ landed' = {}
    BY <2>1 DEF Started, Types
  <2> QED
    BY <2>2, <2>3, <2>4 DEF Types
<1>2. CASE ReadWindow
  <2>1. held["window"].low \in Int /\ held["window"].high \in Int
    BY DEF Held, Limits, Sides
  <2> QED
    BY <1>2, <2>1 DEF ReadWindow, Held, Flags, Types
<1>3. CASE WindowUnread \/ ReadCalibration
  BY <1>3 DEF WindowUnread, ReadCalibration, Held, Flags, Types
<1>4. CASE Decide
  <2>1. /\ UNCHANGED <<held, pending, n, name, sides, ignore, limits, said, landed>>
        /\ \E a, c : Apply(a, c)
    BY <1>4 DEF Decide
  <2> QED
    BY <2>1 DEF Apply, Held, Flags, Types
<1>5. ASSUME pc = "write", NEW what \in Words, said' = [said EXCEPT ![Head(rest)] = what]
      PROVE  said' \in [Fields -> Words]
  BY <1>5, RestApart DEF Underway, Types
<1>6. CASE WriteAcknowledged
  <2>1. Act(Frame) /\ pc = "write"
    BY <1>6 DEF WriteAcknowledged
  <2>2. Held' /\ landed' \subseteq Fields
    BY <2>1, FrameTyped, ActTypes
  <2>3. said' \in [Fields -> Words]
    BY <1>5, <1>6 DEF WriteAcknowledged, Say, Words
  <2>4. /\ UNCHANGED <<pending, n, name, sides, ignore, limits, agreed>>
        /\ pc' \in {"write", "readBack", "idle"}
    BY <1>6 DEF WriteAcknowledged, AfterWrite
  <2> QED
    BY <2>2, <2>3, <2>4 DEF Flags, Types
<1>7. CASE WriteUnanswered \/ WriteUnawaited \/ WriteLinkDead
  <2>1. /\ pc = "write" /\ pending' \in {pending, Append(pending, Frame)}
        /\ UNCHANGED <<held, n, name, sides, ignore, limits, agreed, landed>>
        /\ pc' \in {"ask", "idle"}
        /\ \E what \in {"unconfirmed", "link dead"} : said' = [said EXCEPT ![Head(rest)] = what]
    BY <1>7 DEF WriteUnanswered, WriteUnawaited, WriteLinkDead, Fail, Say
  <2>2. said' \in [Fields -> Words]
    BY <1>5, <2>1 DEF Words
  <2>3. /\ pending' \in Seq(Frames)
        /\ \A i \in 1 .. Len(pending') : Fits(pending'[i].field, pending'[i].value)
    BY <2>1, SendTypes
  <2> QED
    BY <2>1, <2>2, <2>3 DEF Held, Flags, Types
<1>8. CASE WriteNotSent
  <2>1. said' \in [Fields -> Words]
    BY <1>5, <1>8 DEF WriteNotSent, Fail, Say, Words
  <2> QED
    BY <1>8, <2>1 DEF WriteNotSent, Held, Flags, Types
<1>9. CASE AskAnswered
  <2>1. said' = [said EXCEPT !["voltage"] = "reported"]
    BY <1>9 DEF AskAnswered
  <2>2. said' \in [Fields -> Words]
    BY <2>1 DEF Types, Words
  <2> QED
    BY <1>9, <2>2 DEF AskAnswered, Held, Flags, Types
<1>10. CASE ReadBack
  <2>1. said' = [said EXCEPT ![Field] = "read back"]
    BY <1>10 DEF ReadBack
  <2>2. said' \in [Fields -> Words]
    BY <2>1 DEF Types, Words
  <2> QED
    BY <1>10, <2>2 DEF ReadBack, Held, Flags, Types
<1>11. CASE AskFails \/ ReadBackFails
  BY <1>11 DEF AskFails, ReadBackFails, Held, Flags, Types
<1>12. CASE DeviceActs
  <2>1. /\ pending # <<>> /\ pending' = Tail(pending) /\ Act(Head(pending))
        /\ UNCHANGED <<pc, n, name, sides, ignore, limits, agreed, said>>
    BY <1>12 DEF DeviceActs
  <2>2. Held' /\ landed' \subseteq Fields
    BY <2>1, GoneTypes, SentTail, ActTypes
  <2> QED
    BY <2>1, <2>2, GoneTypes DEF Flags, Types
<1>13. CASE FrameLost
  <2>1. /\ pending # <<>> /\ pending' = Tail(pending)
        /\ UNCHANGED <<held, pc, n, name, sides, ignore, limits, agreed, said, landed>>
    BY <1>13 DEF FrameLost
  <2> QED
    BY <2>1, GoneTypes DEF Held, Flags, Types
<1>14. CASE UNCHANGED vars
  BY <1>14 DEF vars, Held, Flags, Types
<1> QED
  BY <1>1, <1>2, <1>3, <1>4, <1>6, <1>7, <1>8, <1>9, <1>10, <1>11, <1>12, <1>13, <1>14
  DEF Next, Command

\* A step that writes no frame and begins no command leaves the plan as it is.
LEMMA PlanStep ==
  ASSUME Held, Flags, Types, Plan, Decided, [Next]_vars
  PROVE  Plan'
<1> USE DEF device, request, progress, report, history, End, Proceed
<1>1. CASE Start
  BY <1>1, StartStarts DEF Started
<1>2. CASE pc' \notin {"read", "decide", "write"}
  BY <1>2 DEF Plan, Underway
<1>3. CASE Underway /\ UNCHANGED <<rest, name, want>>
  BY <1>3 DEF Plan, Fits
<1>4. CASE ReadWindow
  <2>1. UNCHANGED <<rest, name>> /\ Underway /\ name \in {"voltage", "vlimit"}
    BY <1>4 DEF ReadWindow, Underway
  <2>2. CASE name = "voltage"
    BY <1>3, <1>4, <2>1, <2>2 DEF ReadWindow
  <2>3. CASE name = "vlimit"
    <3> DEFINE p == Fill(want["window"], held["window"])
    <3>1. want \in [{"window"} -> Limits] /\ held["window"] \in Limits
      BY <2>1, <2>3 DEF Plan, Held
    <3>2. p \in Limits
      BY <3>1 DEF Fill, Limits
    <3>3. want' = [want EXCEPT !["window"] = p]
      BY <1>4, <2>3 DEF ReadWindow
    <3> HIDE DEF p
    <3>4. want' \in [{"window"} -> Limits] /\ want'["window"] = p
      BY <3>1, <3>2, <3>3
    <3>5. \A i \in 1 .. Len(rest) : rest[i] = "window"
      BY <2>1, <2>3 DEF Plan, FieldsOf
    <3>6. ASSUME NEW i \in 1 .. Len(rest)
          PROVE  rest[i] \in DOMAIN want' /\ Fits(rest[i], want'[rest[i]])
      BY <3>2, <3>4, <3>5 DEF Fits
    <3> QED
      BY <2>1, <2>3, <3>4, <3>6 DEF Plan
  <2> QED
    BY <2>1, <2>2, <2>3
<1>5. CASE WindowUnread \/ ReadCalibration \/ Decide
  BY <1>2, <1>3, <1>5 DEF WindowUnread, ReadCalibration, Decide, Underway
<1>6. CASE WriteAcknowledged
  <2>1. rest' = Tail(rest) /\ UNCHANGED <<name, want>> /\ pc = "write"
        /\ (Tail(rest) = <<>> => pc' \notin {"read", "decide", "write"})
    BY <1>6 DEF WriteAcknowledged, AfterWrite
  <2>2. SUFFICES ASSUME Tail(rest) # <<>>
                 PROVE  Plan'
    BY <1>2, <2>1
  <2>3. /\ Len(rest) \in Nat \ {0} /\ Tail(rest) \in Seq(Fields) /\ Len(Tail(rest)) = Len(rest) - 1
        /\ \A i \in 1 .. Len(Tail(rest)) : Tail(rest)[i] = rest[i + 1]
    BY <2>1, RestApart DEF Underway
  <2>4. Len(Tail(rest)) > 0
    BY <2>2, <2>3, EmptySeq, LenProperties
  <2>5. ASSUME NEW i \in 1 .. Len(Tail(rest))
        PROVE  /\ Tail(rest)[i] \in FieldsOf(name)
               /\ Tail(rest)[i] \in DOMAIN want /\ Fits(Tail(rest)[i], want[Tail(rest)[i]])
               /\ \A j \in 1 .. Len(Tail(rest)) : i # j => Tail(rest)[i] # Tail(rest)[j]
    <3>1. i + 1 \in 1 .. Len(rest) /\ Tail(rest)[i] = rest[i + 1]
      BY <2>3
    <3>2. ASSUME NEW j \in 1 .. Len(Tail(rest)), i # j PROVE Tail(rest)[i] # Tail(rest)[j]
      <4>1. j + 1 \in 1 .. Len(rest) /\ Tail(rest)[j] = rest[j + 1] /\ i + 1 # j + 1
        BY <2>3, <3>2
      <4> QED
        BY <2>1, <3>1, <4>1 DEF Plan, Underway
    <3> QED
      BY <2>1, <3>1, <3>2 DEF Plan, Underway
  <2>6. name \notin {"voltage", "vlimit", "raw"}
    <3>1. Len(rest) # 1
      BY <2>3, <2>4
    <3> QED
      BY <2>1, <3>1 DEF Plan, Underway
  <2> QED
    BY <2>1, <2>3, <2>4, <2>5, <2>6 DEF Plan
<1>7. CASE WriteUnanswered \/ WriteUnawaited \/ WriteLinkDead \/ WriteNotSent
  BY <1>2, <1>7 DEF WriteUnanswered, WriteUnawaited, WriteLinkDead, WriteNotSent
<1>8. CASE AskAnswered \/ AskFails \/ ReadBack \/ ReadBackFails
  BY <1>2, <1>8 DEF AskAnswered, AskFails, ReadBack, ReadBackFails
<1>9. CASE DeviceActs \/ FrameLost \/ UNCHANGED vars
  BY <1>2, <1>3, <1>9 DEF DeviceActs, FrameLost, vars, Underway, Types
<1> QED
  BY <1>1, <1>4, <1>5, <1>6, <1>7, <1>8, <1>9 DEF Next, Command

LEMMA FreshStep ==
  ASSUME Held, Flags, Types, Plan, Fresh, [Next]_vars
  PROVE  Fresh'
<1> USE DEF device, request, progress, report, history, End, Proceed
<1>1. CASE limits'.state = "unread" \/ pc' \notin {"read", "decide", "write"}
  BY <1>1 DEF Fresh
<1>2. CASE Start
  <2>1. limits' = Unread
    BY <1>2, StartStarts DEF Started
  <2> QED
    BY <1>1, <2>1 DEF Unread
<1>3. CASE ReadWindow
  BY <1>3 DEF ReadWindow, Answered, Fresh
<1>4. CASE /\ UNCHANGED <<held, pending, limits>>
           /\ pc' = pc \/ (pc = "decide" /\ pc' \in {"write", "idle"})
  BY <1>4 DEF Fresh
<1>5. CASE WindowUnread \/ ReadCalibration
  <2>1. limits' = limits /\ pc = "read"
    BY <1>5 DEF WindowUnread, ReadCalibration
  <2> QED
    BY <1>1, <2>1 DEF Fresh
<1>6. CASE Decide
  <2>1. UNCHANGED <<held, pending, limits>> /\ pc = "decide" /\ \E a, c : Apply(a, c)
    BY <1>6 DEF Decide
  <2> QED
    BY <1>4, <2>1 DEF Apply
<1>7. CASE WriteAcknowledged
  <2>1. /\ UNCHANGED <<pending, limits>> /\ pc = "write" /\ Act(Frame)
        /\ pc' = "write" \/ pc' \notin {"read", "decide", "write"}
        /\ Tail(rest) = <<>> => pc' # "write"
    BY <1>7 DEF WriteAcknowledged, AfterWrite
  <2>2. CASE Tail(rest) # <<>>
    <3>1. Len(rest) \in Nat /\ Tail(rest) \in Seq(Fields) /\ Len(Tail(rest)) = Len(rest) - 1
      BY <2>1, RestApart DEF Underway
    <3>2. Len(rest) # 1
      BY <2>2, <3>1, EmptySeq
    <3>3. name \notin {"voltage", "vlimit", "raw"}
      BY <2>1, <3>2 DEF Plan, Underway
    <3>4. Frame.field # "window"
      BY <2>1, <3>3, RestApart, FrameTyped DEF FieldsOf, Underway
    <3>5. held'["window"] = held["window"]
      BY <2>1, <3>4 DEF Act, Held, Fields
    <3> QED
      BY <2>1, <3>5 DEF Fresh
  <2>3. CASE Tail(rest) = <<>>
    BY <1>1, <2>1, <2>3
  <2> QED
    BY <2>2, <2>3
<1>8. CASE WriteUnanswered \/ WriteUnawaited \/ WriteLinkDead \/ WriteNotSent
  BY <1>1, <1>8 DEF WriteUnanswered, WriteUnawaited, WriteLinkDead, WriteNotSent
<1>9. CASE AskAnswered \/ AskFails \/ ReadBack \/ ReadBackFails
  BY <1>1, <1>9 DEF AskAnswered, AskFails, ReadBack, ReadBackFails
<1>10. CASE DeviceActs \/ FrameLost
  <2>1. pending # <<>> /\ UNCHANGED <<pc, limits>>
    BY <1>10 DEF DeviceActs, FrameLost
  <2> QED
    BY <2>1 DEF Fresh
<1>11. CASE UNCHANGED vars
  BY <1>4, <1>11 DEF vars
<1> QED
  BY <1>2, <1>3, <1>5, <1>6, <1>7, <1>8, <1>9, <1>10, <1>11 DEF Next, Command

LEMMA DecidedStep ==
  ASSUME Held, Flags, Types, Plan, Decided, [Next]_vars
  PROVE  Decided'
<1> USE DEF device, request, progress, report, history, End, Proceed
<1>1. CASE pc' # "write"
  BY <1>1 DEF Decided
<1>2. CASE pc = "write" /\ UNCHANGED <<name, want, agreed, limits, ignore>>
  BY <1>2 DEF Decided, CheckVLimit, Widens, VLimitUsable
<1>3. CASE Start
  BY <1>1, <1>3, StartStarts DEF Started, Decided
<1>4. CASE ReadWindow \/ WindowUnread \/ ReadCalibration
  BY <1>1, <1>4 DEF ReadWindow, WindowUnread, ReadCalibration
<1>5. CASE Decide
  <2>1. UNCHANGED <<name, want, limits, ignore>>
    BY <1>5 DEF Decide
  <2>2. CASE name = "voltage"
    <3>1. Apply(CheckVoltage(want["voltage"]), want["voltage"] > Default)
      BY <1>5, <2>2 DEF Decide
    <3>2. pc' = "write" => CheckVoltage(want["voltage"]) /\ (want["voltage"] > Default => agreed')
      BY <3>1 DEF Apply
    <3> QED
      BY <2>1, <2>2, <3>2 DEF Decided, CheckVoltage
  <2>3. CASE name = "vlimit"
    <3>1. Apply(CheckVLimit(want["window"]), Widens(want["window"]))
      BY <1>5, <2>3 DEF Decide
    <3>2. pc' = "write" => CheckVLimit(want["window"]) /\ (Widens(want["window"]) => agreed')
      BY <3>1 DEF Apply
    <3> QED
      BY <2>1, <2>3, <3>2 DEF Decided, CheckVLimit, Widens, VLimitUsable
  <2>4. CASE name \notin {"voltage", "vlimit"}
    <3>1. Apply(TRUE, TRUE)
      BY <1>5, <2>4 DEF Decide
    <3>2. pc' = "write" => agreed'
      BY <3>1 DEF Apply
    <3> QED
      BY <2>1, <2>4, <3>2 DEF Decided
  <2> QED
    BY <2>2, <2>3, <2>4
<1>6. CASE WriteAcknowledged
  BY <1>2, <1>6 DEF WriteAcknowledged
<1>7. CASE WriteUnanswered \/ WriteUnawaited \/ WriteLinkDead \/ WriteNotSent
  BY <1>1, <1>7 DEF WriteUnanswered, WriteUnawaited, WriteLinkDead, WriteNotSent
<1>8. CASE AskAnswered \/ AskFails \/ ReadBack \/ ReadBackFails
  BY <1>1, <1>8 DEF AskAnswered, AskFails, ReadBack, ReadBackFails
<1>9. CASE DeviceActs \/ FrameLost \/ UNCHANGED vars
  BY <1>1, <1>2, <1>9 DEF DeviceActs, FrameLost, vars
<1> QED
  BY <1>3, <1>4, <1>5, <1>6, <1>7, <1>8, <1>9 DEF Next, Command

\* A frame that is not the first on its way owes nothing to the window.
LEMMA LaterGuarded ==
  ASSUME NEW F, NEW i \in Nat \ {1}, NEW w, Guarded(F, i, w), NEW j, NEW v
  PROVE  Guarded(F, j, v)
BY DEF Guarded

LEMMA SentStep ==
  ASSUME Held, Flags, Types, Plan, Fresh, Decided, Sent, [Next]_vars
  PROVE  Sent'
<1> USE DEF device, request, progress, report, history, End, Proceed
<1>0. Len(pending) \in Nat /\ \A i \in 1 .. Len(pending) : pending[i] \in Frames
  BY LenProperties, ElementOfSeq DEF Types
<1>1. ASSUME UNCHANGED <<held, pending>>, n' \in {n, n + 1} PROVE Sent'
  <2>1. ASSUME NEW i \in 1 .. Len(pending)
        PROVE  pending[i].n <= n' /\ Guarded(pending[i], i, held["window"])
    <3>1. pending[i].n \in Nat /\ n \in Nat /\ pending[i].n <= n /\ Guarded(pending[i], i, held["window"])
      BY <1>0, <2>1 DEF Sent, Frames, Types
    <3> QED
      BY <1>1, <3>1
  <2> QED
    BY <1>1, <2>1 DEF Sent
<1>2. ASSUME pc = "write", pending' = Append(pending, Frame), UNCHANGED <<held, n>> PROVE Sent'
  <2>1. /\ Len(pending') = Len(pending) + 1 /\ pending'[Len(pending) + 1] = Frame
        /\ \A i \in 1 .. Len(pending) : pending'[i] = pending[i]
        /\ (pending = <<>>) <=> (Len(pending) = 0)
    BY <1>2, FrameTyped, SentAppend
  <2>2. Frame.n <= n
    BY <1>2, FrameTyped DEF Types
  <2>3. Guarded(Frame, 1, held["window"])
        /\ (pending # <<>> => \A i \in Nat : \A w : Guarded(Frame, i, w))
    BY <1>2, FrameGuarded
  <2>4. ASSUME NEW i \in 1 .. Len(pending')
        PROVE  pending'[i].n <= n /\ Guarded(pending'[i], i, held["window"])
    <3>1. CASE i \in 1 .. Len(pending)
      BY <2>1, <3>1 DEF Sent
    <3>2. CASE i = Len(pending) + 1
      <4>1. pending'[i] = Frame /\ i \in Nat /\ (pending = <<>> => i = 1)
        BY <1>0, <2>1, <3>2
      <4>2. Guarded(Frame, i, held["window"])
        BY <2>3, <4>1
      <4> QED
        BY <2>2, <4>1, <4>2
    <3> QED
      BY <1>0, <2>1, <3>1, <3>2
  <2> QED
    BY <1>2, <2>4 DEF Sent
<1>3. ASSUME pending # <<>>, pending' = Tail(pending), n' = n PROVE Sent'
  <2>1. /\ Len(pending') = Len(pending) - 1
        /\ \A i \in 1 .. Len(pending') : pending'[i] = pending[i + 1]
    BY <1>3, SentTail
  <2>2. ASSUME NEW i \in 1 .. Len(pending')
        PROVE  pending'[i].n <= n /\ Guarded(pending'[i], i, held'["window"])
    <3>1. i + 1 \in 1 .. Len(pending) /\ pending'[i] = pending[i + 1] /\ i + 1 \in Nat \ {1}
      BY <1>0, <2>1
    <3>2. pending[i + 1].n <= n /\ Guarded(pending[i + 1], i + 1, held["window"])
      BY <3>1 DEF Sent
    <3>3. Guarded(pending'[i], i + 1, held["window"])
      BY <3>1, <3>2
    <3> QED
      BY <3>1, <3>2, <3>3, LaterGuarded
  <2> QED
    BY <1>3, <2>2 DEF Sent
<1>4. ASSUME pending = <<>>, pending' = pending PROVE Sent'
  BY <1>4, EmptySeq DEF Sent
<1>5. CASE Start
  BY <1>1, <1>5, StartStarts DEF Started
<1>6. CASE ReadWindow \/ WindowUnread \/ ReadCalibration \/ Decide
  BY <1>1, <1>6 DEF ReadWindow, WindowUnread, ReadCalibration, Decide
<1>7. CASE WriteAcknowledged
  BY <1>4, <1>7 DEF WriteAcknowledged, Answered
<1>8. CASE WriteUnanswered \/ WriteUnawaited \/ WriteLinkDead \/ WriteNotSent
  BY <1>1, <1>2, <1>8 DEF WriteUnanswered, WriteUnawaited, WriteLinkDead, WriteNotSent
<1>9. CASE AskAnswered \/ AskFails \/ ReadBack \/ ReadBackFails \/ UNCHANGED vars
  BY <1>1, <1>9 DEF AskAnswered, AskFails, ReadBack, ReadBackFails, vars
<1>10. CASE DeviceActs \/ FrameLost
  BY <1>3, <1>10 DEF DeviceActs, FrameLost
<1> QED
  BY <1>5, <1>6, <1>7, <1>8, <1>9, <1>10 DEF Next, Command

LEMMA ToldStep ==
  ASSUME Held, Flags, Types, Plan, Sent, Told, [Next]_vars
  PROVE  Told'
<1> USE DEF device, request, progress, report, history, End, Proceed
<1>0. /\ Len(pending) \in Nat /\ n \in Nat
      /\ \A i \in 1 .. Len(pending) : pending[i].n \in Nat /\ pending[i].field \in Fields
  <2>1. pending \in Seq(Frames) /\ n \in Nat
    BY DEF Types
  <2>2. Len(pending) \in Nat /\ \A i \in 1 .. Len(pending) : pending[i] \in Frames
    BY <2>1, LenProperties, ElementOfSeq
  <2> QED
    BY <2>1, <2>2 DEF Frames
<1>1. CASE Start
  <2>1. n' = n + 1 /\ landed' = {} /\ pending' = pending
    BY <1>1, StartStarts DEF Started
  <2>2. \A i \in 1 .. Len(pending) : pending[i].n # n'
    BY <1>0, <2>1 DEF Sent
  <2> QED
    BY <2>1, <2>2 DEF Told
<1>2. CASE UNCHANGED <<pending, n, landed, said, rest>> /\ (Underway' => Underway)
  BY <1>2 DEF Told
<1>3. CASE ReadWindow \/ WindowUnread \/ ReadCalibration \/ Decide
  BY <1>2, <1>3 DEF ReadWindow, WindowUnread, ReadCalibration, Decide, Underway
<1>4. CASE WriteAcknowledged
  <2>1. /\ pc = "write" /\ pending = <<>> /\ pending' = pending /\ rest' = Tail(rest)
        /\ said' = [said EXCEPT ![Head(rest)] = "acknowledged"] /\ n' = n /\ Act(Frame)
    BY <1>4 DEF WriteAcknowledged, Answered, Say
  <2>2. landed' = landed \cup {Head(rest)}
    BY <2>1, FrameTyped DEF Act
  <2>3. /\ Head(rest) \in Fields /\ rest[1] = Head(rest) /\ Len(rest) \in Nat \ {0}
        /\ Len(Tail(rest)) = Len(rest) - 1
        /\ \A i \in 1 .. Len(Tail(rest)) : Tail(rest)[i] = rest[i + 1] /\ Tail(rest)[i] # Head(rest)
    BY <2>1, RestApart DEF Underway
  <2>4. \A f \in landed' : said'[f] # "nothing"
    BY <2>1, <2>2, <2>3 DEF Told, Types
  <2>5. ASSUME NEW i \in 1 .. Len(Tail(rest)) PROVE Tail(rest)[i] \notin landed'
    <3>1. i + 1 \in 1 .. Len(rest) /\ Tail(rest)[i] = rest[i + 1] /\ Tail(rest)[i] # Head(rest)
      BY <2>3
    <3>2. rest[i + 1] \notin landed
      BY <2>1, <3>1 DEF Told, Underway
    <3> QED
      BY <2>2, <3>1, <3>2
  <2>6. 1 .. Len(pending') = {}
    BY <2>1, EmptySeq
  <2> QED
    BY <2>1, <2>4, <2>5, <2>6 DEF Told
<1>5. CASE WriteUnanswered \/ WriteUnawaited \/ WriteLinkDead
  <2>1. /\ pc = "write" /\ pending' \in {pending, Append(pending, Frame)} /\ UNCHANGED <<n, landed>>
        /\ pc' \notin {"read", "decide", "write"}
    BY <1>5 DEF WriteUnanswered, WriteUnawaited, WriteLinkDead
  <2>2. PICK what \in {"unconfirmed", "link dead"} : said' = [said EXCEPT ![Head(rest)] = what]
    BY <1>5 DEF WriteUnanswered, WriteUnawaited, WriteLinkDead, Fail, Say
  <2>3. Head(rest) \in Fields
    BY <2>1, RestApart DEF Underway
  <2>4. \A f \in Fields : said[f] # "nothing" \/ f = Head(rest) => said'[f] # "nothing"
    BY <2>2, <2>3 DEF Types
  <2>5. \A f \in landed' : said'[f] # "nothing"
    BY <2>1, <2>4 DEF Told, Types
  <2>6. ASSUME NEW i \in 1 .. Len(pending'), pending'[i].n = n PROVE said'[pending'[i].field] # "nothing"
    <3>1. CASE pending' = pending
      BY <1>0, <2>4, <2>6, <3>1 DEF Told
    <3>2. CASE pending' = Append(pending, Frame)
      <4>1. /\ Len(pending') = Len(pending) + 1 /\ pending'[Len(pending) + 1] = Frame
            /\ \A j \in 1 .. Len(pending) : pending'[j] = pending[j]
        BY <2>1, <3>2, FrameTyped, SentAppend
      <4>2. CASE i \in 1 .. Len(pending)
        BY <1>0, <2>4, <2>6, <4>1, <4>2 DEF Told
      <4>3. CASE i = Len(pending) + 1
        BY <2>1, <2>3, <2>4, <4>1, <4>3, FrameTyped
      <4>4. i \in 1 .. Len(pending) \/ i = Len(pending) + 1
        <5>1. Len(pending) \in Nat /\ Len(pending') = Len(pending) + 1
          BY <1>0, <4>1
        <5>2. i \in 1 .. Len(pending) + 1
          BY <5>1
        <5> QED
          BY <5>1, <5>2, OneMore
      <4> QED
        BY <4>2, <4>3, <4>4
    <3> QED
      BY <2>1, <3>1, <3>2
  <2> QED
    BY <2>1, <2>5, <2>6 DEF Told, Underway
<1>6. CASE WriteNotSent
  <2>1. /\ pc = "write" /\ said' = [said EXCEPT ![Head(rest)] = "nothing"]
        /\ UNCHANGED <<pending, n, landed>> /\ pc' = "idle"
    BY <1>6 DEF WriteNotSent, Fail, Say
  <2>2. Head(rest) \in Fields /\ Head(rest) = rest[1] /\ 1 \in 1 .. Len(rest)
    BY <2>1, RestApart DEF Underway
  <2>3. Head(rest) \notin landed /\ \A i \in 1 .. Len(pending) : pending[i].n # n
    BY <2>1, <2>2 DEF Told, Underway
  <2>4. \A f \in landed : said'[f] # "nothing"
    BY <2>1, <2>2, <2>3 DEF Told, Types
  <2> QED
    BY <2>1, <2>3, <2>4 DEF Told, Underway
<1>7. ASSUME NEW f \in Fields, NEW what \in {"reported", "read back"}, said' = [said EXCEPT ![f] = what],
             UNCHANGED <<pending, n, landed>>, pc' = "idle"
      PROVE  Told'
  <2>1. \A g \in Fields : said[g] # "nothing" => said'[g] # "nothing"
    BY <1>7 DEF Types
  <2> QED
    BY <1>0, <1>7, <2>1 DEF Told, Types, Underway
<1>8. CASE AskAnswered
  BY <1>7, <1>8 DEF AskAnswered, Fields
<1>9. CASE ReadBack
  <2>1. CASE Field \in Fields
    BY <1>7, <1>9, <2>1 DEF ReadBack
  <2>2. CASE Field \notin Fields
    <3>1. said' = said
      BY <1>9, <2>2 DEF ReadBack, Types
    <3> QED
      BY <1>2, <1>9, <3>1 DEF ReadBack, Underway, Told
  <2> QED
    BY <2>1, <2>2
<1>10. CASE AskFails \/ ReadBackFails \/ UNCHANGED vars
  BY <1>2, <1>10 DEF AskFails, ReadBackFails, vars, Underway
<1>11. CASE DeviceActs \/ FrameLost
  <2>1. /\ pending # <<>> /\ pending' = Tail(pending) /\ UNCHANGED <<n, said, rest, pc>>
        /\ landed' = landed \/ (Head(pending).n = n /\ landed' = landed \cup {Head(pending).field})
    BY <1>11 DEF DeviceActs, FrameLost, Act
  <2>2. /\ Head(pending) = pending[1] /\ 1 \in 1 .. Len(pending) /\ Len(pending') = Len(pending) - 1
        /\ \A i \in 1 .. Len(pending') : pending'[i] = pending[i + 1]
    BY <2>1, SentTail
  <2>3. \A f \in landed' : said'[f] # "nothing"
    BY <2>1, <2>2 DEF Told
  <2>4. \A i \in 1 .. Len(pending') : i + 1 \in 1 .. Len(pending) /\ pending'[i] = pending[i + 1]
    BY <1>0, <2>2
  <2>5. Underway => landed' = landed
    BY <2>1, <2>2 DEF Told
  <2> QED
    BY <2>1, <2>3, <2>4, <2>5 DEF Told, Underway
<1> QED
  BY <1>1, <1>3, <1>4, <1>5, <1>6, <1>8, <1>9, <1>10, <1>11 DEF Next, Command

LEMMA ShownStep ==
  ASSUME Held, Flags, Types, Plan, Shown, [Next]_vars
  PROVE  Shown'
<1> USE DEF device, request, progress, report, history, End, Proceed
<1> DEFINE Quoted == {"read back", "reported"}
<1>1. ASSUME \A f \in Fields : said'[f] \notin Quoted,
             pc' = "ask" => name' = "voltage",
             pc' = "readBack" => name' \in {"voltage", "vlimit", "current"}
      PROVE  Shown'
  BY <1>1 DEF Shown
<1>2. pc # "idle" \/ pending # <<>> => \A f \in Fields : said[f] \notin Quoted
  BY DEF Shown
<1>3. CASE Start
  <2>1. said' = Nothing /\ pc' \in {"idle", "read", "decide", "write"}
    BY <1>3, StartStarts DEF Started
  <2> QED
    BY <1>1, <2>1 DEF Nothing
<1>4. CASE ReadWindow \/ WindowUnread \/ ReadCalibration \/ Decide \/ AskFails \/ ReadBackFails
  <2>1. said' = said /\ pc # "idle" /\ pc' \notin {"ask", "readBack"}
    BY <1>4 DEF ReadWindow, WindowUnread, ReadCalibration, Decide, Apply, AskFails, ReadBackFails
  <2> QED
    BY <1>1, <1>2, <2>1
<1>5. CASE WriteAcknowledged \/ WriteUnanswered \/ WriteUnawaited \/ WriteLinkDead \/ WriteNotSent
  <2>1. /\ pc = "write" /\ name' = name
        /\ \E w \in {"acknowledged", "unconfirmed", "link dead", "nothing"} :
             said' = [said EXCEPT ![Head(rest)] = w]
    BY <1>5 DEF WriteAcknowledged, WriteUnanswered, WriteUnawaited, WriteLinkDead, WriteNotSent,
          Fail, Say
  <2>2. /\ pc' = "ask" => name = "voltage"
        /\ pc' = "readBack" => name \in {"voltage", "vlimit", "current"}
    BY <1>5
    DEF WriteAcknowledged, AfterWrite, WriteUnanswered, WriteUnawaited, WriteLinkDead, WriteNotSent
  <2>3. \A f \in Fields : said'[f] \notin Quoted
    BY <1>2, <2>1 DEF Types
  <2> QED
    BY <1>1, <2>1, <2>2, <2>3
<1>6. CASE AskAnswered
  <2>1. /\ said' = [said EXCEPT !["voltage"] = "reported"] /\ shown' = held["voltage"]
        /\ pending = <<>> /\ pc' = "idle" /\ UNCHANGED <<held, pending>> /\ pc = "ask"
    BY <1>6 DEF AskAnswered, Reading, Answered
  <2>2. \A f \in Fields : said'[f] \in Quoted => f = "voltage" /\ said'[f] = "reported"
    BY <1>2, <2>1 DEF Types
  <2> QED
    BY <2>1, <2>2 DEF Shown
<1>7. CASE ReadBack
  <2>1. /\ said' = [said EXCEPT ![Field] = "read back"] /\ shown' = held[Field]
        /\ mismatch' = (shown' # Value(Field))
        /\ pending = <<>> /\ pc' = "idle" /\ UNCHANGED <<held, pending, want, name>> /\ pc = "readBack"
    BY <1>7 DEF ReadBack, Reading, Answered, Differs
  <2>2. \A f \in Fields : said'[f] \in Quoted => f = Field
    BY <1>2, <2>1 DEF Types
  <2>3. \A f : Value(f)' = Value(f)
    BY <2>1 DEF Value
  <2>4. ASSUME NEW f \in Fields, said'[f] \in Quoted
        PROVE  shown' = held'[f] /\ (~mismatch' => held'[f] = Value(f)')
    <3>1. f = Field
      BY <2>2, <2>4
    <3> QED
      BY <2>1, <2>3, <3>1
  <2> QED
    BY <2>1, <2>4 DEF Shown
<1>8. CASE DeviceActs \/ FrameLost
  <2>1. pending # <<>> /\ UNCHANGED <<pc, name, said>>
    BY <1>8 DEF DeviceActs, FrameLost
  <2> QED
    BY <1>1, <1>2, <2>1 DEF Shown
<1>9. CASE UNCHANGED vars
  BY <1>9 DEF vars, Shown, Value
<1> QED
  BY <1>3, <1>4, <1>5, <1>6, <1>7, <1>8, <1>9 DEF Next, Command

-----------------------------------------------------------------------------
(* The invariant holds *)

Inv == Held /\ Flags /\ Types /\ Plan /\ Fresh /\ Decided /\ Sent /\ Told /\ Shown

LEMMA Initially ==
  ASSUME Init
  PROVE  Inv
<1>1. PICK w \in Windows : held = [f \in Fields |-> IF f = "window" THEN w ELSE
                                                      IF f = "voltage" THEN Default ELSE 0]
  BY DEF Init
<1>2. /\ pending = <<>> /\ pc = "idle" /\ name = "voltage" /\ n = 0 /\ sides = {} /\ limits = Unread
      /\ said = [f \in Fields |-> "nothing"] /\ landed = {}
  BY DEF Init, Nothing
<1>3. ignore = FALSE /\ agreed = FALSE
  BY DEF Init
<1>4. w \in Limits
  BY DEF Pairs, Limits
<1>5. Held
  BY <1>1, <1>4 DEF Held, Fields, Values
<1>6. Flags
  BY <1>3 DEF Flags
<1>7. pending \in Seq(Frames) /\ Len(pending) = 0 /\ 1 .. Len(pending) = {}
  BY <1>2, EmptySeq
<1>8. Types
  BY <1>2, <1>7 DEF Types, Names, Unread, Words
<1>9. Plan /\ Fresh /\ Decided
  BY <1>2 DEF Plan, Fresh, Decided, Underway
<1>10. Sent /\ Told
  BY <1>2, <1>7 DEF Sent, Told, Underway
<1>11. Shown
  BY <1>2 DEF Shown
<1> QED
  BY <1>5, <1>6, <1>8, <1>9, <1>10, <1>11 DEF Inv

LEMMA Inductive ==
  ASSUME Inv, [Next]_vars
  PROVE  Inv'
BY TypesStep, PlanStep, FreshStep, DecidedStep, SentStep, ToldStep, ShownStep DEF Inv

\* The invariant holds throughout: it is Settings' type invariant too.
THEOREM SettingsTypeCorrect == Spec => []Inv
<1>1. Init => Inv
  BY Initially
<1>2. Inv /\ [Next]_vars => Inv'
  BY Inductive
<1> QED
  BY <1>1, <1>2, PTL DEF Spec

\* What a command's own frames have changed, or still may, is never left out of what
\* the command said when it ends: not a write that timed out, not the first of two
\* terms when the second fails.
THEOREM ChangesTold == Spec => []NothingDenied
<1>1. Inv => NothingDenied
  BY DEF Inv, Told, Types, NothingDenied, MayHaveChanged
<1> QED
  BY <1>1, SettingsTypeCorrect, PTL

\* A value shown as the device's own is what it holds.
THEOREM ReadingsHeld == Spec => []ShownIsHeld
<1>1. Inv => ShownIsHeld
  BY DEF Inv, Shown, ShownIsHeld
<1> QED
  BY <1>1, SettingsTypeCorrect, PTL

\* What the unit takes on at a step is one guarded frame's value.
LEMMA HeldChanges ==
  ASSUME Inv, [Next]_vars, held' # held
  PROVE  /\ last' \in Frames /\ Guarded(last', 1, held["window"]) /\ Fits(last'.field, last'.value)
         /\ held' = [held EXCEPT ![last'.field] = last'.value]
<1> USE DEF device, request, progress, report, history
<1>1. CASE Start
  BY <1>1, StartStarts DEF Inv, Started
<1>2. CASE WriteAcknowledged
  <2>1. pc = "write" /\ held' = [held EXCEPT ![Frame.field] = Frame.value] /\ last' = Frame
    BY <1>2 DEF WriteAcknowledged, Act
  <2>2. Frame \in Frames /\ Fits(Frame.field, Frame.value) /\ Guarded(Frame, 1, held["window"])
    BY <2>1, FrameTyped, FrameGuarded DEF Inv
  <2> QED
    BY <2>1, <2>2
<1>3. CASE DeviceActs
  <2>1. /\ pending # <<>> /\ last' = Head(pending)
        /\ held' = [held EXCEPT ![Head(pending).field] = Head(pending).value]
    BY <1>3 DEF DeviceActs, Act
  <2>2. Head(pending) \in Frames /\ Head(pending) = pending[1] /\ 1 \in 1 .. Len(pending)
    BY <2>1, SentTail DEF Inv
  <2>3. Guarded(pending[1], 1, held["window"]) /\ Fits(pending[1].field, pending[1].value)
    BY <2>2 DEF Inv, Sent, Types
  <2> QED
    BY <2>1, <2>2, <2>3
<1>4. CASE ReadWindow \/ WindowUnread \/ ReadCalibration \/ Decide \/ WriteUnanswered \/ WriteUnawaited
           \/ WriteLinkDead \/ WriteNotSent \/ AskAnswered \/ AskFails \/ ReadBack \/ ReadBackFails
           \/ FrameLost \/ UNCHANGED vars
  BY <1>4 DEF ReadWindow, WindowUnread, ReadCalibration, Decide, WriteUnanswered, WriteUnawaited,
              WriteLinkDead, WriteNotSent, AskAnswered, AskFails, ReadBack, ReadBackFails, FrameLost, vars
<1> QED
  BY <1>1, <1>2, <1>3, <1>4 DEF Next, Command

\* The rail moves only inside the window the unit has at that time, or by a window set
\* aside by name; inside the envelope; above the default only with the user's word.
THEOREM RailIsGuarded == Spec => RailGuarded
<1> DEFINE v == held'["voltage"]
<1>1. ASSUME Inv, [Next]_vars, held'["voltage"] # held["voltage"]
      PROVE  /\ last'.by = "raw" \/ last'.aside \/ Within(v, held["window"])
             /\ last'.by = "raw" \/ Envelope(v)
             /\ v > Default => last'.agreed
  <2>1. /\ last' \in Frames /\ Guarded(last', 1, held["window"])
        /\ held' = [held EXCEPT ![last'.field] = last'.value]
    BY <1>1, HeldChanges
  <2>2. held \in [Fields -> Values] /\ last'.field \in Fields /\ "voltage" \in Fields
    BY <1>1, <2>1 DEF Inv, Held, Frames, Fields
  <2>3. last'.field = "voltage" /\ v = last'.value
    BY <1>1, <2>1, <2>2
  <2> QED
    BY <2>1, <2>3 DEF Guarded
<1> QED
  BY <1>1, SettingsTypeCorrect, PTL DEF Spec, RailGuarded

\* The window becomes wider only with the user's word.
THEOREM WideningIsAgreed == Spec => WideningAgreed
<1>1. ASSUME Inv, [Next]_vars,
             held'["window"].low < held["window"].low \/ held'["window"].high > held["window"].high
      PROVE  last'.agreed
  <2>1. held["window"] \in Limits /\ held \in [Fields -> Values]
    BY <1>1 DEF Inv, Held
  <2>2. held["window"].low \in Int /\ held["window"].high \in Int
    BY <2>1 DEF Limits, Sides
  <2>3. held' # held
    BY <1>1, <2>2
  <2>4. /\ last' \in Frames /\ Guarded(last', 1, held["window"]) /\ Fits(last'.field, last'.value)
        /\ held' = [held EXCEPT ![last'.field] = last'.value]
    BY <1>1, <2>3, HeldChanges
  <2>5. last'.field \in Fields /\ "window" \in Fields
    BY <2>4 DEF Frames, Fields
  <2>6. CASE last'.field # "window"
    BY <1>1, <2>1, <2>2, <2>4, <2>5, <2>6
  <2>7. CASE last'.field = "window"
    <3>1. held'["window"] = last'.value /\ last'.value \in Limits
      BY <2>1, <2>4, <2>5, <2>7 DEF Fits
    <3>2. held'["window"].low \in Int /\ held'["window"].high \in Int
      BY <3>1 DEF Limits, Sides
    <3> QED
      BY <1>1, <2>2, <2>4, <2>7, <3>1, <3>2 DEF Guarded, NarrowerThan
  <2> QED
    BY <2>6, <2>7
<1> QED
  BY <1>1, SettingsTypeCorrect, PTL DEF Spec, WideningAgreed

=============================================================================
