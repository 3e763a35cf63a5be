------------------------------ MODULE Settings ------------------------------
(***************************************************************************)
(* internal/cli settings, interlocks and raw: commands that change what    *)
(* the unit keeps, one after another, over a link on which a write may go  *)
(* unanswered and still land, even when the next command has begun.        *)
(*                                                                         *)
(* The link is what module Session proves of it.  An answer belongs to its *)
(* command; the device takes frames in order, so that one which answers    *)
(* has nothing left of what was sent before.                               *)
(***************************************************************************)
EXTENDS Integers, Sequences

CONSTANTS
  HardwareMin, HardwareMax,  \* the hardware envelope
  Default,                   \* the factory's output voltage, above which a write is confirmed
  WireMax,                   \* the largest value of a 16-bit field
  Top,                       \* the largest value accepted for each plain setting
  Args,                      \* numbers a user may type
  Windows,                   \* windows a unit may begin with, usable or not
  MaxCommands                \* bound: commands run

Wide == {"current", "nominal", "sag"}
Fields == {"voltage", "window", "offset", "scale", "lock", "led", "colour"} \cup Wide
Names == {"voltage", "vlimit", "current", "tolerance", "calibrate", "authlock", "led", "raw"}
Sides == {"low", "high"}
Pairs == [Sides -> 0 .. WireMax]

ASSUME SettingsAssumption ==
  /\ {HardwareMin, HardwareMax, Default, WireMax, MaxCommands} \subseteq Nat
  /\ 0 < HardwareMin /\ HardwareMin <= Default /\ Default < HardwareMax /\ HardwareMax <= WireMax
  /\ Top \in [Wide \cup {"lock", "led", "colour"} -> 0 .. WireMax]
  /\ Args \subseteq Int /\ Windows \subseteq Pairs

VARIABLES    \* the unit
  held,      \* what it keeps
  pending    \* frames that went unanswered: it may act on them yet, or never
VARIABLES    \* the command
  pc, name, n,       \* where it is, which one, and the how manieth
  want, sides,       \* the value asked for each field; the flags of vlimit given
  ignore,            \* --ignore-device-limits
  limits,            \* what the read of the window told
  agreed,            \* did the user say yes, or --yes?
  rest,              \* fields still to write
  exit,
  said,              \* what reached the user about each field
  shown, mismatch    \* the value shown as the device's; was it warned of?
VARIABLES    \* history
  landed,    \* fields the command's own frames have reached
  last       \* the frame the unit acted on last

device == <<held, pending>>
request == <<name, n, want, sides, ignore>>
progress == <<pc, limits, agreed, rest, exit>>
report == <<said, shown, mismatch>>
history == <<landed, last>>
vars == <<device, request, progress, report, history>>

Nothing == [f \in Fields |-> "nothing"]
Unread == [state |-> "unread", low |-> 0, high |-> 0]
NoFrame == [n |-> 0, by |-> "nobody", field |-> "none", value |-> 0, sides |-> {},
            aside |-> FALSE, agreed |-> FALSE]

Init ==
  /\ \E w \in Windows : held = [f \in Fields |-> IF f = "window" THEN w ELSE
                                                  IF f = "voltage" THEN Default ELSE 0]
  /\ pending = <<>>
  /\ pc = "idle" /\ name = "voltage" /\ n = 0
  /\ want = <<>> /\ sides = {} /\ ignore = FALSE
  /\ limits = Unread /\ agreed = FALSE /\ rest = <<>> /\ exit = "none"
  /\ said = Nothing /\ shown = 0 /\ mismatch = FALSE
  /\ landed = {} /\ last = NoFrame

-----------------------------------------------------------------------------
(* The interlocks *)

\* Negative, too wide for the wire, below or above the hardware: each a refusal.
Envelope(mv) == mv \in HardwareMin .. HardwareMax

\* What uint16 makes of a number, and a pair of them.
Wire(v) == v % (WireMax + 1)
WirePair(p) == [s \in Sides |-> Wire(p[s])]

VLimitUsable(p) == p.high > p.low

\* Mutant of CheckVoltage: without a window the envelope will do.
CheckVoltageFallback(mv) ==
  /\ Envelope(mv)
  /\ limits.state = "valid" => limits.low <= mv /\ mv <= limits.high

\* Interlock 1.  A window that cannot be had is no licence for a wider one.
CheckVoltage(mv) ==
  /\ Envelope(mv)
  /\ IF limits.state = "valid" THEN limits.low <= mv /\ mv <= limits.high ELSE ignore

\* Interlock 3, the part that needs no device.
CheckVLimit(p) ==
  /\ VLimitUsable(p)
  /\ p.low >= HardwareMin /\ p.high <= HardwareMax

\* Mutant of Widens: an unknown window is not widened.
WidensKnown(p) == limits.state # "unread" /\ (p.low < limits.low \/ p.high > limits.high)

\* A window that could not be read may be being widened.
Widens(p) == limits.state = "unread" \/ p.low < limits.low \/ p.high > limits.high

-----------------------------------------------------------------------------
(* A command begins.  Only one that its arguments alone do not refuse opens a
   device. *)

\* The command cmd is to write the fields in order, from the point first.
Begin(cmd, fields, values, first, accepted) ==
  /\ pc = "idle" /\ n < MaxCommands /\ n' = n + 1
  /\ name' = cmd /\ want' = values /\ rest' = fields
  /\ pc' = IF accepted THEN first ELSE "idle"
  /\ exit' = IF accepted THEN "none" ELSE "refused"
  /\ limits' = Unread /\ agreed' = FALSE
  /\ said' = Nothing /\ shown' = 0 /\ mismatch' = FALSE
  /\ landed' = {}
  /\ UNCHANGED <<device, last>>

SetVoltage == \E mv \in Args :
  /\ Begin("voltage", <<"voltage">>, [f \in {"voltage"} |-> mv], "read", Envelope(mv))
  /\ ignore' \in BOOLEAN /\ sides' = {}

\* A flag left out is 0 until the device fills it in.
SetVLimit == \E given \in SUBSET Sides \ {{}}, typed \in [Sides -> Args] :
  LET p == [s \in Sides |-> IF s \in given THEN typed[s] ELSE 0] IN
  /\ Begin("vlimit", <<"window">>, [f \in {"window"} |-> p], "read",
           given = Sides => CheckVLimit(p))
  /\ sides' = given /\ ignore' = FALSE

\* The others take the terms given, in their order, with nothing to compare to.
SetPlain(cmd, fields, first) == \E v \in Args :
  /\ Begin(cmd, fields, [f \in {fields[i] : i \in DOMAIN fields} |-> v], first,
           \A i \in DOMAIN fields : fields[i] \in DOMAIN Top => v \in 0 .. Top[fields[i]])
  /\ sides' = {} /\ ignore' = FALSE

SetCurrent == SetPlain("current", <<"current">>, "write")

SetTolerance == \E fields \in {<<"nominal">>, <<"sag">>, <<"nominal", "sag">>} :
  SetPlain("tolerance", fields, "write")

SetCalibration == \E fields \in {<<"offset">>, <<"scale">>, <<"offset", "scale">>} :
  SetPlain("calibrate", fields, "read")

SetAuthLock == SetPlain("authlock", <<"lock">>, "decide")

SetLED == \E field \in {"led", "colour"} : SetPlain("led", <<field>>, "write")

\* raw sends anything, to any field; these two are the ones the interlocks guard.
SendRaw ==
  /\ sides' = {} /\ ignore' = FALSE
  /\ \/ \E mv \in 0 .. WireMax :
          Begin("raw", <<"voltage">>, [f \in {"voltage"} |-> mv], "decide", TRUE)
     \/ \E p \in Pairs : Begin("raw", <<"window">>, [f \in {"window"} |-> p], "decide", TRUE)

Start == SetVoltage \/ SetVLimit \/ SetCurrent \/ SetTolerance \/ SetCalibration \/ SetAuthLock
         \/ SetLED \/ SendRaw

-----------------------------------------------------------------------------
(* What is read before the write *)

End(how) == pc' = "idle" /\ exit' = how
Proceed(there) == pc' = there /\ UNCHANGED exit

\* Nothing is answered before everything sent earlier is dealt with.
Answered == pending = <<>>

\* A limit that is not given is the one the unit has.
Fill(p, w) == [s \in Sides |-> IF s \in sides THEN p[s] ELSE w[s]]

ReadWindow ==
  /\ pc = "read" /\ name \in {"voltage", "vlimit"} /\ Answered
  /\ LET w == held["window"] IN
     /\ limits' = [state |-> IF VLimitUsable(w) THEN "valid" ELSE "malformed",
                   low |-> w.low, high |-> w.high]
     /\ want' = IF name = "voltage" THEN want
                ELSE [want EXCEPT !["window"] = Fill(@, w)]
  /\ Proceed("decide")
  /\ UNCHANGED <<device, name, n, sides, ignore, agreed, rest, report, history>>

\* vlimit needs the window for the flag that was left out, and for that alone.
WindowUnread ==
  /\ pc = "read" /\ name \in {"voltage", "vlimit"}
  /\ IF name = "vlimit" /\ sides # Sides THEN End("failed") ELSE Proceed("decide")
  /\ UNCHANGED <<device, request, limits, agreed, rest, report, history>>

\* The terms that are kept have to be read; those that are replaced need not.
ReadCalibration ==
  /\ pc = "read" /\ name = "calibrate"
  /\ \E read \in SUBSET {"offset", "scale"} :
       /\ read # {} => Answered
       /\ IF {"offset", "scale"} \ DOMAIN want \subseteq read
          THEN Proceed("decide") ELSE End("failed")
  /\ UNCHANGED <<device, request, limits, agreed, rest, report, history>>

\* apply: refused; or to be confirmed, by --yes or at a terminal; or neither.
Apply(accepted, confirm) ==
  \E yes \in BOOLEAN :
    /\ agreed' = (confirm /\ yes)
    /\ IF accepted /\ (confirm => yes) THEN Proceed("write") ELSE End("refused")

Decide ==
  /\ pc = "decide"
  /\ CASE name = "voltage" -> Apply(CheckVoltage(want["voltage"]), want["voltage"] > Default)
       [] name = "vlimit" -> Apply(CheckVLimit(want["window"]), Widens(want["window"]))
       [] OTHER -> Apply(TRUE, TRUE)
  /\ UNCHANGED <<device, request, limits, rest, report, history>>

-----------------------------------------------------------------------------
(* The write *)

Value(f) == IF f = "window" THEN WirePair(want[f]) ELSE
            IF f \in Wide \cup {"voltage"} THEN Wire(want[f]) ELSE want[f]

Frame == LET f == Head(rest) IN
  [n |-> n, by |-> name, field |-> f, value |-> Value(f), sides |-> sides,
   aside |-> ignore /\ limits.state # "valid", agreed |-> agreed]

\* The unit acts on a frame: it takes the value, or keeps what it has and
\* acknowledges all the same.
Act(frame) ==
  /\ held' \in {held, [held EXCEPT ![frame.field] = frame.value]}
  /\ landed' = IF frame.n = n THEN landed \cup {frame.field} ELSE landed
  /\ last' = frame

Say(what) == said' = [said EXCEPT ![Head(rest)] = what]

AfterWrite ==
  IF Tail(rest) # <<>> THEN Proceed("write")
  ELSE IF name \in {"voltage", "vlimit", "current"} THEN Proceed("readBack") ELSE End("ok")

WriteAcknowledged ==
  /\ pc = "write" /\ Answered
  /\ Act(Frame) /\ Say("acknowledged") /\ rest' = Tail(rest)
  /\ AfterWrite
  /\ UNCHANGED <<pending, request, limits, agreed, shown, mismatch>>

\* Mutant of Fail: the lines of a failing command are dropped, and that is all.
FailQuietly(what) ==
  said' = [f \in Fields |-> IF f = Head(rest) THEN what ELSE "nothing"]

\* A command that fails prints none of its lines; that an earlier term was
\* written already is said in a warning of its own.
Fail(what) == Say(what)

\* Sent in full, and then a timeout or an interrupt: warnUnacknowledged.  After a
\* timeout SetVoltageMv asks the device what it holds.
WriteUnanswered ==
  /\ pc = "write"
  /\ pending' = Append(pending, Frame) /\ Fail("unconfirmed")
  /\ IF name = "voltage" THEN Proceed("ask") \/ End("failed") ELSE End("failed")
  /\ UNCHANGED <<held, request, limits, agreed, rest, shown, mismatch, history>>

\* raw --no-ack
WriteUnawaited ==
  /\ pc = "write" /\ name = "raw"
  /\ pending' = Append(pending, Frame) /\ Say("unconfirmed") /\ End("ok")
  /\ UNCHANGED <<held, request, limits, agreed, rest, shown, mismatch, history>>

\* The link dies under the write: ErrTransportClosed, which carries no mark.
WriteLinkDead ==
  /\ pc = "write"
  /\ pending' \in {pending, Append(pending, Frame)} /\ Fail("link dead") /\ End("failed")
  /\ UNCHANGED <<held, request, limits, agreed, rest, shown, mismatch, history>>

WriteNotSent ==
  /\ pc = "write"
  /\ Fail("nothing") /\ End("failed")
  /\ UNCHANGED <<device, request, limits, agreed, rest, shown, mismatch, history>>

-----------------------------------------------------------------------------
(* The read-back *)

\* Mutant of Reading: 0 mV is a voltage.
ReadingZero(f) == {held[f]} \cup IF f = "voltage" THEN {0} ELSE {}

\* 0 mV means not ready: it is never taken for a reading.
Reading(f) == {held[f]}

Differs(f, v) == v # Value(f)

\* The one field of a command that reads back.
Field == IF name = "vlimit" THEN "window" ELSE name

\* The follow-up of a voltage write that timed out, one read and no retry.
AskAnswered ==
  /\ pc = "ask" /\ Answered
  /\ \E v \in Reading("voltage") : shown' = v
  /\ said' = [said EXCEPT !["voltage"] = "reported"]
  /\ End("failed")
  /\ UNCHANGED <<device, request, limits, agreed, rest, mismatch, history>>

AskFails ==
  /\ pc = "ask" /\ End("failed")
  /\ UNCHANGED <<device, request, limits, agreed, rest, report, history>>

ReadBack ==
  /\ pc = "readBack" /\ Answered
  /\ \E v \in Reading(Field) : shown' = v /\ mismatch' = Differs(Field, v)
  /\ said' = [said EXCEPT ![Field] = "read back"]
  /\ End("ok")
  /\ UNCHANGED <<device, request, limits, agreed, rest, history>>

\* Not a failure: what was written is shown, as written and not read back.
ReadBackFails ==
  /\ pc = "readBack" /\ End("ok")
  /\ UNCHANGED <<device, request, limits, agreed, rest, report, history>>

-----------------------------------------------------------------------------
(* The unit and the link *)

DeviceActs ==
  /\ pending # <<>>
  /\ Act(Head(pending)) /\ pending' = Tail(pending)
  /\ UNCHANGED <<request, progress, report>>

FrameLost ==
  /\ pending # <<>>
  /\ pending' = Tail(pending)
  /\ UNCHANGED <<held, request, progress, report, history>>

Command ==
  \/ ReadWindow \/ WindowUnread \/ ReadCalibration \/ Decide
  \/ WriteAcknowledged \/ WriteUnanswered \/ WriteUnawaited \/ WriteLinkDead \/ WriteNotSent
  \/ AskAnswered \/ AskFails \/ ReadBack \/ ReadBackFails

Next == Start \/ Command \/ DeviceActs \/ FrameLost

Spec == Init /\ [][Next]_vars

-----------------------------------------------------------------------------
(* Properties *)

\* Types; the window is always a pair, and a write has something to write.
TypeOK ==
  /\ \A f \in Fields : held[f] \in IF f = "window" THEN Pairs ELSE Int
  /\ held["voltage"] \in 0 .. WireMax
  /\ \A i \in DOMAIN pending : pending[i].field \in Fields
  /\ pc \in {"idle", "read", "decide", "write", "ask", "readBack"} /\ name \in Names
  /\ n \in 0 .. MaxCommands /\ sides \subseteq Sides
  /\ limits.state \in {"unread", "malformed", "valid"}
  /\ \A i \in DOMAIN rest : rest[i] \in DOMAIN want
  /\ pc = "write" => rest # <<>>
  /\ exit \in {"none", "ok", "failed", "refused"}
  /\ \A f \in Fields :
       said[f] \in {"nothing", "unconfirmed", "link dead", "acknowledged", "read back", "reported"}

\* A field the command's frame has reached, or may still.
MayHaveChanged ==
  landed \cup {f \in Fields : \E i \in DOMAIN pending : pending[i].n = n /\ pending[i].field = f}

\* Nothing that was or may yet be changed goes unmentioned when a command ends:
\* not a write that went unanswered, not the first of two terms when the second
\* fails.
NothingDenied == pc = "idle" => \A f \in MayHaveChanged : said[f] # "nothing"

\* A value shown as the device's own is what it holds, and nothing is on its way
\* that would change it; if it is not what was asked for, that is said.
ShownIsHeld ==
  \A f \in Fields :
    /\ said[f] \in {"read back", "reported"} => shown = held[f] /\ pending = <<>>
    /\ said[f] = "read back" /\ ~mismatch => held[f] = Value(f)

Within(v, w) == w.low <= v /\ v <= w.high

\* The rail moves only inside the window the unit has at that time, unless the
\* user set it aside by name; never out of the envelope; and above the default
\* only with the user's word.  raw alone is exempt from the first two.
RailGuarded ==
  [][held'["voltage"] # held["voltage"] =>
       LET v == held'["voltage"] IN
       /\ last'.by = "raw" \/ last'.aside \/ Within(v, held["window"])
       /\ last'.by = "raw" \/ Envelope(v)
       /\ v > Default => last'.agreed]_vars

\* The window becomes wider only with the user's word.
WideningAgreed ==
  [][held'["window"].low < held["window"].low \/ held'["window"].high > held["window"].high
     => last'.agreed]_vars

=============================================================================
