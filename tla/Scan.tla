-------------------------------- MODULE Scan --------------------------------
(***************************************************************************)
(* scan, pdo dump and pdo clear: the log of a power source is erased in a  *)
(* unit, the unit is carried to the source and back, and the log is read   *)
(* in chunks, decoded and judged.  Other units lie about, nobody says      *)
(* which one comes back, and the answer to a chunk may be an earlier one.  *)
(***************************************************************************)
EXTENDS Capability

CONSTANTS
  Units, Nobody,
  Chunks, ChunkAttempts, SerialAttempts,   \* 12, 3 and 6
  Sources,                                 \* what a unit may have met
  Volts, Currents,                         \* --voltage and --current, in mV and mA
  MaxMoves                                 \* bound: units carried about

ASSUME ScanAssumption ==
  /\ Nobody \notin Units
  /\ {Chunks, ChunkAttempts, SerialAttempts, MaxPDOs} \subseteq Nat \ {0} /\ MaxMoves \in Nat

\* What the fields of an object can carry.
Carries(values, unit, x) == x \in Nat /\ x % unit = 0 /\ x \div unit < values
Representable(cap) ==
  CASE cap.kind = "fixed" ->
         Carries(1024, 50, cap.max) /\ cap.min = cap.max /\ Carries(1024, 1, cap.amps)
    [] cap.kind \in {"battery", "variable"} ->
         Carries(1024, 50, cap.min) /\ Carries(1024, 50, cap.max) /\ Carries(1024, 1, cap.amps)
    [] cap.kind = "pps" ->
         /\ Carries(256, 100, cap.min) /\ Carries(256, 100, cap.max)
         /\ Carries(128, 5, cap.amps) /\ cap.limited \in BOOLEAN
    [] cap.kind = "eprAVS" ->
         /\ Carries(256, 100, cap.min) /\ Carries(512, 100, cap.max)
         /\ Carries(256, 1, cap.watts)
    [] cap.kind = "sprAVS" -> Carries(1024, 1, cap.low) /\ Carries(1024, 1, cap.high)
    [] OTHER -> FALSE

\* What a source announces fits the array, what it leaves behind is not counted in,
\* and its power is no less than a fixed object claims.
ASSUME SourceAssumption ==
  /\ Volts \subseteq Int /\ Currents \subseteq Int
  /\ \A s \in Sources :
       /\ \E n \in 0 .. MaxPDOs : DOMAIN s.caps = 1 .. n /\ Len(s.caps) = n
       /\ s.received >= Len(s.caps) /\ (s.received = Len(s.caps) \/ s.stale = <<>>)
       /\ s.received \in Nat /\ s.pdp \in Nat
       /\ \A i \in DOMAIN s.caps :
            /\ Representable(s.caps[i])
            /\ s.caps[i].kind = "fixed" /\ s.caps[i].max <= EPRThreshold =>
                 (s.caps[i].max * s.caps[i].amps) \div 100000 <= s.pdp

VARIABLES     \* the units
  place,      \* "host", "source" or "away"
  memory,     \* the log: from "before", "empty", or "fresh" from a source
  bound,      \* does the MIDI driver sit on it?
  recognised, \* does its port give the vendor's ID?
  moves
VARIABLES     \* the command
  pc, cmd, transport, noPrompt, tty,
  conn, dead,  \* the unit that is open, and whether it has left since
  confirmed,   \* midiPortVIDConfirmed
  expected,    \* the serial number latched before the erase
  attempt,
  got,         \* chunks accepted
  told, exit,
  source, request, log, verdict
VARIABLES     \* history
  travelled,   \* has the unit been off the host since its log was erased?
  company      \* has another unit been on the host since then?

units == <<place, memory, bound, recognised, moves>>
choices == <<cmd, transport, noPrompt, tty>>
link == <<conn, dead, confirmed>>
result == <<source, request, log, verdict>>
history == <<travelled, company>>
vars == <<units, choices, link, result, history, pc, expected, attempt, got, told, exit>>

NoLog == [objects |-> <<>>, eprCableFail |-> FALSE]
NoVerdict == [ok |-> FALSE, chosen |-> Blank, amps |-> 0, caveats |-> {}]

Init ==
  /\ place \in [Units -> {"host", "away"}] /\ memory = [u \in Units |-> "before"]
  /\ bound = [u \in Units |-> place[u] = "host"] /\ recognised \in [Units -> BOOLEAN] /\ moves = 0
  /\ pc = "start" /\ cmd \in {"scan", "dump", "clear"} /\ transport \in {"usb", "rawmidi"}
  /\ noPrompt \in BOOLEAN /\ tty \in BOOLEAN
  /\ conn = Nobody /\ dead = FALSE /\ confirmed = FALSE /\ expected = Nobody
  /\ attempt = 1 /\ got = <<>> /\ told = {} /\ exit = "none"
  /\ source = <<>> /\ request = <<0, 0>> /\ log = NoLog /\ verdict = NoVerdict
  /\ travelled = FALSE /\ company = FALSE

Goto(there) == pc' = there /\ UNCHANGED exit
End(how) == pc' = "end" /\ exit' = how

-----------------------------------------------------------------------------
(* Connecting *)

\* devicePresent: a port whose ID is the vendor's, of whichever unit.
DevicePresent == \E u \in Units : bound[u] /\ recognised[u]

\* Does the presence of a port say anything about the unit?
MidiPresenceMeaningful == transport # "usb" /\ confirmed

\* usbmidi takes the interface from the driver; rawmidi needs the driver's port.
Opens(u) ==
  /\ place[u] = "host" /\ (transport = "rawmidi" => bound[u])
  /\ conn' = u /\ dead' = FALSE /\ confirmed' = (transport = "rawmidi" /\ recognised[u])
  /\ bound' = IF transport = "usb" THEN [bound EXCEPT ![u] = FALSE] ELSE bound

\* A scan that could not ask its question is refused before anything is sent.
RefuseUnattended ==
  /\ pc = "start" /\ cmd = "scan" /\ ~noPrompt /\ ~tty
  /\ told' = {"nothing sent"} /\ End("usage")
  /\ UNCHANGED <<units, choices, link, result, history, expected, attempt, got>>

Connect ==
  /\ pc = "start" /\ (cmd = "scan" => noPrompt \/ tty)
  /\ \E u \in Units : Opens(u)
  /\ Goto("firmware")
  /\ UNCHANGED <<place, memory, recognised, moves, choices, result, history, expected, attempt,
                 got, told>>

\* No connection, no answer, a refusal or an interrupt, where nothing is said
\* besides the error and nothing was written.
Fails ==
  /\ pc \in {"start", "firmware", "latch", "erase", "reconnect", "serial", "download"}
  /\ End("failed")
  /\ UNCHANGED <<units, choices, link, result, history, expected, attempt, got, told>>

-----------------------------------------------------------------------------
(* The first session *)

Answers == conn # Nobody /\ ~dead

RequirePDOFirmware ==
  /\ pc = "firmware" /\ Answers
  /\ Goto(CASE cmd = "scan" -> "latch" [] cmd = "dump" -> "download" [] OTHER -> "erase")
  /\ UNCHANGED <<units, choices, link, result, history, expected, attempt, got, told>>

LatchSerial ==
  /\ pc = "latch" /\ Answers
  /\ expected' = conn /\ Goto("erase")
  /\ UNCHANGED <<units, choices, link, result, history, attempt, got, told>>

Erase == memory' = [memory EXCEPT ![conn] = "empty"]

EraseAcknowledged ==
  /\ pc = "erase" /\ Answers
  /\ Erase /\ told' = told \cup {"erased"}
  /\ travelled' = FALSE /\ company' = (\E u \in Units \ {conn} : place[u] = "host")
  /\ IF cmd = "scan" THEN Goto("close") ELSE End("ok")
  /\ UNCHANGED <<place, bound, recognised, moves, choices, link, result, expected, attempt, got>>

\* Mutant of EraseUnanswered: an error like any other.
EraseUnansweredBare ==
  /\ pc = "erase" /\ Answers
  /\ Erase \/ UNCHANGED memory
  /\ End("failed") /\ UNCHANGED told
  /\ UNCHANGED <<place, bound, recognised, moves, choices, link, result, history, expected,
                 attempt, got>>

\* Sent in full, and then a timeout, an interrupt or the end of the link.
EraseUnanswered ==
  /\ pc = "erase" /\ Answers
  /\ Erase \/ UNCHANGED memory
  /\ told' \in {told \cup {"unacknowledged"}, told \cup {"link dead"}} /\ End("failed")
  /\ UNCHANGED <<place, bound, recognised, moves, choices, link, result, history, expected,
                 attempt, got>>

-----------------------------------------------------------------------------
(* The handover *)

\* Mutant of CloseSession: the port's absence is the unit's, whatever took it.
CloseSessionTrusting ==
  /\ pc = "close"
  /\ conn' = Nobody /\ UNCHANGED <<dead, confirmed>>
  /\ Goto(IF noPrompt THEN "leave" ELSE "prompt")
  /\ UNCHANGED <<units, choices, result, history, expected, attempt, got, told>>

CloseSession ==
  /\ pc = "close"
  /\ conn' = Nobody /\ UNCHANGED <<dead, confirmed>>
  /\ Goto(CASE ~noPrompt -> "prompt" [] noPrompt /\ MidiPresenceMeaningful -> "leave"
            [] OTHER -> "reappear")
  /\ UNCHANGED <<units, choices, result, history, expected, attempt, got, told>>

\* waitForDevice
WaitFor(want, from, to) ==
  /\ pc = from /\ DevicePresent = want /\ Goto(to)
  /\ UNCHANGED <<units, choices, link, result, history, expected, attempt, got, told>>

\* Enter may be pressed at any time.
Pause ==
  /\ pc = "prompt" /\ Goto(IF MidiPresenceMeaningful THEN "replug" ELSE "reconnect")
  /\ UNCHANGED <<units, choices, link, result, history, expected, attempt, got, told>>

ScanHandover ==
  \/ WaitFor(TRUE, "reappear", "leave")
  \/ WaitFor(FALSE, "leave", "return")   \* and --settle
  \/ WaitFor(TRUE, "return", "reconnect")
  \/ Pause
  \/ WaitFor(TRUE, "replug", "reconnect")

HandoverFails ==
  /\ pc \in {"prompt", "replug", "reappear", "leave", "return"}
  /\ told' = told \cup {"no capture"} /\ End("failed")
  /\ UNCHANGED <<units, choices, link, result, history, expected, attempt, got>>

-----------------------------------------------------------------------------
(* The second session *)

Reconnect ==
  /\ pc = "reconnect"
  /\ \E u \in Units : Opens(u)
  /\ attempt' = 1 /\ Goto("serial")
  /\ UNCHANGED <<place, memory, recognised, moves, choices, result, history, expected, got, told>>

\* Mutant of SerialRead: a serial number that can be read will do.
SerialReadAny ==
  /\ pc = "serial" /\ Answers
  /\ attempt' = 1 /\ Goto("download")
  /\ UNCHANGED <<units, choices, link, result, history, expected, got, told>>

SerialRead ==
  /\ pc = "serial" /\ Answers
  /\ attempt' = 1
  /\ IF conn = expected THEN Goto("download") ELSE End("failed")
  /\ UNCHANGED <<units, choices, link, result, history, expected, got, told>>

\* One more try, as long as there are any.
Retry(attempts) ==
  IF attempt < attempts THEN attempt' = attempt + 1 /\ UNCHANGED <<pc, exit>>
  ELSE UNCHANGED attempt /\ End("failed")

\* No answer, or one too short to tell a unit by.
SerialUnread ==
  /\ pc = "serial"
  /\ Retry(SerialAttempts)
  /\ UNCHANGED <<units, choices, link, result, history, expected, got, told>>

\* The one thing that ties an answer to a request, which may be another one.
Echoes(n) == n = Len(got)

ChunkAccepted ==
  /\ pc = "download" /\ Answers
  /\ \E n \in 0 .. Chunks - 1 :
       Echoes(n) /\ got' = Append(got, [from |-> conn, chunk |-> n, held |-> memory[conn]])
  /\ attempt' = 1
  /\ Goto(IF Len(got') = Chunks THEN "decode" ELSE "download")
  /\ UNCHANGED <<units, choices, link, result, history, expected, told>>

\* The echo of another chunk, a short or an empty one, or no answer.
ChunkRejected ==
  /\ pc = "download"
  /\ Retry(ChunkAttempts)
  /\ UNCHANGED <<units, choices, link, result, history, expected, got, told>>

LogEmpty == got[1].held = "empty"

DecodeFails ==
  /\ pc = "decode" /\ LogEmpty /\ End("failed")
  /\ UNCHANGED <<units, choices, link, result, history, expected, attempt, got, told>>

-----------------------------------------------------------------------------
(* What was recorded, which nothing depends on before this point *)

\* An object on the wire: the fields of its class, and the type.
Fields(cap) ==
  CASE cap.kind = "fixed" -> 1024 * (cap.max \div 50) + cap.amps
    [] cap.kind \in {"battery", "variable"} ->
         1048576 * (cap.max \div 50) + 1024 * (cap.min \div 50) + cap.amps
    [] cap.kind = "sprAVS" -> 2 * 268435456 + 1024 * cap.high + cap.low
    [] cap.kind = "eprAVS" ->
         268435456 + 131072 * (cap.max \div 100) + 256 * (cap.min \div 100) + cap.watts
    [] cap.kind = "pps" ->
         (IF cap.limited THEN 134217728 ELSE 0) + 131072 * (cap.max \div 100)
           + 256 * (cap.min \div 100) + cap.amps \div 5

TypeField(cap) ==
  CASE cap.kind = "fixed" -> 0 [] cap.kind = "battery" -> 1 [] cap.kind = "variable" -> 2
    [] OTHER -> 3

FourBytes(fields, type) ==
  <<fields % 256, (fields \div 256) % 256, (fields \div 65536) % 256,
    fields \div 16777216 + 64 * type>>

Word(cap) == FourBytes(Fields(cap), TypeField(cap))

\* The log of a source: its objects in the first slots, then what is left there
\* of another.
Blob(s) ==
  [words |-> [i \in 1 .. MaxPDOs |->
                IF i \in DOMAIN s.caps THEN Word(s.caps[i])
                ELSE IF i - Len(s.caps) \in DOMAIN s.stale THEN Word(s.stale[i - Len(s.caps)])
                ELSE <<0, 0, 0, 0>>],
   received |-> s.received, eprCableFail |-> s.eprCableFail]

Report ==
  /\ pc = "decode" /\ ~LogEmpty
  /\ \E s \in Sources : source' = <<s>> /\ log' = Parse(Blob(s))
  /\ IF cmd = "scan"
     THEN \E v \in Volts, i \in Currents : request' = <<v, i>> /\ verdict' = Evaluate(log', v, i)
     ELSE UNCHANGED <<request, verdict>>
  /\ End("ok")
  /\ UNCHANGED <<units, choices, link, history, expected, attempt, got, told>>

-----------------------------------------------------------------------------
(* The units *)

\* Carried from one place to another.
Move(u) ==
  /\ pc # "end" /\ moves < MaxMoves /\ moves' = moves + 1
  /\ \E there \in {"host", "source", "away"} \ {place[u]} :
       /\ place' = [place EXCEPT ![u] = there]
       /\ company' = (company \/ (u # expected /\ there = "host"))
  /\ bound' = [bound EXCEPT ![u] = FALSE]
  /\ dead' = (dead \/ conn = u)
  /\ travelled' = (travelled \/ (u = expected /\ place[u] = "host"))
  /\ UNCHANGED <<memory, recognised, choices, conn, confirmed, result, pc, expected, attempt, got,
                 told, exit>>

\* The driver sits down on a unit that is plugged in and that nobody claims.  It
\* may take its time, or not be there at all.
Rebind(u) ==
  /\ pc # "end" /\ place[u] = "host" /\ ~bound[u] /\ (conn = u => dead)
  /\ bound' = [bound EXCEPT ![u] = TRUE]
  /\ UNCHANGED <<place, memory, recognised, moves, choices, link, result, history, pc, expected,
                 attempt, got, told, exit>>

\* A unit left at a source long enough.
Capture(u) ==
  /\ pc # "end" /\ place[u] = "source" /\ memory[u] # "fresh"
  /\ memory' = [memory EXCEPT ![u] = "fresh"]
  /\ UNCHANGED <<place, bound, recognised, moves, choices, link, result, history, pc, expected,
                 attempt, got, told, exit>>

Command ==
  \/ RefuseUnattended \/ Connect \/ Fails \/ RequirePDOFirmware \/ LatchSerial
  \/ EraseAcknowledged \/ EraseUnanswered \/ CloseSession \/ ScanHandover \/ HandoverFails
  \/ Reconnect \/ SerialRead \/ SerialUnread \/ ChunkAccepted \/ ChunkRejected \/ DecodeFails
  \/ Report

Next == Command \/ \E u \in Units : Move(u) \/ Rebind(u) \/ Capture(u)

Spec == Init /\ [][Next]_vars

-----------------------------------------------------------------------------
(* Properties *)

\* What a scan reports is the whole of one log, that of the unit whose log it
\* erased, recorded at a source since then.
ReportedIsFresh ==
  cmd = "scan" /\ exit = "ok" =>
    got = [i \in 1 .. Chunks |-> [from |-> expected, chunk |-> i - 1, held |-> "fresh"]]

\* Without a prompt, a unit that is alone is not connected to again before it has
\* been unplugged: the port that disappears is not the one the program itself
\* took away.
WatchedTheTrip ==
  noPrompt /\ ~company /\ cmd = "scan" /\ pc \in {"return", "reconnect"} => travelled

\* A log that is gone is said to be gone, or that it may be; and where nothing is
\* said to have been sent, no log is.
ErasureTold ==
  LET erased == \E u \in Units : memory[u] = "empty" IN
  pc = "end" /\ erased =>
    /\ told \cap {"erased", "unacknowledged", "link dead"} # {}
    /\ "nothing sent" \notin told

\* What a source can supply at v, by its own words: nothing outside an object's
\* range, no more than a power allows.
Offers(cap, s, v) ==
  LET inside == cap.min > 0 /\ cap.min <= v /\ v <= cap.max IN
  CASE cap.kind = "fixed" /\ v = cap.max /\ v >= 5000 -> cap.amps
    [] cap.kind = "eprAVS" /\ inside -> (cap.watts * 100000) \div v
    [] cap.kind = "pps" /\ inside /\ ~cap.limited -> cap.amps
    [] cap.kind = "pps" /\ inside /\ cap.limited -> Min({cap.amps, (s.pdp * 100000) \div v})
    [] cap.kind = "sprAVS" /\ v \in SPRAVSMin .. SPRAVSSplit -> cap.low
    [] cap.kind = "sprAVS" /\ v \in SPRAVSSplit + 1 .. SPRAVSMax -> cap.high
    [] OTHER -> 0

Judged == cmd = "scan" /\ exit = "ok"

\* No current is reported that the source does not supply there or no cable
\* carries, except for one that is said to be uncertain; and a "yes" is a yes to
\* no more than that.
NeverOverReports ==
  Judged =>
    LET v == request[1]
        s == source[1]
    IN /\ verdict.amps <= MaxCableCurrent
       /\ \/ verdict.amps = 0 \/ "power limited" \in verdict.caveats
          \/ \E i \in DOMAIN s.caps : verdict.amps <= Offers(s.caps[i], s, v)
       /\ verdict.ok => request[2] <= 10 * verdict.amps

\* What Evaluate never looks at once it has picked something: a PPS range above
\* 20 V, and below it an SPR AVS object beside a fixed one.  A limited PPS object
\* is counted with what the scan tells of its limit, which may be less.
PassedOver(cap, s, v) ==
  \/ cap.kind = "pps" /\ (v > EPRThreshold \/ cap.limited)
  \/ cap.kind = "sprAVS" /\ \E i \in DOMAIN s.caps : s.caps[i].kind = "fixed" /\ Offers(s.caps[i], s, v) > 0

\* A voltage said to be out of reach is out of reach of everything recorded; and
\* if a current is, no object that is looked at supplies it, as far as a cable
\* carries it.  (A current below zero is no request, and is refused as it stands.)
NothingReachableMissed ==
  Judged /\ ~verdict.ok /\ request[2] >= 0 =>
    LET v == request[1]
        s == source[1]
    IN \A i \in DOMAIN s.caps :
         IF verdict.chosen = Blank THEN Offers(s.caps[i], s, v) = 0
         ELSE PassedOver(s.caps[i], s, v) \/ 10 * BoundCurrent(Offers(s.caps[i], s, v)) < request[2]

=============================================================================
