------------------------------- MODULE Flash --------------------------------
(***************************************************************************)
(* internal/cli runFlash and internal/session PostUpdateInitForce: the     *)
(* firmware flash command around the update itself, from the application   *)
(* through the bootloader and back, ending with the replay of the settings *)
(* a flash erases.                                                         *)
(*                                                                         *)
(* Up to two units are on the bus.  The command holds no handle across a   *)
(* mode switch: every time, it opens whatever it finds and has to make     *)
(* sure that this is the unit it began with.  What the user is told when   *)
(* it ends decides what the user does with the unit.                       *)
(***************************************************************************)
EXTENDS Naturals, Sequences

CONSTANTS
  Units,      \* units that may be attached, each with a serial number of its own
  Mine,       \* the one in its application, or under --recover in its bootloader
  ImageMajor, \* the major version of the image
  MaxMoves    \* bound: units plugged in or pulled out by hand

Nobody == "nobody"

ASSUME FlashAssumption ==
  Mine \in Units /\ Nobody \notin Units /\ ImageMajor \in Nat \ {0} /\ MaxMoves \in Nat

\* The replay, in the vendor's order.
Steps == <<"authlock", "window", "tolerance", "offset", "scale", "current">>
Settings == {Steps[i] : i \in 1 .. Len(Steps)}

\* The user window: one VLimitPlausible accepts, one that bounds the voltage but
\* is under its floor of 6 V, none at all, and the widest, which is the default.
Windows == {"plain", "strict", "erased", "default"}
Plausible(w) == w \in {"plain", "default"}

Modes == {"app", "boot", "toBoot", "toApp", "out"}
Majors == {4, 5, ImageMajor}
Unknown == 0

VARIABLES      \* the units
  mode, image,  \* where each is, and the image it carries: "old", "partial", "new" or "bad"
  window, lost, \* its window, and the other settings a flash has erased
  major,        \* the major version it reports
  moves
VARIABLES      \* the command
  pc,
  recover, named,     \* --recover; does --port name the unit to open?
  presence,           \* does a MIDI port tell that a unit is present?
  verified,           \* does the image declare a CRC?
  expect, conn,       \* the serial number to insist on; the unit that is open
  was,                \* the major version before the flash, if it was read
  jumped, flashed,    \* the unit the jump was sent to, the unit the update went to
  identified,         \* was the serial number read again after the flash?
  rewrite, step,      \* the replay
  failed, cut,
  told, exit, ctxDone
VARIABLES      \* history
  survived,     \* the window the flash left in the unit
  wrote         \* units the replay has written to

units == <<mode, image, window, lost, major>>
choices == <<recover, named, presence, verified>>
replay == <<rewrite, step, failed, cut>>
identity == <<expect, was, jumped, flashed, identified>>
vars == <<units, moves, pc, choices, identity, conn, replay, told, exit, ctxDone, survived, wrote>>

Init ==
  /\ mode \in [Units -> {"app", "boot", "out"}]
  /\ recover \in BOOLEAN
  /\ mode[Mine] = IF recover THEN "boot" ELSE "app"
  /\ image = [u \in Units |-> "old"]
  /\ window \in [Units -> {"plain", "strict"}]
  /\ \A u \in Units \ {Mine} : window[u] = "strict"
  /\ lost = [u \in Units |-> {}]
  /\ major \in [Units -> Majors] /\ \A u \in Units \ {Mine} : major[u] = 5
  /\ moves = 0
  /\ pc = IF recover THEN "open" ELSE "connect"
  /\ presence \in BOOLEAN /\ (recover => ~presence)
  /\ verified \in BOOLEAN /\ named \in BOOLEAN
  /\ expect = Nobody /\ conn = Nobody /\ was = Unknown
  /\ jumped = Nobody /\ flashed = Nobody /\ identified = FALSE
  /\ rewrite = FALSE /\ step = 1 /\ failed = FALSE /\ cut = FALSE
  /\ told = {} /\ exit = "none" /\ ctxDone = FALSE
  /\ survived = "default" /\ wrote = {}

-----------------------------------------------------------------------------
\* What the command sees of the bus.

InApp == {u \in Units : mode[u] = "app"}
InBoot == {u \in Units : mode[u] = "boot"}
DevicePresent == InApp # {}
UsbPresent == InApp \cup InBoot # {}

\* OpenAuto takes the one unit there is, over MIDI or over the vendor ID; what
\* --port names may be another unit after the bus has been enumerated anew.
Opens(u) ==
  /\ mode[u] = "app"
  /\ named \/ (IF presence THEN InApp ELSE InApp \cup InBoot) = {u}

\* The command ends.
End(how, words) ==
  /\ pc' = "end" /\ exit' = how /\ told' = told \cup words
  /\ UNCHANGED <<units, moves, choices, identity, conn, replay, ctxDone, survived, wrote>>

Goto(here, there) == pc = here /\ pc' = there

-----------------------------------------------------------------------------
\* Phase 1: in the application.

\* connect, the serial number, which may come back empty, and the version if it
\* can be read.
Connect ==
  /\ Goto("connect", "load") /\ ~ctxDone
  /\ \E u \in Units : Opens(u) /\ conn' = u /\ expect' \in {u, Nobody}
                      /\ was' \in {Unknown, major[u]}
  /\ UNCHANGED <<units, moves, choices, jumped, flashed, identified, replay, told, exit, ctxDone,
                 survived, wrote>>

ConnectFails == pc = "connect" /\ End("error", {})

\* loadFirmware and the interlock accept the image; the jump goes out.  It is
\* not acknowledged: the unit takes it, or it does not.
Jump ==
  /\ Goto("load", "confirm") /\ ~ctxDone /\ ~recover /\ mode[conn] = "app"
  /\ \E there \in {"app", "toBoot"} : mode' = [mode EXCEPT ![conn] = there]
  /\ jumped' = conn /\ conn' = Nobody
  /\ UNCHANGED <<image, window, lost, major, moves, choices, expect, was, flashed, identified,
                 replay, told, exit, ctxDone, survived, wrote>>

\* The image cannot be read, is refused or declined, or the jump is not sent.
LoadFails ==
  /\ pc = "load"
  /\ End("error", IF recover /\ ctxDone THEN {"resume"} ELSE {})

\* Mutant of BootloaderPhaseInterrupted: the error is returned as it is.
InterruptedBare ==
  /\ ctxDone /\ pc \in {"confirm", "settle", "open", "identify", "update"}
  /\ End("error", {})

\* bootloaderPhaseFailure: an interrupt is the one failure that says nothing of
\* the unit, so this does.
BootloaderPhaseInterrupted ==
  /\ ctxDone /\ pc \in {"confirm", "settle", "open", "identify", "update"}
  /\ End("error", {"resume"})

\* confirmJump
ConfirmJump ==
  /\ Goto("confirm", "settle") /\ ~ctxDone
  /\ ~presence \/ ~DevicePresent
  /\ UNCHANGED <<units, moves, choices, identity, conn, replay, told, exit, ctxDone, survived,
                 wrote>>

\* Three seconds and a unit is still there: describeVisibleUnit asks it who it is.
JumpUnconfirmed ==
  /\ pc = "confirm" /\ ~ctxDone /\ presence /\ DevicePresent
  /\ \E seen \in {Nobody} \cup {u \in Units : Opens(u)} :
       End("error", IF seen = expect /\ seen # Nobody THEN {"not taken"} ELSE {"bootloader"})

SwitchDelay ==
  /\ Goto("settle", "open") /\ ~ctxDone
  /\ UNCHANGED <<units, moves, choices, identity, conn, replay, told, exit, ctxDone, survived,
                 wrote>>

-----------------------------------------------------------------------------
\* Phase 2: in the bootloader.

\* connectOnce: the first unit in its bootloader that can be claimed.
OpenBootloader ==
  /\ pc = "open" /\ ~ctxDone
  /\ \E u \in InBoot : conn' = u
  /\ pc' = IF expect = Nobody THEN "identify" ELSE "update"
  /\ UNCHANGED <<units, moves, choices, identity, replay, told, exit, ctxDone, survived, wrote>>

\* The window has passed.  The error is that of the candidate tried last, which
\* may be a unit in its application that has nothing to do with this.
OpenFails ==
  /\ pc = "open" /\ ~ctxDone
  /\ \/ ~UsbPresent /\ End("error", {"bootloader"})
     \/ \E last \in InApp \cup InBoot :
          End("error", IF last \in InApp THEN {"application mode"} ELSE {"bootloader"})

\* Under --recover, or when the application's answer was empty, the serial number
\* comes from the bootloader.
Identify ==
  /\ Goto("identify", IF recover THEN "load" ELSE "update") /\ ~ctxDone /\ mode[conn] = "boot"
  /\ expect' = conn
  /\ UNCHANGED <<units, moves, choices, conn, was, jumped, flashed, identified, replay, told, exit,
                 ctxDone, survived, wrote>>

IdentifyFails == pc = "identify" /\ ~ctxDone /\ End("error", {"bootloader"})

Load ==
  /\ Goto("load", "update") /\ ~ctxDone /\ recover
  /\ UNCHANGED <<units, moves, choices, identity, conn, replay, told, exit, ctxDone, survived,
                 wrote>>

-----------------------------------------------------------------------------
\* Phase 3: the update, as module Update has it: nothing is written to a unit
\* with another serial number, and a unit is started only on the image if there
\* is a CRC to tell.

UpdateFails ==
  /\ pc = "update"
  /\ IF conn = expect /\ mode[conn] = "boot"
     THEN \E written \in {"old", "partial", "new"} :
            /\ image' = [image EXCEPT ![conn] = written]
            /\ lost' = [lost EXCEPT ![conn] = IF written = "old" THEN @ ELSE Settings \ {"window"}]
     ELSE UNCHANGED <<image, lost>>
  /\ pc' = "end" /\ exit' = "error"
  /\ told' = {IF ctxDone THEN "resume" ELSE "bootloader"}
  /\ UNCHANGED <<mode, window, major, moves, choices, identity, conn, replay, ctxDone, survived,
                 wrote>>

\* A verified image starts; one without a CRC starts if it is whole.  The flash
\* erases the settings, the window perhaps.
Flashed ==
  /\ Goto("update", "return") /\ ~ctxDone /\ mode[conn] = "boot"
  /\ \E now \in IF verified THEN {"new"} ELSE {"new", "bad"} :
       /\ image' = [image EXCEPT ![conn] = now]
       /\ mode' = [mode EXCEPT ![conn] = IF now = "new" THEN "toApp" ELSE "toBoot"]
  /\ \E left \in {window[conn], "erased"} :
       window' = [window EXCEPT ![conn] = left] /\ survived' = left
  /\ lost' = [lost EXCEPT ![conn] = Settings \ {"window"}]
  /\ major' = [major EXCEPT ![conn] = ImageMajor]
  /\ flashed' = conn /\ conn' = Nobody
  /\ UNCHANGED <<moves, choices, expect, was, jumped, identified, replay, told, exit, ctxDone,
                 wrote>>

UpdateSucceeds == conn = expect /\ Flashed

-----------------------------------------------------------------------------
\* Phase 4: back in the application.

\* Mutant of Advice: the end of the update is enough.
AdviceAlways == {"do not re-flash"}

\* postFlashFailure.  That the unit must not be flashed again is earned by a
\* verified image, not by the end of the update.
Advice == IF verified THEN {"do not re-flash"} ELSE {"unverified"}

AfterFlashFails == End("error", Advice)

AwaitReturn ==
  /\ Goto("return", "reconnect") /\ ~ctxDone
  /\ IF presence THEN DevicePresent ELSE UsbPresent
  /\ UNCHANGED <<units, moves, choices, identity, conn, replay, told, exit, ctxDone, survived,
                 wrote>>

\* The settle or the wait is interrupted, or nothing comes back in time.
ReturnFails == pc = "return" /\ AfterFlashFails

-----------------------------------------------------------------------------
\* Phase 5: is it the unit that was flashed?  Then the settings.

Reconnect ==
  /\ Goto("reconnect", "serial") /\ ~ctxDone
  /\ \E u \in Units : Opens(u) /\ conn' = u
  /\ UNCHANGED <<units, moves, choices, identity, replay, told, exit, ctxDone, survived, wrote>>

ReconnectFails == pc = "reconnect" /\ AfterFlashFails

SerialAnswered ==
  /\ Goto("serial", "version") /\ ~ctxDone /\ mode[conn] = "app"
  /\ identified' = TRUE
  /\ UNCHANGED <<units, moves, choices, conn, expect, was, jumped, flashed, replay, told, exit,
                 ctxDone, survived, wrote>>

\* Mutant of SerialAgrees: that it answers is enough.
SerialAnswers == SerialAnswered

SerialAgrees == conn = expect /\ SerialAnswered

\* errWrongUnit: another serial number, or an empty one.
SerialDiffers ==
  /\ pc = "serial" /\ ~ctxDone /\ mode[conn] = "app"
  /\ AfterFlashFails

\* A read that failed is not a mismatch: a warning, and on.
SerialUnread ==
  /\ Goto("serial", "version")
  /\ told' = told \cup {"not identified"}
  /\ UNCHANGED <<units, moves, choices, identity, conn, replay, exit, ctxDone, survived, wrote>>

\* decideForcedVLimit: the window is rewritten whatever it is when the flash
\* crosses from major 4 to 5, and both versions are known.
CrossesToMajor5(pre, post) == pre # Unknown /\ post # Unknown /\ pre < 5 /\ post >= 5

ReadVersion ==
  /\ Goto("version", "window")
  /\ \E now \in {Unknown} \cup {major[u] : u \in {v \in {conn} : mode[v] = "app" /\ ~ctxDone}} :
       LET forced == CrossesToMajor5(was, now) IN
       /\ rewrite' = forced
       /\ told' = IF forced THEN told \cup {"crosses"} ELSE told
  /\ UNCHANGED <<units, moves, choices, identity, conn, step, failed, cut, exit, ctxDone,
                 survived, wrote>>

\* readVLimitRetrying.  A window that was read and fails the vendor's test is
\* rewritten, and the user told that one which still bounds is being widened.
ReadWindow ==
  /\ Goto("window", "replay") /\ ~ctxDone /\ mode[conn] = "app"
  /\ rewrite' = (rewrite \/ ~Plausible(window[conn]))
  /\ told' = IF window[conn] = "strict" THEN told \cup {"widening"} ELSE told
  /\ UNCHANGED <<units, moves, choices, identity, conn, step, failed, cut, exit, ctxDone,
                 survived, wrote>>

\* One that cannot be read, after the retries, is not taken for an erased one.
WindowUnread ==
  /\ Goto("window", "replay")
  /\ failed' = TRUE
  /\ UNCHANGED <<units, moves, choices, identity, conn, rewrite, step, cut, told, exit,
                 ctxDone, survived, wrote>>

\* One step of the replay; replayReport.add sorts its line.
Write(s) ==
  /\ IF s = "window"
     THEN window' = [window EXCEPT ![conn] = "default"] /\ UNCHANGED lost
     ELSE lost' = [lost EXCEPT ![conn] = @ \ {s}] /\ UNCHANGED window
  /\ wrote' = wrote \cup {conn}

\* Mutant of Add: a failed step is counted in with the rest.
AddAll(ok) == failed' = (failed /\ ok)

Add(ok) == failed' = (failed \/ ~ok)

Skipped(s) == s = "window" /\ ~rewrite

\* A write that was not acknowledged counts as failed, landed or not.
ReplayStep ==
  /\ pc = "replay" /\ step <= Len(Steps) /\ ~ctxDone
  /\ LET s == Steps[step] IN
     \/ Skipped(s) /\ UNCHANGED <<window, lost, wrote, failed>>
     \/ ~Skipped(s) /\ mode[conn] = "app" /\ Write(s) /\ Add(TRUE)
     \/ ~Skipped(s) /\ mode[conn] = "app" /\ Write(s) /\ Add(FALSE)
     \/ ~Skipped(s) /\ UNCHANGED <<window, lost, wrote>> /\ Add(FALSE)
  /\ step' = step + 1
  /\ UNCHANGED <<mode, image, major, moves, pc, choices, identity, conn, rewrite, cut, told, exit,
                 ctxDone, survived>>

\* The context is looked at after every step and at the end.
ReplayEnds ==
  /\ Goto("replay", "report")
  /\ ctxDone \/ step > Len(Steps)
  /\ cut' = ctxDone
  /\ UNCHANGED <<units, moves, choices, identity, conn, rewrite, step, failed, told, exit,
                 ctxDone, survived, wrote>>

Incomplete == failed \/ cut

\* Not a failure exit: the flash succeeded, and what did not come back is named.
ReportReplay == pc = "report" /\ End("ok", IF Incomplete THEN {"incomplete"} ELSE {})

-----------------------------------------------------------------------------
\* The units: a reset takes its time, a hand pulls one out or plugs one in, and
\* a power cycle starts the application if there is one.

ComeBack(u) ==
  /\ exit = "none" /\ mode[u] \in {"toBoot", "toApp"}
  /\ mode' = [mode EXCEPT ![u] = IF @ = "toBoot" THEN "boot" ELSE "app"]
  /\ UNCHANGED <<image, window, lost, major, moves, pc, choices, identity, conn, replay, told, exit,
                 ctxDone, survived, wrote>>

Move(u) ==
  /\ exit = "none" /\ moves < MaxMoves /\ moves' = moves + 1
  /\ mode' = [mode EXCEPT ![u] = IF @ # "out" THEN "out"
                                 ELSE IF image[u] \in {"old", "new"} THEN "app" ELSE "boot"]
  /\ UNCHANGED <<image, window, lost, major, pc, choices, identity, conn, replay, told, exit,
                 ctxDone, survived, wrote>>

Interrupt ==
  /\ exit = "none" /\ ~ctxDone
  /\ ctxDone' = TRUE
  /\ UNCHANGED <<units, moves, pc, choices, identity, conn, replay, told, exit, survived, wrote>>

Command ==
  \/ Connect \/ ConnectFails \/ Jump \/ LoadFails \/ BootloaderPhaseInterrupted \/ ConfirmJump
  \/ JumpUnconfirmed \/ SwitchDelay \/ OpenBootloader \/ OpenFails \/ Identify \/ IdentifyFails
  \/ Load \/ UpdateFails \/ UpdateSucceeds \/ AwaitReturn \/ ReturnFails \/ Reconnect
  \/ ReconnectFails \/ SerialAgrees \/ SerialDiffers \/ SerialUnread \/ ReadVersion \/ ReadWindow
  \/ WindowUnread \/ ReplayStep \/ ReplayEnds \/ ReportReplay

Next == Command \/ (\E u \in Units : ComeBack(u) \/ Move(u)) \/ Interrupt

Spec == Init /\ [][Next]_vars

-----------------------------------------------------------------------------
(* Properties *)

\* Types, and what ties the two halves together: nothing is flashed but the unit
\* whose serial number was read first.
TypeOK ==
  /\ mode \in [Units -> Modes] /\ image \in [Units -> {"old", "partial", "new", "bad"}]
  /\ window \in [Units -> Windows] /\ lost \in [Units -> SUBSET Settings]
  /\ major \in [Units -> Majors] /\ moves \in 0 .. MaxMoves
  /\ {expect, conn, jumped, flashed} \subseteq Units \cup {Nobody}
  /\ was \in Majors \cup {Unknown} /\ step \in 1 .. Len(Steps) + 1
  /\ exit \in {"none", "ok", "error"} /\ survived \in Windows /\ wrote \subseteq Units
  /\ flashed \in {expect, Nobody}

\* The replay writes to the unit that was flashed and to no other, unless the
\* serial number could not be read again, which the user is told.
ReplayLandsOnTheFlashed ==
  wrote \subseteq {flashed} \/ (~identified /\ "not identified" \in told)

\* The user is told not to flash again only when the unit carries the whole,
\* verified image and is not in its bootloader.
AdviceIsEarned ==
  "do not re-flash" \in told => image[flashed] = "new" /\ mode[flashed] \notin {"boot", "toBoot"}

\* A command that failed has left the unit it jumped in the bootloader.  (A unit
\* that gave no serial number may have had another one taken for it.)
Stranded ==
  /\ exit = "error" /\ jumped # Nobody /\ expect \in {jumped, Nobody}
  /\ mode[jumped] \in {"boot", "toBoot"}

\* The search for the bootloader ended on another unit, which runs its application.
Refused == "application mode" \in told /\ \E u \in Units \ {jumped} : mode[u] = "app"

\* Every such failure names the bootloader that the unit is in, if only in the note on
\* its LED, or how to go on, with one exception, which SPEC.md 1455 does not make: the
\* search whose last candidate was another unit says only what that one refused.
StrandedIsTold ==
  Stranded /\ ~Refused => told \cap {"resume", "bootloader", "unverified"} # {}

\* A setting the flash erased and the replay did not bring back is reported.
LossIsReported ==
  exit = "ok" /\ conn = flashed /\ (lost[flashed] # {} \/ window[flashed] = "erased")
  => "incomplete" \in told

\* A window of the user's that survived the flash is replaced by the widest one
\* only when the user is told, before or by the way.
WideningIsTold ==
  flashed # Nobody /\ survived \in {"plain", "strict"} /\ window[flashed] = "default"
  => told \cap {"crosses", "widening"} # {}

=============================================================================
