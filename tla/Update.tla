------------------------------- MODULE Update -------------------------------
(***************************************************************************)
(* internal/bootloader: Update over a Flasher, one firmware image written  *)
(* to one unit in its bootloader over a pair of bulk endpoints.            *)
(*                                                                         *)
(* No frame carries a tag: an acknowledgement is known by its command code *)
(* alone, nothing drains the IN endpoint before a frame is sent, and what  *)
(* the endpoint still holds may be the answers of an earlier run.          *)
(*                                                                         *)
(* The bootloader itself is not in the repository.  It takes frames and    *)
(* answers them in order, may stay silent on any of them, and may lose a   *)
(* streamed frame that arrives while it is busy (SPEC.md 10.5).            *)
(***************************************************************************)
EXTENDS Naturals, Sequences

CONSTANTS
  Pages,       \* pages of the image
  Chunks,      \* chunks of a page, ChunksPerPage in the code
  Options,     \* the calls of Update considered
  Answers,     \* what an earlier run may have left on the IN endpoint
  Requests,    \* what an earlier run may have left the unit to do
  CleanStart,  \* does a call that expects no serial number find nothing left behind?
  BusyCap,     \* frames the unit takes before it makes the host wait
  MaxFaults,   \* bound: pages the flash memory gets wrong
  MaxNoise     \* bound: packets of zeroes on the IN endpoint

ASSUME UpdateAssumption ==
  /\ Pages \in Nat \ {0} /\ Chunks \in Nat \ {0} /\ BusyCap \in Nat \ {0}
  /\ MaxFaults \in Nat /\ MaxNoise \in Nat /\ CleanStart \in BOOLEAN

\* The CRC of the image, of any other flash contents, of neither.  That two
\* contents can share a one-byte CRC is beyond the host and left out.
CRCs == {"image", "other"}
Expectations == {"image", "wrong", "none"}
Option == [valid : BOOLEAN, declared : Expectations, override : Expectations,
           skipVerify : BOOLEAN, force : BOOLEAN, skipJump : BOOLEAN, ackMode : BOOLEAN,
           expect : {"none", "mine", "other"}]

VARIABLES
  opt,        \* the image and the options of this call
  phase,      \* where update is
  pos,        \* the frame of the image to send next
  ack,        \* is this pass acknowledged?
  attempt,    \* the round of Verify
  idle,       \* has a poll of this wait found nothing to read?
  checked, jumped, reflashed,    \* UpdateResult
  verdict,    \* how the call ended
  ctxDone
VARIABLES
  unit,       \* the serial number the unit reports
  mode,       \* "boot", "app" once it has jumped, "gone" from the bus
  outq,       \* frames the unit has taken and not acted on
  inq,        \* answers the host has not read
  flash,      \* what each page holds
  buf,        \* chunks received for the page in progress
  dcrc,       \* the CRC it has computed over what it holds now
  faults, noise,
  sent,       \* history: has the unit taken a frame of the image from this call?
  clean       \* history: no fault since this pass began

hostVars == <<opt, phase, pos, ack, attempt, idle, checked, jumped, reflashed, verdict>>
endpoints == <<outq, inq>>
unitVars == <<unit, mode, flash, buf, dcrc, faults, noise>>
vars == <<hostVars, ctxDone, endpoints, unitVars, sent, clean>>

PageIds == 0 .. Pages - 1
LastFrame == Pages * (Chunks + 1)

\* The frames of the image in the order Flash sends them.
FrameAt(p) ==
  LET k == (p - 1) % (Chunks + 1)
  IN  IF k < Chunks THEN [cmd |-> "chunk", page |-> (p - 1) \div (Chunks + 1), chunk |-> k]
                    ELSE [cmd |-> "commit"]

Frame == {FrameAt(p) : p \in 1 .. LastFrame}
           \cup [cmd : {"serial", "verifyWrite", "verifyRead", "end"}]

\* An answer has the declared length, a packet of zeroes has not.
Answer == [cmd : {"serial"}, valid : {TRUE}, val : {"mine", "other", "short"}]
            \cup [cmd : {"chunk", "commit"}, valid : BOOLEAN, val : {"none"}]
            \cup [cmd : {"verify"}, valid : {TRUE}, val : CRCs \cup {"none"}]

Reply(cmd, val) == [cmd |-> cmd, valid |-> TRUE, val |-> val]

\* An earlier run has had its serial number, and told the unit to do anything but
\* to jump.
ASSUME LeftoverAssumption ==
  /\ Options \subseteq Option
  /\ Answers \subseteq Seq(Answer) /\ Requests \subseteq Seq(Frame)
  /\ \A a \in Answers : \A n \in DOMAIN a : a[n].cmd # "serial"
  /\ \A q \in Requests : \A n \in DOMAIN q : q[n].cmd \notin {"serial", "end"}

Waiting == {"serialWait", "ackWait", "verifyWait"}
Phases == {"policy", "serial", "flash", "verifyWrite", "verifyRead", "end", "done"} \cup Waiting
Refusals == {"invalid", "unverifiable", "unconfirmed", "serialMismatch"}
Verdicts == {"none", "ok", "mismatch", "noVerify", "failed", "ackTimeout", "endUndelivered"} \cup Refusals

TypeOK ==
  /\ opt \in Option
  /\ phase \in Phases /\ verdict \in Verdicts
  /\ pos \in 1 .. LastFrame + 1 /\ attempt \in 1 .. 2
  /\ {ack, idle, checked, jumped, reflashed, ctxDone, sent, clean} \subseteq BOOLEAN
  /\ unit \in {"mine", "other", "short"} /\ mode \in {"boot", "app", "gone"}
  /\ \A n \in DOMAIN outq : outq[n] \in Frame
  /\ \A n \in DOMAIN inq : inq[n] \in Answer
  /\ flash \in [PageIds -> {"old", "image", "torn"}]
  /\ buf.page \in PageIds /\ buf.chunks \subseteq 0 .. Chunks - 1
  /\ dcrc \in CRCs \cup {"none"}
  /\ faults \in 0 .. MaxFaults /\ noise \in 0 .. MaxNoise

Good == \A p \in PageIds : flash[p] = "image"

Leftover(all) == IF CleanStart /\ opt.expect = "none" THEN {<<>>} ELSE all

Init ==
  /\ opt \in Options
  /\ phase = "policy" /\ pos = 1 /\ ack = FALSE /\ attempt = 1 /\ idle = FALSE
  /\ checked = FALSE /\ jumped = FALSE /\ reflashed = FALSE /\ verdict = "none"
  /\ ctxDone = FALSE
  /\ unit \in {"mine", "other", "short"} /\ mode = "boot"
  /\ inq \in Leftover(Answers) /\ outq \in Leftover(Requests)
  /\ \E c \in {"old", "image"} : flash = [p \in PageIds |-> c]
  /\ buf = [page |-> 0, chunks |-> {}]
  /\ dcrc = "none" /\ faults = 0 /\ noise = 0
  /\ sent = FALSE /\ clean = TRUE

-----------------------------------------------------------------------------
(* The two endpoints.                                                      *)

\* A bulk OUT transfer that succeeds.  A streamed frame may be lost on a unit
\* still busy with an earlier one.
Deliver(f) ==
  /\ ~ctxDone /\ mode = "boot"
  /\ Len(outq) < BusyCap
  /\ \/ outq' = Append(outq, f)
     \/ outq # <<>> /\ f.cmd \in {"chunk", "commit"} /\ UNCHANGED outq
  /\ UNCHANGED <<inq, ctxDone, unitVars>>

Finish(v) == phase' = "done" /\ verdict' = v

\* The acknowledgement of want, strictly well-formed.
Matches(a, want) == a.valid /\ a.cmd = want

Want == CASE phase = "serialWait" -> "serial"
          [] phase = "ackWait"    -> FrameAt(pos).cmd
          [] OTHER                -> "verify"

\* The head of the IN endpoint is what this wait is for.
Receives ==
  /\ ~ctxDone
  /\ inq # <<>> /\ Matches(Head(inq), Want)
  /\ inq' = Tail(inq)
  /\ UNCHANGED <<outq, ctxDone, unitVars, sent>>

\* Anything else is discarded, and so is a verify answer without a CRC.
Discard ==
  /\ phase \in Waiting /\ ~ctxDone
  /\ inq # <<>>
  /\ ~Matches(Head(inq), Want) \/ (phase = "verifyWait" /\ Head(inq).val = "none")
  /\ inq' = Tail(inq)
  /\ UNCHANGED <<hostVars, ctxDone, outq, unitVars, sent, clean>>

\* A poll with nothing to read.
PollEmpty ==
  /\ phase \in Waiting /\ ~ctxDone /\ mode = "boot"
  /\ inq = <<>> /\ ~idle
  /\ idle' = TRUE
  /\ UNCHANGED <<opt, phase, pos, ack, attempt, checked, jumped, reflashed, verdict,
                 ctxDone, endpoints, unitVars, sent, clean>>

-----------------------------------------------------------------------------
(* update, step by step.                                                   *)

ExpectedCRC == IF opt.override # "none" THEN opt.override ELSE opt.declared
WillVerify == ExpectedCRC # "none" /\ ~opt.skipVerify

\* The verification policy, settled before a byte is sent.
Policy ==
  /\ phase = "policy"
  /\ CASE ~opt.valid -> Finish("invalid")
       [] opt.valid /\ ~WillVerify /\ ~opt.skipJump /\ ~opt.force -> Finish("unverifiable")
       [] OTHER -> phase' = "serial" /\ UNCHANGED verdict
  /\ UNCHANGED <<opt, pos, ack, attempt, idle, checked, jumped, reflashed,
                 ctxDone, endpoints, unitVars, sent, clean>>

StartFlash(acked) ==
  /\ phase' = "flash" /\ pos' = 1 /\ ack' = acked /\ clean' = TRUE
  /\ UNCHANGED <<attempt, idle, checked, jumped, verdict>>

Stay == UNCHANGED <<pos, ack, attempt, idle, checked, jumped, reflashed, clean>>

SendSerial ==
  /\ phase = "serial"
  /\ Deliver([cmd |-> "serial"])
  /\ phase' = "serialWait" /\ idle' = FALSE
  /\ UNCHANGED <<opt, pos, ack, attempt, checked, jumped, reflashed, verdict, sent, clean>>

\* The serial number could not be read: fatal only if one is expected.
NoSerial ==
  IF opt.expect # "none" THEN Finish("unconfirmed") /\ Stay
  ELSE StartFlash(opt.ackMode) /\ UNCHANGED reflashed

ReceiveSerial ==
  /\ phase = "serialWait"
  /\ Receives
  /\ CASE Head(inq).val = "short" -> NoSerial
       [] Head(inq).val # "short" /\ opt.expect \notin {"none", Head(inq).val} ->
            Finish("serialMismatch") /\ Stay
       [] OTHER -> StartFlash(opt.ackMode) /\ UNCHANGED reflashed
  /\ UNCHANGED opt

\* The write or the wait fails: a stall, a dead context, silence, a unit gone.
SerialFails ==
  /\ phase = "serial" \/ (phase = "serialWait" /\ (idle \/ ctxDone \/ mode # "boot"))
  /\ NoSerial
  /\ UNCHANGED <<opt, ctxDone, endpoints, unitVars, sent>>

SendImage ==
  /\ phase = "flash" /\ pos <= LastFrame
  /\ Deliver(FrameAt(pos))
  /\ IF ack THEN phase' = "ackWait" /\ idle' = FALSE /\ UNCHANGED pos
            ELSE pos' = pos + 1 /\ UNCHANGED <<phase, idle>>
  /\ sent' = TRUE
  /\ UNCHANGED <<opt, ack, attempt, checked, jumped, reflashed, verdict, clean>>

ReceiveACK ==
  /\ phase = "ackWait"
  /\ Receives
  /\ phase' = "flash" /\ pos' = pos + 1
  /\ UNCHANGED <<opt, ack, attempt, idle, checked, jumped, reflashed, verdict, clean>>

\* The settle time is over.
Settled ==
  /\ phase = "flash" /\ pos > LastFrame /\ ~ctxDone
  /\ phase' = IF WillVerify THEN "verifyWrite" ELSE "end"
  /\ attempt' = 1
  /\ UNCHANGED <<opt, pos, ack, idle, checked, jumped, reflashed, verdict,
                 ctxDone, endpoints, unitVars, sent, clean>>

SendVerifyWrite ==
  /\ phase = "verifyWrite"
  /\ Deliver([cmd |-> "verifyWrite"])
  /\ phase' = "verifyRead"
  /\ UNCHANGED <<opt, pos, ack, attempt, idle, checked, jumped, reflashed, verdict, sent, clean>>

SendVerifyRead ==
  /\ phase = "verifyRead"
  /\ Deliver([cmd |-> "verifyRead"])
  /\ phase' = "verifyWait" /\ idle' = FALSE
  /\ UNCHANGED <<opt, pos, ack, attempt, checked, jumped, reflashed, verdict, sent, clean>>

Verified == phase' = "end" /\ checked' = TRUE /\ UNCHANGED <<pos, ack, attempt, idle, jumped, reflashed, verdict, clean>>

\* Mutant of CompareCRC: an acknowledged pass needs no second look.
CompareOnce(crc) ==
  IF crc = ExpectedCRC \/ reflashed THEN Verified
  ELSE StartFlash(TRUE) /\ reflashed' = TRUE

\* A mismatch is worth one acknowledged pass, and no more.
CompareCRC(crc) ==
  CASE crc = ExpectedCRC                -> Verified
    [] crc # ExpectedCRC /\ ~reflashed  -> StartFlash(TRUE) /\ reflashed' = TRUE
    [] OTHER                            -> Finish("mismatch") /\ Stay

ReceiveCRC ==
  /\ phase = "verifyWait"
  /\ Receives
  /\ Head(inq).val # "none"
  /\ CompareCRC(Head(inq).val)
  /\ UNCHANGED opt

\* Mutant of VerifyExpires: rounds without end.
VerifyNeverExpires ==
  /\ phase = "verifyWait" /\ idle
  /\ phase' = "verifyWrite"
  /\ UNCHANGED <<opt, pos, ack, attempt, idle, checked, jumped, reflashed, verdict,
                 ctxDone, endpoints, unitVars, sent, clean>>

\* A round is over without a CRC.
VerifyExpires ==
  /\ phase = "verifyWait" /\ idle
  /\ IF attempt < 2 THEN phase' = "verifyWrite" /\ attempt' = attempt + 1 /\ UNCHANGED verdict
                    ELSE Finish("noVerify") /\ UNCHANGED attempt
  /\ UNCHANGED <<opt, pos, ack, idle, checked, jumped, reflashed, ctxDone, endpoints, unitVars, sent, clean>>

ACKExpires ==
  /\ phase = "ackWait" /\ idle
  /\ Finish("ackTimeout") /\ Stay
  /\ UNCHANGED <<opt, ctxDone, endpoints, unitVars, sent>>

\* Any other transfer or pause of the flash and of the verification that
\* fails ends the update: a stall, a dead context, a unit off the bus.
TransferFails ==
  /\ \/ phase \in {"flash", "verifyWrite", "verifyRead"}
     \/ phase \in {"ackWait", "verifyWait"} /\ (ctxDone \/ mode # "boot")
  /\ Finish("failed") /\ Stay
  /\ UNCHANGED <<opt, ctxDone, endpoints, unitVars, sent>>

MayJump == ~opt.skipJump /\ (checked \/ opt.force)

\* Left in the bootloader, as asked; or the last guard before the jump.
NoJump ==
  /\ phase = "end" /\ ~MayJump
  /\ Finish(IF opt.skipJump THEN "ok" ELSE "unverifiable") /\ Stay
  /\ UNCHANGED <<opt, ctxDone, endpoints, unitVars, sent>>

\* CMD_BOOTLOAD_END is taken.  The unit leaves the bus at once, and the host's
\* side of the transfer may come back as an error for that.
JumpToApp ==
  /\ phase = "end" /\ MayJump
  /\ Deliver([cmd |-> "end"])
  /\ \/ Finish("ok") /\ jumped' = TRUE
     \/ Finish("endUndelivered") /\ UNCHANGED jumped
  /\ UNCHANGED <<opt, pos, ack, attempt, idle, checked, reflashed, sent, clean>>

\* Mutant of JumpFails: every failure taken for a unit that has jumped.
JumpFailsHopeful ==
  /\ phase = "end" /\ MayJump
  /\ Finish("ok") /\ jumped' = TRUE
  /\ UNCHANGED <<opt, pos, ack, attempt, idle, checked, reflashed, ctxDone, endpoints, unitVars, sent, clean>>

\* CMD_BOOTLOAD_END was not taken: forgiven only if the unit is off the bus.
JumpFails ==
  /\ phase = "end" /\ MayJump
  /\ IF mode = "gone" /\ ~ctxDone THEN Finish("ok") /\ jumped' = TRUE
                                  ELSE Finish("endUndelivered") /\ UNCHANGED jumped
  /\ UNCHANGED <<opt, pos, ack, attempt, idle, checked, reflashed, ctxDone, endpoints, unitVars, sent, clean>>

-----------------------------------------------------------------------------
(* The unit, the bus and the operator.                                     *)

Answering(a) == inq' \in {inq, Append(inq, a)}

\* A chunk of another page starts its buffer anew; any chunk makes the CRC
\* computed so far worthless.
UnitTakesChunk(f) ==
  /\ f.cmd = "chunk"
  /\ buf' = IF buf.page = f.page THEN [buf EXCEPT !.chunks = @ \cup {f.chunk}]
            ELSE [page |-> f.page, chunks |-> {f.chunk}]
  /\ dcrc' = "none"
  /\ Answering(Reply("chunk", "none"))
  /\ UNCHANGED <<flash, faults, mode, clean>>

\* The buffer is written, whole or not; the memory itself may fail.
UnitCommits(f) ==
  /\ f.cmd = "commit"
  /\ \/ /\ flash' = IF buf.chunks = {} THEN flash
                    ELSE [flash EXCEPT ![buf.page] =
                            IF buf.chunks = 0 .. Chunks - 1 THEN "image" ELSE "torn"]
        /\ UNCHANGED <<faults, clean>>
     \/ /\ faults < MaxFaults
        /\ faults' = faults + 1 /\ clean' = FALSE
        /\ flash' = [flash EXCEPT ![buf.page] = "torn"]
  /\ buf' = [buf EXCEPT !.chunks = {}]
  /\ dcrc' = "none"
  /\ Answering(Reply("commit", "none"))
  /\ UNCHANGED mode

UnitAnswers(f) ==
  /\ f.cmd \in {"serial", "verifyWrite", "verifyRead"}
  /\ dcrc' = IF f.cmd = "verifyWrite" THEN (IF Good THEN "image" ELSE "other") ELSE dcrc
  /\ Answering(CASE f.cmd = "serial"      -> Reply("serial", unit)
                 [] f.cmd = "verifyWrite" -> Reply("verify", "none")
                 [] OTHER                 -> Reply("verify", dcrc))
  /\ UNCHANGED <<flash, buf, faults, mode, clean>>

UnitJumps(f) ==
  /\ f.cmd = "end"
  /\ mode' = "app"
  /\ inq' = <<>>
  /\ UNCHANGED <<flash, buf, dcrc, faults, clean>>

UnitStep ==
  /\ mode = "boot" /\ outq # <<>>
  /\ LET f == Head(outq) IN
       UnitTakesChunk(f) \/ UnitCommits(f) \/ UnitAnswers(f) \/ UnitJumps(f)
  /\ outq' = Tail(outq)
  /\ UNCHANGED <<hostVars, ctxDone, unit, noise, sent>>

\* A packet of zeroes: the code of WRITE_CHUNK, and no declared length.
Noise ==
  /\ mode = "boot" /\ noise < MaxNoise
  /\ noise' = noise + 1
  /\ inq' = Append(inq, [cmd |-> "chunk", valid |-> FALSE, val |-> "none"])
  /\ UNCHANGED <<hostVars, ctxDone, outq, unit, mode, flash, buf, dcrc, faults, sent, clean>>

Unplug ==
  /\ mode # "gone"
  /\ mode' = "gone"
  /\ outq' = <<>> /\ inq' = <<>>
  /\ UNCHANGED <<hostVars, ctxDone, unit, flash, buf, dcrc, faults, noise, sent, clean>>

Interrupt ==
  /\ ~ctxDone
  /\ ctxDone' = TRUE
  /\ UNCHANGED <<hostVars, endpoints, unitVars, sent, clean>>

Host ==
  \/ Policy \/ SendSerial \/ ReceiveSerial \/ SerialFails
  \/ SendImage \/ ReceiveACK \/ ACKExpires \/ Settled
  \/ SendVerifyWrite \/ SendVerifyRead \/ ReceiveCRC \/ VerifyExpires
  \/ TransferFails \/ NoJump \/ JumpToApp \/ JumpFails
  \/ Discard \/ PollEmpty

Next == Host \/ UnitStep \/ Noise \/ Unplug \/ Interrupt

\* The host's one goroutine runs and its timers fire; the unit need not answer,
\* take another frame, or stay.
Spec == Init /\ [][Next]_vars /\ WF_vars(Host)

-----------------------------------------------------------------------------
(* Properties.                                                             *)

\* A unit is only ever started on an image that is in its flash as it was
\* meant to be, or on one whose verification the operator waived beforehand.
\* No answer of an earlier run, an earlier round or an earlier pass, and no
\* noise, may stand for the CRC of what the flash holds now.
StartsOnlyTheImage == mode = "app" => Good \/ (opt.force /\ ~WillVerify)

JumpSent == mode = "app" \/ \E n \in DOMAIN outq : outq[n].cmd = "end"

\* The result tells the truth about the jump, which decides whether the
\* operator is told to flash again or never to: said to have been sent, the
\* unit has it or is gone; said not to have been, the unit does not have it,
\* the one error that hedges excepted.
JumpReported ==
  phase = "done" =>
    /\ jumped => JumpSent \/ mode = "gone"
    /\ JumpSent => jumped \/ verdict = "endUndelivered"

\* The update returns whatever the unit does or leaves undone.
UpdateReturns == <>(phase = "done")
=============================================================================
