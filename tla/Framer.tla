------------------------------- MODULE Framer -------------------------------
(***************************************************************************)
(* internal/framer: the goroutine that reads a MIDI port and publishes     *)
(* decoded protocol frames on one channel and its terminal error on        *)
(* another, and the Close that stops it.                                   *)
(*                                                                         *)
(* A channel is its buffer and a flag that says whether it is still open.  *)
(* A frame on the wire is a whole frame: the byte-level decoder is the     *)
(* subject of module Decoder.  The frames are the members of a set, so     *)
(* that a module composing this one can say what they carry.               *)
(***************************************************************************)
EXTENDS Naturals, Sequences

CONSTANTS
  Frames,     \* what the device may send, decoded
  Closers,    \* the goroutines that may call Close
  FrameCap,   \* capacity of the frames channel (16 in the code)
  MayStick    \* may a ReadMIDI outlive the close of its port by closeGrace?

ASSUME FramerAssumption ==
  /\ FrameCap \in Nat \ {0}
  /\ MayStick \in BOOLEAN

VARIABLES
  port,       \* the transport: "open", "gone" (unplugged) or "closed"
  wire,       \* frames the transport has not handed to ReadMIDI yet
  reader,     \* where readLoop is
  held,       \* frames Feed returned that are not on the channel yet
  frames, framesOpen,
  errs, errsOpen,     \* errs counts the buffered errors
  readerExit, \* is the readerExit channel closed?
  started, closed, done,
  closer      \* where each caller of Close is

chanVars  == <<frames, framesOpen, errs, errsOpen, readerExit>>
lifeVars  == <<started, closed, done, closer>>
framerVars == <<port, wire, reader, held, chanVars, lifeVars>>

ErrCap == 4

ReaderSteps == {"absent", "read", "publish", "closeErrs", "closeFrames", "closeExit", "exited"}
CloserSteps == {"idle", "signal", "closePort", "wait", "waitLater", "ok", "stuck", "okLater", "lateGiveUp"}

TypeOK ==
  /\ port \in {"open", "gone", "closed"}
  /\ wire \in Seq(Frames) /\ held \in Seq(Frames) /\ frames \in Seq(Frames)
  /\ Len(frames) <= FrameCap
  /\ reader \in ReaderSteps
  /\ errs \in 0 .. ErrCap
  /\ framesOpen \in BOOLEAN /\ errsOpen \in BOOLEAN /\ readerExit \in BOOLEAN
  /\ started \in BOOLEAN /\ closed \in BOOLEAN /\ done \in BOOLEAN
  /\ closer \in [Closers -> CloserSteps]

Init ==
  /\ port = "open" /\ wire = <<>>
  /\ reader = "absent" /\ held = <<>>
  /\ frames = <<>> /\ framesOpen = TRUE
  /\ errs = 0 /\ errsOpen = TRUE
  /\ readerExit = FALSE
  /\ started = FALSE /\ closed = FALSE /\ done = FALSE
  /\ closer = [k \in Closers |-> "idle"]

-----------------------------------------------------------------------------
(* Start and the reader goroutine.                                         *)

StartReader ==
  /\ started' = TRUE
  /\ reader' = "read"
  /\ UNCHANGED <<port, wire, held, chanVars, closed, done, closer>>

\* Mutant of Start: Close has not been looked at.
StartAfterClose == IF started THEN UNCHANGED framerVars ELSE StartReader

\* Idempotent, and a no-op after Close.
Start == IF started \/ closed THEN UNCHANGED framerVars ELSE StartReader

\* ReadMIDI returns bytes that complete one or more frames.  A read already
\* in the kernel returns them whatever has happened to the port meanwhile.
ReadFrames ==
  /\ reader = "read"
  /\ \E n \in 1 .. Len(wire) :
       /\ held' = SubSeq(wire, 1, n)
       /\ wire' = SubSeq(wire, n + 1, Len(wire))
  /\ reader' = "publish"
  /\ UNCHANGED <<port, chanVars, lifeVars>>

\* A frame of the batch is dealt with; after the last one the reader looks at
\* done once more before it reads again.
PublishHead(room) ==
  /\ reader = "publish"
  /\ room
  /\ held' = Tail(held)
  /\ reader' = IF Tail(held) # <<>> THEN "publish"
               ELSE IF done THEN "closeErrs" ELSE "read"
  /\ UNCHANGED <<port, wire, framesOpen, errs, errsOpen, readerExit, lifeVars>>

\* Mutant of Publish: a frame dropped when the channel is full.
PublishOrDrop ==
  /\ PublishHead(TRUE)
  /\ frames' = IF Len(frames) < FrameCap THEN Append(frames, Head(held)) ELSE frames

\* One arm of the publishing select: the channel has room.
Publish ==
  /\ PublishHead(Len(frames) < FrameCap)
  /\ frames' = Append(frames, Head(held))

\* Mutant of AbandonPublish: a bare send, which only room can complete.
NeverAbandon == FALSE /\ UNCHANGED framerVars

\* The other arm: done is closed, the rest of the batch is abandoned.
AbandonPublish ==
  /\ reader = "publish"
  /\ done
  /\ held' = <<>>
  /\ reader' = "closeErrs"
  /\ UNCHANGED <<port, wire, chanVars, lifeVars>>

\* Mutant of ReadError: the error is taken for one that Close provoked.
ReadErrorSilent ==
  /\ reader = "read"
  /\ reader' = "closeErrs"
  /\ UNCHANGED <<port, wire, held, chanVars, lifeVars>>

\* ReadMIDI returns an error, which is terminal: published unless Close
\* provoked it, dropped if the buffer is full.  A quiet read that finds done
\* closed leaves the same way.
ReadError ==
  /\ reader = "read"
  /\ errs' = IF ~done /\ errs < ErrCap THEN errs + 1 ELSE errs
  /\ reader' = "closeErrs"
  /\ UNCHANGED <<port, wire, held, frames, framesOpen, errsOpen, readerExit, lifeVars>>

\* The deferred closes, last declared first.
CloseErrs ==
  /\ reader = "closeErrs"
  /\ errsOpen' = FALSE
  /\ reader' = "closeFrames"
  /\ UNCHANGED <<port, wire, held, frames, framesOpen, errs, readerExit, lifeVars>>

CloseFrames ==
  /\ reader = "closeFrames"
  /\ framesOpen' = FALSE
  /\ reader' = "closeExit"
  /\ UNCHANGED <<port, wire, held, frames, errs, errsOpen, readerExit, lifeVars>>

CloseExit ==
  /\ reader = "closeExit"
  /\ readerExit' = TRUE
  /\ reader' = "exited"
  /\ UNCHANGED <<port, wire, held, frames, framesOpen, errs, errsOpen, lifeVars>>

ReaderLeaves == AbandonPublish \/ ReadError \/ CloseErrs \/ CloseFrames \/ CloseExit
Reader == ReadFrames \/ Publish \/ ReaderLeaves

-----------------------------------------------------------------------------
(* Close.                                                                  *)

Goto(k, step) == closer' = [closer EXCEPT ![k] = step]

\* Under the mutex: the first caller takes the close, a later one only waits.
CloseEnter(k) ==
  /\ closer[k] = "idle"
  /\ Goto(k, IF closed THEN "waitLater" ELSE "signal")
  /\ closed' = TRUE
  /\ UNCHANGED <<port, wire, reader, held, chanVars, started, done>>

CloseSignal(k) ==
  /\ closer[k] = "signal"
  /\ done' = TRUE
  /\ Goto(k, "closePort")
  /\ UNCHANGED <<port, wire, reader, held, chanVars, started, closed>>

\* t.Close, and the channels of a reader that never existed.
ClosePort(k) ==
  /\ closer[k] = "closePort"
  /\ port' = "closed"
  /\ IF started
     THEN UNCHANGED <<framesOpen, errsOpen, readerExit>>
     ELSE framesOpen' = FALSE /\ errsOpen' = FALSE /\ readerExit' = TRUE
  /\ Goto(k, "wait")
  /\ UNCHANGED <<wire, reader, held, frames, errs, started, closed, done>>

\* Mutant of CloseReturns: Close does not wait for the reader.
CloseReturnsAtOnce(k) ==
  /\ closer[k] \in {"wait", "waitLater"}
  /\ Goto(k, IF closer[k] = "wait" THEN "ok" ELSE "okLater")
  /\ UNCHANGED <<port, wire, reader, held, chanVars, started, closed, done>>

\* awaitReader sees the reader gone ...
CloseReturns(k) ==
  /\ closer[k] \in {"wait", "waitLater"}
  /\ readerExit
  /\ Goto(k, IF closer[k] = "wait" THEN "ok" ELSE "okLater")
  /\ UNCHANGED <<port, wire, reader, held, chanVars, started, closed, done>>

\* ... or closeGrace runs out first: ErrReaderStuck, which only the first
\* caller reports.
CloseGivesUp(k) ==
  /\ MayStick
  /\ closer[k] \in {"wait", "waitLater"}
  /\ ~readerExit
  /\ Goto(k, IF closer[k] = "wait" THEN "stuck" ELSE "lateGiveUp")
  /\ UNCHANGED <<port, wire, reader, held, chanVars, started, closed, done>>

CloseStep(k) == CloseEnter(k) \/ CloseSignal(k) \/ ClosePort(k) \/ CloseReturns(k) \/ CloseGivesUp(k)

-----------------------------------------------------------------------------
(* What the consumer of the channels does, and the port's own fate.        *)

\* A receive from the frames channel that yields a value.
ReceiveFrame ==
  /\ frames # <<>>
  /\ frames' = Tail(frames)
  /\ UNCHANGED <<port, wire, reader, held, framesOpen, errs, errsOpen, readerExit, lifeVars>>

\* A receive from the errors channel that yields a value.
ReceiveErr ==
  /\ errs > 0
  /\ errs' = errs - 1
  /\ UNCHANGED <<port, wire, reader, held, frames, framesOpen, errsOpen, readerExit, lifeVars>>

\* A closed channel yields its buffered values before it reports !ok.
FramesExhausted == ~framesOpen /\ frames = <<>>
ErrsExhausted == ~errsOpen /\ errs = 0

Unplug ==
  /\ port = "open"
  /\ port' = "gone"
  /\ UNCHANGED <<wire, reader, held, chanVars, lifeVars>>
=============================================================================
