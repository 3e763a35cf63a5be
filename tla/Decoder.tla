------------------------------ MODULE Decoder -------------------------------
(***************************************************************************)
(* internal/framer/decoder.go: the MIDI byte stream turned back into       *)
(* protocol frames, one byte at a time, whatever the bytes.  Module        *)
(* MidiStream says what a device and its neighbours put on the stream.     *)
(***************************************************************************)
EXTENDS Naturals, Sequences

CONSTANTS
  MaxFrameLen    \* proto.MaxFrameLen, 64 in the code

Bytes == 0 .. 255

ASSUME DecoderAssumption ==
  MaxFrameLen \in 2 .. 255

VARIABLES
  status, data, nData, want, sysex,   \* the MIDI parser
  acc, overflow,                      \* the frame accumulator
  emitted,    \* what the last byte completed: one frame, or none
  notices     \* what the last byte made the drop hook report

midiVars == <<status, data, nData, want, sysex>>
frameVars == <<acc, overflow, emitted, notices>>
decoderVars == <<midiVars, frameVars>>

Notices == {"overflow", "resync", "length", "short"}

NoData == [n \in 1 .. 2 |-> 0]

DecoderTypeOK ==
  /\ status \in Bytes /\ want \in 0 .. 2 /\ sysex \in BOOLEAN
  /\ data \in [1 .. 2 -> Bytes] /\ nData \in 0 .. 2
  /\ acc \in Seq(Bytes) /\ Len(acc) <= MaxFrameLen
  /\ overflow \in Nat
  /\ emitted \in Seq(Seq(Bytes))
  /\ notices \in Seq(Notices)

DecoderInit ==
  /\ status = 0 /\ data = NoData /\ nData = 0 /\ want = 0 /\ sysex = FALSE
  /\ acc = <<>> /\ overflow = 0
  /\ emitted = <<>> /\ notices = <<>>

-----------------------------------------------------------------------------
(* The frame state machine: one complete channel message.                  *)

OverflowNotice == IF overflow > 0 THEN <<"overflow">> ELSE <<>>

StartOfFrame ==
  /\ acc' = <<>> /\ overflow' = 0
  /\ emitted' = <<>>
  /\ notices' = OverflowNotice \o (IF acc # <<>> THEN <<"resync">> ELSE <<>>)

\* Past the cap a byte is only counted.
FrameData(hi, lo) ==
  /\ IF Len(acc) < MaxFrameLen
     THEN acc' = Append(acc, 16 * (hi % 16) + (lo % 16)) /\ UNCHANGED overflow
     ELSE overflow' = overflow + 1 /\ UNCHANGED acc
  /\ emitted' = <<>> /\ notices' = <<>>

ValidResponseLen(n) == n \in 2 .. MaxFrameLen

\* Mutant of EndOfFrame: what is too short to be a frame vanishes unreported.
EndOfFrameSilent ==
  /\ acc' = <<>> /\ overflow' = 0
  /\ IF Len(acc) >= 2 /\ ValidResponseLen(acc[1]) /\ acc[1] <= Len(acc)
     THEN emitted' = <<SubSeq(acc, 1, acc[1])>> /\ notices' = OverflowNotice
     ELSE emitted' = <<>> /\ notices' = OverflowNotice

EndOfFrame ==
  /\ acc' = <<>> /\ overflow' = 0
  /\ IF Len(acc) >= 2 /\ ValidResponseLen(acc[1]) /\ acc[1] <= Len(acc)
     THEN emitted' = <<SubSeq(acc, 1, acc[1])>> /\ notices' = OverflowNotice
     ELSE /\ emitted' = <<>>
          /\ notices' = OverflowNotice \o (CASE Len(acc) >= 2 -> <<"length">>
                                             [] Len(acc) = 1  -> <<"short">>
                                             [] OTHER         -> <<>>)

\* Nothing for the frame state machine.
NoMessage == UNCHANGED <<acc, overflow>> /\ emitted' = <<>> /\ notices' = <<>>

Message(st, d) ==
  CASE st \div 16 = 8  -> StartOfFrame
    [] st \div 16 = 9  -> FrameData(d[1], d[2])
    [] st \div 16 = 10 -> EndOfFrame
    [] OTHER           -> NoMessage

-----------------------------------------------------------------------------
(* The MIDI parser: one byte.                                              *)

ExpectedDataBytes(b) ==
  CASE b \in 192 .. 223      -> 1    \* program change, channel pressure
    [] b < 240               -> 2
    [] b \in {241, 243}      -> 1    \* time code, song select
    [] b = 242               -> 2    \* song position
    [] OTHER                 -> 0

\* Realtime bytes disturb nothing.
Realtime(b) ==
  /\ b >= 248
  /\ UNCHANGED midiVars
  /\ NoMessage

SysExStart(b) ==
  /\ b = 240
  /\ sysex' = TRUE
  /\ status' = 0 /\ want' = 0 /\ nData' = 0 /\ data' = NoData
  /\ NoMessage

\* Any other status byte abandons the message in flight.  One that needs no
\* data is complete at once, and cancels running status.
StatusByte(b) ==
  /\ b \in 128 .. 247 \ {240}
  /\ sysex' = FALSE /\ nData' = 0 /\ data' = NoData
  /\ want' = ExpectedDataBytes(b)
  /\ status' = IF ExpectedDataBytes(b) = 0 THEN 0 ELSE b
  /\ NoMessage

\* The message has all its data.  A channel message keeps its status for the
\* next one; a system message does not.
Completes(st, d) ==
  /\ nData' = 0
  /\ IF st < 240
     THEN Message(st, d) /\ UNCHANGED status
     ELSE NoMessage /\ status' = 0

\* Mutant of DataByte: data following a message that is complete is dropped.
DataByteNoRunning(b) ==
  /\ b < 128
  /\ IF sysex \/ status = 0
     THEN UNCHANGED midiVars /\ NoMessage
     ELSE LET d == [data EXCEPT ![nData + 1] = b] IN
            /\ data' = d
            /\ UNCHANGED <<want, sysex>>
            /\ IF nData + 1 >= want
               THEN nData' = 0 /\ Message(status, d) /\ status' = 0
               ELSE nData' = nData + 1 /\ NoMessage /\ UNCHANGED status

\* A data byte belongs to the message in effect, if any.
DataByte(b) ==
  /\ b < 128
  /\ IF sysex \/ status = 0
     THEN UNCHANGED midiVars /\ NoMessage
     ELSE LET d == [data EXCEPT ![nData + 1] = b] IN
            /\ data' = d
            /\ UNCHANGED <<want, sysex>>
            /\ IF nData + 1 >= want
               THEN Completes(status, d)
               ELSE nData' = nData + 1 /\ NoMessage /\ UNCHANGED status

FeedByte(b) == Realtime(b) \/ SysExStart(b) \/ StatusByte(b) \/ DataByte(b)

DecoderSpec == DecoderInit /\ [][\E b \in Bytes : FeedByte(b)]_decoderVars

-----------------------------------------------------------------------------
(* Properties.                                                             *)

\* The next data byte always has its place in the two-byte buffer: data[2]
\* would be an index out of range, which ends the process.
InBounds == sysex \/ status = 0 \/ (want \in 1 .. 2 /\ nData < want)

\* What a listener may rely on: an emitted frame is as long as it says, and no
\* longer than the protocol allows.
EmittedWellFormed ==
  \A n \in DOMAIN emitted : Len(emitted[n]) = emitted[n][1] /\ ValidResponseLen(Len(emitted[n]))

\* What has been accumulated never vanishes in silence: it becomes a frame or
\* the drop hook hears of it, and so it does of every byte past the cap.
NothingLostSilently ==
  [][/\ acc # <<>> /\ acc' = <<>> => emitted' # <<>> \/ notices' # <<>>
     /\ overflow > 0 /\ overflow' = 0 => "overflow" \in {notices'[n] : n \in DOMAIN notices'}]_decoderVars
=============================================================================
