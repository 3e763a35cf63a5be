---------------------------- MODULE MidiStream ------------------------------
(***************************************************************************)
(* What the decoder is fed: the device sends a frame as a start marker,    *)
(* one Note On per byte and an end marker (framer/midi.go), and foreign    *)
(* traffic, realtime bytes and frames cut short surround it.               *)
(***************************************************************************)
EXTENDS Decoder, UsbMidi

CONSTANTS
  Sendable,      \* protocol frames the device may send, malformed ones included
  NoiseBytes,    \* what other traffic on the port is made of
  MaxNoise       \* bound: noise bytes in all

ASSUME StreamAssumption ==
  /\ \A f \in Sendable : f \in Seq(Bytes)
  /\ NoiseBytes \subseteq Bytes /\ MaxNoise \in Nat

VARIABLES
  sending,    \* the frame the device is sending
  todo,       \* the bytes of it not fed yet
  noise       \* how many noise bytes have been fed

streamVars == <<decoderVars, sending, todo, noise>>

StreamInit == DecoderInit /\ sending = <<>> /\ todo = <<>> /\ noise = 0

\* One protocol byte as a Note On: two nibbles, and the status unless a run of
\* equal ones is compressed.
DataMessage(b, compressed) == (IF compressed THEN <<>> ELSE <<144>>) \o <<b \div 16, b % 16>>

\* EncodeMIDI; the device, or what lies between, may compress running status.
EncodeMIDI(f, compress) ==
  <<128, 0, 0>>
    \o FlattenSeq([n \in DOMAIN f |-> DataMessage(f[n], compress /\ n > 1)])
    \o <<160, 0, 0>>

StartSending ==
  /\ todo = <<>>
  /\ \E f \in Sendable, compress \in BOOLEAN : sending' = f /\ todo' = EncodeMIDI(f, compress)
  /\ UNCHANGED <<decoderVars, noise>>

\* The same as event packets, a clock tick inside one of its messages, and
\* unpacked again.
InsertClock(stream, n) == SubSeq(stream, 1, n) \o <<248>> \o SubSeq(stream, n + 1, Len(stream))

StartSendingOverUsb ==
  /\ todo = <<>>
  /\ \E f \in Sendable, compress \in BOOLEAN, padding \in 0..1 :
       \E n \in {1, 5} :
         /\ sending' = f
         /\ todo' = UnpackPackets(WriteMIDI(
                      SplitMessages(Split(InsertClock(EncodeMIDI(f, compress), n))), padding))
  /\ UNCHANGED <<decoderVars, noise>>

SendByte ==
  /\ todo # <<>>
  /\ FeedByte(Head(todo))
  /\ todo' = Tail(todo)
  /\ UNCHANGED <<sending, noise>>

\* The rest of the frame never comes.
CutShort ==
  /\ todo # <<>>
  /\ todo' = <<>> /\ sending' = <<>>
  /\ UNCHANGED <<decoderVars, noise>>

\* Other traffic between two frames; inside one, realtime bytes only.
Noise(b) ==
  /\ noise < MaxNoise
  /\ todo = <<>> \/ b >= 248
  /\ FeedByte(b)
  /\ noise' = noise + 1
  /\ UNCHANGED <<sending, todo>>

StreamNext == StartSending \/ StartSendingOverUsb \/ SendByte \/ CutShort \/ \E b \in NoiseBytes : Noise(b)

StreamSpec == StreamInit /\ [][StreamNext]_streamVars

-----------------------------------------------------------------------------
(* Properties.                                                             *)

\* What the frame f is worth to the receiver.
Expected(f) ==
  IF Len(f) >= 2 /\ f[1] \in 2 .. MaxFrameLen /\ f[1] <= Len(f) THEN <<SubSeq(f, 1, f[1])>> ELSE <<>>

\* Self-synchronisation: a frame that arrives whole is delivered by its last
\* byte and not before, whatever preceded it, compressed or not, and however
\* many realtime bytes are strewn over it.
WholeFrameDelivered ==
  [][SendByte => emitted' = IF todo' = <<>> THEN Expected(sending) ELSE <<>>]_streamVars
=============================================================================
