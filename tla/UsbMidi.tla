------------------------------- MODULE UsbMidi ------------------------------
(***************************************************************************)
(* internal/transport/usbmidi/packet.go and the batching of WriteMIDI: a   *)
(* MIDI byte stream as USB-MIDI event packets of four bytes, code index    *)
(* number first, and back.                                                 *)
(***************************************************************************)
EXTENDS Integers, Sequences, SequencesExt

CONSTANT PerTransfer   \* packets that fit in one wMaxPacketSize transfer

ASSUME UsbMidiAssumption == PerTransfer \in Nat \ {0}

\* Bytes of MIDI behind each code index number, 0 to 15.
CinLength == <<0, 0, 2, 3, 3, 1, 2, 3, 3, 3, 3, 3, 2, 2, 3, 1>>

\* classify: code index number and length of the message a status byte starts;
\* no length for the ones that have no packet of their own.
Encoding(cin, length) == [cin |-> cin, length |-> length]

Classify(b) ==
  CASE b < 128            -> Encoding(0, 0)
    [] b \in 192..223     -> Encoding(b \div 16, 2)
    [] b \in 128..191 \union 224..239 -> Encoding(b \div 16, 3)
    [] b >= 248           -> Encoding(15, 1)
    [] b \in {241, 243}   -> Encoding(2, 2)
    [] b = 242            -> Encoding(3, 3)
    [] b = 246            -> Encoding(5, 1)
    [] OTHER              -> Encoding(0, 0)

PackPacket(message) ==
  <<Classify(message[1]).cin>> \o message \o [n \in 1..3 - Len(message) |-> 0]

\* splitMessages, byte by byte: messages complete so far, the one in progress,
\* the status in effect and the length it calls for.
Splitting(messages, acc, status, want, ok) ==
  [messages |-> messages, acc |-> acc, status |-> status, want |-> want, ok |-> ok]

SplitData(s, acc) ==
  IF s.want = 0 THEN [s EXCEPT !.ok = FALSE]
  ELSE IF Len(acc) = s.want
       THEN Splitting(Append(s.messages, acc), <<>>, s.status, s.want, s.ok)
       ELSE Splitting(s.messages, acc, s.status, s.want, s.ok)

SplitStatus(s, b) ==
  IF s.acc # <<>> \/ Classify(b).length = 0 THEN [s EXCEPT !.ok = FALSE]
  ELSE IF Classify(b).length = 1 THEN Splitting(Append(s.messages, <<b>>), <<>>, 0, 0, s.ok)
  ELSE Splitting(s.messages, <<b>>, b, Classify(b).length, s.ok)

\* A realtime byte may stand inside another message, and goes out before it; a
\* data byte after a complete one repeats its status.
SplitByte(s, b) ==
  CASE ~s.ok -> s
    [] s.ok /\ b >= 248 -> Splitting(Append(s.messages, <<b>>), s.acc, s.status, s.want, s.ok)
    [] s.ok /\ b \in 128..247 -> SplitStatus(s, b)
    [] OTHER -> SplitData(s, (IF s.acc = <<>> THEN <<s.status>> ELSE s.acc) \o <<b>>)

Split(stream) ==
  LET after[n \in 0..Len(stream)] ==
        IF n = 0 THEN Splitting(<<>>, <<>>, 0, 0, TRUE) ELSE SplitByte(after[n - 1], stream[n])
  IN  after[Len(stream)]

\* Nothing of a stream that cannot be split is sent.
SplitMessages(s) == IF s.ok /\ s.acc = <<>> THEN s.messages ELSE <<>>

\* WriteMIDI: the packets, as many to a transfer as fit; the device pads what
\* is short with empty packets.
Padding == <<0, 0, 0, 0>>

WriteMIDI(messages, padding) ==
  FlattenSeq([n \in DOMAIN messages |->
    PackPacket(messages[n])
      \o (IF n % PerTransfer = 0 \/ n = Len(messages)
          THEN FlattenSeq([k \in 1..padding |-> Padding]) ELSE <<>>)])

\* Mutant of UnpackPackets: three bytes of every packet are taken for MIDI.
UnpackWhole(buf) ==
  FlattenSeq([n \in 1..Len(buf) \div 4 |->
    IF buf[4 * n - 3] = 0 THEN <<>> ELSE SubSeq(buf, 4 * n - 2, 4 * n)])

\* Whole packets only; an empty one, and one with a reserved code, is skipped.
UnpackPackets(buf) ==
  FlattenSeq([n \in 1..Len(buf) \div 4 |->
    IF buf[4 * n - 3] = 0 THEN <<>>
    ELSE SubSeq(buf, 4 * n - 2, 4 * n - 3 + CinLength[(buf[4 * n - 3] % 16) + 1])])
=============================================================================
