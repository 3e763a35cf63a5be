------------------------------ MODULE MCMidiStream --------------------------
(* Frames of at most five bytes for a receiver that takes three.            *)
EXTENDS MidiStream

\* SysEx and its end, a clock, time code, song position, program change, the
\* three protocol statuses, and two data bytes.
MCNoise == {240, 247, 248, 241, 242, 192, 128, 144, 160, 2, 33}

\* A command, one whose bytes have zero nibbles, one at the limit, one that
\* says too much, one that says too little, an over-long one, a lone byte.
MCSendable ==
  {<<2, 18>>, <<2, 128>>, <<3, 160, 1>>, <<3, 7>>, <<1, 2>>, <<2, 18, 0, 255>>, <<9, 1, 2, 3, 4>>, <<2>>}
=============================================================================
