-------------------------- MODULE BootloaderProofs --------------------------
(***************************************************************************)
(* Theorems about what is flashed, and how: about Update, for an image of  *)
(* any size, any calls, any faults and any noise, and whatever an earlier  *)
(* run has left on the endpoints if a serial number is expected; and about *)
(* Opening, on a machine with any number of units, of any shapes whose     *)
(* descriptors tell the truth, whatever happens on its bus and when.       *)
(***************************************************************************)
EXTENDS Update, Opening, SequenceTheorems, WellFoundedInduction, TLAPS

-----------------------------------------------------------------------------
(* Update: the invariant *)

Flags ==
  /\ ack \in BOOLEAN /\ idle \in BOOLEAN /\ checked \in BOOLEAN /\ jumped \in BOOLEAN
  /\ reflashed \in BOOLEAN /\ ctxDone \in BOOLEAN

Types ==
  /\ opt \in Option /\ phase \in Phases /\ verdict \in Verdicts
  /\ pos \in 1 .. LastFrame + 1 /\ (phase = "ackWait" => pos <= LastFrame)
  /\ unit \in {"mine", "other", "short"} /\ mode \in {"boot", "app", "gone"}
  /\ dcrc \in CRCs \cup {"none"}

Queued ==
  /\ outq \in Seq(Frame)
  /\ inq \in Seq(Answer)

\* What the unit has taken, and what the host has not read.
ImageFrame(n) == outq[n].cmd \in {"chunk", "commit"}
VerifyFrame(n) == outq[n].cmd \in {"verifyWrite", "verifyRead"}
Acknowledges(n) == inq[n].valid /\ inq[n].cmd \in {"chunk", "commit"}
OnlyNoise == \A n \in DOMAIN inq : ~inq[n].valid
NoiseAfter(n) == \A m \in DOMAIN inq : m > n => ~inq[m].valid
NoImage == \A n \in DOMAIN outq : ~ImageFrame(n)
NoVerify ==
  /\ \A n \in DOMAIN outq : ~VerifyFrame(n)
  /\ \A n \in DOMAIN inq : inq[n].cmd # "verify"

\* A CRC the unit holds is that of its flash.
Computed == (dcrc = "image" => Good) /\ (dcrc = "other" => ~Good)

\* The one frame that starts the unit.
JumpOnce ==
  /\ JumpSent => phase = "done" /\ (jumped \/ verdict = "endUndelivered")
  /\ jumped => phase = "done" /\ (JumpSent \/ mode = "gone")

\* The answer to the question for the serial number is behind everything left over.
Asking ==
  /\ phase \in {"policy", "serial"} =>
       /\ \A n \in DOMAIN outq : outq[n].cmd # "serial"
       /\ \A n \in DOMAIN inq : inq[n].cmd # "serial"
       /\ opt.expect = "none" => outq = <<>> /\ OnlyNoise
  /\ phase = "serialWait" =>
       /\ \A n \in DOMAIN outq : n < Len(outq) => outq[n].cmd # "serial"
       /\ \A n \in DOMAIN inq : inq[n].cmd = "serial" => outq = <<>> /\ NoiseAfter(n)
       /\ opt.expect = "none" =>
            /\ \A n \in DOMAIN outq : outq[n].cmd = "serial"
            /\ \A n \in DOMAIN inq : inq[n].valid => inq[n].cmd = "serial"

\* A pass has nothing to do with the verification of an earlier one: streamed, there
\* was none; acknowledged, the first answer is behind all that is left of it.
Passing ==
  /\ phase \in {"flash", "ackWait"} /\ ~ack => NoVerify
  /\ phase = "flash" /\ ack =>
       /\ NoImage /\ \A n \in DOMAIN inq : ~Acknowledges(n)
       /\ pos > 1 => outq = <<>> /\ OnlyNoise
  /\ phase = "ackWait" =>
       /\ ack
       /\ \A n \in DOMAIN outq : n < Len(outq) => ~ImageFrame(n)
       /\ \A n \in DOMAIN inq : Acknowledges(n) => outq = <<>> /\ NoiseAfter(n)

\* A CRC on its way is of what the flash holds: nothing of the image is behind it.
Verifying ==
  phase \in {"verifyWrite", "verifyRead", "verifyWait"} =>
    /\ WillVerify
    /\ \A m, n \in DOMAIN outq : m < n /\ VerifyFrame(m) => ~ImageFrame(n)
    /\ \A n \in DOMAIN inq : inq[n].cmd = "verify" =>
         /\ NoImage
         /\ \A m \in DOMAIN inq : m > n => ~Acknowledges(m)
         /\ (inq[n].val = "image" => Good) /\ (inq[n].val = "other" => ~Good)

\* What the jump rests on.
Licence ==
  /\ checked => WillVerify
  /\ (phase = "end" \/ JumpSent) /\ WillVerify => Good /\ NoImage
  /\ JumpSent /\ ~WillVerify => opt.force

Inv == Flags /\ Types /\ Queued /\ Computed /\ JumpOnce /\ Asking /\ Passing /\ Verifying /\ Licence

USE UpdateAssumption DEF UpdateAssumption

-----------------------------------------------------------------------------
(* Frames, and the two queues *)

\* An image has a last frame.
LEMMA LastFrameNat == LastFrame \in Nat \ {0}
<1>1. Pages * (Chunks + 1) \in Nat
  OBVIOUS
<1>2. Pages * (Chunks + 1) # 0
  OBVIOUS
<1> QED
  BY <1>1, <1>2 DEF LastFrame

\* The frames of the image are frames.
LEMMA ImageFrames ==
  ASSUME NEW p \in 1 .. LastFrame
  PROVE  FrameAt(p) \in Frame /\ FrameAt(p).cmd \in {"chunk", "commit"}
<1>1. FrameAt(p).cmd \in {"chunk", "commit"}
  BY DEF FrameAt
<1> QED
  BY <1>1 DEF Frame

\* And so are the others.
LEMMA OtherFrames ==
  ASSUME NEW c \in {"serial", "verifyWrite", "verifyRead", "end"}
  PROVE  [cmd |-> c] \in Frame
  BY DEF Frame

\* What the unit may put on the IN endpoint is an answer.
LEMMA Replies ==
  ASSUME Types
  PROVE  /\ Reply("chunk", "none") \in Answer /\ Reply("commit", "none") \in Answer
         /\ Reply("serial", unit) \in Answer
         /\ Reply("verify", "none") \in Answer /\ Reply("verify", dcrc) \in Answer
         /\ [cmd |-> "chunk", valid |-> FALSE, val |-> "none"] \in Answer
  BY DEF Types, Reply, Answer, CRCs

\* What is known of a sequence grown at its end.
LEMMA Grown ==
  ASSUME NEW S, NEW q \in Seq(S), NEW x \in S
  PROVE  /\ Append(q, x) \in Seq(S) /\ Len(Append(q, x)) = Len(q) + 1
         /\ Len(q) \in Nat /\ DOMAIN q = 1 .. Len(q)
         /\ DOMAIN Append(q, x) = 1 .. Len(q) + 1
         /\ \A n \in 1 .. Len(q) : Append(q, x)[n] = q[n]
         /\ Append(q, x)[Len(q) + 1] = x
  BY AppendProperties, LenProperties

\* And of one shortened at its beginning.
LEMMA Shortened ==
  ASSUME NEW S, NEW q \in Seq(S), q # <<>>
  PROVE  /\ Tail(q) \in Seq(S) /\ Len(Tail(q)) = Len(q) - 1
         /\ Len(q) \in Nat /\ Len(q) > 0 /\ DOMAIN q = 1 .. Len(q)
         /\ DOMAIN Tail(q) = 1 .. Len(q) - 1
         /\ \A n \in 1 .. Len(q) - 1 : Tail(q)[n] = q[n + 1]
         /\ Head(q) = q[1] /\ Head(q) \in S
<1>1. /\ Tail(q) \in Seq(S) /\ Len(Tail(q)) = Len(q) - 1 /\ Head(q) \in S
      /\ \A n \in 1 .. Len(q) - 1 : Tail(q)[n] = q[n + 1]
  BY HeadTailProperties
<1>2. Len(q) \in Nat /\ Len(q) > 0 /\ DOMAIN q = 1 .. Len(q)
  BY LenProperties, EmptySeq
<1> QED
  BY <1>1, <1>2, LenProperties

\* Both together, in every state.
LEMMA Queues ==
  ASSUME Queued
  PROVE  /\ \A f \in Frame :
              /\ Append(outq, f) \in Seq(Frame) /\ Len(Append(outq, f)) = Len(outq) + 1
              /\ DOMAIN Append(outq, f) = 1 .. Len(outq) + 1
              /\ \A n \in 1 .. Len(outq) : Append(outq, f)[n] = outq[n]
              /\ Append(outq, f)[Len(outq) + 1] = f
         /\ \A a \in Answer :
              /\ Append(inq, a) \in Seq(Answer) /\ Len(Append(inq, a)) = Len(inq) + 1
              /\ DOMAIN Append(inq, a) = 1 .. Len(inq) + 1
              /\ \A n \in 1 .. Len(inq) : Append(inq, a)[n] = inq[n]
              /\ Append(inq, a)[Len(inq) + 1] = a
         /\ outq # <<>> =>
              /\ Tail(outq) \in Seq(Frame) /\ Len(Tail(outq)) = Len(outq) - 1 /\ Len(outq) > 0
              /\ DOMAIN Tail(outq) = 1 .. Len(outq) - 1
              /\ \A n \in 1 .. Len(outq) - 1 : Tail(outq)[n] = outq[n + 1]
              /\ Head(outq) = outq[1] /\ Head(outq) \in Frame
         /\ inq # <<>> =>
              /\ Tail(inq) \in Seq(Answer) /\ Len(Tail(inq)) = Len(inq) - 1 /\ Len(inq) > 0
              /\ DOMAIN Tail(inq) = 1 .. Len(inq) - 1
              /\ \A n \in 1 .. Len(inq) - 1 : Tail(inq)[n] = inq[n + 1]
              /\ Head(inq) = inq[1] /\ Head(inq) \in Answer
         /\ Len(outq) \in Nat /\ DOMAIN outq = 1 .. Len(outq)
         /\ Len(inq) \in Nat /\ DOMAIN inq = 1 .. Len(inq)
<1>1. outq \in Seq(Frame) /\ inq \in Seq(Answer)
  BY DEF Queued
<1> HIDE DEF Frame, Answer
<1>2. \A f \in Frame :
        /\ Append(outq, f) \in Seq(Frame) /\ Len(Append(outq, f)) = Len(outq) + 1
        /\ DOMAIN Append(outq, f) = 1 .. Len(outq) + 1
        /\ \A n \in 1 .. Len(outq) : Append(outq, f)[n] = outq[n]
        /\ Append(outq, f)[Len(outq) + 1] = f
  BY <1>1, Grown
<1>3. \A a \in Answer :
        /\ Append(inq, a) \in Seq(Answer) /\ Len(Append(inq, a)) = Len(inq) + 1
        /\ DOMAIN Append(inq, a) = 1 .. Len(inq) + 1
        /\ \A n \in 1 .. Len(inq) : Append(inq, a)[n] = inq[n]
        /\ Append(inq, a)[Len(inq) + 1] = a
  BY <1>1, Grown
<1>4. outq # <<>> =>
        /\ Tail(outq) \in Seq(Frame) /\ Len(Tail(outq)) = Len(outq) - 1 /\ Len(outq) > 0
        /\ DOMAIN Tail(outq) = 1 .. Len(outq) - 1
        /\ \A n \in 1 .. Len(outq) - 1 : Tail(outq)[n] = outq[n + 1]
        /\ Head(outq) = outq[1] /\ Head(outq) \in Frame
  BY <1>1, Shortened
<1>5. inq # <<>> =>
        /\ Tail(inq) \in Seq(Answer) /\ Len(Tail(inq)) = Len(inq) - 1 /\ Len(inq) > 0
        /\ DOMAIN Tail(inq) = 1 .. Len(inq) - 1
        /\ \A n \in 1 .. Len(inq) - 1 : Tail(inq)[n] = inq[n + 1]
        /\ Head(inq) = inq[1] /\ Head(inq) \in Answer
  BY <1>1, Shortened
<1>6. /\ Len(outq) \in Nat /\ DOMAIN outq = 1 .. Len(outq)
      /\ Len(inq) \in Nat /\ DOMAIN inq = 1 .. Len(inq)
  BY <1>1, LenProperties
<1> QED
  BY <1>2, <1>3, <1>4, <1>5, <1>6

-----------------------------------------------------------------------------
(* What a step does to the queues, index by index *)

\* The unit takes a frame off the one, or puts an answer on the other.
Takes ==
  /\ 1 \in DOMAIN outq /\ DOMAIN outq \subseteq Nat /\ DOMAIN outq' \subseteq Nat
  /\ Len(outq) \in Nat /\ Len(outq') = Len(outq) - 1 /\ (Len(outq) = 1 => outq' = <<>>)
  /\ \A n \in DOMAIN outq' : n + 1 \in DOMAIN outq /\ outq'[n] = outq[n + 1]
  /\ \A n \in DOMAIN outq : n = 1 \/ (n - 1 \in DOMAIN outq' /\ outq'[n - 1] = outq[n])
  /\ mode = "boot" /\ outq # <<>>
  /\ UNCHANGED <<opt, phase, pos, ack, attempt, idle, checked, jumped, reflashed, verdict>>

Puts(a) ==
  /\ DOMAIN inq \subseteq Nat /\ DOMAIN inq' \subseteq Nat
  /\ \A n \in DOMAIN inq' :
       \/ n \in DOMAIN inq /\ inq'[n] = inq[n]
       \/ /\ inq'[n] = a /\ \A m \in DOMAIN inq : m < n
          /\ \A m \in DOMAIN inq' : m <= n

\* The host does the reverse.
Reads ==
  /\ 1 \in DOMAIN inq /\ DOMAIN inq \subseteq Nat /\ DOMAIN inq' \subseteq Nat
  /\ inq[1] = Head(inq) /\ inq[1] \in Answer
  /\ \A n \in DOMAIN inq' : n >= 1 /\ n + 1 \in DOMAIN inq /\ inq'[n] = inq[n + 1]

Writes(f) ==
  /\ DOMAIN outq \subseteq Nat /\ DOMAIN outq' \subseteq Nat
  /\ Len(outq) \in Nat /\ Len(outq') \in Nat
  /\ \/ outq' = outq /\ f.cmd \in {"chunk", "commit"}
     \/ /\ \A n \in DOMAIN outq' :
              \/ n \in DOMAIN outq /\ outq'[n] = outq[n] /\ n < Len(outq')
              \/ n = Len(outq') /\ outq'[n] = f /\ \A m \in DOMAIN outq : m < n
        /\ \A n \in DOMAIN outq : n <= Len(outq) /\ n \in DOMAIN outq' /\ outq'[n] = outq[n]
        /\ Len(outq') \in DOMAIN outq' /\ outq'[Len(outq')] = f
  /\ mode = "boot" /\ UNCHANGED <<inq, flash, mode, dcrc>>

\* A frame taken.
LEMMA UnitTakes ==
  ASSUME Queued, UnitStep
  PROVE  Takes /\ Head(outq) = outq[1]
<1>1. mode = "boot" /\ outq # <<>> /\ outq' = Tail(outq)
      /\ UNCHANGED <<opt, phase, pos, ack, attempt, idle, checked, jumped, reflashed, verdict>>
  BY DEF UnitStep, hostVars
<1>2. /\ Tail(outq) \in Seq(Frame) /\ Len(Tail(outq)) = Len(outq) - 1 /\ Len(outq) > 0
      /\ DOMAIN Tail(outq) = 1 .. Len(outq) - 1
      /\ \A n \in 1 .. Len(outq) - 1 : Tail(outq)[n] = outq[n + 1]
      /\ Head(outq) = outq[1] /\ Len(outq) \in Nat /\ DOMAIN outq = 1 .. Len(outq)
  BY <1>1, Queues
<1>3. Len(outq) = 1 => outq' = <<>>
  BY <1>1, <1>2, EmptySeq
<1>4. Len(outq') = Len(outq) - 1 /\ DOMAIN outq' = 1 .. Len(outq) - 1
      /\ \A n \in 1 .. Len(outq) - 1 : outq'[n] = outq[n + 1]
  BY <1>1, <1>2
<1> QED
  BY <1>1, <1>2, <1>3, <1>4 DEF Takes

\* An answer given, or withheld.
LEMMA UnitPuts ==
  ASSUME Queued, NEW a \in Answer, inq' \in {inq, Append(inq, a)}
  PROVE  Puts(a)
<1>1. /\ DOMAIN Append(inq, a) = 1 .. Len(inq) + 1
      /\ \A n \in 1 .. Len(inq) : Append(inq, a)[n] = inq[n]
      /\ Append(inq, a)[Len(inq) + 1] = a
      /\ Len(inq) \in Nat /\ DOMAIN inq = 1 .. Len(inq)
  BY Queues
<1>2. CASE inq' = inq
  BY <1>1, <1>2 DEF Puts
<1>3. CASE inq' = Append(inq, a)
  <2>1. /\ DOMAIN inq' = 1 .. Len(inq) + 1 /\ inq'[Len(inq) + 1] = a
        /\ \A n \in 1 .. Len(inq) : inq'[n] = inq[n]
    BY <1>1, <1>3
  <2> QED
    BY <2>1, <1>1 DEF Puts
<1> QED
  BY <1>2, <1>3

\* An answer read.
LEMMA HostReads ==
  ASSUME Queued, inq # <<>>, inq' = Tail(inq)
  PROVE  Reads
<1>1. /\ Len(inq) > 0 /\ DOMAIN Tail(inq) = 1 .. Len(inq) - 1
      /\ \A n \in 1 .. Len(inq) - 1 : Tail(inq)[n] = inq[n + 1]
      /\ Head(inq) = inq[1] /\ Head(inq) \in Answer
      /\ Len(inq) \in Nat /\ DOMAIN inq = 1 .. Len(inq)
  BY Queues
<1>2. DOMAIN inq' = 1 .. Len(inq) - 1 /\ \A n \in 1 .. Len(inq) - 1 : inq'[n] = inq[n + 1]
  BY <1>1
<1> QED
  BY <1>1, <1>2 DEF Reads

\* A frame sent, or lost on its way.
LEMMA HostWrites ==
  ASSUME Queued, NEW f \in Frame, Deliver(f)
  PROVE  Writes(f)
<1>1. /\ Append(outq, f) \in Seq(Frame) /\ Len(Append(outq, f)) = Len(outq) + 1
      /\ DOMAIN Append(outq, f) = 1 .. Len(outq) + 1
      /\ \A n \in 1 .. Len(outq) : Append(outq, f)[n] = outq[n]
      /\ Append(outq, f)[Len(outq) + 1] = f
      /\ Len(outq) \in Nat /\ DOMAIN outq = 1 .. Len(outq)
  BY Queues
<1>2. mode = "boot" /\ UNCHANGED <<inq, flash, mode, dcrc>>
  BY DEF Deliver, unitVars
<1>3. CASE outq' = outq /\ f.cmd \in {"chunk", "commit"}
  BY <1>1, <1>2, <1>3 DEF Writes
<1>4. CASE outq' = Append(outq, f)
  <2>1. /\ Len(outq') = Len(outq) + 1 /\ DOMAIN outq' = 1 .. Len(outq) + 1
        /\ \A n \in 1 .. Len(outq) : outq'[n] = outq[n]
        /\ outq'[Len(outq) + 1] = f
    BY <1>1, <1>4
  <2> QED
    BY <2>1, <1>1, <1>2 DEF Writes
<1> QED
  BY <1>3, <1>4 DEF Deliver

\* The frames sent at each phase.
LEMMA ImageWritten ==
  ASSUME Types, Queued, SendImage
  PROVE  Writes(FrameAt(pos)) /\ FrameAt(pos).cmd \in {"chunk", "commit"}
<1>1. pos \in 1 .. LastFrame
  BY LastFrameNat DEF SendImage, Types
<1> QED
  BY <1>1, ImageFrames, HostWrites DEF SendImage

\* The unit's four steps.
LEMMA ChunkTaken ==
  ASSUME Types, Queued, UnitStep, UnitTakesChunk(Head(outq))
  PROVE  /\ Takes /\ outq[1].cmd = "chunk" /\ Puts(Reply("chunk", "none"))
         /\ UNCHANGED <<flash, mode>> /\ dcrc' = "none"
<1>1. Takes /\ Head(outq) = outq[1]
  BY UnitTakes
<1>2. /\ Head(outq).cmd = "chunk" /\ inq' \in {inq, Append(inq, Reply("chunk", "none"))}
      /\ UNCHANGED <<flash, mode>> /\ dcrc' = "none"
  BY DEF UnitTakesChunk, Answering
<1>3. Puts(Reply("chunk", "none"))
  BY <1>2, Replies, UnitPuts
<1> QED
  BY <1>1, <1>2, <1>3

\* A page written, or spoilt.
LEMMA CommitTaken ==
  ASSUME Types, Queued, UnitStep, UnitCommits(Head(outq))
  PROVE  /\ Takes /\ outq[1].cmd = "commit" /\ Puts(Reply("commit", "none"))
         /\ UNCHANGED mode /\ dcrc' = "none"
<1>1. Takes /\ Head(outq) = outq[1]
  BY UnitTakes
<1>2. /\ Head(outq).cmd = "commit" /\ inq' \in {inq, Append(inq, Reply("commit", "none"))}
      /\ UNCHANGED mode /\ dcrc' = "none"
  BY DEF UnitCommits, Answering
<1>3. Puts(Reply("commit", "none"))
  BY <1>2, Replies, UnitPuts
<1> QED
  BY <1>1, <1>2, <1>3

\* An answer to a question; a CRC in it is the one the unit holds.
LEMMA QuestionTaken ==
  ASSUME Types, Queued, UnitStep, UnitAnswers(Head(outq))
  PROVE  /\ Takes /\ UNCHANGED <<flash, mode>>
         /\ \/ outq[1].cmd = "serial" /\ Puts(Reply("serial", unit))
            \/ outq[1].cmd = "verifyWrite" /\ Puts(Reply("verify", "none"))
            \/ outq[1].cmd = "verifyRead" /\ Puts(Reply("verify", dcrc))
<1>1. Takes /\ Head(outq) = outq[1]
  BY UnitTakes
<1>2. /\ UNCHANGED <<flash, mode>> /\ Head(outq).cmd \in {"serial", "verifyWrite", "verifyRead"}
  BY DEF UnitAnswers
<1>3. CASE Head(outq).cmd = "serial"
  <2>1. inq' \in {inq, Append(inq, Reply("serial", unit))}
    BY <1>3 DEF UnitAnswers, Answering
  <2> QED
    BY <2>1, <1>1, <1>2, <1>3, Replies, UnitPuts
<1>4. CASE Head(outq).cmd = "verifyWrite"
  <2>1. inq' \in {inq, Append(inq, Reply("verify", "none"))}
    BY <1>4 DEF UnitAnswers, Answering
  <2> QED
    BY <2>1, <1>1, <1>2, <1>4, Replies, UnitPuts
<1>5. CASE Head(outq).cmd = "verifyRead"
  <2>1. inq' \in {inq, Append(inq, Reply("verify", dcrc))}
    BY <1>5 DEF UnitAnswers, Answering
  <2> QED
    BY <2>1, <1>1, <1>2, <1>5, Replies, UnitPuts
<1> QED
  BY <1>2, <1>3, <1>4, <1>5

\* The jump.
LEMMA JumpTaken ==
  ASSUME Queued, UnitStep, UnitJumps(Head(outq))
  PROVE  Takes /\ outq[1].cmd = "end" /\ inq' = <<>> /\ mode' = "app" /\ UNCHANGED <<flash, dcrc>>
  BY UnitTakes DEF UnitJumps

\* An empty queue.
LEMMA NothingQueued == \A n \in DOMAIN << >> : FALSE
<1>1. Len(<< >>) = 0 /\ << >> \in Seq({})
  OBVIOUS
<1>2. DOMAIN << >> = 1 .. 0
  BY <1>1, LenProperties
<1> QED
  BY <1>2

\* Only a packet of zeroes is malformed.
LEMMA OnlyNoiseInvalid ==
  ASSUME Queued
  PROVE  \A n \in DOMAIN inq :
           /\ inq[n].cmd \in {"serial", "verify"} => inq[n].valid
           /\ inq[n].cmd = "verify" => inq[n].val \in CRCs \cup {"none"}
<1>1. \A n \in DOMAIN inq : inq[n] \in Answer
  BY ElementOfSeq, LenProperties DEF Queued
<1> QED
  BY <1>1 DEF Answer

\* The answer a wait is for, read.
LEMMA Received ==
  ASSUME Queued, Receives
  PROVE  /\ Reads /\ inq[1].valid /\ inq[1].cmd = Want
         /\ UNCHANGED <<outq, mode, flash>>
<1>1. inq # <<>> /\ inq' = Tail(inq) /\ Head(inq).valid /\ Head(inq).cmd = Want
      /\ UNCHANGED <<outq, mode, flash>>
  BY DEF Receives, Matches, unitVars
<1>2. Reads
  BY <1>1, HostReads
<1> QED
  BY <1>1, <1>2 DEF Reads

\* Noise.
LEMMA NoisePut ==
  ASSUME Types, Queued, Noise
  PROVE  Puts([cmd |-> "chunk", valid |-> FALSE, val |-> "none"])
  BY Replies, UnitPuts DEF Noise

-----------------------------------------------------------------------------
(* One lemma for each part. *)

\* Flags.
LEMMA FlagsStep ==
  ASSUME Flags, Types, [Next]_vars
  PROVE  Flags'
<1> USE DEF hostVars, endpoints, unitVars, Flags
<1>0. opt.ackMode \in BOOLEAN
  BY DEF Types, Option
<1>1. CASE Policy
  BY <1>1 DEF Policy, Finish
<1>2. CASE SendSerial
  BY <1>2 DEF SendSerial, Deliver
<1>3. CASE ReceiveSerial
  BY <1>3, <1>0 DEF ReceiveSerial, Receives, NoSerial, StartFlash, Stay, Finish
<1>4. CASE SerialFails
  BY <1>4, <1>0 DEF SerialFails, NoSerial, StartFlash, Stay, Finish
<1>5. CASE SendImage
  BY <1>5 DEF SendImage, Deliver
<1>6. CASE ReceiveACK
  BY <1>6 DEF ReceiveACK, Receives
<1>7. CASE ACKExpires
  BY <1>7 DEF ACKExpires, Stay, Finish
<1>8. CASE Settled
  BY <1>8 DEF Settled
<1>9. CASE SendVerifyWrite
  BY <1>9 DEF SendVerifyWrite, Deliver
<1>10. CASE SendVerifyRead
  BY <1>10 DEF SendVerifyRead, Deliver
<1>11. CASE ReceiveCRC
  BY <1>11 DEF ReceiveCRC, Receives, CompareCRC, Verified, StartFlash, Stay, Finish
<1>12. CASE VerifyExpires
  BY <1>12 DEF VerifyExpires, Finish
<1>13. CASE TransferFails
  BY <1>13 DEF TransferFails, Stay, Finish
<1>14. CASE NoJump
  BY <1>14 DEF NoJump, Stay, Finish
<1>15. CASE JumpToApp
  BY <1>15 DEF JumpToApp, Deliver, Finish
<1>16. CASE JumpFails
  BY <1>16 DEF JumpFails, Finish
<1>17. CASE Discard
  BY <1>17 DEF Discard
<1>18. CASE PollEmpty
  BY <1>18 DEF PollEmpty
<1>19. CASE UnitStep /\ UnitTakesChunk(Head(outq))
  BY <1>19 DEF UnitStep, UnitTakesChunk, Answering
<1>20. CASE UnitStep /\ UnitCommits(Head(outq))
  BY <1>20 DEF UnitStep, UnitCommits, Answering
<1>21. CASE UnitStep /\ UnitAnswers(Head(outq))
  BY <1>21 DEF UnitStep, UnitAnswers, Answering
<1>22. CASE UnitStep /\ UnitJumps(Head(outq))
  BY <1>22 DEF UnitStep, UnitJumps
<1>23. CASE Noise
  BY <1>23 DEF Noise
<1>24. CASE Unplug
  BY <1>24 DEF Unplug
<1>25. CASE Interrupt
  BY <1>25 DEF Interrupt
<1>26. CASE UNCHANGED vars
  BY <1>26 DEF vars
<1> QED
  BY <1>1, <1>2, <1>3, <1>4, <1>5, <1>6, <1>7, <1>8, <1>9, <1>10, <1>11, <1>12, <1>13, <1>14,
     <1>15, <1>16, <1>17, <1>18, <1>19, <1>20, <1>21, <1>22, <1>23, <1>24, <1>25, <1>26
  DEF Next, Host, UnitStep

\* Types.
LEMMA TypesStep ==
  ASSUME Types, [Next]_vars
  PROVE  Types'
<1> USE DEF hostVars, endpoints, unitVars, Types, CRCs, Phases, Waiting, Refusals, Verdicts
<1>1. CASE Policy
  BY <1>1 DEF Policy, Finish
<1>2. CASE SendSerial
  BY <1>2 DEF SendSerial, Deliver
<1>3. CASE ReceiveSerial
  <2>1. \/ phase' = "done" /\ verdict' \in Refusals /\ pos' = pos
        \/ phase' = "flash" /\ verdict' = verdict /\ pos' = 1
    BY <1>3 DEF ReceiveSerial, NoSerial, StartFlash, Stay, Finish
  <2>2. UNCHANGED <<opt, unit, mode, dcrc>>
    BY <1>3 DEF ReceiveSerial, Receives
  <2> QED
    BY <2>1, <2>2, LastFrameNat
<1>4. CASE SerialFails
  <2>1. \/ phase' = "done" /\ verdict' \in Refusals /\ pos' = pos
        \/ phase' = "flash" /\ verdict' = verdict /\ pos' = 1
    BY <1>4 DEF SerialFails, NoSerial, StartFlash, Stay, Finish
  <2>2. UNCHANGED <<opt, unit, mode, dcrc>>
    BY <1>4 DEF SerialFails
  <2> QED
    BY <2>1, <2>2, LastFrameNat
<1>5. CASE SendImage
  BY <1>5, LastFrameNat DEF SendImage, Deliver
<1>6. CASE ReceiveACK
  BY <1>6, LastFrameNat DEF ReceiveACK, Receives
<1>7. CASE ACKExpires
  BY <1>7 DEF ACKExpires, Stay, Finish
<1>8. CASE Settled
  BY <1>8 DEF Settled
<1>9. CASE SendVerifyWrite
  BY <1>9 DEF SendVerifyWrite, Deliver
<1>10. CASE SendVerifyRead
  BY <1>10 DEF SendVerifyRead, Deliver
<1>11. CASE ReceiveCRC
  BY <1>11, LastFrameNat DEF ReceiveCRC, Receives, CompareCRC, Verified, StartFlash, Stay, Finish
<1>12. CASE VerifyExpires
  BY <1>12 DEF VerifyExpires, Finish
<1>13. CASE TransferFails
  BY <1>13 DEF TransferFails, Stay, Finish
<1>14. CASE NoJump
  BY <1>14 DEF NoJump, Stay, Finish
<1>15. CASE JumpToApp
  BY <1>15 DEF JumpToApp, Deliver, Finish
<1>16. CASE JumpFails
  BY <1>16 DEF JumpFails, Finish
<1>17. CASE Discard
  BY <1>17 DEF Discard
<1>18. CASE PollEmpty
  BY <1>18 DEF PollEmpty
<1>19. CASE UnitStep /\ UnitTakesChunk(Head(outq))
  BY <1>19 DEF UnitStep, UnitTakesChunk, Answering
<1>20. CASE UnitStep /\ UnitCommits(Head(outq))
  BY <1>20 DEF UnitStep, UnitCommits, Answering
<1>21. CASE UnitStep /\ UnitAnswers(Head(outq))
  BY <1>21 DEF UnitStep, UnitAnswers, Answering
<1>22. CASE UnitStep /\ UnitJumps(Head(outq))
  BY <1>22 DEF UnitStep, UnitJumps
<1>23. CASE Noise
  BY <1>23 DEF Noise
<1>24. CASE Unplug
  BY <1>24 DEF Unplug
<1>25. CASE Interrupt
  BY <1>25 DEF Interrupt
<1>26. CASE UNCHANGED vars
  BY <1>26 DEF vars
<1> QED
  BY <1>1, <1>2, <1>3, <1>4, <1>5, <1>6, <1>7, <1>8, <1>9, <1>10, <1>11, <1>12, <1>13, <1>14,
     <1>15, <1>16, <1>17, <1>18, <1>19, <1>20, <1>21, <1>22, <1>23, <1>24, <1>25, <1>26
  DEF Next, Host, UnitStep

\* Frames and answers.
LEMMA QueuedStep ==
  ASSUME Types, Queued, [Next]_vars
  PROVE  Queued'
<1> USE DEF hostVars, endpoints, unitVars, Queued
<1>0. phase = "flash" /\ pos <= LastFrame => pos \in 1 .. LastFrame
  BY LastFrameNat DEF Types
<1>1. CASE Policy
  BY <1>1 DEF Policy, Finish
<1>2. CASE SendSerial
  BY <1>2, Queues, OtherFrames DEF SendSerial, Deliver
<1>3. CASE ReceiveSerial
  BY <1>3, Queues DEF ReceiveSerial, Receives, NoSerial, StartFlash, Stay, Finish
<1>4. CASE SerialFails
  BY <1>4 DEF SerialFails, NoSerial, StartFlash, Stay, Finish
<1>5. CASE SendImage
  <2>1. FrameAt(pos) \in Frame /\ outq' \in {outq, Append(outq, FrameAt(pos))} /\ inq' = inq
    BY <1>5, <1>0, ImageFrames DEF SendImage, Deliver
  <2> QED
    BY <2>1, Queues
<1>6. CASE ReceiveACK
  BY <1>6, Queues DEF ReceiveACK, Receives
<1>7. CASE ACKExpires
  BY <1>7 DEF ACKExpires, Stay, Finish
<1>8. CASE Settled
  BY <1>8 DEF Settled
<1>9. CASE SendVerifyWrite
  BY <1>9, Queues, OtherFrames DEF SendVerifyWrite, Deliver
<1>10. CASE SendVerifyRead
  BY <1>10, Queues, OtherFrames DEF SendVerifyRead, Deliver
<1>11. CASE ReceiveCRC
  BY <1>11, Queues DEF ReceiveCRC, Receives, CompareCRC, Verified, StartFlash, Stay, Finish
<1>12. CASE VerifyExpires
  BY <1>12 DEF VerifyExpires, Finish
<1>13. CASE TransferFails
  BY <1>13 DEF TransferFails, Stay, Finish
<1>14. CASE NoJump
  BY <1>14 DEF NoJump, Stay, Finish
<1>15. CASE JumpToApp
  BY <1>15, Queues, OtherFrames DEF JumpToApp, Deliver, Finish
<1>16. CASE JumpFails
  BY <1>16 DEF JumpFails, Finish
<1>17. CASE Discard
  BY <1>17, Queues DEF Discard
<1>18. CASE PollEmpty
  BY <1>18 DEF PollEmpty
<1>19. CASE UnitStep /\ UnitTakesChunk(Head(outq))
  <2>1. outq # <<>> /\ outq' = Tail(outq)
    BY <1>19 DEF UnitStep
  <2>2. \E a \in Answer : inq' \in {inq, Append(inq, a)}
    BY <1>19, Replies DEF UnitTakesChunk, Answering
  <2> QED
    BY <2>1, <2>2, Queues
<1>20. CASE UnitStep /\ UnitCommits(Head(outq))
  <2>1. outq # <<>> /\ outq' = Tail(outq)
    BY <1>20 DEF UnitStep
  <2>2. \E a \in Answer : inq' \in {inq, Append(inq, a)}
    BY <1>20, Replies DEF UnitCommits, Answering
  <2> QED
    BY <2>1, <2>2, Queues
<1>21. CASE UnitStep /\ UnitAnswers(Head(outq))
  <2>1. outq # <<>> /\ outq' = Tail(outq)
    BY <1>21 DEF UnitStep
  <2>2. \E a \in Answer : inq' \in {inq, Append(inq, a)}
    BY <1>21, Replies DEF UnitAnswers, Answering
  <2> QED
    BY <2>1, <2>2, Queues
<1>22. CASE UnitStep /\ UnitJumps(Head(outq))
  <2>1. outq # <<>> /\ outq' = Tail(outq) /\ inq' = <<>>
    BY <1>22 DEF UnitStep, UnitJumps
  <2> QED
    BY <2>1, Queues
<1>23. CASE Noise
  BY <1>23, Queues, Replies DEF Noise
<1>24. CASE Unplug
  BY <1>24 DEF Unplug
<1>25. CASE Interrupt
  BY <1>25 DEF Interrupt
<1>26. CASE UNCHANGED vars
  BY <1>26 DEF vars
<1> QED
  BY <1>1, <1>2, <1>3, <1>4, <1>5, <1>6, <1>7, <1>8, <1>9, <1>10, <1>11, <1>12, <1>13, <1>14,
     <1>15, <1>16, <1>17, <1>18, <1>19, <1>20, <1>21, <1>22, <1>23, <1>24, <1>25, <1>26
  DEF Next, Host, UnitStep

\* The CRC of the unit.
LEMMA ComputedStep ==
  ASSUME Computed, [Next]_vars
  PROVE  Computed'
<1> USE DEF hostVars, endpoints, unitVars, Computed, Good, Deliver, Receives
<1>1. CASE Policy
  BY <1>1 DEF Policy, Finish
<1>2. CASE SendSerial
  BY <1>2 DEF SendSerial, Deliver
<1>3. CASE ReceiveSerial
  BY <1>3 DEF ReceiveSerial, Receives, NoSerial, StartFlash, Stay, Finish
<1>4. CASE SerialFails
  BY <1>4 DEF SerialFails, NoSerial, StartFlash, Stay, Finish
<1>5. CASE SendImage
  BY <1>5 DEF SendImage, Deliver
<1>6. CASE ReceiveACK
  BY <1>6 DEF ReceiveACK, Receives
<1>7. CASE ACKExpires
  BY <1>7 DEF ACKExpires, Stay, Finish
<1>8. CASE Settled
  BY <1>8 DEF Settled
<1>9. CASE SendVerifyWrite
  BY <1>9 DEF SendVerifyWrite, Deliver
<1>10. CASE SendVerifyRead
  BY <1>10 DEF SendVerifyRead, Deliver
<1>11. CASE ReceiveCRC
  BY <1>11 DEF ReceiveCRC, Receives, CompareCRC, Verified, StartFlash, Stay, Finish
<1>12. CASE VerifyExpires
  BY <1>12 DEF VerifyExpires, Finish
<1>13. CASE TransferFails
  BY <1>13 DEF TransferFails, Stay, Finish
<1>14. CASE NoJump
  BY <1>14 DEF NoJump, Stay, Finish
<1>15. CASE JumpToApp
  BY <1>15 DEF JumpToApp, Deliver, Finish
<1>16. CASE JumpFails
  BY <1>16 DEF JumpFails, Finish
<1>17. CASE Discard
  BY <1>17 DEF Discard
<1>18. CASE PollEmpty
  BY <1>18 DEF PollEmpty
<1>19. CASE UnitStep /\ UnitTakesChunk(Head(outq))
  BY <1>19 DEF UnitStep, UnitTakesChunk, Answering
<1>20. CASE UnitStep /\ UnitCommits(Head(outq))
  BY <1>20 DEF UnitStep, UnitCommits, Answering
<1>21. CASE UnitStep /\ UnitAnswers(Head(outq))
  BY <1>21 DEF UnitStep, UnitAnswers, Answering
<1>22. CASE UnitStep /\ UnitJumps(Head(outq))
  BY <1>22 DEF UnitStep, UnitJumps
<1>23. CASE Noise
  BY <1>23 DEF Noise
<1>24. CASE Unplug
  BY <1>24 DEF Unplug
<1>25. CASE Interrupt
  BY <1>25 DEF Interrupt
<1>26. CASE UNCHANGED vars
  BY <1>26 DEF vars
<1> QED
  BY <1>1, <1>2, <1>3, <1>4, <1>5, <1>6, <1>7, <1>8, <1>9, <1>10, <1>11, <1>12, <1>13, <1>14,
     <1>15, <1>16, <1>17, <1>18, <1>19, <1>20, <1>21, <1>22, <1>23, <1>24, <1>25, <1>26
  DEF Next, Host, UnitStep

\* The one jump.
LEMMA JumpOnceStep ==
  ASSUME Flags, Types, Queued, JumpOnce, [Next]_vars
  PROVE  JumpOnce'
<1> USE DEF hostVars, endpoints, unitVars, Flags, Types, JumpOnce, JumpSent
<1>1. CASE Policy
  BY <1>1 DEF Policy, Finish
<1>2. CASE SendSerial
  <2>1. Writes([cmd |-> "serial"])
    BY <1>2, OtherFrames, HostWrites DEF SendSerial
  <2> QED
    BY <1>2, <2>1 DEF SendSerial, Writes
<1>3. CASE ReceiveSerial
  BY <1>3, Queues DEF ReceiveSerial, Receives, NoSerial, StartFlash, Stay, Finish
<1>4. CASE SerialFails
  BY <1>4 DEF SerialFails, NoSerial, StartFlash, Stay, Finish
<1>5. CASE SendImage
  <2>1. Writes(FrameAt(pos)) /\ FrameAt(pos).cmd \in {"chunk", "commit"}
    BY <1>5, ImageWritten
  <2> QED
    BY <1>5, <2>1 DEF SendImage, Writes
<1>6. CASE ReceiveACK
  BY <1>6, Queues DEF ReceiveACK, Receives
<1>7. CASE ACKExpires
  BY <1>7 DEF ACKExpires, Stay, Finish
<1>8. CASE Settled
  BY <1>8 DEF Settled
<1>9. CASE SendVerifyWrite
  <2>1. Writes([cmd |-> "verifyWrite"])
    BY <1>9, OtherFrames, HostWrites DEF SendVerifyWrite
  <2> QED
    BY <1>9, <2>1 DEF SendVerifyWrite, Writes
<1>10. CASE SendVerifyRead
  <2>1. Writes([cmd |-> "verifyRead"])
    BY <1>10, OtherFrames, HostWrites DEF SendVerifyRead
  <2> QED
    BY <1>10, <2>1 DEF SendVerifyRead, Writes
<1>11. CASE ReceiveCRC
  BY <1>11, Queues DEF ReceiveCRC, Receives, CompareCRC, Verified, StartFlash, Stay, Finish
<1>12. CASE VerifyExpires
  BY <1>12 DEF VerifyExpires, Finish
<1>13. CASE TransferFails
  BY <1>13 DEF TransferFails, Stay, Finish
<1>14. CASE NoJump
  BY <1>14 DEF NoJump, Stay, Finish
<1>15. CASE JumpToApp
  BY <1>15, Queues DEF JumpToApp, Deliver, Finish
<1>16. CASE JumpFails
  BY <1>16 DEF JumpFails, Finish
<1>17. CASE Discard
  BY <1>17, Queues DEF Discard
<1>18. CASE PollEmpty
  BY <1>18 DEF PollEmpty
<1>19. CASE UnitStep /\ UnitTakesChunk(Head(outq))
  BY <1>19, ChunkTaken DEF Takes, Puts, Reply
<1>20. CASE UnitStep /\ UnitCommits(Head(outq))
  BY <1>20, CommitTaken DEF Takes, Puts, Reply
<1>21. CASE UnitStep /\ UnitAnswers(Head(outq))
  BY <1>21, QuestionTaken DEF Takes, Puts, Reply
<1>22. CASE UnitStep /\ UnitJumps(Head(outq))
  BY <1>22, JumpTaken DEF Takes
<1>23. CASE Noise
  BY <1>23, Queues DEF Noise
<1>24. CASE Unplug
  BY <1>24 DEF Unplug
<1>25. CASE Interrupt
  BY <1>25 DEF Interrupt
<1>26. CASE UNCHANGED vars
  BY <1>26 DEF vars
<1> QED
  BY <1>1, <1>2, <1>3, <1>4, <1>5, <1>6, <1>7, <1>8, <1>9, <1>10, <1>11, <1>12, <1>13, <1>14,
     <1>15, <1>16, <1>17, <1>18, <1>19, <1>20, <1>21, <1>22, <1>23, <1>24, <1>25, <1>26
  DEF Next, Host, UnitStep

\* The question for the serial number.
LEMMA AskingStep ==
  ASSUME CleanStart, Types, Queued, Asking, [Next]_vars
  PROVE  Asking'
<1> USE DEF hostVars, endpoints, unitVars, Asking, OnlyNoise, NoiseAfter
<1>1. CASE Policy
  BY <1>1 DEF Policy, Finish
<1>2. CASE SendSerial
  BY <1>2, Queues DEF SendSerial, Deliver
<1>3. CASE ReceiveSerial
  BY <1>3, Queues DEF ReceiveSerial, Receives, NoSerial, StartFlash, Stay, Finish
<1>4. CASE SerialFails
  BY <1>4 DEF SerialFails, NoSerial, StartFlash, Stay, Finish
<1>5. CASE SendImage
  BY <1>5, Queues DEF SendImage, Deliver
<1>6. CASE ReceiveACK
  BY <1>6, Queues DEF ReceiveACK, Receives
<1>7. CASE ACKExpires
  BY <1>7 DEF ACKExpires, Stay, Finish
<1>8. CASE Settled
  BY <1>8 DEF Settled
<1>9. CASE SendVerifyWrite
  BY <1>9, Queues DEF SendVerifyWrite, Deliver
<1>10. CASE SendVerifyRead
  BY <1>10, Queues DEF SendVerifyRead, Deliver
<1>11. CASE ReceiveCRC
  BY <1>11, Queues DEF ReceiveCRC, Receives, CompareCRC, Verified, StartFlash, Stay, Finish
<1>12. CASE VerifyExpires
  BY <1>12 DEF VerifyExpires, Finish
<1>13. CASE TransferFails
  BY <1>13 DEF TransferFails, Stay, Finish
<1>14. CASE NoJump
  BY <1>14 DEF NoJump, Stay, Finish
<1>15. CASE JumpToApp
  BY <1>15, Queues DEF JumpToApp, Deliver, Finish
<1>16. CASE JumpFails
  BY <1>16 DEF JumpFails, Finish
<1>17. CASE Discard
  BY <1>17, Queues DEF Discard
<1>18. CASE PollEmpty
  BY <1>18 DEF PollEmpty
<1>19. CASE UnitStep /\ UnitTakesChunk(Head(outq))
  BY <1>19, ChunkTaken DEF Takes, Puts, Reply
<1>20. CASE UnitStep /\ UnitCommits(Head(outq))
  BY <1>20, CommitTaken DEF Takes, Puts, Reply
<1>21. CASE UnitStep /\ UnitAnswers(Head(outq))
  BY <1>21, QuestionTaken DEF Takes, Puts, Reply
<1>22. CASE UnitStep /\ UnitJumps(Head(outq))
  BY <1>22, JumpTaken DEF Takes
<1>23. CASE Noise
  BY <1>23, Queues DEF Noise
<1>24. CASE Unplug
  BY <1>24 DEF Unplug
<1>25. CASE Interrupt
  BY <1>25 DEF Interrupt
<1>26. CASE UNCHANGED vars
  BY <1>26 DEF vars
<1> QED
  BY <1>1, <1>2, <1>3, <1>4, <1>5, <1>6, <1>7, <1>8, <1>9, <1>10, <1>11, <1>12, <1>13, <1>14,
     <1>15, <1>16, <1>17, <1>18, <1>19, <1>20, <1>21, <1>22, <1>23, <1>24, <1>25, <1>26
  DEF Next, Host, UnitStep

\* A pass.
LEMMA PassingStep ==
  ASSUME Flags, Types, Queued, Asking, Passing, Verifying, [Next]_vars
  PROVE  Passing'
<1> USE DEF hostVars, endpoints, unitVars, Passing, OnlyNoise, NoiseAfter, NoImage, NoVerify,
        ImageFrame, VerifyFrame, Acknowledges
<1>1. CASE Policy
  BY <1>1 DEF Policy, Finish
<1>2. CASE SendSerial
  BY <1>2, Queues DEF SendSerial, Deliver
<1>3. CASE ReceiveSerial
  <2>1. /\ Reads /\ inq[1].cmd = "serial" /\ outq' = outq /\ phase = "serialWait"
    BY <1>3, Received DEF ReceiveSerial, Want
  <2>2. outq' = <<>> /\ \A n \in DOMAIN inq' : ~inq'[n].valid /\ inq'[n].cmd # "verify"
    <3>1. outq = <<>> /\ \A m \in DOMAIN inq : m > 1 => ~inq[m].valid
      BY <2>1 DEF Reads, Asking
    <3>2. \A n \in DOMAIN inq' : n + 1 \in DOMAIN inq /\ n + 1 > 1 /\ inq'[n] = inq[n + 1]
      BY <2>1 DEF Reads
    <3> QED
      BY <2>1, <3>1, <3>2, OnlyNoiseInvalid
  <2>3. phase' = "done" \/ (phase' = "flash" /\ pos' = 1)
    BY <1>3 DEF ReceiveSerial, NoSerial, StartFlash, Stay, Finish
  <2> QED
    BY <2>2, <2>3
<1>4. CASE SerialFails
  <2>1. UNCHANGED <<outq, inq>> /\ phase \in {"serial", "serialWait"}
    BY <1>4 DEF SerialFails
  <2>2. phase' = "done" \/ (phase' = "flash" /\ pos' = 1 /\ opt.expect = "none")
    BY <1>4 DEF SerialFails, NoSerial, StartFlash, Stay, Finish
  <2>3. opt.expect = "none" => /\ \A n \in DOMAIN outq : outq[n].cmd = "serial"
                              /\ \A n \in DOMAIN inq : inq[n].valid => inq[n].cmd = "serial"
    BY <2>1, NothingQueued DEF Asking
  <2> QED
    BY <2>1, <2>2, <2>3, OnlyNoiseInvalid
<1>5. CASE SendImage
  <2>1. Writes(FrameAt(pos)) /\ FrameAt(pos).cmd \in {"chunk", "commit"}
    BY <1>5, ImageWritten
  <2> QED
    BY <1>5, <2>1 DEF SendImage, Writes
<1>6. CASE ReceiveACK
  <2>1. /\ Reads /\ inq[1].valid /\ inq[1].cmd = FrameAt(pos).cmd /\ outq' = outq
        /\ phase = "ackWait" /\ phase' = "flash" /\ ack' = ack
    BY <1>6, Received DEF ReceiveACK, Want
  <2>2. FrameAt(pos).cmd \in {"chunk", "commit"}
    BY DEF FrameAt
  <2>3. outq = <<>> /\ \A n \in DOMAIN inq' : ~inq'[n].valid
    BY <2>1, <2>2 DEF Reads
  <2> QED
    BY <2>1, <2>3
<1>7. CASE ACKExpires
  BY <1>7 DEF ACKExpires, Stay, Finish
<1>8. CASE Settled
  BY <1>8 DEF Settled
<1>9. CASE SendVerifyWrite
  BY <1>9, Queues DEF SendVerifyWrite, Deliver
<1>10. CASE SendVerifyRead
  BY <1>10, Queues DEF SendVerifyRead, Deliver
<1>11. CASE ReceiveCRC
  <2>1. /\ Reads /\ inq[1].cmd = "verify" /\ outq' = outq /\ phase = "verifyWait"
    BY <1>11, Received DEF ReceiveCRC, Want
  <2>2. NoImage /\ \A n \in DOMAIN inq' : ~(inq'[n].valid /\ inq'[n].cmd \in {"chunk", "commit"})
    <3>1. NoImage /\ \A m \in DOMAIN inq : m > 1 => ~Acknowledges(m)
      BY <2>1 DEF Reads, Verifying
    <3>2. \A n \in DOMAIN inq' : n + 1 \in DOMAIN inq /\ n + 1 > 1 /\ inq'[n] = inq[n + 1]
      BY <2>1 DEF Reads
    <3> QED
      BY <3>1, <3>2
  <2>3. phase' \in {"end", "done"} \/ (phase' = "flash" /\ pos' = 1 /\ ack')
    BY <1>11 DEF ReceiveCRC, CompareCRC, Verified, StartFlash, Stay, Finish
  <2> QED
    BY <2>1, <2>2, <2>3
<1>12. CASE VerifyExpires
  BY <1>12 DEF VerifyExpires, Finish
<1>13. CASE TransferFails
  BY <1>13 DEF TransferFails, Stay, Finish
<1>14. CASE NoJump
  BY <1>14 DEF NoJump, Stay, Finish
<1>15. CASE JumpToApp
  BY <1>15, Queues DEF JumpToApp, Deliver, Finish
<1>16. CASE JumpFails
  BY <1>16 DEF JumpFails, Finish
<1>17. CASE Discard
  BY <1>17, Queues DEF Discard
<1>18. CASE PollEmpty
  BY <1>18 DEF PollEmpty
<1>19. CASE UnitStep /\ UnitTakesChunk(Head(outq))
  BY <1>19, ChunkTaken DEF Takes, Puts, Reply
<1>20. CASE UnitStep /\ UnitCommits(Head(outq))
  BY <1>20, CommitTaken DEF Takes, Puts, Reply
<1>21. CASE UnitStep /\ UnitAnswers(Head(outq))
  BY <1>21, QuestionTaken DEF Takes, Puts, Reply
<1>22. CASE UnitStep /\ UnitJumps(Head(outq))
  BY <1>22, JumpTaken DEF Takes
<1>23. CASE Noise
  BY <1>23, Queues DEF Noise
<1>24. CASE Unplug
  BY <1>24 DEF Unplug
<1>25. CASE Interrupt
  BY <1>25 DEF Interrupt
<1>26. CASE UNCHANGED vars
  BY <1>26 DEF vars
<1> QED
  BY <1>1, <1>2, <1>3, <1>4, <1>5, <1>6, <1>7, <1>8, <1>9, <1>10, <1>11, <1>12, <1>13, <1>14,
     <1>15, <1>16, <1>17, <1>18, <1>19, <1>20, <1>21, <1>22, <1>23, <1>24, <1>25, <1>26
  DEF Next, Host, UnitStep

\* A verification.
LEMMA VerifyingStep ==
  ASSUME Flags, Types, Queued, Computed, Passing, Verifying, [Next]_vars
  PROVE  Verifying'
<1> USE DEF hostVars, endpoints, unitVars, Passing, Verifying, OnlyNoise, NoiseAfter, NoImage,
        NoVerify, ImageFrame, VerifyFrame, Acknowledges, Computed, Good, WillVerify,
        ExpectedCRC
<1>1. CASE Policy
  BY <1>1 DEF Policy, Finish
<1>2. CASE SendSerial
  BY <1>2, Queues DEF SendSerial, Deliver
<1>3. CASE ReceiveSerial
  BY <1>3, Queues DEF ReceiveSerial, Receives, NoSerial, StartFlash, Stay, Finish
<1>4. CASE SerialFails
  BY <1>4 DEF SerialFails, NoSerial, StartFlash, Stay, Finish
<1>5. CASE SendImage
  BY <1>5, Queues DEF SendImage, Deliver
<1>6. CASE ReceiveACK
  BY <1>6, Queues DEF ReceiveACK, Receives
<1>7. CASE ACKExpires
  BY <1>7 DEF ACKExpires, Stay, Finish
<1>8. CASE Settled
  <2>1. /\ phase = "flash" /\ pos > LastFrame /\ UNCHANGED <<opt, outq, inq, flash>>
        /\ phase' = IF WillVerify THEN "verifyWrite" ELSE "end"
    BY <1>8 DEF Settled
  <2>2. NoVerify
    <3>1. ack => outq = <<>> /\ OnlyNoise
      BY <2>1, LastFrameNat DEF Types
    <3> QED
      BY <2>1, <3>1, OnlyNoiseInvalid, NothingQueued DEF Flags
  <2> QED
    BY <2>1, <2>2
<1>9. CASE SendVerifyWrite
  <2>1. Writes([cmd |-> "verifyWrite"]) /\ UNCHANGED opt /\ phase \in {"verifyWrite", "verifyRead"}
    BY <1>9, OtherFrames, HostWrites DEF SendVerifyWrite
  <2> QED
    BY <2>1 DEF Writes
<1>10. CASE SendVerifyRead
  <2>1. Writes([cmd |-> "verifyRead"]) /\ UNCHANGED opt /\ phase \in {"verifyWrite", "verifyRead"}
    BY <1>10, OtherFrames, HostWrites DEF SendVerifyRead
  <2> QED
    BY <2>1 DEF Writes
<1>11. CASE ReceiveCRC
  BY <1>11, Queues DEF ReceiveCRC, Receives, CompareCRC, Verified, StartFlash, Stay, Finish
<1>12. CASE VerifyExpires
  BY <1>12 DEF VerifyExpires, Finish
<1>13. CASE TransferFails
  BY <1>13 DEF TransferFails, Stay, Finish
<1>14. CASE NoJump
  BY <1>14 DEF NoJump, Stay, Finish
<1>15. CASE JumpToApp
  BY <1>15, Queues DEF JumpToApp, Deliver, Finish
<1>16. CASE JumpFails
  BY <1>16 DEF JumpFails, Finish
<1>17. CASE Discard
  BY <1>17, Queues DEF Discard
<1>18. CASE PollEmpty
  BY <1>18 DEF PollEmpty
<1>19. CASE UnitStep /\ UnitTakesChunk(Head(outq))
  <2>1. /\ Takes /\ outq[1].cmd = "chunk" /\ Puts(Reply("chunk", "none"))
        /\ UNCHANGED flash
    BY <1>19, ChunkTaken
  <2> SUFFICES ASSUME phase \in {"verifyWrite", "verifyRead", "verifyWait"}
               PROVE  Verifying'
    BY <2>1 DEF Takes
  <2>2. \A n \in DOMAIN inq : inq[n].cmd # "verify"
    BY <2>1 DEF Takes
  <2>3. \A n \in DOMAIN inq' : inq'[n].cmd # "verify"
    BY <2>1, <2>2 DEF Puts, Reply
  <2>4. \A m, n \in DOMAIN outq' : m < n /\ VerifyFrame(m)' => ~ImageFrame(n)'
    BY <2>1 DEF Takes
  <2> QED
    BY <2>1, <2>3, <2>4 DEF Takes
<1>20. CASE UnitStep /\ UnitCommits(Head(outq))
  BY <1>20, CommitTaken DEF Takes, Puts, Reply
<1>21. CASE UnitStep /\ UnitAnswers(Head(outq))
  BY <1>21, QuestionTaken DEF Takes, Puts, Reply
<1>22. CASE UnitStep /\ UnitJumps(Head(outq))
  BY <1>22, JumpTaken DEF Takes
<1>23. CASE Noise
  BY <1>23, Queues DEF Noise
<1>24. CASE Unplug
  BY <1>24 DEF Unplug
<1>25. CASE Interrupt
  BY <1>25 DEF Interrupt
<1>26. CASE UNCHANGED vars
  BY <1>26 DEF vars
<1> QED
  BY <1>1, <1>2, <1>3, <1>4, <1>5, <1>6, <1>7, <1>8, <1>9, <1>10, <1>11, <1>12, <1>13, <1>14,
     <1>15, <1>16, <1>17, <1>18, <1>19, <1>20, <1>21, <1>22, <1>23, <1>24, <1>25, <1>26
  DEF Next, Host, UnitStep

\* The licence to jump.
LEMMA LicenceStep ==
  ASSUME Flags, Types, Queued, JumpOnce, Verifying, Licence, [Next]_vars
  PROVE  Licence'
<1> USE DEF hostVars, endpoints, unitVars, Verifying, JumpOnce, JumpSent, Licence, NoImage,
        ImageFrame, Good, MayJump, WillVerify, ExpectedCRC
<1>1. CASE Policy
  BY <1>1 DEF Policy, Finish
<1>2. CASE SendSerial
  BY <1>2, Queues DEF SendSerial, Deliver
<1>3. CASE ReceiveSerial
  BY <1>3, Queues DEF ReceiveSerial, Receives, NoSerial, StartFlash, Stay, Finish
<1>4. CASE SerialFails
  BY <1>4 DEF SerialFails, NoSerial, StartFlash, Stay, Finish
<1>5. CASE SendImage
  <2>1. Writes(FrameAt(pos)) /\ FrameAt(pos).cmd \in {"chunk", "commit"}
    BY <1>5, ImageWritten
  <2>2. phase = "flash" /\ phase' # "end" /\ UNCHANGED <<opt, checked>>
    BY <1>5 DEF SendImage
  <2>3. ~JumpSent'
    BY <2>1, <2>2 DEF Writes
  <2> QED
    BY <2>2, <2>3
<1>6. CASE ReceiveACK
  BY <1>6, Queues DEF ReceiveACK, Receives
<1>7. CASE ACKExpires
  BY <1>7 DEF ACKExpires, Stay, Finish
<1>8. CASE Settled
  BY <1>8 DEF Settled
<1>9. CASE SendVerifyWrite
  BY <1>9, Queues DEF SendVerifyWrite, Deliver
<1>10. CASE SendVerifyRead
  BY <1>10, Queues DEF SendVerifyRead, Deliver
<1>11. CASE ReceiveCRC
  <2>1. /\ Reads /\ inq[1].cmd = "verify" /\ inq[1].val = Head(inq).val /\ phase = "verifyWait"
        /\ UNCHANGED <<opt, outq, mode, flash>>
    BY <1>11, Received DEF ReceiveCRC, Want, Reads
  <2>2. WillVerify /\ ~JumpSent /\ inq[1].val \in CRCs \cup {"none"}
    BY <2>1, OnlyNoiseInvalid DEF Reads
  <2>3. phase' = "end" => Head(inq).val = ExpectedCRC
    BY <1>11 DEF ReceiveCRC, CompareCRC, Verified, StartFlash, Stay, Finish
  <2>4. ExpectedCRC \in Expectations
    BY DEF Types, Option
  <2>5. phase' = "end" => Good /\ NoImage
    BY <2>1, <2>2, <2>3, <2>4 DEF CRCs, Expectations, Reads
  <2> QED
    BY <2>1, <2>2, <2>5
<1>12. CASE VerifyExpires
  BY <1>12 DEF VerifyExpires, Finish
<1>13. CASE TransferFails
  BY <1>13 DEF TransferFails, Stay, Finish
<1>14. CASE NoJump
  BY <1>14 DEF NoJump, Stay, Finish
<1>15. CASE JumpToApp
  BY <1>15, Queues DEF JumpToApp, Deliver, Finish
<1>16. CASE JumpFails
  BY <1>16 DEF JumpFails, Finish
<1>17. CASE Discard
  BY <1>17, Queues DEF Discard
<1>18. CASE PollEmpty
  BY <1>18 DEF PollEmpty
<1>19. CASE UnitStep /\ UnitTakesChunk(Head(outq))
  BY <1>19, ChunkTaken DEF Takes, Puts, Reply
<1>20. CASE UnitStep /\ UnitCommits(Head(outq))
  BY <1>20, CommitTaken DEF Takes, Puts, Reply
<1>21. CASE UnitStep /\ UnitAnswers(Head(outq))
  BY <1>21, QuestionTaken DEF Takes, Puts, Reply
<1>22. CASE UnitStep /\ UnitJumps(Head(outq))
  BY <1>22, JumpTaken DEF Takes
<1>23. CASE Noise
  BY <1>23, Queues DEF Noise
<1>24. CASE Unplug
  BY <1>24 DEF Unplug
<1>25. CASE Interrupt
  BY <1>25 DEF Interrupt
<1>26. CASE UNCHANGED vars
  BY <1>26 DEF vars
<1> QED
  BY <1>1, <1>2, <1>3, <1>4, <1>5, <1>6, <1>7, <1>8, <1>9, <1>10, <1>11, <1>12, <1>13, <1>14,
     <1>15, <1>16, <1>17, <1>18, <1>19, <1>20, <1>21, <1>22, <1>23, <1>24, <1>25, <1>26
  DEF Next, Host, UnitStep

-----------------------------------------------------------------------------
(* The invariant holds *)

USE LeftoverAssumption DEF LeftoverAssumption

\* A call that has not begun: what an earlier run may have left is what the
\* assumption says of it.
LEMMA Initially ==
  ASSUME Init
  PROVE  /\ Flags /\ Types /\ Queued /\ Computed /\ JumpOnce /\ Passing /\ Verifying /\ Licence
         /\ CleanStart => Asking
<1>1. opt \in Option
  BY DEF Init
<1>2. /\ outq \in Seq(Frame) /\ inq \in Seq(Answer)
      /\ \A n \in DOMAIN outq : outq[n].cmd \notin {"serial", "end"}
      /\ \A n \in DOMAIN inq : inq[n].cmd # "serial"
      /\ CleanStart /\ opt.expect = "none" => outq = <<>> /\ inq = <<>>
  <2>1. outq \in Requests \cup {<<>>} /\ inq \in Answers \cup {<<>>}
    BY DEF Init, Leftover
  <2>2. CleanStart /\ opt.expect = "none" => outq = <<>> /\ inq = <<>>
    BY DEF Init, Leftover
  <2>3. outq \in Seq(Frame) /\ \A n \in DOMAIN outq : outq[n].cmd \notin {"serial", "end"}
    <3>1. CASE outq = <<>>
      BY <3>1, NothingQueued, EmptySeq
    <3>2. CASE outq \in Requests
      BY <3>2
    <3> QED
      BY <2>1, <3>1, <3>2
  <2>4. inq \in Seq(Answer) /\ \A n \in DOMAIN inq : inq[n].cmd # "serial"
    <3>1. CASE inq = <<>>
      BY <3>1, NothingQueued, EmptySeq
    <3>2. CASE inq \in Answers
      BY <3>2
    <3> QED
      BY <2>1, <3>1, <3>2
  <2> QED
    BY <2>2, <2>3, <2>4
<1>3. Flags
  BY DEF Init, Flags
<1>4. Types
  BY <1>1, LastFrameNat DEF Init, Types, Phases, Verdicts
<1>5. Computed
  BY DEF Init, Computed
<1>6. ~JumpSent
  BY <1>2 DEF Init, JumpSent
<1>7. JumpOnce /\ Passing /\ Verifying /\ Licence
  BY <1>6 DEF Init, JumpOnce, Passing, Verifying, Licence
<1>8. CleanStart => Asking
  BY <1>2, NothingQueued DEF Init, Asking, OnlyNoise
<1> QED
  BY <1>2, <1>3, <1>4, <1>5, <1>7, <1>8 DEF Queued

\* Types, and the one frame that starts the unit, whatever an earlier run left.
LEMMA Sent == Spec => [](Flags /\ Types /\ Queued /\ JumpOnce)
<1> DEFINE J == Flags /\ Types /\ Queued /\ JumpOnce
<1>1. Init => J
  BY Initially
<1>2. J /\ [Next]_vars => J'
  BY FlagsStep, TypesStep, QueuedStep, JumpOnceStep
<1> QED
  BY <1>1, <1>2, PTL DEF Spec

\* The invariant, if a call that expects no serial number finds nothing left.
LEMMA Invariant ==
  ASSUME CleanStart
  PROVE  Spec => []Inv
<1>1. Init => Inv
  BY Initially DEF Inv
<1>2. Inv /\ [Next]_vars => Inv'
  BY FlagsStep, TypesStep, QueuedStep, ComputedStep, JumpOnceStep, AskingStep, PassingStep,
     VerifyingStep, LicenceStep DEF Inv
<1> QED
  BY <1>1, <1>2, PTL DEF Spec

\* update starts a unit only on the image, in its flash as it was meant to be, or on one
\* whose verification the operator waived: no answer of an earlier run, round or pass
\* stands for the CRC of what the flash holds.
THEOREM OnlyTheImageStarted ==
  ASSUME CleanStart
  PROVE  Spec => []StartsOnlyTheImage
<1>1. Inv => StartsOnlyTheImage
  BY DEF Inv, Licence, JumpSent, StartsOnlyTheImage
<1> QED
  BY <1>1, Invariant, PTL

\* What UpdateResult.Jumped says is so, whatever an earlier run left.
THEOREM JumpTold == Spec => []JumpReported
<1>1. Flags /\ Types /\ Queued /\ JumpOnce => JumpReported
  BY DEF JumpOnce, JumpReported
<1> QED
  BY <1>1, Sent, PTL

-----------------------------------------------------------------------------
(* Opening: the machine *)

Places ==
  UNION {[state : {"on"}, layout : {l}, address : Addresses, access : {"denied", "free"},
          configuration : Configurations(l)] : l \in Layouts}

Ours(u) == ShapeOf(u).vendor = "ours"

MachineTyped ==
  /\ bus \in [Units -> {Off, Resetting} \cup Places]
  /\ \A u, w \in Units : On(u) /\ On(w) /\ bus[u].address = bus[w].address => u = w
  /\ file \in [unit : Units \cup {None}, live : BOOLEAN]
  /\ file.live => file.unit \in Units /\ On(file.unit)
  /\ undisturbed \in SUBSET Present

Port == [address : Addresses, vendor : {"unknown", "ours", "other"}, named : BOOLEAN, vflex : BOOLEAN,
         fallback : BOOLEAN]

CommandTyped ==
  /\ route \in {"bootloader", "usb", "rawmidi"}
  /\ refs \in SUBSET [unit : Units, address : Addresses]
  /\ ports \in SUBSET Port /\ chosen \in SUBSET Port
  /\ ByPath => hint.address \in Addresses

(* Where the command is *)

Candidate == {"configuration", "unset", "select", "descriptors", "claim", "alt"}
Opened == pc = "end" /\ outcome = "opened"
Held == pc \in Candidate \/ Opened

Whereabouts ==
  /\ route = "bootloader" => pc \in {"enumerate", "open", "judge", "wait", "end"} \cup Candidate
  /\ route = "usb" => pc \in {"enumerate", "open", "descriptors", "claim", "alt", "end"}
  /\ route = "rawmidi" =>
       pc \in {"vendors", "nodes", "enrich", "choose", "again", "node", "acl", "end"}
  /\ pc # "end" => outcome = "none"
  /\ outcome \in {"window", "application"} => route = "bootloader"

\* What is open, and what is claimed.
Holding ==
  /\ ~Held => file = NoFile /\ cache = None /\ face = None
  /\ pc \in {"configuration", "unset", "descriptors"} => cache = None
  /\ claimed => pc = "alt" \/ Opened

(* Over usbfs *)

\* The last look at the bus, and what is left of it.
Seen ==
  \A r \in refs : \A u \in undisturbed :
    /\ bus[u].address = r.address => u = r.unit
    /\ u = r.unit => Ours(u) /\ bus[u].address = r.address

Remaining ==
  /\ pc = "open" \/ (route # "rawmidi" /\ Held) => refs # {}
  /\ pc \in {"judge", "wait"} \/ outcome \in {"window", "application"} => refs = {}
  /\ route = "rawmidi" => refs = {}
  /\ route = "usb" /\ (pc = "open" \/ Held) =>
       Sole(refs) /\ \A u \in undisturbed : Ours(u) => \E r \in refs : r.unit = u
  /\ route = "bootloader" => \A u \in undisturbed : Claimable(u) => \E r \in refs : r.unit = u

\* The unit behind the descriptor.
Behind ==
  route # "rawmidi" /\ Held =>
    /\ file.live => bus[file.unit].address = ref.address
    /\ ref.unit \in undisturbed => file.live /\ Genuine

Configured ==
  route = "bootloader" /\ file.live =>
    /\ pc = "select" => cache.configurations = Parsed[bus[file.unit].layout].configurations
    /\ pc \in {"unset", "select"} /\ Genuine => bus[file.unit].configuration = 0
    /\ (pc \in {"descriptors", "claim", "alt"} \/ Opened) /\ Genuine =>
         bus[file.unit].configuration # 0

Chosen ==
  route = "bootloader" /\ file.live /\ (pc \in {"claim", "alt"} \/ Opened) =>
    /\ Ours(file.unit)
    /\ Genuine => ShapeOf(file.unit).mode = "bootloader" /\ face \in InForce(file.unit)

(* Over ALSA *)

Plays(u, p) == u \in Cards /\ bus[u].address = p.address

\* What discovery knows of those that nothing has happened to.
Found ==
  hint.by = "none" =>
    /\ pc \in {"nodes", "enrich", "choose"} =>
         \A u \in undisturbed : u \in Cards /\ Ours(u) =>
           \E p \in ports : p.address = bus[u].address /\ p.vendor = "ours"
    /\ pc \in {"nodes", "enrich"} =>
         \A p \in ports : \A u \in undisturbed : Plays(u, p) /\ p.vendor # "unknown" => Ours(u) /\ p.vendor = "ours"
    /\ pc = "choose" =>
         \A p \in ports :
           /\ p.vflex <=> p.vendor = "ours" \/ (p.vendor = "unknown" /\ p.named)
           /\ \A u \in undisturbed : Plays(u, p) => p.vendor = Traced(u)

Picked ==
  hint.by = "none" /\ pc \in {"again", "node"} =>
    \A p \in chosen :
      /\ p.vflex /\ p.vendor = "unknown" => p.named
      /\ \A u \in undisturbed :
           /\ u \in Cards /\ Ours(u) => p.address = bus[u].address
           /\ Plays(u, p) => Ours(u) \/ (ShapeOf(u).vendor = "virtual" /\ Warning(p) # "nothing")

OpeningInv ==
  /\ MachineTyped /\ CommandTyped /\ Whereabouts /\ Holding
  /\ Seen /\ Remaining /\ Behind /\ Configured /\ Chosen
  /\ Found /\ Picked /\ OpenedIsMeant /\ reset = {}

-----------------------------------------------------------------------------
(* What a descriptor blob says *)

\* A set of naturals has a smallest member.
LEMMA SmallestOf ==
  ASSUME NEW S \in SUBSET Nat, S # {}
  PROVE  \E x \in S : \A y \in S : x <= y
<1> DEFINE R == OpToRel(<, Nat)
<1>1. IsWellFoundedOn(R, Nat)
  BY NatLessThanWellFounded
<1>2. \A x, y \in Nat : <<x, y>> \in R <=> x < y
  BY DEF OpToRel
<1> HIDE DEF R
<1>3. PICK x \in S : \A y \in S : ~(<<y, x>> \in R)
  BY <1>1, WFMin
<1>4. \A y \in S : x \in Nat /\ y \in Nat /\ ~(y < x)
  BY <1>2, <1>3
<1> QED
  BY <1>3, <1>4

\* The candidate at hand is one of those that are left,
LEMMA RefIsLeft ==
  ASSUME refs \in SUBSET [unit : Units, address : Addresses], refs # {}
  PROVE  ref \in refs /\ ref.unit \in Units /\ ref.address \in Addresses
<1>1. {r.address : r \in refs} \in SUBSET Nat /\ {r.address : r \in refs} # {}
  BY BusAssumption
<1>2. PICK x \in {r.address : r \in refs} : \A y \in {r.address : r \in refs} : x <= y
  BY <1>1, SmallestOf
<1>3. \E r \in refs : \A s \in refs : r.address <= s.address
  BY <1>2
<1>4. ref \in refs
  BY <1>3 DEF ref
<1> QED
  BY <1>4

\* and the first of what was found in a blob is one of it.
LEMMA FirstIsFound ==
  ASSUME NEW S, S # {}, \A f \in S : f.at \in Nat
  PROVE  First(S) \in S
<1>1. {f.at : f \in S} \in SUBSET Nat /\ {f.at : f \in S} # {}
  OBVIOUS
<1>2. PICK x \in {f.at : f \in S} : \A y \in {f.at : f \in S} : x <= y
  BY <1>1, SmallestOf
<1>3. \E f \in S : \A g \in S : f.at <= g.at
  BY <1>2
<1> QED
  BY <1>3 DEF First

LEMMA WalkedIsBlob ==
  ASSUME NEW l \in Layouts
  PROVE  \A i \in DOMAIN Walked(Shape[l].blob) : i \in Nat
BY ShapeAssumption DEF Walked

\* What stands in a blob stands at a position.
LEMMA ParsedPositions ==
  ASSUME NEW l \in Layouts
  PROVE  /\ \A f \in Parsed[l].interfaces : f.at \in Nat
         /\ \A c \in Parsed[l].configurations : c.at \in Nat
<1> DEFINE w == Walked(Shape[l].blob)
<1>1. Parsed[l] = ParsedWalk(w)
  BY DEF Parsed, ParseDescriptors
<1>2. \A i \in DOMAIN w : i \in Nat
  BY WalkedIsBlob
<1> HIDE DEF w
<1>3. \A f \in Parsed[l].interfaces : \E i \in DOMAIN w : f = InterfaceAt(w, i)
  BY <1>1 DEF ParsedWalk, Positions
<1>4. \A c \in Parsed[l].configurations : \E i \in DOMAIN w : c.at = i
  BY <1>1 DEF ParsedWalk, Positions
<1>5. \A i : InterfaceAt(w, i).at = i
  BY DEF InterfaceAt
<1> QED
  BY <1>2, <1>3, <1>4, <1>5

\* No device is deconfigured: the configuration that is selected is not 0.
LEMMA SelectsSome ==
  ASSUME NEW l \in Layouts
  PROVE  FirstConfigurationValue(Parsed[l]) # 0
<1> DEFINE declared == {c \in Parsed[l].configurations : c.value # 0}
<1>1. CASE declared = {}
  BY <1>1 DEF FirstConfigurationValue
<1>2. CASE declared # {}
  <2>1. \A c \in declared : c.at \in Nat
    BY ParsedPositions
  <2>2. First(declared) \in declared
    BY <1>2, <2>1, FirstIsFound
  <2> QED
    BY <1>2, <2>2 DEF FirstConfigurationValue
<1> QED
  BY <1>1, <1>2

LEMMA RestrictedIs ==
  ASSUME NEW l \in Layouts, NEW c
  PROVE  /\ Restricted(l, c).vendor = Parsed[l].vendor /\ Restricted(l, c).active = c
         /\ Restricted(l, c).configurations = Parsed[l].configurations
         /\ Restricted(l, c).interfaces \subseteq Parsed[l].interfaces
         /\ InterfacesIn(Parsed[l], c) \subseteq Restricted(l, c).interfaces
BY DEF Restricted, RestrictToActive, InterfacesIn

\* The interface that is picked is one of the configuration in force, and one is
\* picked if that has any.
LEMMA PicksInForce ==
  ASSUME NEW l \in Layouts, Shape[l].vendor = "ours", NEW c \in Configurations(l) \ {0}
  PROVE  LET picks == PickBootloaderInterface(Restricted(l, c)) IN
         /\ picks # {} => First(picks) \in InterfacesIn(Parsed[l], c)
         /\ \A f \in InterfacesIn(Parsed[l], c) : Paired(f) => picks # {}
<1> DEFINE r == Restricted(l, c)
           picks == PickBootloaderInterface(r)
<1>1. /\ r.active = c /\ r.interfaces \subseteq Parsed[l].interfaces
      /\ InterfacesIn(Parsed[l], c) \subseteq r.interfaces
  BY RestrictedIs
<1>2. \A f \in Parsed[l].interfaces : f.configuration # 0 /\ f.at \in Nat
  BY ShapeAssumption, ParsedPositions
<1> HIDE DEF r
<1>3. \A skip \in BOOLEAN : PickVendor(r, skip) \subseteq InterfacesIn(Parsed[l], c)
  BY <1>1, <1>2 DEF PickVendor, InterfacesIn
<1>4. \A f \in InterfacesIn(Parsed[l], c) : Paired(f) => f \in PickVendor(r, FALSE)
  BY <1>1 DEF PickVendor, InterfacesIn
<1>5. picks \subseteq InterfacesIn(Parsed[l], c)
  BY <1>3 DEF PickBootloaderInterface
<1>6. picks # {} => First(picks) \in picks
  BY <1>2, <1>5, FirstIsFound DEF InterfacesIn
<1>7. \A f \in InterfacesIn(Parsed[l], c) : Paired(f) => picks # {}
  BY <1>4 DEF PickBootloaderInterface
<1> QED
  BY <1>5, <1>6, <1>7 DEF r

-----------------------------------------------------------------------------
(* What happens on the bus *)

LEMMA PlaceOf ==
  ASSUME MachineTyped, NEW u \in Present
  PROVE  /\ u \in Units /\ bus[u] \in Places /\ bus[u].layout \in Layouts
         /\ bus[u].address \in Addresses /\ bus[u].configuration \in Configurations(bus[u].layout)
         /\ bus[u].access \in {"denied", "free"} /\ bus[u].state = "on"
BY DEF MachineTyped, Places, Present, On, Off, Resetting

LEMMA AloneThere ==
  ASSUME MachineTyped, NEW u \in Present, NEW w \in Present, bus[u].address = bus[w].address
  PROVE  u = w
BY DEF MachineTyped, Present

\* What an event on the bus leaves of the unit that is open.
Stays == /\ On(file.unit)' /\ bus'[file.unit].layout = bus[file.unit].layout
         /\ bus'[file.unit].address = bus[file.unit].address
         /\ bus'[file.unit].configuration = bus[file.unit].configuration

Weather ==
  /\ undisturbed' \in SUBSET undisturbed
  /\ \A u \in undisturbed' : bus'[u] = bus[u]
  /\ file'.unit = file.unit
  /\ file'.live => file.live /\ Stays
  /\ file.live /\ file.unit \in undisturbed' => file'.live

\* One unit is somewhere else now, and no two are at one address.
Disturbed(u, there) ==
  /\ bus' \in [Units -> {Off, Resetting} \cup Places]
  /\ \A v, w \in Units : On(v)' /\ On(w)' /\ bus'[v].address = bus'[w].address => v = w
  /\ bus'[u] = there /\ \A w \in Units \ {u} : bus'[w] = bus[w]
  /\ undisturbed' = undisturbed \ {u} /\ undisturbed' \in SUBSET Present'

LEMMA HappensDisturbs ==
  ASSUME MachineTyped, NEW u \in Units, NEW there \in {Off, Resetting} \cup Places, Happens(u, there),
         there.state = "on" => \A w \in Present \ {u} : bus[w].address # there.address
  PROVE  Disturbed(u, there)
<1>1. bus \in [Units -> {Off, Resetting} \cup Places] /\ undisturbed \in SUBSET Present
  BY DEF MachineTyped
<1>2. bus' = [bus EXCEPT ![u] = there] /\ undisturbed' = undisturbed \ {u}
  BY DEF Happens
<1>3. bus' \in [Units -> {Off, Resetting} \cup Places]
  BY <1>1, <1>2
<1>4. bus'[u] = there /\ \A w \in Units \ {u} : bus'[w] = bus[w]
  BY <1>1, <1>2
<1>5. \A v, w \in Units : On(v) /\ On(w) /\ bus[v].address = bus[w].address => v = w
  BY DEF MachineTyped
<1>6. \A v, w \in Units : On(v)' /\ On(w)' /\ bus'[v].address = bus'[w].address => v = w
  BY <1>4, <1>5 DEF On, Present
<1>7. undisturbed' \in SUBSET Present'
  BY <1>1, <1>2, <1>4 DEF On, Present
<1> QED
  BY <1>2, <1>3, <1>4, <1>6, <1>7 DEF Disturbed

\* Whatever happens, the machine remains one, and only one unit is disturbed.
LEMMA HotplugIsWeather ==
  ASSUME MachineTyped, Hotplug
  PROVE  MachineTyped' /\ Weather /\ UNCHANGED command
<1>1. PICK u \in Units : PlugIn(u) \/ PullOut(u) \/ Jump(u) \/ Grant(u)
  BY DEF Hotplug
<1>2. /\ file \in [unit : Units \cup {None}, live : BOOLEAN]
      /\ file.live => file.unit \in Units /\ On(file.unit)
      /\ undisturbed \in SUBSET Units
  BY DEF MachineTyped, Present
<1>3. CASE PlugIn(u)
  <2>1. PICK l \in LayoutsOf[u] : \E there \in Attachments(l) : At(there.address) = {} /\ Happens(u, there)
    BY <1>3 DEF PlugIn
  <2>2. PICK there \in Attachments(l) : At(there.address) = {} /\ Happens(u, there)
    BY <2>1
  <2>3. l \in Layouts
    BY <2>1, BusAssumption
  <2>4. there \in Places
    BY <2>3 DEF Attachments, Places, Configurations
  <2>5. \A w \in Present : bus[w].address # there.address
    BY <2>2 DEF At
  <2>6. Disturbed(u, there)
    BY <2>2, <2>4, <2>5, HappensDisturbs
  <2> QED
    BY <1>2, <1>3, <2>6 DEF PlugIn, MachineTyped, Weather, Stays, On, Disturbed
<1>4. CASE PullOut(u) \/ Jump(u)
  <2>1. PICK there \in {Off, Resetting} : Happens(u, there) /\ Gone(u) /\ UNCHANGED command
    BY <1>4 DEF PullOut, Jump
  <2>2. there.state # "on"
    BY DEF Off, Resetting
  <2>3. Disturbed(u, there)
    BY <2>1, <2>2, HappensDisturbs
  <2>4. /\ file' \in [unit : Units \cup {None}, live : BOOLEAN]
        /\ file'.unit = file.unit /\ file'.live = (file.live /\ file.unit # u)
    BY <1>2, <2>1 DEF Gone
  <2> QED
    BY <1>2, <2>1, <2>3, <2>4 DEF MachineTyped, Weather, Stays, On, Disturbed
<1>5. CASE Grant(u)
  <2> DEFINE there == [bus[u] EXCEPT !.access = "free"]
  <2>1. u \in Present /\ bus[u] \in Places
    BY <1>5, PlaceOf DEF Grant, Present
  <2>2. /\ there \in Places /\ there.state = bus[u].state /\ there.layout = bus[u].layout
        /\ there.address = bus[u].address /\ there.configuration = bus[u].configuration
    BY <2>1 DEF Places
  <2>3. Happens(u, there) /\ UNCHANGED <<file, command>>
    BY <1>5 DEF Grant
  <2> HIDE DEF there
  <2>4. \A w \in Present \ {u} : bus[w].address # there.address
    BY <2>1, <2>2, AloneThere
  <2>5. Disturbed(u, there)
    BY <2>2, <2>3, <2>4, HappensDisturbs
  <2> QED
    BY <1>2, <2>1, <2>2, <2>3, <2>5 DEF MachineTyped, Weather, Stays, On, Disturbed, Present, command
<1> QED
  BY <1>1, <1>3, <1>4, <1>5

\* What nothing has happened to is what it was.
LEMMA UndisturbedStays ==
  ASSUME MachineTyped, MachineTyped', NEW u \in undisturbed', u \in undisturbed, bus'[u] = bus[u]
  PROVE  /\ u \in Present /\ u \in Present'
         /\ Ours(u)' = Ours(u) /\ ShapeOf(u)' = ShapeOf(u) /\ Traced(u)' = Traced(u)
         /\ (u \in Cards)' <=> u \in Cards
         /\ Claimable(u)' <=> Claimable(u)
<1>1. u \in Present /\ u \in Present'
  BY DEF MachineTyped
<1>2. ShapeOf(u)' = ShapeOf(u)
  BY DEF ShapeOf
<1> QED
  BY <1>1, <1>2 DEF Ours, Traced, Cards, Claimable, Present, On

\* An event on the bus disturbs nothing of what the command rests on.
LEMMA WeatherKeeps ==
  ASSUME OpeningInv, MachineTyped', Weather, pc # "end", UNCHANGED <<pc, outcome, usbVars, portVars>>
  PROVE  OpeningInv'
<1> USE DEF usbVars, looking, device, pass, portVars
<1>1. CommandTyped' /\ Whereabouts' /\ reset' = {}
  BY DEF OpeningInv, CommandTyped, ByPath, Whereabouts
<1>2. outcome = "none"
  BY DEF OpeningInv, Whereabouts
<1>3. ref' = ref
  BY DEF ref
<1>4. MachineTyped
  BY DEF OpeningInv
<1>5. \A u \in undisturbed' :
        /\ u \in undisturbed /\ bus'[u] = bus[u] /\ Ours(u)' = Ours(u) /\ Traced(u)' = Traced(u)
        /\ ((u \in Cards)' <=> u \in Cards) /\ (Claimable(u)' <=> Claimable(u))
        /\ ShapeOf(u)' = ShapeOf(u)
  <2> TAKE u \in undisturbed'
  <2>1. u \in undisturbed /\ bus'[u] = bus[u]
    BY DEF Weather
  <2> QED
    BY <1>4, <2>1, UndisturbedStays
<1>6. Holding'
  <2>1. file = NoFile => file' = NoFile
    BY <1>4 DEF Weather, MachineTyped, NoFile
  <2> QED
    BY <2>1 DEF OpeningInv, Holding, Held, Opened
<1>7. Seen'
  BY <1>5 DEF OpeningInv, Seen
<1>8. Remaining'
  BY <1>5 DEF OpeningInv, Remaining, Held, Opened
<1>9. Behind'
  <2> SUFFICES ASSUME route # "rawmidi", Held
               PROVE  /\ file'.live => bus'[file'.unit].address = ref.address
                      /\ ref.unit \in undisturbed' => file'.live /\ file'.unit = ref.unit
    BY <1>3 DEF Behind, Held, Opened, Genuine
  <2>1. /\ file.live => bus[file.unit].address = ref.address
        /\ ref.unit \in undisturbed => file.live /\ file.unit = ref.unit
    BY DEF OpeningInv, Behind, Genuine
  <2>2. file'.live => file.live /\ Stays
    BY DEF Weather
  <2>3. file'.live => bus'[file'.unit].address = ref.address
    BY <2>1, <2>2 DEF Weather, Stays
  <2>4. ref.unit \in undisturbed' => file'.live /\ file'.unit = ref.unit
    BY <2>1 DEF Weather
  <2> QED
    BY <2>3, <2>4
<1>10. Configured'
  BY <1>3 DEF OpeningInv, Configured, Weather, Stays, Genuine, Opened
<1>11. Chosen'
  <2> SUFFICES ASSUME route = "bootloader", file'.live, pc \in {"claim", "alt"} \/ Opened
               PROVE  Ours(file.unit)' /\ (file.unit = ref.unit =>
                         ShapeOf(file.unit)'.mode = "bootloader" /\ face \in InForce(file.unit)')
    BY <1>3 DEF Chosen, Weather, Genuine, Opened, Ours, ShapeOf, InForce
  <2>1. file.live /\ Stays
    BY DEF Weather
  <2>2. ShapeOf(file.unit)' = ShapeOf(file.unit) /\ InForce(file.unit)' = InForce(file.unit)
    BY <2>1 DEF Stays, Weather, ShapeOf, InForce
  <2> QED
    BY <2>1, <2>2 DEF OpeningInv, Chosen, Ours, Genuine
<1>12. Found'
  BY <1>5 DEF OpeningInv, Found, Plays
<1>13. Picked'
  BY <1>5 DEF OpeningInv, Picked, Plays, Warning
<1>14. OpenedIsMeant'
  BY <1>2 DEF OpenedIsMeant
<1> QED
  BY <1>1, <1>6, <1>7, <1>8, <1>9, <1>10, <1>11, <1>12, <1>13, <1>14 DEF OpeningInv

-----------------------------------------------------------------------------
(* Over usbfs *)

LEMMA InitOpening ==
  ASSUME OpeningInit
  PROVE  OpeningInv
<1> USE DEF OpeningInit, BusInit, UsbInit, PortsInit
<1>1. bus \in [Units -> {Off, Resetting} \cup Places]
  <2>1. UNION {Attachments(l) : l \in Layouts} \subseteq Places
    BY DEF Attachments, Places, Configurations
  <2> QED
    BY <2>1
<1>2. ASSUME NEW u \in Units, NEW w \in Units, On(u), On(w), bus[u].address = bus[w].address
      PROVE  u = w
  BY <1>2 DEF At, Present
<1>3. MachineTyped
  BY <1>1, <1>2 DEF MachineTyped, NoFile
<1>4. CommandTyped /\ Whereabouts /\ Holding
  BY DEF CommandTyped, ByPath, Whereabouts, Holding, Candidate, Opened, Held
<1>5. Seen /\ Remaining /\ Behind /\ Configured /\ Chosen
  BY DEF Seen, Remaining, Behind, Configured, Chosen, NoFile, Held, Opened, Candidate
<1>6. Found /\ Picked /\ OpenedIsMeant
  BY DEF Found, Picked, OpenedIsMeant
<1> QED
  BY <1>3, <1>4, <1>5, <1>6 DEF OpeningInv

\* A look at the bus sees all of ours that are there.
LEMMA LookSees ==
  ASSUME OpeningInv, Look, pc = "enumerate", UNCHANGED portVars
  PROVE  /\ MachineTyped' /\ CommandTyped' /\ Seen' /\ bus' = bus /\ file' = file
         /\ \A u \in undisturbed' : Ours(u)' => \E r \in refs' : r.unit = u
<1>1. MachineTyped /\ CommandTyped
  BY DEF OpeningInv
<1>2. bus' = bus /\ file' = file /\ undisturbed' = Present /\ refs' = Enumerated
  BY DEF Look
<1>3. Present' = Present
  BY <1>2 DEF Present, On
<1>4. MachineTyped'
  BY <1>1, <1>2, <1>3 DEF MachineTyped, On
<1>5. Enumerated \in SUBSET [unit : Units, address : Addresses]
  BY <1>1, PlaceOf DEF Enumerated, Present
<1>6. CommandTyped'
  BY <1>1, <1>2, <1>5 DEF CommandTyped, ByPath, Look, looking, portVars
<1>7. \A r \in Enumerated : r.unit \in Present /\ Ours(r.unit) /\ r.address = bus[r.unit].address
  BY DEF Enumerated, Ours
<1>8. Seen'
  BY <1>1, <1>2, <1>7, AloneThere DEF Seen, Ours, ShapeOf
<1>9. \A u \in undisturbed' : Ours(u)' => \E r \in refs' : r.unit = u
  <2>1. ASSUME NEW u \in Present, Ours(u) PROVE [unit |-> u, address |-> bus[u].address] \in Enumerated
    BY <2>1 DEF Enumerated, Ours
  <2>2. \A u \in Present : Ours(u) => \E r \in Enumerated : r.unit = u
    BY <2>1
  <2>3. \A u : Ours(u)' => Ours(u)
    BY <1>2 DEF Ours, ShapeOf
  <2> QED
    BY <1>2, <2>2, <2>3
<1> QED
  BY <1>2, <1>4, <1>6, <1>8, <1>9

LEMMA EnumerateKeeps ==
  ASSUME OpeningInv, EnumerateCandidates \/ EnumerateSingle, UNCHANGED portVars
  PROVE  OpeningInv'
<1>1. Look /\ pc = "enumerate"
  BY DEF EnumerateCandidates, EnumerateSingle
<1>2. /\ MachineTyped' /\ CommandTyped' /\ Seen' /\ bus' = bus /\ file' = file
      /\ \A u \in undisturbed' : Ours(u)' => \E r \in refs' : r.unit = u
  BY <1>1, LookSees
<1>3. ~Held /\ outcome = "none" /\ reset = {} /\ file = NoFile /\ cache = None /\ face = None /\ ~claimed
  BY <1>1 DEF OpeningInv, Held, Candidate, Opened, Whereabouts, Holding
<1>4. UNCHANGED <<route, reset, cache, face, claimed>>
  BY <1>1 DEF Look, looking, device
<1>5. /\ pc' \in {"judge", "open", "end"} /\ (pc' = "end" => route = "usb" /\ outcome' \in {"absent", "ambiguous"})
      /\ (pc' # "end" => outcome' = "none")
      /\ (pc' = "judge" => route = "bootloader" /\ refs' = {})
      /\ (pc' = "open" => refs' # {} /\ route \in {"bootloader", "usb"} /\ (route = "usb" => Sole(refs')))
  BY <1>3 DEF EnumerateCandidates, EnumerateSingle, Goto, End, Sole
<1>6. ~Held'
  BY <1>5 DEF Held, Candidate, Opened
<1>7. Whereabouts' /\ Holding'
  BY <1>3, <1>4, <1>5, <1>6, <1>2 DEF Whereabouts, Holding, OpeningInv
<1>8. Remaining'
  BY <1>2, <1>4, <1>5, <1>6 DEF Remaining, Claimable, Ours
<1>9. Behind' /\ Configured' /\ Chosen' /\ Found' /\ Picked' /\ OpenedIsMeant'
  BY <1>2, <1>3, <1>5, <1>6 DEF Behind, Configured, Chosen, Found, Picked, OpenedIsMeant, NoFile
<1> QED
  BY <1>2, <1>3, <1>4, <1>7, <1>8, <1>9 DEF OpeningInv

\* A candidate is given up with all that was opened and claimed for it, and only
\* if it could not be flashed as it stood.
LEMMA FailKeeps ==
  ASSUME OpeningInv, NEW err \in {"absent", "permission", "application", "interface", "malformed",
                                  "replaced", "gone", "configuration", "claim", "alt"},
         Fail(err), pc = "open" \/ pc \in Candidate, route = "usb" => err # "application",
         bus' = bus, undisturbed' \in SUBSET undisturbed,
         route = "bootloader" /\ ref.unit \in undisturbed' => ~Claimable(ref.unit),
         UNCHANGED <<reset, portVars>>
  PROVE  OpeningInv'
<1>1. route # "rawmidi" /\ outcome = "none" /\ pc # "end"
  BY DEF OpeningInv, Whereabouts, Candidate
<1>2. refs # {} /\ ref \in refs
  BY <1>1, RefIsLeft DEF OpeningInv, Remaining, Held, CommandTyped
<1>3. MachineTyped'
  <2>1. Present' = Present /\ file' = NoFile
    BY DEF Present, On, Fail
  <2> QED
    BY <2>1 DEF OpeningInv, MachineTyped, NoFile, On
<1>4. /\ refs' \in SUBSET refs
      /\ route = "bootloader" => refs' = refs \ {ref}
      /\ pc' \in {"judge", "open", "end"}
      /\ (pc' = "end" => route = "usb" /\ outcome' = err) /\ (pc' # "end" => outcome' = outcome)
      /\ pc' \in {"judge", "open"} => route = "bootloader"
      /\ pc' = "judge" => refs' = {}
      /\ pc' = "open" => refs' # {}
  <2>1. CASE route = "bootloader" /\ NextCandidate(err)
    <3>1. refs' = refs \ {ref} /\ (pc' = IF Sole(refs) THEN "judge" ELSE "open") /\ outcome' = outcome
      BY <2>1 DEF NextCandidate, Goto
    <3>2. Sole(refs) <=> refs \ {ref} = {}
      BY <1>2 DEF Sole
    <3> QED
      BY <2>1, <3>1, <3>2
  <2>2. CASE route = "usb" /\ End(pc, err) /\ UNCHANGED pass
    BY <2>2 DEF End, pass
  <2> QED
    BY <2>1, <2>2 DEF Fail
<1>5. UNCHANGED <<route, reset, ports, chosen, hint, warned>> /\ file' = NoFile /\ cache' = None /\ face' = None /\ claimed' = FALSE
  BY DEF Fail, looking, portVars
<1>6. ~Held'
  BY <1>4 DEF Held, Candidate, Opened
<1>7. CommandTyped' /\ Whereabouts' /\ Holding'
  BY <1>1, <1>4, <1>5, <1>6 DEF OpeningInv, CommandTyped, ByPath, Whereabouts, Holding
<1>8. Seen'
  BY <1>4 DEF OpeningInv, Seen, Ours, ShapeOf
<1>9. Remaining'
  <2>1. ASSUME route = "bootloader", NEW u \in undisturbed', Claimable(u)' PROVE \E r \in refs' : r.unit = u
    <3>1. Claimable(u)
      BY <2>1 DEF Claimable, On, ShapeOf
    <3>2. PICK r \in refs : r.unit = u
      BY <2>1, <3>1 DEF OpeningInv, Remaining
    <3>3. r # ref
      BY <2>1, <3>1, <3>2
    <3> QED
      BY <1>4, <2>1, <3>2, <3>3
  <2> QED
    BY <1>1, <1>4, <1>5, <1>6, <2>1 DEF Remaining
<1>10. Behind' /\ Configured' /\ Chosen' /\ Found' /\ Picked' /\ OpenedIsMeant'
  BY <1>1, <1>4, <1>5, <1>6 DEF Behind, Configured, Chosen, Found, Picked, OpenedIsMeant, NoFile
<1> QED
  BY <1>3, <1>5, <1>7, <1>8, <1>9, <1>10 DEF OpeningInv

LEMMA OpenNodeKeeps ==
  ASSUME OpeningInv, OpenNode, UNCHANGED portVars
  PROVE  OpeningInv'
<1>1. /\ pc = "open" /\ route # "rawmidi" /\ outcome = "none" /\ ~Held /\ MachineTyped
      /\ bus' = bus /\ undisturbed' = undisturbed /\ reset' = reset /\ reset = {}
  BY DEF OpenNode, OpeningInv, Whereabouts, Held, Opened, Candidate
<1>2. refs # {} /\ ref \in refs
  BY <1>1, RefIsLeft DEF OpeningInv, Remaining, CommandTyped
<1>3. CASE Openable(ref.address) = {} /\ Fail(Refusal(ref.address))
  <2>1. Refusal(ref.address) \in {"absent", "permission"}
    BY DEF Refusal
  <2>2. ref.unit \in undisturbed => ~Claimable(ref.unit)
    BY <1>2, <1>3 DEF OpeningInv, Seen, Claimable, Openable, At, MachineTyped
  <2> QED
    BY <1>1, <1>3, <2>1, <2>2, FailKeeps
<1>4. ASSUME NEW u \in Openable(ref.address), file' = [unit |-> u, live |-> TRUE],
             Goto("open", IF route = "bootloader" THEN "configuration" ELSE "descriptors"),
             UNCHANGED <<looking, device, pass>>
      PROVE  OpeningInv'
  <2> USE <1>4 DEF looking, device, pass, portVars
  <2>1. u \in Present /\ u \in Units /\ bus[u].address = ref.address
    BY DEF Openable, At, Present
  <2>2. /\ ref' = ref /\ file'.live = TRUE /\ file'.unit = u /\ UNCHANGED <<outcome, refs, route>>
        /\ (route = "bootloader" => pc' = "configuration") /\ (route = "usb" => pc' = "descriptors")
    BY <1>1 DEF ref, Goto, OpeningInv, CommandTyped
  <2>3. pc' \in {"configuration", "descriptors"} /\ route \in {"bootloader", "usb"}
    BY <1>1, <2>2 DEF OpeningInv, CommandTyped
  <2>4. MachineTyped'
    BY <1>1, <2>1 DEF MachineTyped, Present, On
  <2>5. CommandTyped' /\ Whereabouts' /\ Holding'
    BY <1>1, <2>2, <2>3 DEF OpeningInv, CommandTyped, ByPath, Whereabouts, Holding, Held, Candidate, Opened
  <2>6. Seen'
    BY <1>1 DEF OpeningInv, Seen, Ours, ShapeOf
  <2>7. \A w \in undisturbed : Claimable(w)' <=> Claimable(w)
    BY <1>1 DEF Claimable, On, ShapeOf
  <2>8. Remaining'
    BY <1>1, <2>2, <2>3, <2>7 DEF OpeningInv, Remaining, Held, Candidate, Opened, Ours, ShapeOf
  <2>9. ref.unit \in undisturbed => u = ref.unit
    <3>1. ref.unit \in undisturbed => ref.unit \in Present /\ bus[ref.unit].address = ref.address
      BY <1>1, <1>2 DEF OpeningInv, Seen, MachineTyped
    <3> QED
      BY <1>1, <2>1, <3>1, AloneThere
  <2>10. Behind'
    BY <1>1, <2>1, <2>2, <2>9 DEF Behind, Genuine
  <2>11. Configured' /\ Chosen' /\ Found' /\ Picked' /\ OpenedIsMeant'
    BY <1>1, <2>2, <2>3 DEF Configured, Chosen, Found, Picked, OpenedIsMeant, Opened
  <2> QED
    BY <1>1, <2>4, <2>5, <2>6, <2>8, <2>10, <2>11 DEF OpeningInv
<1> QED
  BY <1>3, <1>4 DEF OpenNode

\* What the command knows of the unit behind its descriptor.
LEMMA HeldUnit ==
  ASSUME OpeningInv, pc \in Candidate, file.live
  PROVE  /\ file.unit \in Present /\ bus[file.unit].layout \in Layouts
         /\ refs # {} /\ ref \in refs /\ route \in {"bootloader", "usb"}
         /\ bus[file.unit].address = ref.address
         /\ file.unit \in undisturbed => Genuine
         /\ SysfsConfiguration = (IF Genuine THEN {bus[file.unit].configuration} ELSE SysfsConfiguration)
         /\ Genuine => Active = bus[file.unit].configuration
<1>1. route # "rawmidi" /\ Held /\ MachineTyped /\ route \in {"bootloader", "usb"}
  BY DEF OpeningInv, Whereabouts, Candidate, Held, CommandTyped
<1>2. refs # {} /\ ref \in refs
  BY <1>1, RefIsLeft DEF OpeningInv, Remaining, CommandTyped
<1>3. file.unit \in Present /\ bus[file.unit].layout \in Layouts
  BY <1>1, PlaceOf DEF MachineTyped, Present
<1>4. bus[file.unit].address = ref.address
  BY <1>1 DEF OpeningInv, Behind
<1>5. file.unit \in undisturbed => Genuine
  BY <1>2, <1>4 DEF OpeningInv, Seen, Genuine
<1>6. Genuine => SysfsConfiguration = {bus[file.unit].configuration}
  BY <1>3 DEF Genuine, SysfsConfiguration
<1>7. Genuine => Active = bus[file.unit].configuration
  BY <1>6 DEF Active
<1> QED
  BY <1>1, <1>2, <1>3, <1>4, <1>5, <1>6, <1>7


\* A step with a candidate in hand that leaves the machine alone leaves the search as it was.
LEMMA CandidateKeeps ==
  ASSUME OpeningInv, pc \in Candidate, UNCHANGED <<machine, looking, pass, reset, portVars>>,
         \/ pc' \in Candidate /\ outcome' = outcome
            /\ (route = "usb" => pc' \in {"descriptors", "claim", "alt"})
         \/ pc' = "end" /\ outcome' = "opened",
         Holding', Configured', Chosen'
  PROVE  OpeningInv'
<1> USE DEF machine, looking, pass, portVars
<1>1. route \in {"bootloader", "usb"} /\ outcome = "none" /\ Held /\ pc # "end" /\ reset = {} /\ MachineTyped
  BY DEF OpeningInv, CommandTyped, Whereabouts, Candidate, Held
<1>2. refs # {} /\ ref \in refs
  BY <1>1, RefIsLeft DEF OpeningInv, Remaining, CommandTyped
<1>3. Held' /\ pc' \notin {"judge", "wait", "open"} /\ outcome' \notin {"window", "application"}
  BY <1>1 DEF Held, Opened, Candidate
<1>4. ref' = ref
  BY DEF ref
<1>5. MachineTyped' /\ CommandTyped'
  BY DEF OpeningInv, MachineTyped, CommandTyped, ByPath, On, Present
<1>6. Whereabouts'
  BY <1>1 DEF Whereabouts, Candidate
<1>7. Seen'
  BY DEF OpeningInv, Seen, Ours, ShapeOf
<1>8. Remaining'
  <2>1. \A u \in Units : Claimable(u)' <=> Claimable(u)
    BY DEF Claimable, On, ShapeOf
  <2>2. \A u \in undisturbed : u \in Units
    BY <1>1 DEF MachineTyped, Present
  <2> QED
    BY <1>1, <1>3, <2>1, <2>2 DEF OpeningInv, Remaining, Ours, ShapeOf
<1>9. Behind'
  BY <1>1, <1>3, <1>4 DEF OpeningInv, Behind, Genuine
<1>10. Found' /\ Picked'
  BY <1>1, <1>3 DEF Found, Picked, Held, Candidate, Opened
<1>11. OpenedIsMeant'
  <2> SUFFICES ASSUME route = "usb", file.live
               PROVE  /\ \A u \in undisturbed : Ours(u) => u = file.unit
                      /\ file.unit \in undisturbed => Ours(file.unit)
    BY <1>1 DEF OpenedIsMeant, Ours, ShapeOf
  <2>1. Sole(refs) /\ \A u \in undisturbed : Ours(u) => \E r \in refs : r.unit = u
    BY <1>1 DEF OpeningInv, Remaining
  <2>2. \A u \in undisturbed : Ours(u) => u = ref.unit
    BY <1>2, <2>1 DEF Sole
  <2>3. ref.unit \in undisturbed => file.unit = ref.unit
    BY <1>1 DEF OpeningInv, Behind, Genuine
  <2>4. file.unit \in undisturbed => Ours(file.unit)
    BY <1>1, <1>2 DEF OpeningInv, Behind, Seen
  <2> QED
    BY <2>2, <2>3, <2>4
<1> QED
  BY <1>1, <1>5, <1>6, <1>7, <1>8, <1>9, <1>10, <1>11 DEF OpeningInv

\* Where a candidate that is in hand may stand.
LEMMA InHand ==
  ASSUME OpeningInv, pc \in Candidate
  PROVE  /\ route \in {"bootloader", "usb"} /\ outcome = "none" /\ Held /\ MachineTyped
         /\ pc \in {"configuration", "unset", "select"} => route = "bootloader"
         /\ refs # {} /\ ref \in refs /\ reset = {}
<1>1. route \in {"bootloader", "usb"} /\ outcome = "none" /\ Held /\ pc # "end" /\ reset = {} /\ MachineTyped
  BY DEF OpeningInv, CommandTyped, Whereabouts, Candidate, Held
<1>2. refs # {} /\ ref \in refs
  BY <1>1, RefIsLeft DEF OpeningInv, Remaining, CommandTyped
<1> QED
  BY <1>1, <1>2 DEF OpeningInv, Whereabouts

LEMMA ReadConfigurationKeeps ==
  ASSUME OpeningInv, ReadConfiguration, UNCHANGED portVars
  PROVE  OpeningInv'
<1> USE DEF machine, usbVars, looking, pass, device, portVars
<1>1. pc = "configuration" /\ pc \in Candidate /\ UNCHANGED <<machine, usbVars, portVars>>
  BY DEF ReadConfiguration, Candidate
<1>2. route = "bootloader" /\ cache = None /\ ~claimed
  BY <1>1, InHand DEF OpeningInv, Holding, Opened
<1>3. pc' \in {"unset", "descriptors"} /\ outcome' = outcome
  BY DEF ReadConfiguration, Goto
<1>4. Holding' /\ Chosen'
  BY <1>1, <1>2, <1>3 DEF Holding, Chosen, Held, Candidate, Opened
<1>5. file.live /\ Genuine => IF bus[file.unit].configuration = 0 THEN pc' = "unset" ELSE pc' = "descriptors"
  <2> SUFFICES ASSUME file.live, Genuine
               PROVE  IF bus[file.unit].configuration = 0 THEN pc' = "unset" ELSE pc' = "descriptors"
    OBVIOUS
  <2>1. SysfsConfiguration = {bus[file.unit].configuration}
    BY <1>1, HeldUnit
  <2> QED
    BY <2>1 DEF ReadConfiguration, Goto
<1>6. Configured'
  BY <1>1, <1>3, <1>5 DEF Configured, Genuine, ref, Opened
<1> QED
  BY <1>1, <1>2, <1>3, <1>4, <1>6, CandidateKeeps DEF Candidate

\* The candidate that nothing has happened to is the unit behind the descriptor.
LEMMA UndisturbedIsHeld ==
  ASSUME OpeningInv, pc \in Candidate, ref.unit \in undisturbed
  PROVE  /\ file.live /\ Genuine /\ file.unit = ref.unit /\ ref.unit \in Present /\ Ours(ref.unit)
         /\ bus[ref.unit].layout \in Layouts
<1>1. route # "rawmidi" /\ Held /\ refs # {} /\ ref \in refs /\ MachineTyped
  BY InHand
<1>2. file.live /\ Genuine
  BY <1>1 DEF OpeningInv, Behind
<1>3. Ours(ref.unit)
  BY <1>1 DEF OpeningInv, Seen
<1> QED
  BY <1>1, <1>2, <1>3, HeldUnit DEF Genuine, MachineTyped

\* Descriptors that cannot be read, or are of somebody else, are not of a unit of
\* ours that nothing has happened to.
LEMMA Unreadable ==
  ASSUME OpeningInv, pc \in Candidate,
         ~file.live \/ Malformed(ShapeOf(file.unit).blob) \/ Replaced(Parsed[bus[file.unit].layout])
  PROVE  ref.unit \notin undisturbed
<1> SUFFICES ASSUME ref.unit \in undisturbed PROVE FALSE
  OBVIOUS
<1>1. /\ file.live /\ file.unit = ref.unit /\ Ours(ref.unit) /\ bus[ref.unit].layout \in Layouts
  BY UndisturbedIsHeld
<1> QED
  BY <1>1, ShapeAssumption DEF Replaced, Ours, ShapeOf

LEMMA ReadUnconfiguredKeeps ==
  ASSUME OpeningInv, ReadUnconfigured, UNCHANGED portVars
  PROVE  OpeningInv'
<1>1. pc = "unset" /\ pc \in Candidate /\ UNCHANGED <<bus, hotplugs, undisturbed, reset>>
  BY DEF ReadUnconfigured, Candidate
<1>2. cache = None /\ ~claimed /\ route = "bootloader"
  BY <1>1, InHand DEF OpeningInv, Holding, Opened
<1>3. CASE \/ file.live /\ Malformed(ShapeOf(file.unit).blob) /\ Fail("malformed")
           \/ file.live /\ Replaced(Parsed[bus[file.unit].layout]) /\ Fail("replaced")
           \/ ~file.live /\ Fail("gone")
  BY <1>1, <1>2, <1>3, Unreadable, FailKeeps
<1>4. CASE file.live /\ KeepForSelection(Read(bus[file.unit].layout))
  <2>1. /\ pc' = "select" /\ cache' = Read(bus[file.unit].layout)
        /\ UNCHANGED <<machine, looking, pass, face, claimed, reset, outcome>>
    BY <1>1, <1>4 DEF KeepForSelection, Goto, machine
  <2>2. Holding' /\ Chosen'
    BY <1>2, <2>1 DEF Holding, Chosen, Held, Candidate, Opened, looking
  <2>3. bus[file.unit].layout \in Layouts
    BY <1>1, <1>4, HeldUnit
  <2>4. cache'.configurations = Parsed[bus[file.unit].layout].configurations
    BY <2>1, <2>3, RestrictedIs DEF Read
  <2>5. Configured'
    BY <1>1, <1>2, <2>1, <2>4 DEF OpeningInv, Configured, Genuine, ref, Opened, machine, looking, pass
  <2> QED
    BY <1>1, <1>2, <2>1, <2>2, <2>5, CandidateKeeps DEF Candidate
<1> QED
  BY <1>1, <1>2, <1>3, <1>4 DEF ReadUnconfigured, DescriptorsRead, Use

\* A claim or a request that the unit does not answer.
LEMMA RefusedDisturbs ==
  ASSUME OpeningInv, pc \in Candidate, Refused
  PROVE  bus' = bus /\ undisturbed' \in SUBSET undisturbed /\ ref.unit \notin undisturbed'
<1>1. CASE ~file.live /\ UNCHANGED <<bus, hotplugs, undisturbed>>
  BY <1>1, Unreadable
<1>2. CASE file.live /\ Stalls
  <2>1. bus' = [bus EXCEPT ![file.unit] = bus[file.unit]] /\ undisturbed' = undisturbed \ {file.unit}
    BY <1>2 DEF Stalls, Happens
  <2>2. bus' = bus
    BY <2>1 DEF OpeningInv, MachineTyped
  <2>3. ref.unit \in undisturbed => ref.unit = file.unit
    BY UndisturbedIsHeld
  <2> QED
    BY <2>1, <2>2, <2>3
<1> QED
  BY <1>1, <1>2 DEF Refused

LEMMA RefusedKeeps ==
  ASSUME OpeningInv, SetConfigurationFails \/ SetInterfaceFails, UNCHANGED portVars
  PROVE  OpeningInv'
<1>1. pc \in Candidate /\ Refused /\ (Fail("configuration") \/ Fail("alt")) /\ UNCHANGED reset
  BY DEF SetConfigurationFails, SetInterfaceFails, Candidate
<1> QED
  BY <1>1, RefusedDisturbs, FailKeeps

LEMMA ClaimFailsKeeps ==
  ASSUME OpeningInv, ClaimFails, UNCHANGED portVars
  PROVE  OpeningInv'
<1>1. pc = "claim" /\ pc \in Candidate /\ Fail("claim") /\ UNCHANGED reset
  BY DEF ClaimFails, Candidate
<1>2. CASE Refused
  BY <1>1, <1>2, RefusedDisturbs, FailKeeps
<1>3. CASE /\ file.live /\ \A f \in InForce(file.unit) : f.number # face.number
           /\ UNCHANGED <<bus, hotplugs, undisturbed>>
  <2>1. route = "bootloader" => ref.unit \notin undisturbed
    BY <1>1, <1>3, UndisturbedIsHeld DEF OpeningInv, Chosen
  <2> QED
    BY <1>1, <1>3, <2>1, FailKeeps
<1> QED
  BY <1>2, <1>3 DEF ClaimFails

LEMMA ClaimKeeps ==
  ASSUME OpeningInv, ClaimInterface \/ SetInterface, UNCHANGED portVars
  PROVE  OpeningInv'
<1>1. /\ pc \in {"claim", "alt"} /\ pc \in Candidate /\ file.live
      /\ UNCHANGED <<machine, looking, pass, cache, face, reset>>
      /\ pc = "alt" => UNCHANGED claimed
      /\ \/ pc' = "alt" /\ outcome' = outcome
         \/ pc' = "end" /\ outcome' = "opened"
  <2>1. CASE ClaimInterface
    BY <2>1 DEF ClaimInterface, Candidate, Goto, End
  <2>2. CASE SetInterface
    BY <2>2 DEF SetInterface, Candidate, End, usbVars, device
  <2> QED
    BY <2>1, <2>2
<1>2. Holding'
  BY <1>1 DEF OpeningInv, Holding, Held, Candidate, Opened
<1>3. Configured' /\ Chosen'
  BY <1>1 DEF OpeningInv, Configured, Chosen, Genuine, ref, machine, looking, pass, Ours, ShapeOf, InForce, Opened
<1> QED
  BY <1>1, <1>2, <1>3, CandidateKeeps DEF Candidate

\* What is picked of the descriptors, and why nothing may be.
LEMMA TakeKeeps ==
  ASSUME OpeningInv, pc = "descriptors", file.live, UNCHANGED <<bus, hotplugs, undisturbed, reset, portVars>>,
         ~Malformed(ShapeOf(file.unit).blob), ~Replaced(Parsed[bus[file.unit].layout]),
         Judge(Read(bus[file.unit].layout))
  PROVE  OpeningInv'
<1> DEFINE l == bus[file.unit].layout
           cfg == Read(l)
<1>1. pc \in Candidate /\ cache = None /\ ~claimed /\ route \in {"bootloader", "usb"}
  BY InHand DEF Candidate, OpeningInv, Holding, Opened
<1>2. l \in Layouts /\ file.unit \in Present /\ MachineTyped
  BY <1>1, HeldUnit DEF OpeningInv
<1>3. Ours(file.unit)
  BY <1>2, ShapeAssumption DEF Replaced, Ours, ShapeOf
<1>4. route = "bootloader" /\ Genuine =>
        /\ bus[file.unit].configuration \in Configurations(l) \ {0}
        /\ cfg = Restricted(l, bus[file.unit].configuration)
  BY <1>1, <1>2, HeldUnit, PlaceOf DEF OpeningInv, Configured, Read
<1>5. route = "bootloader" /\ Genuine => (InApplicationMode(cfg) <=> ShapeOf(file.unit).mode # "bootloader")
  BY <1>2, <1>3, <1>4, ShapeAssumption DEF Ours, ShapeOf
<1>6. route = "bootloader" /\ Genuine =>
        /\ PickBootloaderInterface(cfg) # {} => First(PickBootloaderInterface(cfg)) \in InForce(file.unit)
        /\ Claimable(file.unit) => PickBootloaderInterface(cfg) # {}
  <2> SUFFICES ASSUME route = "bootloader", Genuine
               PROVE  /\ PickBootloaderInterface(cfg) # {} =>
                           First(PickBootloaderInterface(cfg)) \in InForce(file.unit)
                      /\ Claimable(file.unit) => PickBootloaderInterface(cfg) # {}
    OBVIOUS
  <2> DEFINE c == bus[file.unit].configuration
  <2>1. c \in Configurations(l) \ {0} /\ cfg = Restricted(l, c) /\ Shape[l].vendor = "ours"
    BY <1>3, <1>4 DEF Ours, ShapeOf
  <2> HIDE DEF c, cfg
  <2>2. /\ PickBootloaderInterface(cfg) # {} => First(PickBootloaderInterface(cfg)) \in InterfacesIn(Parsed[l], c)
        /\ \A f \in InterfacesIn(Parsed[l], c) : Paired(f) => PickBootloaderInterface(cfg) # {}
    BY <1>2, <2>1, PicksInForce
  <2>3. Claimable(file.unit) => \E f \in InterfacesIn(Parsed[l], c) : Paired(f)
    BY <2>1 DEF Claimable, InterfacesIn, c
  <2> QED
    BY <2>2, <2>3 DEF InForce, c
<1>7. ref.unit \in undisturbed => Genuine /\ file.unit = ref.unit
  BY <1>1, UndisturbedIsHeld
<1> HIDE DEF cfg
<1>8. CASE Fail("application") /\ route = "bootloader" /\ InApplicationMode(cfg)
  <2>1. ref.unit \in undisturbed => ~Claimable(ref.unit)
    BY <1>5, <1>7, <1>8 DEF Claimable
  <2> QED
    BY <1>1, <1>8, <2>1, FailKeeps
<1>9. CASE Fail("interface") /\ (route = "bootloader" => PickBootloaderInterface(cfg) = {})
  <2>1. route = "bootloader" /\ ref.unit \in undisturbed => ~Claimable(ref.unit)
    BY <1>6, <1>7, <1>9
  <2> QED
    BY <1>1, <1>9, <2>1, FailKeeps
<1>10. ASSUME NEW faces, faces # {}, Take(faces, "interface", cfg),
              route = "bootloader" => faces = PickBootloaderInterface(cfg) /\ ~InApplicationMode(cfg)
       PROVE  OpeningInv'
  <2>1. /\ pc' = "claim" /\ outcome' = outcome /\ face' = First(faces)
        /\ UNCHANGED <<machine, looking, pass, claimed, reset>>
    BY <1>10 DEF Take, Goto, machine
  <2>2. Holding'
    BY <1>1, <2>1 DEF Holding, Held, Candidate, Opened
  <2>3. Configured'
    BY <2>1 DEF OpeningInv, Configured, Genuine, ref, Opened, machine, looking, pass
  <2>4. Chosen'
    BY <1>3, <1>5, <1>6, <1>10, <2>1 DEF Chosen, Genuine, ref, machine, looking, pass, Ours, ShapeOf, InForce, Opened
  <2> QED
    BY <1>1, <2>1, <2>2, <2>3, <2>4, CandidateKeeps DEF Candidate
<1>11. Judge(cfg)
  BY DEF cfg
<1>12. CASE route = "usb"
  <2>1. Take(SelectInterface(cfg), "interface", cfg)
    BY <1>11, <1>12 DEF Judge
  <2> QED
    BY <1>9, <1>10, <1>12, <2>1 DEF Take
<1>13. CASE route = "bootloader" /\ ~InApplicationMode(cfg)
  <2>1. Take(PickBootloaderInterface(cfg), "interface", cfg)
    BY <1>11, <1>13 DEF Judge
  <2> QED
    BY <1>9, <1>10, <1>13, <2>1 DEF Take
<1>14. CASE route = "bootloader" /\ InApplicationMode(cfg)
  BY <1>8, <1>11, <1>14 DEF Judge
<1> QED
  BY <1>1, <1>12, <1>13, <1>14

LEMMA ReadDescriptorsKeeps ==
  ASSUME OpeningInv, ReadDescriptors, UNCHANGED portVars
  PROVE  OpeningInv'
<1>1. pc = "descriptors" /\ pc \in Candidate /\ UNCHANGED <<bus, hotplugs, undisturbed, reset>>
  BY DEF ReadDescriptors, Candidate
<1>2. cache = None
  BY <1>1 DEF OpeningInv, Holding
<1>3. CASE \/ file.live /\ Malformed(ShapeOf(file.unit).blob) /\ Fail("malformed")
           \/ file.live /\ Replaced(Parsed[bus[file.unit].layout]) /\ Fail("replaced")
           \/ ~file.live /\ Fail("gone")
  BY <1>1, <1>3, Unreadable, FailKeeps
<1>4. CASE /\ file.live /\ ~Malformed(ShapeOf(file.unit).blob) /\ ~Replaced(Parsed[bus[file.unit].layout])
           /\ Judge(Read(bus[file.unit].layout))
  BY <1>1, <1>4, TakeKeeps
<1> QED
  BY <1>1, <1>2, <1>3, <1>4 DEF ReadDescriptors, DescriptorsRead, Use

\* A configuration is selected only for a unit that has none.
LEMMA SetConfigurationKeeps ==
  ASSUME OpeningInv, SetConfiguration, UNCHANGED portVars
  PROVE  OpeningInv'
<1> DEFINE u == file.unit
           value == FirstConfigurationValue(Parsed[bus[u].layout])
<1>1. /\ pc = "select" /\ pc \in Candidate /\ file.live /\ pc' = "descriptors" /\ cache' = None
      /\ UNCHANGED <<file, hotplugs, undisturbed, looking, face, claimed, pass, outcome, portVars>>
      /\ bus' = [bus EXCEPT ![u].configuration = FirstConfigurationValue(cache)]
      /\ reset' = reset \cup {v \in {u} : Genuine /\ bus[v].configuration # 0}
  BY DEF SetConfiguration, Goto, Candidate
<1>2. /\ route = "bootloader" /\ MachineTyped /\ refs # {} /\ ref \in refs /\ outcome = "none" /\ reset = {}
      /\ ~claimed
  BY <1>1, InHand DEF OpeningInv, Holding, Opened
<1>3. /\ u \in Present /\ u \in Units /\ bus[u] \in Places /\ bus[u].layout \in Layouts /\ (u \in undisturbed => Genuine)
  BY <1>1, <1>2, HeldUnit, PlaceOf
<1>4. cache.configurations = Parsed[bus[u].layout].configurations /\ (Genuine => bus[u].configuration = 0)
  BY <1>1, <1>2 DEF OpeningInv, Configured
<1>5. FirstConfigurationValue(cache) = value
  BY <1>4 DEF FirstConfigurationValue
<1>6. value # 0 /\ value \in Configurations(bus[u].layout)
  BY <1>3, SelectsSome DEF Configurations
<1> HIDE DEF value
<1>7. /\ bus' = [bus EXCEPT ![u] = [bus[u] EXCEPT !.configuration = value]]
      /\ bus \in [Units -> {Off, Resetting} \cup Places]
  BY <1>1, <1>2, <1>5 DEF MachineTyped
<1>8. /\ bus'[u] \in Places /\ bus'[u].state = bus[u].state /\ bus'[u].layout = bus[u].layout
      /\ bus'[u].address = bus[u].address /\ bus'[u].access = bus[u].access /\ bus'[u].configuration = value
      /\ \A w \in Units \ {u} : bus'[w] = bus[w]
  <2>1. bus'[u] = [bus[u] EXCEPT !.configuration = value] /\ \A w \in Units \ {u} : bus'[w] = bus[w]
    BY <1>3, <1>7
  <2> QED
    BY <1>3, <1>6, <2>1 DEF Places
<1>9. \A w \in Units : /\ bus'[w].state = bus[w].state /\ bus'[w].layout = bus[w].layout
                       /\ bus'[w].address = bus[w].address /\ bus'[w].access = bus[w].access
                       /\ w # u => bus'[w].configuration = bus[w].configuration
  BY <1>8
<1>10. /\ \A w \in Units : On(w)' <=> On(w)
       /\ \A w \in Units : Ours(w)' <=> Ours(w)
       /\ Present' = Present
  BY <1>9 DEF On, Ours, ShapeOf, Present
<1>11. \A w \in undisturbed : Claimable(w)' => Claimable(w)
  <2> SUFFICES ASSUME NEW w \in undisturbed, Claimable(w)' PROVE Claimable(w)
    OBVIOUS
  <2>1. w \in Units
    BY <1>2 DEF MachineTyped, Present
  <2>2. CASE w # u
    BY <1>9, <2>1, <2>2 DEF Claimable, On, ShapeOf
  <2>3. CASE w = u
    <3>1. bus[u].configuration = 0
      BY <1>3, <1>4, <2>3
    <3> QED
      BY <1>6, <1>8, <1>9, <2>1, <2>3, <3>1 DEF Claimable, On, ShapeOf, value
  <2> QED
    BY <2>2, <2>3
<1>12. MachineTyped'
  <2>1. bus' \in [Units -> {Off, Resetting} \cup Places]
    BY <1>3, <1>7, <1>8
  <2> QED
    BY <1>1, <1>2, <1>9, <1>10, <2>1 DEF MachineTyped
<1>13. CommandTyped' /\ Whereabouts' /\ Holding' /\ reset' = {}
  BY <1>1, <1>2, <1>4 DEF OpeningInv, CommandTyped, ByPath, Whereabouts, Holding, Held, Candidate, Opened, looking, pass, portVars
<1>14. ref' = ref /\ UNCHANGED <<refs, route>>
  BY <1>1 DEF ref, pass, looking
<1>15. Seen'
  BY <1>1, <1>2, <1>9, <1>10, <1>14 DEF OpeningInv, Seen, MachineTyped, Present
<1>16. Remaining'
  BY <1>1, <1>2, <1>11, <1>14 DEF OpeningInv, Remaining, Held, Candidate, Opened
<1>17. Behind'
  BY <1>1, <1>2, <1>3, <1>9, <1>14 DEF OpeningInv, Behind, Held, Candidate, Genuine
<1>18. Configured' /\ Chosen' /\ Found' /\ Picked' /\ OpenedIsMeant'
  BY <1>1, <1>2, <1>6, <1>8, <1>14 DEF Configured, Chosen, Found, Picked, OpenedIsMeant, Opened, Genuine, portVars
<1> QED
  BY <1>12, <1>13, <1>15, <1>16, <1>17, <1>18 DEF OpeningInv

\* The verdict on a pass, which ends with no candidate left.
LEMMA VerdictKeeps ==
  ASSUME OpeningInv, GiveUp \/ WaitToRetry \/ Retry \/ Interrupted, UNCHANGED portVars
  PROVE  OpeningInv'
<1> USE DEF machine, usbVars, looking, pass, device, portVars
<1>1. /\ pc \in {"judge", "wait"} /\ UNCHANGED <<machine, usbVars, portVars>>
      /\ pc' \in {"wait", "enumerate", "end"}
      /\ pc' # "end" => outcome' = outcome
      /\ pc' = "end" => outcome' \in {"application", "window", "interrupted"}
  BY DEF GiveUp, WaitToRetry, Retry, Interrupted, Goto, End
<1>2. /\ route = "bootloader" /\ outcome = "none" /\ ~Held /\ refs = {} /\ reset = {}
      /\ file = NoFile /\ cache = None /\ face = None /\ ~claimed
  BY <1>1 DEF OpeningInv, CommandTyped, Whereabouts, Held, Candidate, Opened, Remaining, Holding
<1>3. ~Held'
  BY <1>1 DEF Held, Candidate, Opened
<1>4. MachineTyped' /\ CommandTyped' /\ Whereabouts' /\ Holding'
  BY <1>1, <1>2, <1>3 DEF OpeningInv, MachineTyped, CommandTyped, Whereabouts, Holding, On, Present, ByPath
<1>5. Seen'
  BY <1>1, <1>2 DEF Seen
<1>6. Remaining'
  <2>1. \A u \in undisturbed : ~Claimable(u)
    BY <1>2 DEF OpeningInv, Remaining
  <2>2. \A u \in undisturbed' : ~Claimable(u)'
    BY <1>1, <2>1 DEF Claimable, On, ShapeOf
  <2> QED
    BY <1>1, <1>2, <1>3, <2>2 DEF Remaining
<1>7. Behind' /\ Configured' /\ Chosen' /\ Found' /\ Picked' /\ OpenedIsMeant'
  BY <1>1, <1>2, <1>3 DEF Behind, Configured, Chosen, Found, Picked, OpenedIsMeant, NoFile
<1> QED
  BY <1>1, <1>2, <1>4, <1>5, <1>6, <1>7 DEF OpeningInv

\* Every step over usbfs keeps the invariant.
LEMMA UsbKeeps ==
  ASSUME OpeningInv, UsbStep, UNCHANGED portVars
  PROVE  OpeningInv'
BY EnumerateKeeps, OpenNodeKeeps, ReadConfigurationKeeps, ReadUnconfiguredKeeps, SetConfigurationKeeps,
   RefusedKeeps, ReadDescriptorsKeeps, ClaimKeeps, ClaimFailsKeeps, VerdictKeeps DEF UsbStep

-----------------------------------------------------------------------------
(* Over ALSA *)

\* What is known of a port says whose it is, as far as anybody can tell.
LEMMA TracedIs ==
  ASSUME MachineTyped, NEW u \in Present
  PROVE  /\ Traced(u) \in {"unknown", "ours", "other"}
         /\ Traced(u) = "ours" <=> Ours(u)
         /\ Traced(u) = "unknown" <=> ShapeOf(u).vendor = "virtual"
<1>1. ShapeOf(u).vendor \in {"ours", "other", "virtual"}
  BY PlaceOf, ShapeAssumption DEF ShapeOf
<1> QED
  BY <1>1 DEF Traced, Ours

\* The one card behind a path.
LEMMA BehindPath ==
  ASSUME MachineTyped, NEW p, NEW u, Plays(u, p)
  PROVE  CardAt(p.address) = {u} /\ u \in Present
BY AloneThere DEF Plays, CardAt, Cards

LEMMA EnrichedIs ==
  ASSUME MachineTyped, NEW p \in Port
  PROVE  /\ Enriched(p) \in Port /\ Enriched(p).address = p.address /\ Enriched(p).fallback = p.fallback
         /\ p.vendor # "unknown" => Enriched(p).vendor = p.vendor
         /\ p.named => Enriched(p).named
         /\ Enriched(p).vflex <=>
              Enriched(p).vendor = "ours" \/ (Enriched(p).vendor = "unknown" /\ Enriched(p).named)
         /\ \A u : Plays(u, p) /\ p.vendor = "unknown" => Enriched(p).vendor = Traced(u)
<1> DEFINE behind == CardAt(p.address)
           named == p.named \/ \E u \in behind : ShapeOf(u).named
           vendor == IF p.vendor # "unknown" \/ behind = {} THEN p.vendor ELSE Traced(CHOOSE u \in behind : TRUE)
           q == [p EXCEPT !.named = named, !.vendor = vendor]
<1>1. named \in BOOLEAN
  OBVIOUS
<1>2. vendor \in {"unknown", "ours", "other"}
  <2>1. CASE p.vendor # "unknown" \/ behind = {}
    BY <2>1 DEF Port
  <2>2. CASE ~(p.vendor # "unknown" \/ behind = {})
    <3>1. (CHOOSE u \in behind : TRUE) \in Present
      BY <2>2 DEF CardAt, Cards
    <3> QED
      BY <2>2, <3>1, TracedIs
  <2> QED
    BY <2>1, <2>2
<1>3. p.vendor # "unknown" => vendor = p.vendor
  OBVIOUS
<1>4. \A u : Plays(u, p) /\ p.vendor = "unknown" => vendor = Traced(u)
  <2> SUFFICES ASSUME NEW u, Plays(u, p), p.vendor = "unknown" PROVE vendor = Traced(u)
    OBVIOUS
  <2>1. behind = {u}
    BY BehindPath
  <2> QED
    BY <2>1
<1>5. p.named => named
  OBVIOUS
<1>6. Enriched(p) = Classified(q)
  BY DEF Enriched
<1> HIDE DEF behind, named, vendor
<1>7. q \in Port /\ q.address = p.address /\ q.named = named /\ q.vendor = vendor /\ q.fallback = p.fallback
  BY <1>1, <1>2 DEF Port
<1> HIDE DEF q
<1> DEFINE flex == IF q.vendor # "unknown" THEN q.vendor = "ours" ELSE q.named
<1>8. flex \in BOOLEAN /\ Classified(q) = [q EXCEPT !.vflex = flex]
  BY <1>1, <1>7 DEF Classified
<1>9. flex <=> q.vendor = "ours" \/ (q.vendor = "unknown" /\ q.named)
  BY <1>7
<1> HIDE DEF flex
<1>10. /\ Classified(q) \in Port /\ Classified(q).address = q.address /\ Classified(q).named = q.named
       /\ Classified(q).vendor = q.vendor /\ Classified(q).fallback = q.fallback /\ Classified(q).vflex = flex
  BY <1>7, <1>8 DEF Port
<1> QED
  BY <1>3, <1>4, <1>5, <1>6, <1>7, <1>9, <1>10

LEMMA UnnamedIs ==
  ASSUME NEW address, NEW vendor
  PROVE  /\ Unnamed(address, vendor).address = address /\ Unnamed(address, vendor).vendor = vendor
         /\ address \in Addresses /\ vendor \in {"unknown", "ours", "other"} => Unnamed(address, vendor) \in Port
BY DEF Unnamed, Port

\* A step over ALSA leaves the rest as it was.
LEMMA PortKeeps ==
  ASSUME OpeningInv, route = "rawmidi", bus' = bus, UNCHANGED usbVars, outcome' \notin {"window", "application"},
         pc' \in {"vendors", "nodes", "enrich", "choose", "again", "node", "acl", "end"},
         pc' # "end" => outcome' = "none",
         MachineTyped', ports' \in SUBSET Port, chosen' \in SUBSET Port, hint' = hint,
         ~Opened' => UNCHANGED file, Found', Picked', OpenedIsMeant', pc # "end"
  PROVE  OpeningInv'
<1> USE DEF usbVars, looking, pass, device
<1>1. refs = {} /\ reset = {} /\ outcome = "none" /\ ~Held
  BY DEF OpeningInv, Remaining, Whereabouts, Held, Candidate, Opened
<1>2. CommandTyped' /\ Whereabouts'
  BY DEF OpeningInv, CommandTyped, Whereabouts, ByPath
<1>3. Holding'
  <2>1. ~claimed /\ file = NoFile /\ cache = None /\ face = None
    BY <1>1 DEF OpeningInv, Holding, Held, Candidate
  <2>2. pc' \notin Candidate
    BY DEF Candidate
  <2> QED
    BY <2>1, <2>2 DEF Holding, Held
<1>4. Seen' /\ Remaining' /\ Behind' /\ Configured' /\ Chosen'
  BY <1>1 DEF Seen, Remaining, Behind, Configured, Chosen, Held, Candidate
<1> QED
  BY <1>1, <1>2, <1>3, <1>4 DEF OpeningInv

\* Where a command that looks for a port may stand.
LEMMA InPorts ==
  ASSUME OpeningInv, route = "rawmidi", pc # "end"
  PROVE  /\ outcome = "none" /\ MachineTyped /\ ports \in SUBSET Port /\ chosen \in SUBSET Port
         /\ (ByPath => hint.address \in Addresses)
         /\ \A u \in undisturbed : u \in Present
BY DEF OpeningInv, Whereabouts, CommandTyped, MachineTyped

\* A step that leaves the machine alone leaves it one, and undisturbed what was.
LEMMA MachineStays ==
  ASSUME MachineTyped, UNCHANGED machine
  PROVE  /\ MachineTyped' /\ Cards' = Cards /\ undisturbed' = undisturbed
         /\ \A u \in Present : Ours(u)' = Ours(u) /\ Traced(u)' = Traced(u) /\ ShapeOf(u)' = ShapeOf(u)
         /\ \A u, p : Plays(u, p)' <=> Plays(u, p)
BY DEF machine, MachineTyped, Present, On, Cards, Ours, Traced, ShapeOf, Plays

LEMMA DiscoverKeeps ==
  ASSUME OpeningInv, route = "rawmidi", DiscoverByVendor, UNCHANGED usbVars
  PROVE  OpeningInv'
<1>1. /\ pc = "vendors" /\ pc' = "nodes" /\ outcome' = outcome /\ UNCHANGED <<bus, file, hint>>
      /\ ports' = {Unnamed(bus[u].address, "ours") : u \in {u \in Cards : ShapeOf(u).vendor = "ours"}}
      /\ chosen' = {} /\ undisturbed' = Present
  BY DEF DiscoverByVendor, Goto
<1>2. outcome = "none" /\ MachineTyped
  BY <1>1, InPorts
<1>3. /\ Present' = Present /\ Cards' = Cards
      /\ \A u \in Present : (Ours(u)' <=> Ours(u)) /\ \A p : (Plays(u, p)' <=> Plays(u, p))
  BY <1>1 DEF Present, Cards, On, Ours, ShapeOf, Plays
<1>4. MachineTyped'
  BY <1>1, <1>2, <1>3 DEF MachineTyped, On
<1>5. \A p \in ports' : \E u \in Cards : Ours(u) /\ p = Unnamed(bus[u].address, "ours")
  BY <1>1 DEF Ours
<1>6. ports' \in SUBSET Port
  <2>1. \A u \in Cards : bus[u].address \in Addresses
    BY <1>2, PlaceOf DEF Cards
  <2> QED
    BY <1>5, <2>1, UnnamedIs
<1>7. Found'
  <2>1. ASSUME NEW u \in Present, u \in Cards, Ours(u) PROVE \E p \in ports' : p.address = bus'[u].address /\ p.vendor = "ours"
    <3>1. Unnamed(bus[u].address, "ours") \in ports'
      BY <1>1, <2>1 DEF Ours
    <3> QED
      BY <1>1, <3>1, UnnamedIs
  <2>2. ASSUME NEW p \in ports', NEW u \in Present, Plays(u, p) PROVE Ours(u) /\ p.vendor = "ours"
    <3>1. PICK w \in Cards : Ours(w) /\ p = Unnamed(bus[w].address, "ours")
      BY <1>5
    <3>2. bus[u].address = bus[w].address
      BY <2>2, <3>1, UnnamedIs DEF Plays
    <3>3. u = w
      BY <1>2, <3>2, AloneThere DEF Cards
    <3> QED
      BY <3>1, <3>3, UnnamedIs
  <2> QED
    BY <1>1, <1>3, <2>1, <2>2 DEF Found
<1>8. Picked' /\ OpenedIsMeant'
  BY <1>1, <1>2 DEF Picked, OpenedIsMeant
<1> QED
  BY <1>1, <1>2, <1>4, <1>6, <1>7, <1>8, PortKeeps

LEMMA SweepKeeps ==
  ASSUME OpeningInv, route = "rawmidi", SweepNodes, UNCHANGED usbVars
  PROVE  OpeningInv'
<1> DEFINE new == {Unnamed(bus[u].address, "unknown") : u \in {u \in Cards : \A p \in ports : p.address # bus[u].address}}
<1>1. /\ pc = "nodes" /\ pc' = "enrich" /\ outcome' = outcome /\ UNCHANGED <<machine, hint, chosen>>
      /\ ports' = ports \cup new
  BY DEF SweepNodes, Goto
<1>2. outcome = "none" /\ MachineTyped /\ ports \in SUBSET Port /\ chosen \in SUBSET Port /\ undisturbed \in SUBSET Present
  BY <1>1, InPorts
<1>3. bus' = bus /\ file' = file
  BY <1>1 DEF machine
<1>4. \A p \in new : p \in Port /\ p.vendor = "unknown"
  <2>1. \A u \in Cards : bus[u].address \in Addresses
    BY <1>2, PlaceOf DEF Cards
  <2> QED
    BY <2>1, UnnamedIs
<1>5. Found'
  <2>1. hint.by = "none" =>
          /\ \A u \in undisturbed : u \in Cards /\ Ours(u) => \E p \in ports : p.address = bus[u].address /\ p.vendor = "ours"
          /\ \A p \in ports : \A u \in undisturbed : Plays(u, p) /\ p.vendor # "unknown" => Ours(u) /\ p.vendor = "ours"
    BY <1>1 DEF OpeningInv, Found
  <2> HIDE DEF new
  <2> QED
    BY <1>1, <1>2, <1>3, <1>4, <2>1, MachineStays DEF Found
<1>6. Picked' /\ OpenedIsMeant'
  BY <1>1, <1>2 DEF Picked, OpenedIsMeant
<1> QED
  BY <1>1, <1>2, <1>3, <1>4, <1>5, <1>6, MachineStays, PortKeeps

LEMMA EnrichKeeps ==
  ASSUME OpeningInv, route = "rawmidi", Enrich, UNCHANGED usbVars
  PROVE  OpeningInv'
<1>1. /\ pc = "enrich" /\ pc' = "choose" /\ outcome' = outcome /\ UNCHANGED <<machine, hint, chosen>>
      /\ ports' = {Enriched(p) : p \in ports}
  BY DEF Enrich, Goto
<1>2. outcome = "none" /\ MachineTyped /\ ports \in SUBSET Port /\ chosen \in SUBSET Port /\ undisturbed \in SUBSET Present
  BY <1>1, InPorts
<1>3. bus' = bus /\ file' = file
  BY <1>1 DEF machine
<1>4. ports' \in SUBSET Port
  BY <1>1, <1>2, EnrichedIs
<1>5. Found'
  <2> SUFFICES ASSUME hint.by = "none"
               PROVE  /\ \A u \in undisturbed : u \in Cards /\ Ours(u) =>
                           \E q \in ports' : q.address = bus[u].address /\ q.vendor = "ours"
                      /\ \A q \in ports' :
                           /\ q.vflex <=> q.vendor = "ours" \/ (q.vendor = "unknown" /\ q.named)
                           /\ \A u \in undisturbed : Plays(u, q) => q.vendor = Traced(u)
    BY <1>1, <1>2, <1>3, MachineStays DEF Found
  <2>1. /\ \A u \in undisturbed : u \in Cards /\ Ours(u) => \E p \in ports : p.address = bus[u].address /\ p.vendor = "ours"
        /\ \A p \in ports : \A u \in undisturbed : Plays(u, p) /\ p.vendor # "unknown" => Ours(u) /\ p.vendor = "ours"
    BY <1>1 DEF OpeningInv, Found
  <2>2. ASSUME NEW u \in undisturbed, u \in Cards, Ours(u)
        PROVE  \E q \in ports' : q.address = bus[u].address /\ q.vendor = "ours"
    <3>1. PICK p \in ports : p.address = bus[u].address /\ p.vendor = "ours"
      BY <2>1, <2>2
    <3>2. Enriched(p) \in ports' /\ Enriched(p).address = bus[u].address /\ Enriched(p).vendor = "ours"
      BY <1>1, <1>2, <3>1, EnrichedIs
    <3> QED
      BY <3>2
  <2>3. ASSUME NEW q \in ports'
        PROVE  /\ q.vflex <=> q.vendor = "ours" \/ (q.vendor = "unknown" /\ q.named)
               /\ \A u \in undisturbed : Plays(u, q) => q.vendor = Traced(u)
    <3>1. PICK p \in ports : q = Enriched(p)
      BY <1>1
    <3>2. p \in Port /\ q.address = p.address
      BY <1>2, <3>1, EnrichedIs
    <3>3. ASSUME NEW u \in undisturbed, Plays(u, q) PROVE q.vendor = Traced(u)
      <4>1. Plays(u, p) /\ u \in Present
        BY <1>2, <3>2, <3>3 DEF Plays
      <4>2. CASE p.vendor = "unknown"
        BY <1>2, <3>1, <3>2, <4>1, <4>2, EnrichedIs
      <4>3. CASE p.vendor # "unknown"
        <5>1. Ours(u) /\ p.vendor = "ours" /\ q.vendor = p.vendor
          BY <1>2, <2>1, <3>1, <3>2, <4>1, <4>3, EnrichedIs
        <5> QED
          BY <1>2, <4>1, <5>1, TracedIs
      <4> QED
        BY <4>2, <4>3
    <3> QED
      BY <1>2, <3>1, <3>2, <3>3, EnrichedIs
  <2> QED
    BY <2>2, <2>3
<1>6. Picked' /\ OpenedIsMeant'
  BY <1>1, <1>2 DEF Picked, OpenedIsMeant
<1> QED
  BY <1>1, <1>2, <1>3, <1>4, <1>5, <1>6, MachineStays, PortKeeps

\* The port that is selected is our only one, or that of a card nobody can trace.
LEMMA SelectKeeps ==
  ASSUME OpeningInv, route = "rawmidi", Select, UNCHANGED usbVars
  PROVE  OpeningInv'
<1> DEFINE picks == Candidates(ports)
<1>1. /\ pc = "choose" /\ UNCHANGED <<machine, hint, ports>>
      /\ \/ Sole(picks) /\ chosen' = picks /\ pc' = "again" /\ outcome' = outcome
         \/ pc' = "end" /\ outcome' \in {"ambiguous", "absent"} /\ chosen' = chosen
  BY DEF Select, Goto, End
<1>2. outcome = "none" /\ MachineTyped /\ ports \in SUBSET Port /\ chosen \in SUBSET Port /\ undisturbed \in SUBSET Present
  BY <1>1, InPorts
<1>3. bus' = bus /\ file' = file
  BY <1>1 DEF machine
<1>4. SolePort(ports) \in SUBSET Port
  <2>1. \A p \in Port : [p EXCEPT !.fallback = TRUE] \in Port
    BY DEF Port
  <2> QED
    BY <1>2, <2>1 DEF SolePort
<1>5. picks \in SUBSET Port
  BY <1>2, <1>4 DEF Candidates, Best, Confirmed, VFlex
<1>6. Picked'
  <2> SUFFICES ASSUME hint.by = "none", pc' = "again", NEW p \in chosen'
               PROVE  /\ p.vflex /\ p.vendor = "unknown" => p.named
                      /\ \A u \in undisturbed :
                           /\ u \in Cards /\ Ours(u) => p.address = bus[u].address
                           /\ Plays(u, p) => Ours(u) \/ (ShapeOf(u).vendor = "virtual" /\ Warning(p) # "nothing")
    BY <1>1, <1>2, <1>3, MachineStays DEF Picked, Warning
  <2>1. Sole(picks) /\ p \in picks /\ picks = (IF Best(ports) # {} THEN Best(ports) ELSE SolePort(ports))
    BY <1>1 DEF Candidates
  <2>2. /\ \A u \in undisturbed : u \in Cards /\ Ours(u) => \E q \in ports : q.address = bus[u].address /\ q.vendor = "ours"
        /\ \A q \in ports :
             /\ q.vflex <=> q.vendor = "ours" \/ (q.vendor = "unknown" /\ q.named)
             /\ \A u \in undisturbed : Plays(u, q) => q.vendor = Traced(u)
    BY <1>1 DEF OpeningInv, Found
  <2> HIDE DEF picks
  \* The one it is, in ports.
  <2>3. PICK q \in ports : /\ p.address = q.address /\ p.vendor = q.vendor /\ p.vflex = q.vflex /\ p.named = q.named
                           /\ q.vflex \/ (p.fallback /\ q.vendor \in {"unknown", "ours"})
    <3>1. CASE Best(ports) # {}
      <4>1. p \in ports /\ p.vflex
        BY <2>1, <3>1 DEF Best, Confirmed, VFlex
      <4> QED
        BY <4>1
    <3>2. CASE Best(ports) = {}
      <4>1. PICK q \in ports : p = [q EXCEPT !.fallback = TRUE] /\ q.vendor \in {"unknown", "ours"}
        BY <2>1, <3>2 DEF SolePort
      <4>2. q \in Port
        BY <1>2
      <4>3. p.address = q.address /\ p.vendor = q.vendor /\ p.vflex = q.vflex /\ p.named = q.named /\ p.fallback
        BY <4>1, <4>2 DEF Port
      <4> QED
        BY <4>1, <4>3
    <3> QED
      BY <3>1, <3>2
  <2>4. p.vflex /\ p.vendor = "unknown" => p.named
    BY <2>2, <2>3
  <2>5. ASSUME NEW u \in undisturbed, u \in Cards, Ours(u) PROVE p.address = bus[u].address
    <3>1. PICK r \in ports : r.address = bus[u].address /\ r.vendor = "ours"
      BY <2>2, <2>5
    <3>2. r \in Confirmed(ports)
      BY <2>2, <3>1 DEF Confirmed, VFlex
    <3>3. r \in picks
      BY <2>1, <3>2 DEF Best
    <3> QED
      BY <2>1, <3>1, <3>3 DEF Sole
  <2>6. ASSUME NEW u \in undisturbed, Plays(u, p) PROVE Ours(u) \/ (ShapeOf(u).vendor = "virtual" /\ Warning(p) # "nothing")
    <3>1. Plays(u, q) /\ u \in Present
      BY <1>2, <2>3, <2>6 DEF Plays
    <3>2. p.vendor = Traced(u)
      BY <2>2, <2>3, <3>1
    <3>3. p.vendor \in {"unknown", "ours"}
      BY <2>2, <2>3
    <3>4. p.vendor = "unknown" => Warning(p) # "nothing"
      BY <2>3 DEF Warning
    <3> QED
      BY <1>2, <3>1, <3>2, <3>3, <3>4, TracedIs
  <2> QED
    BY <2>4, <2>5, <2>6
<1>7. Found' /\ OpenedIsMeant'
  BY <1>1, <1>2 DEF Found, OpenedIsMeant
<1> QED
  BY <1>1, <1>2, <1>3, <1>5, <1>6, <1>7, MachineStays, PortKeeps

LEMMA EnrichAgainKeeps ==
  ASSUME OpeningInv, route = "rawmidi", EnrichAgain, UNCHANGED usbVars
  PROVE  OpeningInv'
<1>1. /\ pc = "again" /\ pc' = "node" /\ outcome' = outcome /\ UNCHANGED <<machine, hint, ports>>
      /\ chosen' = {Enriched(p) : p \in chosen}
  BY DEF EnrichAgain, Goto
<1>2. outcome = "none" /\ MachineTyped /\ ports \in SUBSET Port /\ chosen \in SUBSET Port /\ undisturbed \in SUBSET Present
  BY <1>1, InPorts
<1>3. bus' = bus /\ file' = file
  BY <1>1 DEF machine
<1>4. chosen' \in SUBSET Port
  BY <1>1, <1>2, EnrichedIs
<1>5. Picked'
  <2> SUFFICES ASSUME hint.by = "none", NEW q \in chosen'
               PROVE  /\ q.vflex /\ q.vendor = "unknown" => q.named
                      /\ \A u \in undisturbed :
                           /\ u \in Cards /\ Ours(u) => q.address = bus[u].address
                           /\ Plays(u, q) => Ours(u) \/ (ShapeOf(u).vendor = "virtual" /\ Warning(q) # "nothing")
    BY <1>1, <1>2, <1>3, MachineStays DEF Picked, Warning
  <2>1. PICK p \in chosen : q = Enriched(p)
    BY <1>1
  <2>2. /\ p \in Port /\ q \in Port /\ q.address = p.address /\ q.fallback = p.fallback
        /\ p.vendor # "unknown" => q.vendor = p.vendor
        /\ p.named => q.named
        /\ q.vflex <=> q.vendor = "ours" \/ (q.vendor = "unknown" /\ q.named)
        /\ \A u : Plays(u, p) /\ p.vendor = "unknown" => q.vendor = Traced(u)
    BY <1>2, <2>1, EnrichedIs
  <2>3. /\ p.vflex /\ p.vendor = "unknown" => p.named
        /\ \A u \in undisturbed :
             /\ u \in Cards /\ Ours(u) => p.address = bus[u].address
             /\ Plays(u, p) => Ours(u) \/ (ShapeOf(u).vendor = "virtual" /\ Warning(p) # "nothing")
    BY <1>1 DEF OpeningInv, Picked
  <2>4. ASSUME NEW u \in undisturbed, Plays(u, q), ~Ours(u)
        PROVE  ShapeOf(u).vendor = "virtual" /\ Warning(q) # "nothing"
    <3>1. Plays(u, p) /\ u \in Present
      BY <1>2, <2>2, <2>4 DEF Plays
    <3>2. ShapeOf(u).vendor = "virtual" /\ Warning(p) # "nothing"
      BY <2>3, <2>4, <3>1
    <3>3. p.fallback \/ (p.vflex /\ p.vendor = "unknown")
      BY <3>2 DEF Warning
    <3>4. CASE p.fallback
      BY <2>2, <3>2, <3>4 DEF Warning
    <3>5. CASE p.vflex /\ p.vendor = "unknown"
      <4>1. q.vendor = "unknown"
        BY <1>2, <2>2, <3>1, <3>2, <3>5, TracedIs
      <4> QED
        BY <2>2, <2>3, <3>2, <3>5, <4>1 DEF Warning
    <3> QED
      BY <3>3, <3>4, <3>5
  <2> QED
    BY <2>2, <2>3, <2>4
<1>6. Found' /\ OpenedIsMeant'
  BY <1>1, <1>2 DEF Found, OpenedIsMeant
<1> QED
  BY <1>1, <1>2, <1>3, <1>4, <1>5, <1>6, MachineStays, PortKeeps

LEMMA TakePathKeeps ==
  ASSUME OpeningInv, route = "rawmidi", TakePath, UNCHANGED usbVars
  PROVE  OpeningInv'
<1>1. /\ pc = "vendors" /\ pc' = "node" /\ outcome' = outcome /\ UNCHANGED <<machine, hint, ports>>
      /\ ByPath /\ chosen' = {Unnamed(hint.address, "unknown")}
  BY DEF TakePath, Goto
<1>2. /\ outcome = "none" /\ MachineTyped /\ ports \in SUBSET Port /\ undisturbed \in SUBSET Present
      /\ hint.address \in Addresses
  BY <1>1, InPorts
<1>3. bus' = bus /\ file' = file
  BY <1>1 DEF machine
<1>4. chosen' \in SUBSET Port
  BY <1>1, <1>2, UnnamedIs
<1>5. Picked' /\ Found' /\ OpenedIsMeant'
  BY <1>1, <1>2 DEF Found, OpenedIsMeant, Picked, ByPath
<1> QED
  BY <1>1, <1>2, <1>3, <1>4, <1>5, MachineStays, PortKeeps

\* What is opened is what is behind the path by now.
LEMMA OpenPortKeeps ==
  ASSUME OpeningInv, route = "rawmidi", OpenPort, UNCHANGED usbVars
  PROVE  OpeningInv'
<1>1. PICK p \in chosen : \E u \in CardAt(p.address) \cap Openable(p.address) :
         file' = [unit |-> u, live |-> TRUE] /\ warned' = IF ByPath THEN "nothing" ELSE Warning(p)
  BY DEF OpenPort
<1>2. PICK u \in CardAt(p.address) \cap Openable(p.address) :
         file' = [unit |-> u, live |-> TRUE] /\ warned' = IF ByPath THEN "nothing" ELSE Warning(p)
  BY <1>1
<1>3. pc = "node" /\ pc' = "end" /\ outcome' = "opened" /\ UNCHANGED <<bus, hotplugs, undisturbed, hint, ports, chosen>>
  BY DEF OpenPort, End
<1>4. /\ outcome = "none" /\ MachineTyped /\ ports \in SUBSET Port /\ chosen \in SUBSET Port
      /\ undisturbed \in SUBSET Present
  BY <1>3, InPorts
<1>5. u \in Units /\ u \in Present /\ Plays(u, p) /\ file'.unit = u /\ file'.live = TRUE
  BY <1>2 DEF CardAt, Plays, Cards, Present
<1>6. MachineTyped'
  BY <1>2, <1>3, <1>4, <1>5 DEF MachineTyped, Present, On
<1>7. Found' /\ Picked' /\ Opened'
  BY <1>3 DEF Found, Picked, Opened
<1>8. OpenedIsMeant'
  <2> SUFFICES ASSUME hint.by = "none"
               PROVE  /\ \A w \in undisturbed : Ours(w) /\ ShapeOf(w).card => w = u
                      /\ u \in undisturbed => Ours(u) \/ (ShapeOf(u).vendor = "virtual" /\ Warning(p) # "nothing")
    BY <1>2, <1>3, <1>5 DEF OpenedIsMeant, ByPath, Ours, ShapeOf, usbVars, looking
  <2>1. \A w \in undisturbed : /\ w \in Cards /\ Ours(w) => p.address = bus[w].address
                               /\ Plays(w, p) => Ours(w) \/ (ShapeOf(w).vendor = "virtual" /\ Warning(p) # "nothing")
    BY <1>3 DEF OpeningInv, Picked
  <2>2. ASSUME NEW w \in undisturbed, Ours(w), ShapeOf(w).card PROVE w = u
    <3>1. w \in Present /\ bus[w].address = bus[u].address
      BY <1>4, <1>5, <2>1, <2>2 DEF Cards, Plays
    <3> QED
      BY <1>4, <1>5, <3>1, AloneThere
  <2> QED
    BY <1>5, <2>1, <2>2
<1> QED
  BY <1>3, <1>4, <1>6, <1>7, <1>8, PortKeeps

\* Every step over ALSA keeps the invariant.
LEMMA AlsaKeeps ==
  ASSUME OpeningInv, route = "rawmidi", PortStep, UNCHANGED usbVars
  PROVE  OpeningInv'
<1>1. CASE NodeAbsent \/ AskAgain \/ PortRefused \/ PollAgain \/ PollCancelled
  <2>1. /\ pc \in {"node", "acl"} /\ pc' \in {"acl", "vendors", "end"} /\ UNCHANGED <<machine, portVars>>
        /\ pc' = "end" => outcome' \in {"absent", "permission"}
        /\ pc' # "end" => outcome' = outcome
    BY <1>1 DEF NodeAbsent, AskAgain, PortRefused, PollAgain, PollCancelled, Goto, End
  <2>2. outcome = "none" /\ MachineTyped /\ ports \in SUBSET Port /\ chosen \in SUBSET Port
    BY <2>1, InPorts
  <2>3. Found' /\ Picked' /\ OpenedIsMeant'
    BY <2>1, <2>2 DEF Found, Picked, OpenedIsMeant
  <2> QED
    BY <2>1, <2>2, <2>3, MachineStays, PortKeeps DEF portVars, machine
<1> QED
  BY <1>1, DiscoverKeeps, SweepKeeps, EnrichKeeps, SelectKeeps, EnrichAgainKeeps, TakePathKeeps, OpenPortKeeps
     DEF PortStep

-----------------------------------------------------------------------------
(* All of it *)

LEMMA MachineKeeps ==
  ASSUME OpeningInv, Machine
  PROVE  OpeningInv'
<1>1. pc # "end" /\ UNCHANGED <<usbVars, portVars>> /\ MachineTyped
  BY DEF Machine, OpeningInv
<1>2. CASE Hotplug
  BY <1>1, <1>2, HotplugIsWeather, WeatherKeeps DEF command
<1>3. CASE Cancel \/ Expire
  <2>1. UNCHANGED <<machine, pc, outcome>>
    BY <1>3 DEF Cancel, Expire
  <2>2. MachineTyped' /\ Weather
    BY <1>1, <2>1, MachineStays DEF Weather, Stays, machine, MachineTyped, On
  <2> QED
    BY <1>1, <2>1, <2>2, WeatherKeeps
<1> QED
  BY <1>2, <1>3 DEF Machine

LEMMA OpeningKeeps ==
  ASSUME OpeningInv, [OpeningNext]_openingVars
  PROVE  OpeningInv'
<1>1. CASE OverUsb
  BY <1>1, UsbKeeps DEF OverUsb
<1>2. CASE OverAlsa
  BY <1>2, AlsaKeeps DEF OverAlsa
<1>3. CASE Machine
  BY <1>3, MachineKeeps
<1>4. CASE UNCHANGED openingVars
  BY <1>4 DEF openingVars, machine, command, usbVars, looking, device, pass, portVars, OpeningInv, MachineTyped,
     CommandTyped, ByPath, Whereabouts, Holding, Seen, Remaining, Behind, Configured, Chosen, Found, Picked,
     OpenedIsMeant, Held, Opened, Present, On, Ours, ShapeOf, Claimable, Genuine, ref, InForce, Plays, Cards,
     Traced, Warning
<1> QED
  BY <1>1, <1>2, <1>3, <1>4 DEF OpeningNext

\* The state is typed and the command knows of the bus what OpeningInv says, on
\* any machine, with any number of units, addresses and events.
THEOREM OpeningInvariant == OpeningSpec => []OpeningInv
<1>1. OpeningInit => OpeningInv
  BY InitOpening
<1>2. OpeningInv /\ [OpeningNext]_openingVars => OpeningInv'
  BY OpeningKeeps
<1> QED
  BY <1>1, <1>2, PTL DEF OpeningSpec

\* What is claimed to be flashed is one of ours in its bootloader, claimed on an
\* interface of its configuration; and none is made to reset.
THEOREM ClaimsABootloader == OpeningSpec => []ClaimsOnlyABootloader
<1>1. OpeningInv => ClaimsOnlyABootloader
  <2> SUFFICES ASSUME OpeningInv PROVE ClaimsOnlyABootloader
    OBVIOUS
  <2>1. reset = {} /\ (claimed => pc = "alt" \/ Opened)
    BY DEF OpeningInv, Holding
  <2> QED
    BY <2>1 DEF ClaimsOnlyABootloader, OpeningInv, Chosen, Ours
<1> QED
  BY <1>1, OpeningInvariant, PTL

\* What is opened without --port is the only VFLEX there was.
THEOREM OpensTheOnlyOne == OpeningSpec => []OpenedIsMeant
<1>1. OpeningInv => OpenedIsMeant
  BY DEF OpeningInv
<1> QED
  BY <1>1, OpeningInvariant, PTL

\* No unit that could be flashed is given up on.
THEOREM NoneReadyIsGivenUp == OpeningSpec => []ReadyIsClaimed
<1>1. OpeningInv => ReadyIsClaimed
  BY DEF OpeningInv, Whereabouts, Remaining, ReadyIsClaimed
<1> QED
  BY <1>1, OpeningInvariant, PTL

\* A command that fails leaves nothing open and nothing claimed, and neither
\* does a candidate that it moves on from.
THEOREM NothingLeftOpen ==
  OpeningSpec => [](pc = "open" \/ (pc = "end" /\ outcome # "opened") => file = NoFile /\ ~claimed)
<1>1. OpeningInv => (pc = "open" \/ (pc = "end" /\ outcome # "opened") => file = NoFile /\ ~claimed)
  BY DEF OpeningInv, Holding, Held, Opened, Candidate
<1> QED
  BY <1>1, OpeningInvariant, PTL
=============================================================================
