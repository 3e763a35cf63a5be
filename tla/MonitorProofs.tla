--------------------------- MODULE MonitorProofs ----------------------------
(***************************************************************************)
(* Theorems about the receiving side.  Of Monitor, for any kinds and       *)
(* number of frames, capacity of the frames channel and number of callers  *)
(* of Close, and whether or not a read may outlive the close of its port.  *)
(* Of Decoder, for every byte stream and every frame cap.  Of MidiStream,  *)
(* for any frames, noise and transfer size.                                *)
(***************************************************************************)
EXTENDS Monitor, MidiStream, SequenceTheorems, WellFoundedInduction, TLAPS

Reading == {"absent", "read", "publish"}
First == {"signal", "closePort", "wait", "ok", "stuck"}

\* The parts of the framer's state and of the monitor's.
MonTypes ==
  /\ TypeOK
  /\ sent \in Seq(Frames) /\ shown \in Seq(Frames)
  /\ mon \in {"start", "loop", "drain", "closing", "returned"}

\* One goroutine at a time owns the channels: the reader from Start on, and else
\* the first caller of Close.
Ownership ==
  /\ started <=> reader # "absent"
  /\ reader \in {"read", "publish", "closeErrs"} => errsOpen /\ framesOpen /\ ~readerExit
  /\ reader = "closeFrames" => framesOpen /\ ~readerExit
  /\ reader = "closeExit" => ~readerExit
  /\ reader = "absent" /\ (\A k \in Closers : closer[k] \notin {"wait", "ok", "stuck"}) =>
       errsOpen /\ framesOpen /\ ~readerExit
  /\ ~closed => ~done /\ \A k \in Closers : closer[k] = "idle"
  /\ \A k, l \in Closers : closer[k] \in First /\ closer[l] \in First => k = l
  /\ \A k \in Closers : closer[k] \in {"ok", "okLater"} => readerExit

Received == shown \o frames \o held

\* Where every frame that was sent is.
Account ==
  /\ reader = "publish" <=> held # <<>>
  /\ \E rest \in Seq(Frames) : Received \o rest = sent
  /\ reader \in Reading \/ ~done => Received \o wire = sent

\* A reader that leaves by itself leaves an error behind, which the monitor meets.
Cause ==
  /\ reader \in Reading => errs = 0
  /\ reader \notin Reading /\ ~done => terminal \/ errs > 0
  /\ mon \in {"drain", "returned"} /\ ~ctxDone /\ ~closed =>
       ~framesOpen /\ ~errsOpen /\ frames = <<>> /\ errs = 0

IInv == MonTypes /\ Ownership /\ Account /\ Cause

USE FramerAssumption, MonitorAssumption

(* Sequences: what a step of the pipeline does to the whole of it. *)

\* The pipeline may be split anywhere.
LEMMA Associative == \A a, b, c \in Seq(Frames) : (a \o b) \o c = a \o (b \o c)
BY ConcatAssociative

\* A frame that moves from the front of one sequence to the end of the one before it
\* leaves the whole as it was.
LEMMA MoveHead ==
  ASSUME NEW S, NEW a \in Seq(S), NEW b \in Seq(S), b # <<>>
  PROVE  Append(a, Head(b)) \o Tail(b) = a \o b
<1>1. Head(b) \in S /\ Tail(b) \in Seq(S) /\ <<Head(b)>> \in Seq(S)
  BY HeadTailProperties
<1>2. b = <<Head(b)>> \o Tail(b)
  BY <1>1, Z3
<1>3. Append(a, Head(b)) \o Tail(b) = a \o (<<Head(b)>> \o Tail(b))
  BY <1>1, AppendIsConcat, ConcatAssociative
<1> QED
  BY <1>2, <1>3

\* Cutting a sequence in two and joining it again gives it back.
LEMMA CutJoin ==
  ASSUME NEW S, NEW s \in Seq(S), NEW n \in 1 .. Len(s)
  PROVE  SubSeq(s, 1, n) \o SubSeq(s, n + 1, Len(s)) = s
<1>1. SubSeq(s, 1, n) \o SubSeq(s, n + 1, Len(s)) = SubSeq(s, 1, Len(s))
  BY ConcatAdjacentSubSeq
<1> QED
  BY <1>1, SubSeqFull

\* What a sequence begins with is a prefix of it.
LEMMA BeginningIsPrefix ==
  ASSUME NEW S, NEW a \in Seq(S), NEW b \in Seq(S)
  PROVE  IsPrefix(a, a \o b)
<1>1. Len(a) \in Nat /\ Len(b) \in Nat /\ Len(a) <= Len(a \o b)
  BY LenProperties, ConcatProperties
<1>2. \A i \in 1 .. Len(a) : (a \o b)[i] = a[i]
  BY <1>1, ConcatProperties
<1> QED
  BY <1>1, <1>2 DEF IsPrefix

\* Every step keeps the types.
LEMMA MonTypesStep ==
  ASSUME MonTypes, Account, [Next]_vars
  PROVE  MonTypes'
<1> USE DEF MonTypes, TypeOK, monVars, framerVars, chanVars, lifeVars, ErrCap, ReaderSteps,
      CloserSteps
<1>1. CASE DeviceSends
  BY <1>1 DEF DeviceSends
<1>2. CASE MonUnplug
  BY <1>2 DEF MonUnplug, Unplug
<1>3. CASE Interrupt
  BY <1>3 DEF Interrupt
<1>4. CASE MonStart
  BY <1>4 DEF MonStart, Start, StartReader
<1>5. CASE MonFrame
  BY <1>5 DEF MonFrame, ReceiveFrame
<1>6. CASE MonErr
  BY <1>6 DEF MonErr, ReceiveErr
<1>7. CASE MonDrain
  BY <1>7 DEF MonDrain
<1>8. CASE MonReturn
  BY <1>8 DEF MonReturn
<1>9. CASE MonReader /\ ReadFrames
  <2>1. PICK i \in 1 .. Len(wire) :
          held' = SubSeq(wire, 1, i) /\ wire' = SubSeq(wire, i + 1, Len(wire))
    BY <1>9 DEF ReadFrames
  <2>2. held' \in Seq(Frames) /\ wire' \in Seq(Frames)
    BY <2>1, SubSeqProperties, ElementOfSeq
  <2> QED
    BY <1>9, <2>2 DEF MonReader, ReadFrames
<1>10. CASE MonReader /\ Publish
  <2>1. held # <<>> /\ Len(frames) < FrameCap
    BY <1>10 DEF Account, Publish, PublishHead
  <2>2. /\ Head(held) \in Frames /\ held' \in Seq(Frames)
        /\ frames' = Append(frames, Head(held))
    BY <1>10, <2>1, HeadTailProperties DEF Publish, PublishHead
  <2>3. frames' \in Seq(Frames) /\ Len(frames') <= FrameCap
    BY <2>1, <2>2, AppendProperties
  <2> QED
    BY <1>10, <2>2, <2>3 DEF MonReader, Publish, PublishHead
<1>11. CASE MonReader /\ ReaderLeaves
  <2>1. CASE ReadError
    BY <1>11, <2>1 DEF MonReader, ReadError
  <2>2. CASE AbandonPublish
    BY <1>11, <2>2 DEF MonReader, AbandonPublish
  <2>3. CASE CloseErrs \/ CloseFrames \/ CloseExit
    BY <1>11, <2>3 DEF MonReader, CloseErrs, CloseFrames, CloseExit
  <2> QED
    BY <1>11, <2>1, <2>2, <2>3 DEF ReaderLeaves
<1>12. ASSUME NEW k \in Closers, MonClose(k) PROVE MonTypes'
  <2>1. ASSUME NEW step \in CloserSteps PROVE [closer EXCEPT ![k] = step] \in [Closers -> CloserSteps]
    OBVIOUS
  <2>2. closer' \in [Closers -> CloserSteps]
    BY <1>12, <2>1 DEF MonClose, CloseStep, CloseEnter, CloseSignal, ClosePort, CloseReturns,
          CloseGivesUp, Goto
  <2>3. CASE CloseEnter(k)
    BY <1>12, <2>2, <2>3 DEF MonClose, CloseEnter
  <2>6. CASE CloseSignal(k)
    BY <1>12, <2>2, <2>6 DEF MonClose, CloseSignal
  <2>4. CASE ClosePort(k)
    BY <1>12, <2>2, <2>4 DEF MonClose, ClosePort
  <2>5. CASE CloseReturns(k) \/ CloseGivesUp(k)
    BY <1>12, <2>2, <2>5 DEF MonClose, CloseReturns, CloseGivesUp
  <2> QED
    BY <1>12, <2>3, <2>4, <2>5, <2>6 DEF MonClose, CloseStep
<1>13. CASE UNCHANGED vars
  BY <1>13 DEF vars
<1> QED
  BY <1>1, <1>2, <1>3, <1>4, <1>5, <1>6, <1>7, <1>8, <1>9, <1>10, <1>11, <1>12, <1>13
  DEF Next, MonReader, Reader

\* Every step leaves the channels with one owner.
LEMMA OwnershipStep ==
  ASSUME MonTypes, Ownership, [Next]_vars
  PROVE  Ownership'
<1> USE DEF Ownership, First, monVars, framerVars, chanVars, lifeVars
<1>1. CASE DeviceSends
  BY <1>1 DEF DeviceSends
<1>2. CASE MonUnplug
  BY <1>2 DEF MonUnplug, Unplug
<1>3. CASE Interrupt
  BY <1>3 DEF Interrupt
<1>4. CASE MonStart
  BY <1>4 DEF MonStart, Start, StartReader
<1>5. CASE MonFrame
  BY <1>5 DEF MonFrame, ReceiveFrame
<1>6. CASE MonErr
  BY <1>6 DEF MonErr, ReceiveErr
<1>7. CASE MonDrain
  BY <1>7 DEF MonDrain
<1>8. CASE MonReturn
  BY <1>8 DEF MonReturn
<1>9. CASE MonReader /\ ReadFrames
  BY <1>9 DEF MonReader, ReadFrames
<1>10. CASE MonReader /\ Publish
  BY <1>10 DEF MonReader, Publish, PublishHead
<1>11. CASE MonReader /\ ReaderLeaves
  BY <1>11 DEF MonReader, ReaderLeaves, AbandonPublish, ReadError, CloseErrs, CloseFrames, CloseExit
<1>12. ASSUME NEW k \in Closers, MonClose(k) PROVE Ownership'
  <2> USE DEF MonTypes, TypeOK, CloserSteps, Goto
  <2>1. CASE CloseEnter(k)
    BY <2>1 DEF CloseEnter
  <2>2. CASE CloseSignal(k)
    BY <2>2 DEF CloseSignal
  <2>3. CASE ClosePort(k)
    BY <2>3 DEF ClosePort
  <2>4. CASE CloseReturns(k)
    BY <2>4 DEF CloseReturns
  <2>5. CASE CloseGivesUp(k)
    BY <2>5 DEF CloseGivesUp
  <2> QED
    BY <1>12, <2>1, <2>2, <2>3, <2>4, <2>5 DEF MonClose, CloseStep
<1>13. CASE UNCHANGED vars
  BY <1>13 DEF vars
<1> QED
  BY <1>1, <1>2, <1>3, <1>4, <1>5, <1>6, <1>7, <1>8, <1>9, <1>10, <1>11, <1>12, <1>13
  DEF Next, MonReader, Reader

\* Every step keeps the error a reader leaves behind.
LEMMA CauseStep ==
  ASSUME MonTypes, Ownership, Cause, [Next]_vars
  PROVE  Cause'
<1> USE DEF Cause, Ownership, Reading, MonTypes, TypeOK, ErrCap, monVars, framerVars, chanVars,
      lifeVars
<1>1. CASE DeviceSends
  BY <1>1 DEF DeviceSends
<1>2. CASE MonUnplug
  BY <1>2 DEF MonUnplug, Unplug
<1>3. CASE Interrupt
  BY <1>3 DEF Interrupt
<1>4. CASE MonStart
  BY <1>4 DEF MonStart, Start, StartReader
<1>5. CASE MonFrame
  BY <1>5 DEF MonFrame, ReceiveFrame
<1>6. CASE MonErr
  BY <1>6 DEF MonErr, ReceiveErr
<1>7. CASE MonDrain
  BY <1>7 DEF MonDrain, FramesExhausted, ErrsExhausted
<1>8. CASE MonReturn
  BY <1>8 DEF MonReturn
<1>9. CASE MonReader /\ ReadFrames
  BY <1>9 DEF MonReader, ReadFrames
<1>10. CASE MonReader /\ Publish
  BY <1>10 DEF MonReader, Publish, PublishHead
<1>11. CASE MonReader /\ ReaderLeaves
  BY <1>11 DEF MonReader, ReaderLeaves, AbandonPublish, ReadError, CloseErrs, CloseFrames, CloseExit
<1>12. ASSUME NEW k \in Closers, MonClose(k) PROVE Cause'
  BY <1>12 DEF MonClose, CloseStep, CloseEnter, CloseSignal, ClosePort, CloseReturns,
        CloseGivesUp, Goto
<1>13. CASE UNCHANGED vars
  BY <1>13 DEF vars
<1> QED
  BY <1>1, <1>2, <1>3, <1>4, <1>5, <1>6, <1>7, <1>8, <1>9, <1>10, <1>11, <1>12, <1>13
  DEF Next, MonReader, Reader

\* Every step accounts for every frame.
LEMMA AccountStep ==
  ASSUME MonTypes, MonTypes', Ownership, Account, [Next]_vars
  PROVE  Account'
<1> USE DEF monVars, framerVars, chanVars, lifeVars
<1> DEFINE Pipe == shown \o frames
<1> HIDE DEF Pipe
<1>1. /\ shown \in Seq(Frames) /\ sent \in Seq(Frames) /\ frames \in Seq(Frames)
      /\ held \in Seq(Frames) /\ wire \in Seq(Frames)
      /\ shown' \in Seq(Frames) /\ sent' \in Seq(Frames) /\ frames' \in Seq(Frames)
      /\ held' \in Seq(Frames) /\ wire' \in Seq(Frames)
  BY DEF MonTypes, TypeOK
<1>2. /\ Pipe \in Seq(Frames) /\ Received \in Seq(Frames)
      /\ Pipe' \in Seq(Frames) /\ Received' \in Seq(Frames)
  BY <1>1, ConcatProperties DEF Received, Pipe
<1>b. Received = Pipe \o held /\ Received' = Pipe' \o held'
  BY DEF Received, Pipe
<1>3. ASSUME Received' = Received, wire' = wire, sent' = sent,
             reader' = "publish" <=> held' # <<>>,
             reader' \in Reading => reader \in Reading, done => done'
      PROVE  Account'
  BY <1>3 DEF Account
<1>4. CASE DeviceSends
  <2>1. PICK f \in Frames : wire' = Append(wire, f) /\ sent' = Append(sent, f)
    BY <1>4 DEF DeviceSends
  <2>2. ASSUME NEW x \in Seq(Frames), Received \o x = sent
        PROVE  Append(x, f) \in Seq(Frames) /\ Received \o Append(x, f) = sent'
    <3>1. <<f>> \in Seq(Frames) /\ Append(x, f) \in Seq(Frames)
      BY <1>1, AppendProperties
    <3>2. Append(x, f) = x \o <<f>> /\ sent' = sent \o <<f>>
      BY <1>1, <2>1, AppendIsConcat
    <3>4. Received \in Seq(Frames) /\ <<f>> \in Seq(Frames)
      BY <1>2, <3>1
    <3>3. (Received \o x) \o <<f>> = Received \o (x \o <<f>>)
      BY <3>4, Associative, Zenon
    <3> QED
      BY <2>2, <3>1, <3>2, <3>3, Zenon
  <2>3. Received' = Received /\ reader' = reader /\ held' = held /\ done' = done
    BY <1>4 DEF DeviceSends, Received
  <2>4. PICK rest \in Seq(Frames) : Received \o rest = sent
    BY DEF Account
  <2>5. \E r \in Seq(Frames) : Received' \o r = sent'
    BY <2>2, <2>3, <2>4
  <2>6. reader' \in Reading \/ ~done' => Received' \o wire' = sent'
    BY <1>1, <2>1, <2>2, <2>3 DEF Account
  <2> QED
    BY <2>3, <2>5, <2>6 DEF Account
<1>5. CASE MonFrame
  <2>1. Append(shown, Head(frames)) \o Tail(frames) = Pipe
    BY <1>1, <1>5, MoveHead DEF MonFrame, ReceiveFrame, Pipe
  <2>2. Received' = Received
    BY <1>b, <1>5, <2>1 DEF MonFrame, ReceiveFrame, Pipe
  <2> QED
    BY <1>3, <1>5, <2>2 DEF MonFrame, ReceiveFrame, Account
<1>6. CASE MonReader /\ Publish
  <2>1. held # <<>> /\ frames' = Append(frames, Head(held)) /\ held' = Tail(held) /\ shown' = shown
    BY <1>6 DEF MonReader, Publish, PublishHead, Account
  <2>2. frames' \o held' = frames \o held
    BY <1>1, <2>1, MoveHead
  <2>3. (shown \o frames) \o held = shown \o (frames \o held)
    <3>1. shown \in Seq(Frames) /\ frames \in Seq(Frames) /\ held \in Seq(Frames)
      BY <1>1
    <3> QED
      BY <3>1, Associative, Zenon
  <2>5. (shown' \o frames') \o held' = shown' \o (frames' \o held')
    <3>1. shown' \in Seq(Frames) /\ frames' \in Seq(Frames) /\ held' \in Seq(Frames)
      BY <1>1
    <3> QED
      BY <3>1, Associative, Zenon
  <2>4. Received' = Received
    BY <2>1, <2>2, <2>3, <2>5 DEF Received
  <2> QED
    BY <1>3, <1>6, <2>1, <2>4 DEF MonReader, Publish, PublishHead, Account, Reading
<1>7. CASE MonReader /\ ReadFrames
  <2>1. PICK n \in 1 .. Len(wire) :
          held' = SubSeq(wire, 1, n) /\ wire' = SubSeq(wire, n + 1, Len(wire))
    BY <1>7 DEF ReadFrames
  <2>2. held' # <<>>
    <3>1. Len(wire) \in Nat /\ Len(held') = n
      BY <1>1, <2>1, LenProperties, SubSeqProperties, ElementOfSeq
    <3> QED
      BY <3>1, EmptySeq
  <2>3. held' \o wire' = wire
    BY <1>1, <2>1, CutJoin
  <2>4. held = <<>> /\ Pipe' = Pipe /\ reader = "read" /\ reader' = "publish" /\ sent' = sent
    BY <1>7 DEF MonReader, ReadFrames, Account, Pipe
  <2>5. Received = Pipe /\ Pipe \o wire = sent
    BY <1>2, <1>b, <2>4, ConcatEmptySeq DEF Account, Reading
  <2>7. (Pipe' \o held') \o wire' = Pipe' \o (held' \o wire')
    <3>1. Pipe' \in Seq(Frames) /\ held' \in Seq(Frames) /\ wire' \in Seq(Frames)
      BY <1>1, <1>2
    <3> QED
      BY <3>1, Associative, Zenon
  <2>6. Received' \o wire' = sent'
    BY <1>b, <2>3, <2>4, <2>5, <2>7
  <2> QED
    BY <1>1, <2>2, <2>4, <2>6 DEF Account
<1>8. CASE MonReader /\ AbandonPublish
  <2>1. PICK rest \in Seq(Frames) : Received \o rest = sent
    BY DEF Account
  <2>2. /\ held' = <<>> /\ Pipe' = Pipe /\ reader' = "closeErrs" /\ sent' = sent /\ done' = done
        /\ done
    BY <1>8 DEF MonReader, AbandonPublish, Pipe
  <2>3. Received' = Pipe
    BY <1>2, <1>b, <2>2, ConcatEmptySeq
  <2>4. held \o rest \in Seq(Frames)
    BY <1>1, <2>1, ConcatProperties
  <2>5. Received' \o (held \o rest) = sent'
    <3>2. Pipe \in Seq(Frames) /\ held \in Seq(Frames)
      BY <1>1, <1>2
    <3>1. (Pipe \o held) \o rest = Pipe \o (held \o rest)
      BY <3>2, Associative, Zenon
    <3> QED
      BY <1>b, <2>1, <2>2, <2>3, <3>1, Zenon
  <2> QED
    BY <2>2, <2>4, <2>5 DEF Account, Reading
<1>9. CASE MonReader /\ ReadError
  BY <1>3, <1>9 DEF MonReader, ReadError, Account, Received, Reading
<1>10. CASE MonReader /\ (CloseErrs \/ CloseFrames \/ CloseExit)
  <2>1. /\ reader \notin Reading /\ reader' \notin Reading /\ held' = held /\ Received' = Received
        /\ wire' = wire /\ sent' = sent /\ done' = done
    BY <1>10 DEF MonReader, CloseErrs, CloseFrames, CloseExit, Reading, Received
  <2> QED
    BY <1>3, <2>1 DEF Account, Reading
<1>11. CASE MonStart
  <2>1. /\ held' = held /\ Received' = Received /\ wire' = wire /\ sent' = sent /\ done' = done
        /\ reader' = reader \/ (reader = "absent" /\ reader' = "read")
    BY <1>11 DEF MonStart, Start, StartReader, Received, Ownership
  <2> QED
    BY <1>3, <2>1 DEF Account, Reading
<1>12. CASE MonUnplug \/ Interrupt \/ MonErr \/ MonDrain \/ MonReturn
  BY <1>3, <1>12
  DEF MonUnplug, Unplug, Interrupt, MonErr, ReceiveErr, MonDrain, MonReturn, Account, Received
<1>13. ASSUME NEW k \in Closers, MonClose(k) PROVE Account'
  <2>1. /\ held' = held /\ Received' = Received /\ wire' = wire /\ sent' = sent
        /\ reader' = reader /\ (done => done')
    BY <1>13
    DEF MonClose, CloseStep, CloseEnter, CloseSignal, ClosePort, CloseReturns, CloseGivesUp,
          Received
  <2>2. reader' = "publish" <=> held' # <<>>
    BY <2>1 DEF Account
  <2> QED
    BY <1>3, <2>1, <2>2
<1>14. CASE UNCHANGED vars
  BY <1>3, <1>14 DEF vars, Account, Received
<1> QED
  BY <1>4, <1>5, <1>6, <1>7, <1>8, <1>9, <1>10, <1>11, <1>12, <1>13, <1>14
  DEF Next, MonReader, Reader, ReaderLeaves

-----------------------------------------------------------------------------

\* A port that was just opened.
LEMMA Initially == MonInit => IInv
<1> SUFFICES ASSUME MonInit PROVE IInv
  OBVIOUS
<1> USE DEF MonInit, Init
<1>1. MonTypes
  <2>1. <<>> \in Seq(Frames) /\ Len(<<>>) = 0
    BY EmptySeq
  <2>2. closer \in [Closers -> CloserSteps]
    BY DEF CloserSteps
  <2>3. TypeOK
    <3>1. errs \in 0 .. ErrCap /\ Len(frames) <= FrameCap
      BY <2>1 DEF ErrCap
    <3>2. wire \in Seq(Frames) /\ held \in Seq(Frames) /\ frames \in Seq(Frames)
      BY <2>1
    <3> QED
      BY <2>2, <3>1, <3>2 DEF TypeOK, ReaderSteps
  <2> QED
    BY <2>1, <2>3 DEF MonTypes
<1>2. Ownership
  BY DEF Ownership, First
<1>3. Account
  <2>1. <<>> \in Seq(Frames) /\ Received \o <<>> = <<>>
    BY EmptySeq, ConcatEmptySeq DEF Received
  <2> QED
    BY <2>1 DEF Account
<1>4. Cause
  BY DEF Cause, Reading
<1> QED
  BY <1>1, <1>2, <1>3, <1>4 DEF IInv

\* The invariant behind every theorem below.
LEMMA Inductive == Spec => []IInv
<1>1. IInv /\ [Next]_vars => IInv'
  BY MonTypesStep, OwnershipStep, AccountStep, CauseStep DEF IInv
<1> QED
  BY <1>1, Initially, PTL DEF Spec

\* The framer's variables and the monitor's keep their types.
THEOREM MonitorTypeCorrect == Spec => []MonTypes
BY Inductive, PTL DEF IInv

\* No channel is closed twice, and nothing is sent on one that is closed, whatever
\* the order in which Start, the reader and any number of callers of Close run.
THEOREM NeverPanics == Spec => []NoPanic
<1>1. Ownership => NoPanic
  BY DEF Ownership, First, NoPanic
<1> QED
  BY <1>1, Inductive, PTL DEF IInv

\* The monitor receives frames in the order they were sent, and all of them until
\* Close signals the reader.
THEOREM OrderKept == Spec => []InOrder
<1>1. IInv => InOrder
  <2> SUFFICES ASSUME IInv PROVE InOrder
    OBVIOUS
  <2>1. Received \in Seq(Frames)
    BY ConcatProperties DEF IInv, MonTypes, TypeOK, Received
  <2>2. IsPrefix(Received, sent)
    BY <2>1, BeginningIsPrefix DEF IInv, Account
  <2> QED
    BY <2>2 DEF IInv, Account, InOrder, Received
<1> QED
  BY <1>1, Inductive, PTL

\* A monitor that was neither interrupted nor closed has shown everything that was
\* received, and returns the error the link died of.
THEOREM CauseTold == Spec => []EndsWithTheCause
<1>1. IInv => EndsWithTheCause
  <2> SUFFICES ASSUME IInv, mon = "returned", ~ctxDone, ~closed
               PROVE  terminal /\ shown \o wire = sent
    BY DEF EndsWithTheCause
  <2>1. ~done /\ \A k \in Closers : closer[k] = "idle"
    BY DEF IInv, Ownership
  <2>2. ~framesOpen /\ frames = <<>> /\ errs = 0
    BY DEF IInv, Cause
  <2>3. reader \notin Reading
    BY <2>1, <2>2 DEF IInv, Ownership, Reading
  <2>4. terminal
    BY <2>1, <2>2, <2>3 DEF IInv, Cause
  <2>5. Received = shown
    BY <2>2, <2>3, ConcatEmptySeq DEF IInv, MonTypes, TypeOK, Account, Reading, Received
  <2> QED
    BY <2>1, <2>4, <2>5 DEF IInv, Account
<1> QED
  BY <1>1, Inductive, PTL

\* Nothing new is delivered once any caller of Close has been told that the reader is
\* gone.
THEOREM NothingAfterClose == Spec => CloseIsBarrier
<1>1. ASSUME IInv, [Next]_vars, NEW k \in Closers, closer[k] \in {"ok", "okLater"}
      PROVE  Len(frames') <= Len(frames) /\ errs' <= errs
  <2> USE DEF monVars, framerVars, chanVars, lifeVars
  <2>1. readerExit /\ reader \notin {"read", "publish", "closeErrs", "closeFrames", "closeExit"}
    BY <1>1 DEF IInv, Ownership
  <2>2. frames \in Seq(Frames) /\ errs \in Nat /\ Len(frames) \in Nat
    BY <1>1, LenProperties DEF IInv, MonTypes, TypeOK, ErrCap
  <2>3. CASE MonFrame
    <3>1. frames # <<>> /\ frames' = Tail(frames) /\ errs' = errs
      BY <2>3 DEF MonFrame, ReceiveFrame
    <3> QED
      BY <2>2, <3>1, HeadTailProperties
  <2>4. CASE MonErr
    BY <2>2, <2>4 DEF MonErr, ReceiveErr
  <2>5. CASE MonReader
    BY <2>1, <2>5
    DEF MonReader, Reader, ReaderLeaves, ReadFrames, Publish, PublishHead, AbandonPublish,
          ReadError,
        CloseErrs, CloseFrames, CloseExit
  <2>6. CASE \E l \in Closers : MonClose(l)
    BY <2>2, <2>6
    DEF MonClose, CloseStep, CloseEnter, CloseSignal, ClosePort, CloseReturns, CloseGivesUp
  <2>7. CASE DeviceSends \/ MonUnplug \/ Interrupt \/ MonStart \/ MonDrain \/ MonReturn \/ UNCHANGED vars
    BY <2>2, <2>7
    DEF DeviceSends, MonUnplug, Unplug, Interrupt, MonStart, Start, StartReader, MonDrain,
          MonReturn, vars
  <2> QED
    BY <1>1, <2>3, <2>4, <2>5, <2>6, <2>7 DEF Next
<1>2. IInv /\ [Next]_vars =>
        [(\E k \in Closers : closer[k] \in {"ok", "okLater"})
           => Len(frames') <= Len(frames) /\ errs' <= errs]_vars
  BY <1>1
<1> QED
  BY <1>2, Inductive, PTL DEF Spec, CloseIsBarrier

-----------------------------------------------------------------------------
(* The decoder: what it keeps to for every byte stream and every frame cap.  *)

USE DecoderAssumption DEF DecoderAssumption, Bytes

(* A status in effect is one that takes data, and has room left for it.     *)
Parsing ==
  \/ status = 0
  \/ status \in 128 .. 247 /\ want \in 1 .. 2 /\ nData < want

(* The invariant by halves: the MIDI parser, and the frame state machine.   *)
MidiInv ==
  /\ sysex \in BOOLEAN
  /\ data \in [1 .. 2 -> Bytes]
  /\ status \in Bytes
  /\ want \in 0 .. 2
  /\ nData \in 0 .. 2
  /\ Parsing

FrameInv ==
  /\ acc \in Seq(Bytes) /\ Len(acc) <= MaxFrameLen
  /\ overflow \in Nat
  /\ emitted \in Seq(Seq(Bytes))
  /\ notices \in Seq(Notices)
  /\ EmittedWellFormed

DecoderInv == MidiInv /\ FrameInv

\* Two nibbles make a byte: what FrameData appends belongs in the accumulator.
LEMMA Nibbles ==
  ASSUME NEW hi \in Bytes, NEW lo \in Bytes
  PROVE  16 * (hi % 16) + (lo % 16) \in Bytes
<1>1. hi % 16 \in 0 .. 15 /\ lo % 16 \in 0 .. 15
  OBVIOUS
<1> QED BY <1>1

\* The notice an overflow adds is one of the notices there are.
LEMMA OverflowNoticeType ==
  OverflowNotice \in Seq(Notices)
<1>1. <<"overflow">> \in Seq(Notices) /\ <<>> \in Seq(Notices)
  BY DEF Notices
<1> QED BY <1>1 DEF OverflowNotice

\* And a notice may be appended to it.
LEMMA OneMoreNotice ==
  ASSUME NEW n \in Notices
  PROVE  OverflowNotice \o <<n>> \in Seq(Notices) /\ OverflowNotice \o <<>> \in Seq(Notices)
<1>1. <<n>> \in Seq(Notices) /\ <<>> \in Seq(Notices)
  OBVIOUS
<1> QED BY <1>1, OverflowNoticeType, ConcatProperties

\* One channel message, whichever marker it is, keeps the frame state machine
\* typed and emits nothing but well-formed frames.
LEMMA MessageKeeps ==
  ASSUME FrameInv, NEW st \in Bytes, NEW d \in [1 .. 2 -> Bytes], Message(st, d)
  PROVE  FrameInv'
<1>0. emitted' = <<>> => EmittedWellFormed' /\ emitted' \in Seq(Seq(Bytes))
  BY DEF EmittedWellFormed
<1>1. CASE StartOfFrame
  <2>1. notices' \in Seq(Notices)
    <3>1. "resync" \in Notices
      BY DEF Notices
    <3> QED BY <1>1, <3>1, OneMoreNotice DEF StartOfFrame
  <2> QED BY <1>0, <1>1, <2>1 DEF StartOfFrame, FrameInv
<1>2. CASE FrameData(d[1], d[2])
  <2>1. 16 * (d[1] % 16) + (d[2] % 16) \in Bytes
    <3>1. d[1] \in Bytes /\ d[2] \in Bytes
      OBVIOUS
    <3> QED BY <3>1, Nibbles
  <2>2. notices' = <<>> /\ emitted' = <<>> /\ notices' \in Seq(Notices)
    BY <1>2 DEF FrameData
  <2>3. CASE Len(acc) < MaxFrameLen
    <3>1. acc' = Append(acc, 16 * (d[1] % 16) + (d[2] % 16)) /\ overflow' = overflow
      BY <1>2, <2>3 DEF FrameData
    <3>2. acc' \in Seq(Bytes) /\ Len(acc') = Len(acc) + 1
      BY <2>1, <3>1, AppendProperties DEF FrameInv
    <3> QED BY <1>0, <2>2, <2>3, <3>1, <3>2, LenProperties DEF FrameInv
  <2>4. CASE ~(Len(acc) < MaxFrameLen)
    BY <1>0, <1>2, <2>2, <2>4 DEF FrameData, FrameInv
  <2> QED BY <2>3, <2>4
<1>3. CASE EndOfFrame
  <2>1. CASE Len(acc) >= 2 /\ ValidResponseLen(acc[1]) /\ acc[1] <= Len(acc)
    <3> DEFINE f == SubSeq(acc, 1, acc[1])
    <3>1. f \in Seq(Bytes) /\ Len(f) = acc[1] /\ f[1] = acc[1]
      <4>1. acc[1] \in Nat /\ acc[1] >= 2 /\ acc[1] <= Len(acc)
        BY <2>1 DEF FrameInv, ValidResponseLen
      <4>2. acc \in Seq(Bytes) /\ 1 \in 1 .. Len(acc) + 1 /\ acc[1] \in 0 .. Len(acc)
        BY <4>1 DEF FrameInv
      <4>3. Len(f) = acc[1] - 1 + 1 /\ \A i \in 1 .. acc[1] - 1 + 1 : f[i] = acc[1 + i - 1]
        BY <4>1, <4>2, SubSeqProperties
      <4>4. f \in Seq(Bytes)
        <5>1. \A i \in 1 .. acc[1] : acc[i] \in Bytes
          <6>1. \A i \in 1 .. acc[1] : i \in 1 .. Len(acc)
            BY <4>1, <4>2
          <6> QED BY <4>2, <6>1, ElementOfSeq
        <5>2. SubSeq(acc, 1, acc[1]) \in Seq(Bytes)
          BY <4>1, <5>1, SubSeqProperties DEF FrameInv
        <5> QED BY <5>2
      <4> QED BY <4>1, <4>3, <4>4
    <3>2. emitted' = <<f>>
      BY <1>3, <2>1 DEF EndOfFrame
    <3>3. EmittedWellFormed'
      BY <2>1, <3>1, <3>2 DEF EmittedWellFormed, ValidResponseLen
    <3>4. notices' = OverflowNotice /\ acc' = <<>> /\ overflow' = 0
      BY <1>3, <2>1 DEF EndOfFrame
    <3>5. emitted' \in Seq(Seq(Bytes))
      BY <3>1, <3>2
    <3> QED BY <3>3, <3>4, <3>5, OverflowNoticeType DEF FrameInv
  <2>2. CASE ~(Len(acc) >= 2 /\ ValidResponseLen(acc[1]) /\ acc[1] <= Len(acc))
    <3>1. emitted' = <<>> /\ acc' = <<>> /\ overflow' = 0
      BY <1>3, <2>2 DEF EndOfFrame
    <3>2. \E n \in Notices : notices' = OverflowNotice \o <<n>> \/ notices' = OverflowNotice \o <<>>
      <4>1. "length" \in Notices /\ "short" \in Notices
        BY DEF Notices
      <4> QED BY <1>3, <2>2, <4>1 DEF EndOfFrame
    <3>3. notices' \in Seq(Notices)
      BY <3>2, OneMoreNotice
    <3> QED BY <1>0, <3>1, <3>3 DEF FrameInv
  <2> QED BY <2>1, <2>2
<1>4. CASE NoMessage
  BY <1>0, <1>4 DEF NoMessage, FrameInv
<1> QED BY <1>1, <1>2, <1>3, <1>4 DEF Message

\* A byte that completes no message disturbs no frame.
LEMMA NoMessageKeeps ==
  ASSUME FrameInv, NoMessage
  PROVE  FrameInv'
BY DEF NoMessage, FrameInv, EmittedWellFormed

\* The inductive step: any byte at all.
LEMMA ByteKeeps ==
  ASSUME DecoderInv, NEW b \in Bytes, FeedByte(b)
  PROVE  DecoderInv'
<1>a. MidiInv /\ FrameInv
  BY DEF DecoderInv
<1>b. NoData \in [1 .. 2 -> Bytes]
  BY DEF NoData
<1>c. UNCHANGED midiVars => MidiInv'
  BY <1>a DEF midiVars, MidiInv, Parsing
<1>1. CASE Realtime(b)
  BY <1>a, <1>c, <1>1, NoMessageKeeps DEF Realtime, DecoderInv
<1>2. CASE SysExStart(b)
  <2>1. /\ NoMessage /\ sysex' = TRUE /\ data' = NoData
        /\ status' = 0 /\ want' = 0 /\ nData' = 0
    BY <1>2 DEF SysExStart
  <2>2. Parsing'
    BY <2>1 DEF Parsing
  <2>3. status' \in Bytes /\ want' \in 0 .. 2 /\ nData' \in 0 .. 2
    BY <2>1
  <2>4. sysex' \in BOOLEAN /\ data' \in [1 .. 2 -> Bytes]
    BY <1>b, <2>1
  <2>5. FrameInv'
    BY <1>a, <2>1, NoMessageKeeps
  <2> QED BY <2>2, <2>3, <2>4, <2>5 DEF DecoderInv, MidiInv
<1>3. CASE StatusByte(b)
  <2>1. ExpectedDataBytes(b) \in 0 .. 2
    BY DEF ExpectedDataBytes
  <2>2. /\ NoMessage /\ sysex' = FALSE /\ data' = NoData
        /\ nData' = 0
        /\ want' = ExpectedDataBytes(b)
        /\ status' = IF ExpectedDataBytes(b) = 0 THEN 0 ELSE b
    BY <1>3 DEF StatusByte
  <2>3. b \in 128 .. 247
    BY <1>3 DEF StatusByte
  <2>4. Parsing'
    <3>1. CASE ExpectedDataBytes(b) = 0
      BY <2>2, <3>1 DEF Parsing
    <3>2. CASE ExpectedDataBytes(b) # 0
      <4>1. want' \in 1 .. 2 /\ nData' = 0 /\ status' = b
        BY <2>1, <2>2, <3>2
      <4>2. nData' < want'
        BY <4>1
      <4> QED BY <2>3, <4>1, <4>2 DEF Parsing
    <3> QED BY <3>1, <3>2
  <2>5. status' \in Bytes
    BY <2>2, <2>3
  <2>6. want' \in 0 .. 2 /\ nData' \in 0 .. 2
    BY <2>1, <2>2
  <2>7. sysex' \in BOOLEAN /\ data' \in [1 .. 2 -> Bytes]
    BY <1>b, <2>2
  <2>8. FrameInv'
    BY <1>a, <2>2, NoMessageKeeps
  <2> QED BY <2>4, <2>5, <2>6, <2>7, <2>8 DEF DecoderInv, MidiInv
<1>4. CASE DataByte(b)
  <2>1. CASE sysex \/ status = 0
    <3>1. UNCHANGED midiVars /\ NoMessage
      BY <1>4, <2>1 DEF DataByte
    <3> QED BY <1>a, <1>c, <3>1, NoMessageKeeps DEF DecoderInv
  <2>2. CASE ~(sysex \/ status = 0)
    <3> DEFINE d == [data EXCEPT ![nData + 1] = b]
    <3>1. d \in [1 .. 2 -> Bytes]
      BY <1>a DEF MidiInv
    <3>2. data' = d /\ want' = want /\ sysex' = sysex
      BY <1>4, <2>2 DEF DataByte
    <3>3. /\ status \in 128 .. 247 /\ status \in Bytes
          /\ want \in 1 .. 2 /\ nData \in 0 .. 2 /\ nData < want
      BY <1>a, <2>2 DEF MidiInv, Parsing
    <3>4. CASE nData + 1 >= want
      <4>1. Completes(status, d)
        BY <1>4, <2>2, <3>4 DEF DataByte
      <4> HIDE DEF d
      <4>2. nData' = 0 /\ (status' = status \/ status' = 0)
        BY <4>1 DEF Completes
      <4>3. Message(status, d) \/ NoMessage
        BY <4>1 DEF Completes
      <4>4. FrameInv'
        BY <1>a, <3>1, <3>3, <4>3, MessageKeeps, NoMessageKeeps
      <4>5. Parsing'
        BY <3>2, <3>3, <4>2 DEF Parsing
      <4>6. status' \in Bytes /\ nData' \in 0 .. 2 /\ want' \in 0 .. 2
        BY <3>2, <3>3, <4>2
      <4>7. sysex' \in BOOLEAN /\ data' \in [1 .. 2 -> Bytes]
        BY <1>a, <3>1, <3>2 DEF MidiInv
      <4> QED BY <4>4, <4>5, <4>6, <4>7 DEF DecoderInv, MidiInv
    <3>5. CASE ~(nData + 1 >= want)
      <4>1. nData' = nData + 1 /\ NoMessage /\ status' = status
        BY <1>4, <2>2, <3>5 DEF DataByte
      <4> HIDE DEF d
      <4>2. nData' < want' /\ nData' \in 0 .. 2 /\ want' \in 0 .. 2 /\ want' \in 1 .. 2
        BY <3>2, <3>3, <3>5, <4>1
      <4>3. Parsing' /\ status' \in Bytes
        BY <3>3, <4>1, <4>2 DEF Parsing
      <4>4. FrameInv'
        BY <1>a, <4>1, NoMessageKeeps
      <4>5. sysex' \in BOOLEAN /\ data' \in [1 .. 2 -> Bytes]
        BY <1>a, <3>1, <3>2 DEF MidiInv
      <4> QED BY <4>2, <4>3, <4>4, <4>5 DEF DecoderInv, MidiInv
    <3> QED BY <3>4, <3>5
  <2> QED BY <2>1, <2>2
<1> QED BY <1>1, <1>2, <1>3, <1>4 DEF FeedByte

\* A decoder begins with nothing read and nothing accumulated.
LEMMA DecoderStarts == DecoderInit => DecoderInv
<1> SUFFICES ASSUME DecoderInit PROVE DecoderInv
  OBVIOUS
<1>1. sysex \in BOOLEAN /\ data \in [1 .. 2 -> Bytes]
  <2>1. NoData \in [1 .. 2 -> Bytes]
    BY DEF NoData
  <2>2. data = NoData /\ sysex = FALSE
    BY DEF DecoderInit
  <2> QED
    BY <2>1, <2>2
<1>2. status = 0 /\ nData = 0 /\ want = 0
  BY DEF DecoderInit
<1>3. FrameInv
  BY DEF DecoderInit, FrameInv, EmittedWellFormed
<1>4. Parsing /\ status \in Bytes /\ nData \in 0 .. 2 /\ want \in 0 .. 2
  BY <1>2 DEF Parsing
<1> QED
  BY <1>1, <1>3, <1>4 DEF DecoderInv, MidiInv

\* Whatever byte it is fed, and when it is fed none.
LEMMA DecoderStep == DecoderInv /\ [\E b \in Bytes : FeedByte(b)]_decoderVars => DecoderInv'
<1> SUFFICES ASSUME DecoderInv, [\E b \in Bytes : FeedByte(b)]_decoderVars PROVE DecoderInv'
  OBVIOUS
<1>1. CASE \E b \in Bytes : FeedByte(b)
  BY <1>1, ByteKeeps
<1>2. CASE UNCHANGED decoderVars
  <2>1. MidiInv'
    BY <1>2 DEF decoderVars, midiVars, DecoderInv, MidiInv, Parsing
  <2>2. FrameInv'
    BY <1>2 DEF decoderVars, frameVars, DecoderInv, FrameInv, EmittedWellFormed
  <2> QED BY <2>1, <2>2 DEF DecoderInv
<1> QED BY <1>1, <1>2

\* The invariant holds of every decoder fed any bytes.
LEMMA DecoderInvariance == DecoderSpec => []DecoderInv
BY DecoderStarts, DecoderStep, PTL DEF DecoderSpec

\* The two buffers hold what they are meant to, whatever bytes arrive: the
\* accumulator never outgrows proto.MaxFrameLen (decoder.go:150).
THEOREM DecoderTypeCorrect == DecoderSpec => []DecoderTypeOK
<1>1. DecoderInv => DecoderTypeOK
  BY DEF DecoderInv, MidiInv, FrameInv, DecoderTypeOK
<1> QED BY <1>1, DecoderInvariance, PTL

\* decoder.go:108 never indexes past data[1], whatever bytes arrive.
THEOREM NeverOutOfBounds == DecoderSpec => []InBounds
<1>1. DecoderInv => InBounds
  BY DEF DecoderInv, MidiInv, Parsing, InBounds
<1> QED BY <1>1, DecoderInvariance, PTL

\* Every frame handed on has the length it declares, within the protocol's
\* limits, so that a receiver may index it by that length.
THEOREM FramesWellFormed == DecoderSpec => []EmittedWellFormed
<1>1. DecoderInv => EmittedWellFormed
  BY DEF DecoderInv, FrameInv
<1> QED BY <1>1, DecoderInvariance, PTL

\* A channel message that empties the accumulator turns it into a frame or says what
\* became of it, and one that clears the count of bytes past the cap says that too.
LEMMA MessageTells ==
  ASSUME FrameInv, NEW st \in Bytes, NEW d \in [1 .. 2 -> Bytes], Message(st, d)
  PROVE  /\ acc # <<>> /\ acc' = <<>> => emitted' # <<>> \/ notices' # <<>>
         /\ overflow > 0 /\ overflow' = 0 => "overflow" \in {notices'[n] : n \in DOMAIN notices'}
<1>1. /\ acc \in Seq(Bytes) /\ overflow \in Nat
      /\ Len(acc) \in Nat /\ (acc # <<>> => Len(acc) >= 1)
  BY LenProperties, EmptySeq DEF FrameInv
<1> DEFINE len == Len(acc)
<1>0. /\ len \in Nat /\ len = Len(acc)
      /\ len = 0 => acc = <<>>
  BY <1>1, EmptySeq
<1> HIDE DEF len
\* An overflow comes first among the notices, whatever follows it.
<1>2. ASSUME NEW s \in Seq(Notices), notices' = OverflowNotice \o s, overflow > 0
      PROVE  "overflow" \in {notices'[n] : n \in DOMAIN notices'}
  <2>1. <<"overflow">> \in Seq(Notices) /\ notices' = <<"overflow">> \o s
    BY <1>2 DEF OverflowNotice, Notices
  <2>2. notices' \in Seq(Notices) /\ Len(notices') = 1 + Len(s) /\ notices'[1] = "overflow"
    BY <2>1, ConcatProperties
  <2>3. 1 \in DOMAIN notices'
    BY <2>2, LenProperties
  <2> QED
    BY <2>2, <2>3
<1>3. ASSUME NEW last \in Notices, notices' = OverflowNotice \o <<last>>
      PROVE  notices' # <<>>
  <2>1. OverflowNotice \in Seq(Notices) /\ <<last>> \in Seq(Notices)
    BY OverflowNoticeType
  <2>2. Len(notices') = Len(OverflowNotice) + 1 /\ Len(OverflowNotice) \in Nat
    BY <1>3, <2>1, ConcatProperties, LenProperties
  <2> QED
    BY <2>2, EmptySeq
<1>4. /\ <<>> \in Seq(Notices)
      /\ \A last \in Notices : <<last>> \in Seq(Notices)
      /\ {"resync", "length", "short"} \subseteq Notices
  BY DEF Notices
<1>5. CASE StartOfFrame
  <2>1. CASE acc # <<>>
    <3>1. notices' = OverflowNotice \o <<"resync">>
      BY <1>5, <2>1 DEF StartOfFrame
    <3> QED
      BY <1>2, <1>3, <1>4, <3>1
  <2>2. CASE acc = <<>>
    <3>1. notices' = OverflowNotice \o <<>>
      BY <1>5, <2>2 DEF StartOfFrame
    <3> QED
      BY <1>2, <1>4, <2>2, <3>1
  <2> QED
    BY <2>1, <2>2
<1>6. CASE FrameData(d[1], d[2])
  <2>1. CASE Len(acc) < MaxFrameLen
    <3>1. /\ acc' = Append(acc, 16 * (d[1] % 16) + (d[2] % 16)) /\ overflow' = overflow
          /\ d[1] \in Bytes /\ d[2] \in Bytes
      BY <1>6, <2>1 DEF FrameData
    <3>2. Len(acc') = Len(acc) + 1
      <4>1. 16 * (d[1] % 16) + (d[2] % 16) \in Bytes
        BY <3>1, Nibbles
      <4> QED
        BY <1>1, <3>1, <4>1, AppendProperties
    <3>3. acc' # <<>>
      BY <1>1, <3>2, EmptySeq
    <3> QED
      BY <1>1, <3>1, <3>3
  <2>2. CASE ~(Len(acc) < MaxFrameLen)
    BY <1>1, <1>6, <2>2 DEF FrameData
  <2> QED
    BY <2>1, <2>2
<1>7. CASE EndOfFrame
  <2>1. CASE Len(acc) >= 2 /\ ValidResponseLen(acc[1]) /\ acc[1] <= Len(acc)
    <3>1. emitted' = <<SubSeq(acc, 1, acc[1])>> /\ notices' = OverflowNotice
      BY <1>7, <2>1 DEF EndOfFrame
    <3>2. emitted' # <<>>
      BY <3>1
    <3>3. notices' = OverflowNotice \o <<>>
      BY <3>1, OverflowNoticeType, ConcatEmptySeq
    <3> QED
      BY <1>2, <1>4, <3>2, <3>3
  <2>2. CASE ~(Len(acc) >= 2 /\ ValidResponseLen(acc[1]) /\ acc[1] <= Len(acc))
    <3>1. notices' = OverflowNotice \o (CASE Len(acc) >= 2 -> <<"length">>
                                          [] Len(acc) = 1  -> <<"short">>
                                          [] OTHER         -> <<>>)
      BY <1>7, <2>2 DEF EndOfFrame
    <3>2. \E s \in Seq(Notices) :
            notices' = OverflowNotice \o s /\ (acc = <<>> \/ notices' # <<>>)
      <4>1. CASE Len(acc) >= 2
        <5>1. notices' = OverflowNotice \o <<"length">>
          <6>1. Len(acc) # 1
            BY ONLY <1>0, <4>1
          <6> QED
            BY <3>1, <4>1, <6>1, Zenon
        <5> QED
          BY <1>3, <1>4, <5>1, Zenon
      <4>2. CASE Len(acc) = 1
        <5>1. notices' = OverflowNotice \o <<"short">>
          BY <3>1, <4>2
        <5> QED
          BY <1>3, <1>4, <5>1, Zenon
      <4>3. CASE ~(Len(acc) >= 2) /\ Len(acc) # 1
        <5>1. notices' = OverflowNotice \o <<>>
          BY <3>1, <4>3, Zenon
        <5>2. acc = <<>>
          BY ONLY <1>0, <4>3
        <5> QED
          BY <1>4, <5>1, <5>2, Zenon
      <4> QED
        BY <4>1, <4>2, <4>3
    <3> QED
      BY <1>2, <3>2
  <2> QED
    BY <2>1, <2>2
<1>8. CASE NoMessage
  BY <1>8 DEF NoMessage
<1> QED
  BY <1>5, <1>6, <1>7, <1>8 DEF Message

\* Bytes that make no frame do not vanish: a listener is told of every partial frame
\* that is given up and of every overflow, whatever the bytes before and after it.
THEOREM SilenceTold == DecoderSpec => NothingLostSilently
<1> DEFINE Tells ==
             /\ acc # <<>> /\ acc' = <<>> => emitted' # <<>> \/ notices' # <<>>
             /\ overflow > 0 /\ overflow' = 0
                  => "overflow" \in {notices'[n] : n \in DOMAIN notices'}
<1>1. ASSUME DecoderInv, NEW b \in Bytes, FeedByte(b) PROVE Tells
  <2>1. MidiInv /\ FrameInv
    BY <1>1 DEF DecoderInv
  <2>2. CASE NoMessage
    BY <2>1, <2>2 DEF NoMessage, FrameInv
  <2>3. ASSUME ~NoMessage PROVE Tells
    <3> DEFINE d == [data EXCEPT ![nData + 1] = b]
    <3>1. Completes(status, d) /\ ~(sysex \/ status = 0)
      BY <1>1, <2>3 DEF FeedByte, Realtime, SysExStart, StatusByte, DataByte
    <3>2. d \in [1 .. 2 -> Bytes] /\ status \in Bytes
      BY <2>1 DEF MidiInv
    <3> HIDE DEF d
    <3>3. Message(status, d)
      BY <2>3, <3>1 DEF Completes
    <3> QED
      BY <2>1, <3>2, <3>3, MessageTells
  <2> QED
    BY <2>2, <2>3
<1>2. DecoderInv /\ [\E b \in Bytes : FeedByte(b)]_decoderVars => [Tells]_decoderVars
  BY <1>1
<1> QED
  BY <1>2, DecoderInvariance, PTL DEF DecoderSpec, NothingLostSilently

-----------------------------------------------------------------------------
(* The stream: a frame that arrives whole is delivered, whatever came before. *)

HIDE DEF DecoderAssumption, Bytes

(* Sequences joined one after the other.                                     *)

\* A short sequence is what it is written as.
LEMMA Pair ==
  ASSUME NEW S, NEW a \in S, NEW b \in S
  PROVE  <<a>> \o <<b>> = <<a, b>>
<1> DEFINE s == <<a>>
           t == <<b>>
           r == <<a, b>>
<1>1. s \in Seq(S) /\ Len(s) = 1 /\ s[1] = a /\ t \in Seq(S) /\ Len(t) = 1 /\ t[1] = b
  OBVIOUS
<1>2. r \in Seq(S) /\ Len(r) = 2 /\ r[1] = a /\ r[2] = b
  OBVIOUS
<1> HIDE DEF s, t, r
<1>3. s \o t \in Seq(S) /\ Len(s \o t) = 2 /\ (s \o t)[1] = a /\ (s \o t)[2] = b
  BY ONLY <1>1, ConcatProperties
<1>4. \A i \in 1 .. 2 : (s \o t)[i] = r[i]
  BY <1>2, <1>3
<1>5. s \o t = r
  BY <1>2, <1>3, <1>4, SeqEqual
<1> QED
  BY <1>5 DEF s, t, r

LEMMA Triple ==
  ASSUME NEW S, NEW a \in S, NEW b \in S, NEW c \in S
  PROVE  <<a>> \o <<b, c>> = <<a, b, c>> /\ <<a, b>> \o <<c>> = <<a, b, c>>
<1> DEFINE s == <<a>>
           t == <<b, c>>
           u == <<a, b>>
           v == <<c>>
           r == <<a, b, c>>
<1>a. s \in Seq(S) /\ Len(s) = 1 /\ s[1] = a /\ t \in Seq(S) /\ Len(t) = 2 /\ t[1] = b /\ t[2] = c
  OBVIOUS
<1>b. /\ v \in Seq(S) /\ Len(v) = 1 /\ v[1] = c /\ u \in Seq(S) /\ Len(u) = 2 /\ u[1] = a /\ u[2] = b
  OBVIOUS
<1>2. r \in Seq(S) /\ Len(r) = 3 /\ r[1] = a /\ r[2] = b /\ r[3] = c
  OBVIOUS
<1> HIDE DEF s, t, u, v, r
<1>3. s \o t \in Seq(S) /\ Len(s \o t) = 3 /\ (s \o t)[1] = a /\ (s \o t)[2] = b /\ (s \o t)[3] = c
  <2>1. /\ s \o t \in Seq(S) /\ Len(s \o t) = Len(s) + Len(t)
        /\ \A i \in 1 .. Len(s) + Len(t) : (s \o t)[i] = IF i <= Len(s) THEN s[i] ELSE t[i - Len(s)]
    BY <1>a, ConcatProperties
  <2> QED
    BY ONLY <1>a, <2>1
<1>4. u \o v \in Seq(S) /\ Len(u \o v) = 3 /\ (u \o v)[1] = a /\ (u \o v)[2] = b /\ (u \o v)[3] = c
  <2>1. /\ u \o v \in Seq(S) /\ Len(u \o v) = Len(u) + Len(v)
        /\ \A i \in 1 .. Len(u) + Len(v) : (u \o v)[i] = IF i <= Len(u) THEN u[i] ELSE v[i - Len(u)]
    BY <1>b, ConcatProperties
  <2> QED
    BY ONLY <1>b, <2>1
<1>5. \A i \in 1 .. 3 : (s \o t)[i] = r[i] /\ (u \o v)[i] = r[i]
  <2>1. \A i \in 1 .. 3 : i = 1 \/ i = 2 \/ i = 3
    OBVIOUS
  <2> QED
    BY <1>2, <1>3, <1>4, <2>1
<1>6. s \o t = r
  BY <1>2, <1>3, <1>5, SeqEqual
<1>7. u \o v = r
  BY <1>2, <1>4, <1>5, SeqEqual
<1> QED
  BY <1>6, <1>7 DEF s, t, u, v, r

\* A set of naturals has a smallest member.
LEMMA SmallestOf ==
  ASSUME NEW S \in SUBSET Nat, S # {}
  PROVE  \E x \in S : \A y \in S : x <= y
<1> DEFINE R == OpToRel(<, Nat)
<1>1. IsWellFoundedOn(R, Nat)
  BY NatLessThanWellFounded
<1>2. \A x, y \in Nat : <<x, y>> \in R <=> x < y
  BY DEF OpToRel
<1> HIDE DEF R
<1>3. PICK x \in S : \A y \in S : ~(<<y, x>> \in R)
  BY <1>1, WFMin
<1>4. \A y \in S : x \in Nat /\ y \in Nat /\ ~(y < x)
  BY <1>2, <1>3
<1> QED
  BY <1>3, <1>4

\* One after the other, as FlattenSeq goes about it.
Joined(seqs, f, i) == IF i = 1 THEN seqs[i] ELSE f[i - 1] \o seqs[i]
Joining(seqs, f, n) == f = [i \in 1 .. n |-> Joined(seqs, f, i)]

\* What is joined up to a place is what was joined up to the one before, and one more.
LEMMA JoiningAt ==
  ASSUME NEW seqs, NEW f, NEW n, Joining(seqs, f, n), NEW i \in 1 .. n
  PROVE  f[i] = Joined(seqs, f, i)
BY DEF Joining

\* FlattenSeq is the end of some way of joining.
LEMMA FlattenIs ==
  ASSUME NEW seqs, Len(seqs) # 0
  PROVE  FlattenSeq(seqs) = (CHOOSE f : Joining(seqs, f, Len(seqs)))[Len(seqs)]
BY DEF FlattenSeq, Joining, Joined

\* What is joined is determined step by step,
LEMMA JoiningUnique ==
  ASSUME NEW seqs, NEW n \in Nat, NEW f, NEW g, Joining(seqs, f, n), Joining(seqs, g, n)
  PROVE  \A i \in 1 .. n : f[i] = g[i]
<1> DEFINE D == {i \in Nat : i \in 1 .. n /\ f[i] # g[i]}
<1>1. SUFFICES ASSUME D # {} PROVE FALSE
  OBVIOUS
<1>2. PICK i \in D : \A j \in D : i <= j
  BY <1>1, SmallestOf
<1>3. i \in 1 .. n /\ f[i] # g[i]
  OBVIOUS
<1>4. f[i] = Joined(seqs, f, i) /\ g[i] = Joined(seqs, g, i)
  BY <1>3, JoiningAt
<1>5. i # 1 => i - 1 \in Nat /\ i - 1 \in 1 .. n /\ i - 1 \notin D
  BY <1>2, <1>3
<1>6. i # 1 => f[i - 1] = g[i - 1]
  BY <1>5
<1> QED
  BY <1>3, <1>4, <1>6 DEF Joined

\* and there is always something to be joined.
LEMMA JoiningExists ==
  ASSUME NEW seqs, NEW n \in Nat
  PROVE  \E f : Joining(seqs, f, n)
<1> DEFINE D == {m \in Nat : ~\E f : Joining(seqs, f, m)}
<1>1. SUFFICES ASSUME D # {} PROVE FALSE
  OBVIOUS
<1>2. PICK m \in D : \A k \in D : m <= k
  BY <1>1, SmallestOf
<1>3. CASE m = 0
  <2>1. Joining(seqs, [i \in 1 .. 0 |-> 0], 0)
    BY DEF Joining
  <2> QED
    BY <1>2, <1>3, <2>1
<1>4. CASE m # 0
  <2>1. m - 1 \in Nat /\ m - 1 \notin D
    BY <1>2, <1>4
  <2>2. PICK f : Joining(seqs, f, m - 1)
    BY <2>1
  <2> DEFINE g == [i \in 1 .. m |-> Joined(seqs, f, i)]
  <2>3. \A i \in 1 .. m : g[i] = Joined(seqs, f, i)
    OBVIOUS
  <2>4. \A i \in 1 .. m - 1 : f[i] = Joined(seqs, f, i)
    BY <2>2, JoiningAt
  <2>5. \A i \in 1 .. m : i # 1 => g[i - 1] = f[i - 1]
    <3> HIDE DEF g
    <3>1. \A i \in 1 .. m : i # 1 => i - 1 \in 1 .. m - 1 /\ i - 1 \in 1 .. m
      BY <2>1
    <3> QED
      BY <2>3, <2>4, <3>1
  <2>6. \A i \in 1 .. m : Joined(seqs, f, i) = Joined(seqs, g, i)
    BY <2>5 DEF Joined
  <2>7. Joining(seqs, g, m)
    <3>1. g = [i \in 1 .. m |-> Joined(seqs, g, i)]
      BY <2>6
    <3> QED
      BY <3>1 DEF Joining
  <2> QED
    BY <1>2, <2>7
<1> QED
  BY <1>3, <1>4

\* So any way of joining ends in what FlattenSeq yields.
LEMMA FlattenJoins ==
  ASSUME NEW seqs, Len(seqs) \in Nat, Len(seqs) # 0, NEW g, Joining(seqs, g, Len(seqs))
  PROVE  FlattenSeq(seqs) = g[Len(seqs)]
<1> DEFINE f == CHOOSE f : Joining(seqs, f, Len(seqs))
<1>1. Joining(seqs, f, Len(seqs))
  OBVIOUS
<1>2. FlattenSeq(seqs) = f[Len(seqs)]
  BY FlattenIs
<1> HIDE DEF f
<1>3. f[Len(seqs)] = g[Len(seqs)]
  BY <1>1, JoiningUnique
<1> QED
  BY <1>2, <1>3

\* Nothing joined is nothing.
LEMMA FlattenNone ==
  ASSUME NEW S, NEW seqs \in Seq(S), Len(seqs) = 0
  PROVE  FlattenSeq(seqs) = <<>>
BY EmptySeq DEF FlattenSeq

\* One more at the end is joined to what was joined before.
LEMMA FlattenMore ==
  ASSUME NEW S, NEW seqs \in Seq(Seq(S)), NEW more \in Seq(S)
  PROVE  FlattenSeq(Append(seqs, more)) = FlattenSeq(seqs) \o more
<1> DEFINE n == Len(seqs)
           all == Append(seqs, more)
<1>1. /\ n \in Nat /\ Len(all) = n + 1 /\ all[n + 1] = more
      /\ \A i \in 1 .. n : all[i] = seqs[i]
  BY AppendProperties
<1>2. n = 0 => FlattenSeq(seqs) = <<>>
  BY FlattenNone
<1>3. n # 0 => \E f : Joining(seqs, f, n) /\ FlattenSeq(seqs) = f[n]
  <2>1. Len(seqs) = n
    OBVIOUS
  <2> HIDE DEF n
  <2> QED
    BY <1>1, <2>1, JoiningExists, FlattenJoins
<1> HIDE DEF n, all
<1>4. PICK g : Joining(all, g, n + 1)
  <2>1. n + 1 \in Nat
    BY <1>1
  <2> QED
    BY <2>1, JoiningExists
<1>5. FlattenSeq(all) = g[n + 1]
  BY <1>1, <1>4, FlattenJoins
<1>6. g[n + 1] = Joined(all, g, n + 1)
  BY <1>1, <1>4, JoiningAt
<1>7. CASE n = 0
  BY <1>1, <1>2, <1>5, <1>6, <1>7, ConcatEmptySeq DEF Joined, all
<1>8. CASE n # 0
  <2>1. PICK f : Joining(seqs, f, n) /\ FlattenSeq(seqs) = f[n]
    BY <1>3, <1>8
  <2> DEFINE D == {i \in Nat : i \in 1 .. n /\ f[i] # g[i]}
  <2>2. D = {}
    <3>1. SUFFICES ASSUME D # {} PROVE FALSE
      OBVIOUS
    <3>2. PICK i \in D : \A j \in D : i <= j
      BY <3>1, SmallestOf
    <3>3. i \in 1 .. n /\ i \in 1 .. n + 1 /\ f[i] # g[i]
      BY <1>1
    <3>4. f[i] = Joined(seqs, f, i) /\ g[i] = Joined(all, g, i)
      BY <1>4, <2>1, <3>3, JoiningAt
    <3>a. i \in Nat /\ (i # 1 => i - 1 \in Nat /\ i - 1 \in 1 .. n /\ ~(i <= i - 1))
      BY <1>1, <3>3
    <3>5. i # 1 => i - 1 \in Nat /\ i - 1 \in 1 .. n /\ i - 1 \notin D
      BY <3>2, <3>a
    <3>6. i # 1 => f[i - 1] = g[i - 1]
      BY <3>5
    <3> QED
      BY <1>1, <3>3, <3>4, <3>6 DEF Joined
  <2>3. f[n] = g[n]
    <3>1. n \in 1 .. n
      BY <1>1, <1>8
    <3> QED
      BY <1>1, <2>2, <3>1
  <2>4. n + 1 # 1 /\ n + 1 - 1 = n
    BY <1>1, <1>8
  <2> QED
    BY <1>1, <1>5, <1>6, <2>1, <2>3, <2>4 DEF Joined, all
<1> QED
  BY <1>7, <1>8

\* What is joined is made of what the parts are made of.
LEMMA FlattenTyped ==
  ASSUME NEW S, NEW seqs \in Seq(Seq(S))
  PROVE  FlattenSeq(seqs) \in Seq(S)
<1> DEFINE n == Len(seqs)
<1>1. n \in Nat /\ \A i \in 1 .. n : seqs[i] \in Seq(S)
  OBVIOUS
<1>a. CASE n = 0
  <2>1. Len(seqs) = 0 /\ seqs \in Seq(Seq(S))
    BY <1>a
  <2>2. FlattenSeq(seqs) = <<>>
    BY ONLY <2>1, FlattenNone
  <2> QED
    BY <2>2
<1>b. CASE n # 0
  <2>0. Len(seqs) = n
    OBVIOUS
  <2> HIDE DEF n
  <2>2. PICK f : Joining(seqs, f, n)
    BY <1>1, JoiningExists
  <2> DEFINE D == {i \in Nat : i \in 1 .. n /\ f[i] \notin Seq(S)}
  <2>3. D = {}
    <3>1. SUFFICES ASSUME D # {} PROVE FALSE
      OBVIOUS
    <3>2. PICK i \in D : \A j \in D : i <= j
      BY <1>1, <3>1, SmallestOf
    <3>3. i \in 1 .. n /\ f[i] \notin Seq(S) /\ seqs[i] \in Seq(S)
      BY <1>1, <3>2
    <3>4. f[i] = Joined(seqs, f, i)
      BY <2>2, <3>3, JoiningAt
    <3>a. i \in Nat /\ (i # 1 => i - 1 \in Nat /\ i - 1 \in 1 .. n /\ ~(i <= i - 1))
      BY <1>1, <3>3
    <3>5. i # 1 => i - 1 \in Nat /\ i - 1 \in 1 .. n /\ i - 1 \notin D
      BY <3>2, <3>a
    <3>6. i # 1 => f[i - 1] \in Seq(S)
      BY <3>5
    <3> QED
      BY <3>3, <3>4, <3>6, ConcatProperties DEF Joined
  <2>4. FlattenSeq(seqs) = f[n]
    BY <1>1, <1>b, <2>0, <2>2, FlattenJoins
  <2>5. n \in 1 .. n
    BY <1>1, <1>b
  <2> QED
    BY <1>1, <2>3, <2>4, <2>5
<1> QED
  BY <1>a, <1>b

-----------------------------------------------------------------------------
(* What a whole frame is on the stream.                                      *)

\* The bytes of a frame are counted as EncodeMIDI sends them, three to a message: byte
\* 3 * j + i is byte i of message j, of which the first and the last are the markers.
\* A realtime byte may come before any of them, and takes no place; a status byte that is
\* in effect may be left out.
Places(f) == 3 * Len(f) + 6
LastMessage(f) == Len(f) + 1

StatusOf(f, j) == IF j = 0 THEN 128 ELSE IF j <= Len(f) THEN 144 ELSE 160

ByteOf(f, j, i) ==
  CASE i = 0 -> StatusOf(f, j)
    [] i = 1 -> IF j \in 1 .. Len(f) THEN f[j] \div 16 ELSE 0
    [] i = 2 -> IF j \in 1 .. Len(f) THEN f[j] % 16 ELSE 0

Step(f, b, q, r) ==
  \/ b = 248 /\ q \in 0 .. Places(f) - 1 /\ r = q
  \/ \E j \in 0 .. LastMessage(f), i \in 0 .. 2 : q = 3 * j + i /\ r = q + 1 /\ b = ByteOf(f, j, i)
  \/ \E j \in 2 .. Len(f) : q = 3 * j /\ r = q + 2 /\ b = ByteOf(f, j, 1)

\* The bytes s take the frame f from place q to place r.
Trail(f, s, q, r) ==
  \E at \in [1 .. Len(s) + 1 -> Nat] :
    at[1] = q /\ at[Len(s) + 1] = r /\ \A p \in 1 .. Len(s) : Step(f, s[p], at[p], at[p + 1])

\* A marker, a status or a nibble.
LEMMA ByteOfType ==
  ASSUME NEW f \in Seq(Bytes), NEW j \in Nat, NEW i \in 0 .. 2
  PROVE  /\ ByteOf(f, j, i) \in Bytes
         /\ i = 0 => ByteOf(f, j, i) \in {128, 144, 160}
         /\ i # 0 => ByteOf(f, j, i) \in 0 .. 15
<1>1. Len(f) \in Nat /\ \A k \in 1 .. Len(f) : f[k] \in Bytes
  BY LenProperties, ElementOfSeq
<1>2. ASSUME NEW b \in Bytes PROVE b \div 16 \in 0 .. 15 /\ b % 16 \in 0 .. 15
  <2>1. b \in Nat /\ b <= 255
    BY DEF Bytes
  <2>2. b \div 16 \in Nat /\ b % 16 \in 0 .. 15 /\ b = 16 * (b \div 16) + (b % 16)
    BY <2>1
  <2> QED
    BY <2>1, <2>2
<1>3. StatusOf(f, j) \in {128, 144, 160}
  BY DEF StatusOf
<1>4. CASE i = 0
  <2>1. ByteOf(f, j, i) = StatusOf(f, j)
    BY <1>4 DEF ByteOf
  <2> QED
    BY <1>3, <1>4, <2>1 DEF Bytes
<1>5. CASE i = 1
  <2>1. ByteOf(f, j, i) = IF j \in 1 .. Len(f) THEN f[j] \div 16 ELSE 0
    BY <1>5 DEF ByteOf
  <2>2. ByteOf(f, j, i) \in 0 .. 15
    BY <1>1, <1>2, <2>1
  <2> QED
    BY <1>5, <2>2 DEF Bytes
<1>6. CASE i = 2
  <2>1. ByteOf(f, j, i) = IF j \in 1 .. Len(f) THEN f[j] % 16 ELSE 0
    BY <1>6 DEF ByteOf
  <2>2. ByteOf(f, j, i) \in 0 .. 15
    BY <1>1, <1>2, <2>1
  <2> QED
    BY <1>6, <2>2 DEF Bytes
<1> QED
  BY <1>4, <1>5, <1>6

\* A step stays inside the frame, and its byte is a byte.
LEMMA StepBounds ==
  ASSUME NEW f \in Seq(Bytes), NEW b, NEW q, NEW r, Step(f, b, q, r)
  PROVE  /\ q \in Nat /\ r \in Nat /\ b \in Bytes
         /\ q <= r /\ q < Places(f) /\ r <= Places(f)
         /\ b < 248 => q < r
<1>1. Len(f) \in Nat
  OBVIOUS
<1>0. Places(f) \in Nat
  BY <1>1 DEF Places
<1>2. CASE b = 248 /\ q \in 0 .. Places(f) - 1 /\ r = q
  BY <1>0, <1>2 DEF Bytes
<1>3. ASSUME NEW j \in 0 .. LastMessage(f), NEW i \in 0 .. 2,
             q = 3 * j + i, r = q + 1, b = ByteOf(f, j, i)
      PROVE  q \in Nat /\ r \in Nat /\ b \in Bytes /\ q < r /\ q < Places(f) /\ r <= Places(f)
  <2>1. j \in Nat /\ j <= Len(f) + 1
    BY <1>1 DEF LastMessage
  <2>2. b \in Bytes
    BY <1>3, <2>1, ByteOfType
  <2>3. q \in Nat /\ r \in Nat /\ q < r /\ q < Places(f) /\ r <= Places(f)
    BY <1>1, <1>3, <2>1 DEF Places
  <2> QED
    BY <2>2, <2>3
<1>4. ASSUME NEW j \in 2 .. Len(f), q = 3 * j, r = q + 2, b = ByteOf(f, j, 1)
      PROVE  q \in Nat /\ r \in Nat /\ b \in Bytes /\ q < r /\ q < Places(f) /\ r <= Places(f)
  <2>1. j \in Nat /\ j <= Len(f)
    BY <1>1
  <2>2. b \in Bytes
    BY <1>4, <2>1, ByteOfType
  <2>3. q \in Nat /\ r \in Nat /\ q < r /\ q < Places(f) /\ r <= Places(f)
    BY <1>1, <1>4, <2>1 DEF Places
  <2> QED
    BY <2>2, <2>3
<1> QED
  BY <1>2, <1>3, <1>4 DEF Step

\* No byte, no step; and one byte, one step.
LEMMA TrailNone ==
  ASSUME NEW f, NEW q \in Nat
  PROVE  Trail(f, <<>>, q, q)
<1> DEFINE at == [p \in 1 .. 1 |-> q]
<1>1. Len(<<>>) = 0
  OBVIOUS
<1>2. at \in [1 .. Len(<<>>) + 1 -> Nat] /\ at[1] = q /\ at[Len(<<>>) + 1] = q
  BY <1>1
<1>3. \A p \in 1 .. Len(<<>>) : FALSE
  BY <1>1
<1> HIDE DEF at
<1> QED
  BY <1>2, <1>3 DEF Trail

\* One byte is one step.
LEMMA TrailOne ==
  ASSUME NEW f, NEW b, NEW q \in Nat, NEW r \in Nat, Step(f, b, q, r)
  PROVE  Trail(f, <<b>>, q, r)
<1> DEFINE at == [p \in 1 .. 2 |-> IF p = 1 THEN q ELSE r]
<1>1. Len(<<b>>) = 1 /\ <<b>>[1] = b
  OBVIOUS
<1>2. at \in [1 .. 2 -> Nat] /\ at[1] = q /\ at[2] = r
  OBVIOUS
<1> HIDE DEF at
<1>3. at \in [1 .. Len(<<b>>) + 1 -> Nat] /\ at[1] = q /\ at[Len(<<b>>) + 1] = r
  BY <1>1, <1>2
<1>4. \A p \in 1 .. Len(<<b>>) : Step(f, <<b>>[p], at[p], at[p + 1])
  <2>1. \A p \in 1 .. Len(<<b>>) : p = 1 /\ p + 1 = 2
    BY <1>1
  <2> QED
    BY <1>1, <1>2, <2>1
<1> QED
  BY <1>3, <1>4 DEF Trail

\* Trails are joined where one ends and the other begins,
LEMMA TrailJoin ==
  ASSUME NEW f, NEW s \in Seq(Bytes), NEW t \in Seq(Bytes), NEW q, NEW m, NEW r,
         Trail(f, s, q, m), Trail(f, t, m, r)
  PROVE  Trail(f, s \o t, q, r)
<1> DEFINE k == Len(s)
           l == Len(t)
           u == s \o t
<1>1. /\ k \in Nat /\ l \in Nat /\ Len(u) = k + l
      /\ \A p \in 1 .. k : u[p] = s[p]
      /\ \A p \in 1 .. l : u[k + p] = t[p]
  BY ConcatProperties
<1>2. PICK a \in [1 .. k + 1 -> Nat] :
        a[1] = q /\ a[k + 1] = m /\ \A p \in 1 .. k : Step(f, s[p], a[p], a[p + 1])
  BY DEF Trail
<1>3. PICK b \in [1 .. l + 1 -> Nat] :
        b[1] = m /\ b[l + 1] = r /\ \A p \in 1 .. l : Step(f, t[p], b[p], b[p + 1])
  BY DEF Trail
<1> DEFINE at == [p \in 1 .. k + l + 1 |-> IF p <= k + 1 THEN a[p] ELSE b[p - k]]
<1> HIDE DEF k, l, u
<1>4. \A p \in 1 .. k + l + 1 : at[p] = IF p <= k + 1 THEN a[p] ELSE b[p - k]
  OBVIOUS
<1>5. at \in [1 .. k + l + 1 -> Nat]
  <2>1. ASSUME NEW p \in 1 .. k + l + 1
        PROVE  (IF p <= k + 1 THEN a[p] ELSE b[p - k]) \in Nat
    <3>1. p <= k + 1 => p \in 1 .. k + 1
      BY <1>1
    <3>2. ~(p <= k + 1) => p - k \in 1 .. l + 1
      BY <1>1
    <3> QED
      BY <3>1, <3>2
  <2> QED
    BY <2>1
<1> HIDE DEF at
<1>6. \A p \in 1 .. l + 1 : k + p \in 1 .. k + l + 1 /\ at[k + p] = b[p]
  <2> TAKE p \in 1 .. l + 1
  <2>1. k + p \in 1 .. k + l + 1 /\ k + p - k = p
    BY <1>1
  <2>2. CASE p = 1
    BY <1>1, <1>2, <1>3, <1>4, <2>1, <2>2
  <2>3. CASE p # 1
    <3> DEFINE o == k + p
    <3>1. ~(o <= k + 1) /\ o \in 1 .. k + l + 1 /\ o - k = p
      BY <1>1, <2>1, <2>3
    <3> HIDE DEF o
    <3>2. at[o] = b[p]
      BY <1>4, <3>1
    <3> QED
      BY <2>1, <3>2 DEF o
  <2> QED
    BY <2>2, <2>3
<1>7. at[1] = q /\ at[k + l + 1] = r
  <2>1. 1 \in 1 .. k + l + 1 /\ 1 <= k + 1 /\ l + 1 \in 1 .. l + 1 /\ k + (l + 1) = k + l + 1
    BY <1>1
  <2> QED
    BY <1>2, <1>3, <1>4, <1>6, <2>1
<1>8. \A p \in 1 .. k + l : Step(f, u[p], at[p], at[p + 1])
  <2> TAKE p \in 1 .. k + l
  <2>1. CASE p <= k
    <3>1. p \in 1 .. k /\ p + 1 <= k + 1 /\ p \in 1 .. k + l + 1 /\ p + 1 \in 1 .. k + l + 1 /\ p <= k + 1
      BY <1>1, <2>1
    <3> QED
      BY <1>1, <1>2, <1>4, <3>1
  <2>2. CASE ~(p <= k)
    <3> DEFINE o == p - k
    <3>1. o \in 1 .. l /\ o \in 1 .. l + 1 /\ o + 1 \in 1 .. l + 1 /\ k + o = p /\ k + (o + 1) = p + 1
      BY <1>1, <2>2
    <3> HIDE DEF o
    <3>2. u[k + o] = t[o] /\ at[k + o] = b[o] /\ at[k + (o + 1)] = b[o + 1]
      BY <1>1, <1>6, <3>1
    <3> QED
      BY <1>3, <3>1, <3>2
  <2> QED
    BY <2>1, <2>2
<1> QED
  BY <1>1, <1>5, <1>7, <1>8 DEF Trail, u

\* and may be cut anywhere.
LEMMA TrailCut ==
  ASSUME NEW f, NEW s \in Seq(Bytes), NEW k \in 0 .. Len(s), NEW q, NEW r, Trail(f, s, q, r)
  PROVE  \E m \in Nat : /\ Trail(f, SubSeq(s, 1, k), q, m)
                        /\ Trail(f, SubSeq(s, k + 1, Len(s)), m, r)
                        /\ k < Len(s) => \E n : Step(f, s[k + 1], m, n)
<1> DEFINE l == Len(s)
           a == SubSeq(s, 1, k)
           b == SubSeq(s, k + 1, Len(s))
<1>0. l \in Nat /\ k \in Nat /\ k <= l
  BY LenProperties
<1>1. Len(a) = k /\ \A p \in 1 .. k : a[p] = s[p]
  <2>1. \A p \in 1 .. k : s[p] \in Bytes
    BY <1>0, ElementOfSeq
  <2> QED
    BY <1>0, <2>1, SubSeqProperties
<1>2. Len(b) = l - k /\ \A p \in 1 .. l - k : b[p] = s[k + p]
  <2>1. \A p \in k + 1 .. l : s[p] \in Bytes
    BY <1>0, ElementOfSeq
  <2> QED
    BY <1>0, <2>1, SubSeqProperties
<1>3. PICK at \in [1 .. l + 1 -> Nat] :
        at[1] = q /\ at[l + 1] = r /\ \A p \in 1 .. l : Step(f, s[p], at[p], at[p + 1])
  BY DEF Trail
<1> HIDE DEF a, b, l
<1> DEFINE m == at[k + 1]
           head == [p \in 1 .. k + 1 |-> at[p]]
           tail == [p \in 1 .. l - k + 1 |-> at[k + p]]
<1>4. m \in Nat
  BY <1>0, <1>3
<1>5. Trail(f, a, q, m)
  <2>1. head \in [1 .. k + 1 -> Nat] /\ head[1] = q /\ head[k + 1] = m
    BY <1>0, <1>3
  <2>2. \A p \in 1 .. k : Step(f, a[p], head[p], head[p + 1])
    <3> TAKE p \in 1 .. k
    <3>1. p \in 1 .. l /\ p \in 1 .. k + 1 /\ p + 1 \in 1 .. k + 1
      BY <1>0
    <3> QED
      BY <1>1, <1>3, <3>1
  <2> HIDE DEF head, m
  <2> QED
    BY <1>1, <2>1, <2>2 DEF Trail
<1>6. Trail(f, b, m, r)
  <2>1. tail \in [1 .. l - k + 1 -> Nat]
    BY <1>0, <1>3
  <2>2. tail[1] = m /\ tail[l - k + 1] = r
    <3>1. 1 \in 1 .. l - k + 1 /\ l - k + 1 \in 1 .. l - k + 1 /\ k + (l - k + 1) = l + 1
      BY <1>0
    <3> QED
      BY <1>3, <3>1
  <2>3. \A p \in 1 .. l - k : Step(f, b[p], tail[p], tail[p + 1])
    <3> TAKE p \in 1 .. l - k
    <3>1. k + p \in 1 .. l /\ p \in 1 .. l - k + 1 /\ p + 1 \in 1 .. l - k + 1 /\ k + (p + 1) = k + p + 1
      BY <1>0
    <3> QED
      BY <1>2, <1>3, <3>1
  <2> HIDE DEF tail, m
  <2> QED
    BY <1>2, <2>1, <2>2, <2>3 DEF Trail
<1>7. k < l => Step(f, s[k + 1], m, at[k + 2])
  <2>1. k < l => k + 1 \in 1 .. l /\ k + 1 + 1 = k + 2
    BY <1>0
  <2> QED
    BY <1>3, <2>1
<1> HIDE DEF m
<1> QED
  BY <1>4, <1>5, <1>6, <1>7 DEF a, b, l

\* A message takes a frame from one place to the next but two,
LEMMA TrailMessage ==
  ASSUME NEW f \in Seq(Bytes), NEW j \in 0 .. LastMessage(f)
  PROVE  Trail(f, <<StatusOf(f, j), ByteOf(f, j, 1), ByteOf(f, j, 2)>>, 3 * j, 3 * j + 3)
<1> DEFINE q == 3 * j
           a == StatusOf(f, j)
           b == ByteOf(f, j, 1)
           c == ByteOf(f, j, 2)
<1>1. j \in Nat /\ q \in Nat /\ q + 1 \in Nat /\ q + 2 \in Nat /\ q + 3 \in Nat
  BY DEF LastMessage
<1>2. a = ByteOf(f, j, 0) /\ a \in Bytes /\ b \in Bytes /\ c \in Bytes
  <2>1. a = ByteOf(f, j, 0)
    BY DEF ByteOf
  <2> QED
    BY <1>1, <2>1, ByteOfType
<1>3. Step(f, a, q, q + 1)
  BY <1>1, <1>2 DEF Step
<1>4. Step(f, b, q + 1, q + 2)
  <2>1. q + 1 = 3 * j + 1 /\ q + 2 = (q + 1) + 1 /\ 1 \in 0 .. 2
    BY <1>1
  <2> QED
    BY <2>1 DEF Step
<1>5. Step(f, c, q + 2, q + 3)
  <2>1. q + 2 = 3 * j + 2 /\ q + 3 = (q + 2) + 1 /\ 2 \in 0 .. 2
    BY <1>1
  <2> QED
    BY <2>1 DEF Step
<1> HIDE DEF q, a, b, c
<1>6. Trail(f, <<a>>, q, q + 1) /\ Trail(f, <<b>>, q + 1, q + 2) /\ Trail(f, <<c>>, q + 2, q + 3)
  BY <1>1, <1>3, <1>4, <1>5, TrailOne
<1>7. /\ <<a>> \in Seq(Bytes) /\ <<b>> \in Seq(Bytes) /\ <<c>> \in Seq(Bytes)
      /\ <<a>> \o <<b>> \in Seq(Bytes)
  BY <1>2
<1>8. Trail(f, <<a>> \o <<b>>, q, q + 2)
  BY <1>6, <1>7, TrailJoin
<1>9. Trail(f, (<<a>> \o <<b>>) \o <<c>>, q, q + 3)
  BY <1>6, <1>7, <1>8, TrailJoin
<1>10. (<<a>> \o <<b>>) \o <<c>> = <<a, b, c>>
  <2>1. <<a>> \o <<b>> = <<a, b>>
    BY <1>2, Pair
  <2>2. <<a, b>> \o <<c>> = <<a, b, c>>
    BY <1>2, Triple
  <2> QED
    BY <2>1, <2>2
<1>11. Trail(f, <<a, b, c>>, q, q + 3)
  BY <1>9, <1>10
<1> QED
  BY <1>11 DEF a, b, c, q

\* and so it does without its status, if that is in effect.
LEMMA TrailRunning ==
  ASSUME NEW f \in Seq(Bytes), NEW j \in 2 .. Len(f)
  PROVE  Trail(f, <<ByteOf(f, j, 1), ByteOf(f, j, 2)>>, 3 * j, 3 * j + 3)
<1> DEFINE q == 3 * j
           b == ByteOf(f, j, 1)
           c == ByteOf(f, j, 2)
<1>0. Len(f) \in Nat
  OBVIOUS
<1>1. j \in Nat /\ q \in Nat /\ q + 2 \in Nat /\ q + 3 \in Nat /\ j \in 0 .. LastMessage(f)
  BY <1>0 DEF LastMessage
<1>2. b \in Bytes /\ c \in Bytes
  BY <1>1, ByteOfType
<1>4. Step(f, b, q, q + 2)
  BY <1>1 DEF Step
<1>5. Step(f, c, q + 2, q + 3)
  <2>1. q + 2 = 3 * j + 2 /\ q + 3 = (q + 2) + 1 /\ 2 \in 0 .. 2
    BY <1>1
  <2> QED
    BY <1>1, <2>1 DEF Step
<1> HIDE DEF q, b, c
<1>6. Trail(f, <<b>>, q, q + 2) /\ Trail(f, <<c>>, q + 2, q + 3)
  BY <1>1, <1>4, <1>5, TrailOne
<1>7. <<b>> \in Seq(Bytes) /\ <<c>> \in Seq(Bytes)
  BY <1>2
<1>9. Trail(f, <<b>> \o <<c>>, q, q + 3)
  BY <1>6, <1>7, TrailJoin
<1>10. <<b>> \o <<c>> = <<b, c>>
  BY <1>2, Pair
<1>11. Trail(f, <<b, c>>, q, q + 3)
  BY <1>9, <1>10
<1> QED
  BY <1>11 DEF b, c, q

\* What EncodeMIDI sends is the whole of a frame, compressed or not.
LEMMA EncodedIsWhole ==
  ASSUME NEW f \in Seq(Bytes), NEW compress \in BOOLEAN
  PROVE  /\ EncodeMIDI(f, compress) \in Seq(Bytes)
         /\ Len(EncodeMIDI(f, compress)) >= 6
         /\ Trail(f, EncodeMIDI(f, compress), 0, Places(f))
<1> DEFINE n == Len(f)
           seqs == [k \in DOMAIN f |-> DataMessage(f[k], compress /\ k > 1)]
           start == <<128, 0, 0>>
           end == <<160, 0, 0>>
           middle == FlattenSeq(seqs)
<1>1. n \in Nat /\ DOMAIN f = 1 .. n
  OBVIOUS
<1>2. ASSUME NEW k \in 1 .. n
      PROVE  /\ DataMessage(f[k], compress /\ k > 1) \in Seq(Bytes)
             /\ Trail(f, DataMessage(f[k], compress /\ k > 1), 3 * k, 3 * k + 3)
  <2>1. /\ ByteOf(f, k, 1) = f[k] \div 16 /\ ByteOf(f, k, 2) = f[k] % 16 /\ StatusOf(f, k) = 144
        /\ k \in 0 .. LastMessage(f) /\ k \in Nat
    BY <1>1 DEF ByteOf, StatusOf, LastMessage
  <2>2. ByteOf(f, k, 1) \in Bytes /\ ByteOf(f, k, 2) \in Bytes /\ 144 \in Bytes
    BY <2>1, ByteOfType DEF Bytes
  <2> DEFINE b == ByteOf(f, k, 1)
             c == ByteOf(f, k, 2)
  <2>3. Trail(f, <<144, b, c>>, 3 * k, 3 * k + 3)
    BY <2>1, TrailMessage
  <2>4. k > 1 => Trail(f, <<b, c>>, 3 * k, 3 * k + 3)
    <3>1. k > 1 => k \in 2 .. Len(f)
      BY <1>1
    <3> QED
      BY <3>1, TrailRunning
  <2>6. b \in Bytes /\ c \in Bytes
    BY <2>2
  <2>5. DataMessage(f[k], compress /\ k > 1) = IF compress /\ k > 1 THEN <<b, c>> ELSE <<144, b, c>>
    <3>1. DataMessage(f[k], compress /\ k > 1) = (IF compress /\ k > 1 THEN <<>> ELSE <<144>>) \o <<b, c>>
      BY <2>1 DEF DataMessage
    <3> HIDE DEF b, c
    <3>2. <<>> \o <<b, c>> = <<b, c>>
      <4>1. <<b, c>> \in Seq(Bytes)
        BY <2>6
      <4> QED
        BY <4>1, ConcatEmptySeq
    <3>3. <<144>> \o <<b, c>> = <<144, b, c>>
      <4>1. 144 \in Bytes
        BY <2>2
      <4>2. \A a \in Bytes : <<a>> \o <<b, c>> = <<a, b, c>>
        BY <2>6, Triple
      <4> QED
        BY <4>1, <4>2, Zenon
    <3> QED
      BY <3>1, <3>2, <3>3
  <2> HIDE DEF b, c
  <2>7. <<b, c>> \in Seq(Bytes) /\ <<144, b, c>> \in Seq(Bytes)
    BY <2>2, <2>6
  <2> QED
    BY <2>3, <2>4, <2>5, <2>7
<1>3. seqs \in Seq(Seq(Bytes)) /\ Len(seqs) = n /\ \A k \in 1 .. n : seqs[k] = DataMessage(f[k], compress /\ k > 1)
  <2>1. seqs = [k \in 1 .. n |-> DataMessage(f[k], compress /\ k > 1)]
    BY <1>1
  <2>2. \A k \in 1 .. n : DataMessage(f[k], compress /\ k > 1) \in Seq(Bytes)
    BY <1>2
  <2> HIDE DEF n
  <2>3. seqs \in [1 .. n -> Seq(Bytes)]
    BY <2>1, <2>2
  <2> HIDE DEF seqs
  <2>4. seqs \in Seq(Seq(Bytes)) /\ Len(seqs) = n
    BY <1>1, <2>3
  <2> QED
    BY <2>1, <2>4
<1> HIDE DEF seqs
<1>4. middle \in Seq(Bytes)
  BY <1>3, FlattenTyped
<1>5. Trail(f, middle, 3, 3 * n + 3)
  <2>1. CASE n = 0
    <3>1. middle = <<>>
      BY <1>3, <2>1, FlattenNone
    <3> QED
      BY <2>1, <3>1, TrailNone
  <2>2. CASE n # 0
    <3> HIDE DEF n
    <3>1. PICK g : Joining(seqs, g, n)
      BY <1>1, JoiningExists
    <3>2. middle = g[n]
      BY <1>1, <1>3, <2>2, <3>1, FlattenJoins
    <3> DEFINE D == {i \in Nat : i \in 1 .. n /\ ~(g[i] \in Seq(Bytes) /\ Trail(f, g[i], 3, 3 * i + 3))}
    <3>3. D = {}
      <4>1. SUFFICES ASSUME D # {} PROVE FALSE
        OBVIOUS
      <4>2. PICK i \in D : \A j \in D : i <= j
        BY <4>1, SmallestOf
      <4>3. i \in 1 .. n /\ i \in Nat
        OBVIOUS
      <4>4. g[i] = Joined(seqs, g, i)
        BY <3>1, <4>3, JoiningAt
      <4>5. seqs[i] \in Seq(Bytes) /\ Trail(f, seqs[i], 3 * i, 3 * i + 3)
        BY <1>2, <1>3, <4>3
      <4>6. CASE i = 1
        BY <4>4, <4>5, <4>6 DEF Joined
      <4>7. CASE i # 1
        <5>1. i - 1 \in 1 .. n /\ i - 1 \in Nat /\ i - 1 \notin D /\ 3 * (i - 1) + 3 = 3 * i
          BY <1>1, <4>2, <4>3, <4>7
        <5>2. g[i - 1] \in Seq(Bytes) /\ Trail(f, g[i - 1], 3, 3 * i)
          BY <5>1
        <5>3. g[i] = g[i - 1] \o seqs[i]
          BY <4>4, <4>7 DEF Joined
        <5>4. Trail(f, g[i], 3, 3 * i + 3)
          BY <4>5, <5>2, <5>3, TrailJoin
        <5>5. g[i] \in Seq(Bytes)
          BY <4>5, <5>2, <5>3, ConcatProperties
        <5> QED
          BY <5>4, <5>5
      <4> QED
        BY <4>6, <4>7
    <3>4. n \in Nat /\ n \in 1 .. n /\ n \notin D
      BY <1>1, <2>2, <3>3
    <3> QED
      BY <3>2, <3>4
  <2> QED
    BY <2>1, <2>2
<1>6. Trail(f, start, 0, 3)
  <2>1. StatusOf(f, 0) = 128 /\ ByteOf(f, 0, 1) = 0 /\ ByteOf(f, 0, 2) = 0 /\ 0 \in 0 .. LastMessage(f)
    BY <1>1 DEF StatusOf, ByteOf, LastMessage
  <2> QED
    BY <2>1, TrailMessage
<1>7. Trail(f, end, 3 * n + 3, Places(f))
  <2> DEFINE j == n + 1
  <2>1. StatusOf(f, j) = 160 /\ ByteOf(f, j, 1) = 0 /\ ByteOf(f, j, 2) = 0 /\ j \in 0 .. LastMessage(f)
    BY <1>1 DEF StatusOf, ByteOf, LastMessage
  <2>2. 3 * j = 3 * n + 3 /\ 3 * j + 3 = Places(f)
    BY <1>1 DEF Places
  <2> HIDE DEF j, n
  <2> QED
    BY <2>1, <2>2, TrailMessage
<1>8. EncodeMIDI(f, compress) = (start \o middle) \o end
  BY DEF EncodeMIDI, seqs
<1>9. start \in Seq(Bytes) /\ end \in Seq(Bytes) /\ Len(start) = 3 /\ Len(end) = 3
  BY DEF Bytes
<1> HIDE DEF start, middle, end, n
<1>10. start \o middle \in Seq(Bytes) /\ Len(start \o middle) >= 3 /\ Len(start \o middle) \in Nat
  <2>1. Len(middle) \in Nat /\ Len(start \o middle) = Len(start) + Len(middle)
    BY <1>4, <1>9, ConcatProperties, LenProperties
  <2>2. start \o middle \in Seq(Bytes)
    BY <1>4, <1>9, ConcatProperties
  <2> QED
    BY <1>9, <2>1, <2>2
<1>11. (start \o middle) \o end \in Seq(Bytes) /\ Len((start \o middle) \o end) >= 6
  <2> DEFINE front == start \o middle
  <2> HIDE DEF front
  <2>1. front \in Seq(Bytes) /\ Len(front) >= 3 /\ Len(front) \in Nat
    BY <1>10 DEF front
  <2>2. front \o end \in Seq(Bytes) /\ Len(front \o end) = Len(front) + Len(end)
    BY <1>9, <2>1, ConcatProperties
  <2>3. Len(front \o end) >= 6
    BY <1>9, <2>1, <2>2
  <2> QED
    BY <2>2, <2>3 DEF front
<1>12. Trail(f, start \o middle, 0, 3 * n + 3)
  BY <1>4, <1>5, <1>6, <1>9, TrailJoin
<1>13. Trail(f, (start \o middle) \o end, 0, Places(f))
  BY <1>7, <1>9, <1>10, <1>12, TrailJoin
<1> QED
  BY <1>8, <1>10, <1>11, <1>13

\* A clock tick inside it leaves it whole.
LEMMA TickedIsWhole ==
  ASSUME NEW f \in Seq(Bytes), NEW s \in Seq(Bytes), NEW k \in 0 .. Len(s) - 1,
         Trail(f, s, 0, Places(f))
  PROVE  /\ InsertClock(s, k) \in Seq(Bytes)
         /\ Trail(f, InsertClock(s, k), 0, Places(f))
<1> DEFINE a == SubSeq(s, 1, k)
           b == SubSeq(s, k + 1, Len(s))
<1>1. Len(s) \in Nat /\ k \in Nat /\ k < Len(s) /\ k \in 0 .. Len(s)
  BY LenProperties
<1>2. a \in Seq(Bytes) /\ b \in Seq(Bytes)
  <2>1. \A p \in 1 .. Len(s) : s[p] \in Bytes
    BY ElementOfSeq
  <2>2. (\A p \in 1 .. k : s[p] \in Bytes) /\ (\A p \in k + 1 .. Len(s) : s[p] \in Bytes)
    BY <1>1, <2>1
  <2> QED
    BY <1>1, <2>2, SubSeqProperties
<1>3. PICK m \in Nat : /\ Trail(f, a, 0, m) /\ Trail(f, b, m, Places(f))
                       /\ \E n : Step(f, s[k + 1], m, n)
  BY <1>1, TrailCut
<1>4. Step(f, 248, m, m)
  <2>1. PICK n : Step(f, s[k + 1], m, n)
    BY <1>3
  <2>2. m < Places(f) /\ Places(f) \in Nat
    BY <2>1, StepBounds, LenProperties DEF Places
  <2> QED
    BY <2>2 DEF Step
<1>5. <<248>> \in Seq(Bytes) /\ Trail(f, <<248>>, m, m)
  <2>1. 248 \in Bytes
    BY DEF Bytes
  <2> QED
    BY <1>4, <2>1, TrailOne
<1>6. InsertClock(s, k) = (a \o <<248>>) \o b
  BY DEF InsertClock
<1> HIDE DEF a, b
<1> DEFINE t == a \o <<248>>
<1>7. t \in Seq(Bytes) /\ Trail(f, t, 0, m)
  <2>1. t \in Seq(Bytes)
    BY <1>2, <1>5
  <2>2. Trail(f, t, 0, m)
    BY <1>2, <1>3, <1>5, TrailJoin
  <2> QED
    BY <2>1, <2>2
<1> HIDE DEF t
<1>8. t \o b \in Seq(Bytes) /\ Trail(f, t \o b, 0, Places(f))
  <2>1. t \o b \in Seq(Bytes)
    BY <1>2, <1>7
  <2>2. Trail(f, t \o b, 0, Places(f))
    BY <1>2, <1>3, <1>7, TrailJoin
  <2> QED
    BY <2>1, <2>2
<1> QED
  BY <1>6, <1>8 DEF t

-----------------------------------------------------------------------------
(* The decoder along a frame.                                                *)

\* What is accumulated when n bytes of a frame have come.
Taken(f, n) == SubSeq(f, 1, IF n <= MaxFrameLen THEN n ELSE MaxFrameLen)

\* Where the decoder is when byte i of message j comes next.
InEffect(f, j) == ~sysex /\ status = StatusOf(f, j) /\ want = 2

FollowsAt(f, j, i) ==
  /\ j >= 1 => acc = Taken(f, j - 1)
  /\ i >= 1 \/ j \in 2 .. Len(f) => InEffect(f, j)
  /\ i = 1 \/ (i = 0 /\ j \in 2 .. Len(f)) => nData = 0
  /\ i = 2 => nData = 1 /\ data[1] = ByteOf(f, j, 1)

Follows(f, q) ==
  \A j \in 0 .. LastMessage(f), i \in 0 .. 2 : q = 3 * j + i => FollowsAt(f, j, i)

\* What has been accumulated is the beginning of the frame, up to the cap.
LEMMA TakenIs ==
  ASSUME NEW f \in Seq(Bytes), NEW n \in 0 .. Len(f)
  PROVE  /\ Taken(f, n) \in Seq(Bytes)
         /\ Len(Taken(f, n)) = IF n <= MaxFrameLen THEN n ELSE MaxFrameLen
         /\ \A p \in 1 .. Len(Taken(f, n)) : Taken(f, n)[p] = f[p]
<1> DEFINE k == IF n <= MaxFrameLen THEN n ELSE MaxFrameLen
<1>1. k \in Nat /\ k <= Len(f) /\ Len(f) \in Nat
  BY DecoderAssumption DEF DecoderAssumption
<1>2. Taken(f, n) = SubSeq(f, 1, k)
  BY DEF Taken
<1> HIDE DEF k
<1>3. \A p \in 1 .. k : f[p] \in Bytes
  BY <1>1, ElementOfSeq
<1>4. SubSeq(f, 1, k) \in Seq(Bytes) /\ Len(SubSeq(f, 1, k)) = k /\ \A p \in 1 .. k : SubSeq(f, 1, k)[p] = f[p]
  BY <1>1, <1>3, SubSeqProperties
<1> QED
  BY <1>2, <1>4 DEF k

\* One byte more, while there is room.
LEMMA TakenMore ==
  ASSUME NEW f \in Seq(Bytes), NEW j \in 1 .. Len(f)
  PROVE  Taken(f, j) = IF Len(Taken(f, j - 1)) < MaxFrameLen
                       THEN Append(Taken(f, j - 1), f[j]) ELSE Taken(f, j - 1)
<1>0. Len(f) \in Nat /\ j \in 0 .. Len(f) /\ j - 1 \in 0 .. Len(f) /\ f[j] \in Bytes
  BY LenProperties, ElementOfSeq
<1>1. MaxFrameLen \in Nat
  BY DecoderAssumption DEF DecoderAssumption
<1> DEFINE a == Taken(f, j - 1)
           b == Taken(f, j)
<1>2. /\ a \in Seq(Bytes) /\ Len(a) = (IF j - 1 <= MaxFrameLen THEN j - 1 ELSE MaxFrameLen)
      /\ \A p \in 1 .. Len(a) : a[p] = f[p]
  BY <1>0, TakenIs
<1>3. /\ b \in Seq(Bytes) /\ Len(b) = (IF j <= MaxFrameLen THEN j ELSE MaxFrameLen)
      /\ \A p \in 1 .. Len(b) : b[p] = f[p]
  BY <1>0, TakenIs
<1> HIDE DEF a, b
<1>4. CASE Len(a) < MaxFrameLen
  <2>1. Len(a) = j - 1 /\ Len(b) = j
    BY <1>0, <1>1, <1>2, <1>3, <1>4
  <2>2. Append(a, f[j]) \in Seq(Bytes) /\ Len(Append(a, f[j])) = j
        /\ Append(a, f[j])[j] = f[j] /\ \A p \in 1 .. j - 1 : Append(a, f[j])[p] = a[p]
    BY <1>0, <1>2, <2>1, AppendProperties
  <2>3. \A p \in 1 .. j : Append(a, f[j])[p] = b[p]
    <3> TAKE p \in 1 .. j
    <3>1. p = j \/ p \in 1 .. j - 1
      BY <1>0
    <3> QED
      BY <1>2, <1>3, <2>1, <2>2, <3>1
  <2>4. b = Append(a, f[j])
    BY <1>3, <2>1, <2>2, <2>3, SeqEqual
  <2> QED
    BY <1>4, <2>4 DEF a, b
<1>5. CASE ~(Len(a) < MaxFrameLen)
  <2>1. Len(a) = Len(b)
    BY <1>0, <1>1, <1>2, <1>3, <1>5
  <2>2. \A p \in 1 .. Len(a) : a[p] = b[p]
    BY <1>2, <1>3, <2>1
  <2>3. a = b
    BY <1>2, <1>3, <2>1, <2>2, SeqEqual
  <2> QED
    BY <1>5, <2>3 DEF a, b
<1> QED
  BY <1>4, <1>5

\* What the end marker makes of it is what the frame is worth.
LEMMA EndIsExpected ==
  ASSUME NEW f \in Seq(Bytes), acc = Taken(f, Len(f)), EndOfFrame
  PROVE  emitted' = Expected(f)
<1> DEFINE n == Len(f)
           s == Taken(f, n)
           len == Len(s)
<1>0. n \in Nat /\ n \in 0 .. n /\ MaxFrameLen \in Nat /\ MaxFrameLen >= 2
  BY DecoderAssumption DEF DecoderAssumption
<1>1. /\ s \in Seq(Bytes) /\ len = (IF n <= MaxFrameLen THEN n ELSE MaxFrameLen)
      /\ \A p \in 1 .. len : s[p] = f[p]
  BY <1>0, TakenIs
<1>2. len \in Nat /\ n = Len(f) /\ len = Len(s) /\ s = Taken(f, n)
  BY <1>0, <1>1
<1> HIDE DEF n, s, len
<1> DEFINE whole == n >= 2 /\ f[1] \in 2 .. MaxFrameLen /\ f[1] <= n
<1>3. (len >= 2 /\ ValidResponseLen(s[1]) /\ s[1] <= len) <=> whole
  <2>1. (len >= 2) <=> (n >= 2)
    BY <1>0, <1>1
  <2>2. len >= 2 => s[1] = f[1]
    BY <1>1, <1>2
  <2>3. ASSUME n >= 2, f[1] \in 2 .. MaxFrameLen PROVE f[1] <= len <=> f[1] <= n
    BY <1>0, <1>1, <2>3
  <2> QED
    BY <2>1, <2>2, <2>3 DEF ValidResponseLen
<1>4. CASE whole
  <2>1. emitted' = <<SubSeq(s, 1, s[1])>>
    BY <1>2, <1>3, <1>4 DEF EndOfFrame
  <2>2. s[1] = f[1] /\ f[1] \in Nat /\ f[1] <= len /\ f[1] <= n
    <3>1. len >= 2 /\ s[1] <= len
      BY <1>3, <1>4
    <3> QED
      BY <1>0, <1>1, <1>2, <1>4, <3>1
  <2> DEFINE k == f[1]
  <2>3. k \in Nat /\ k <= len /\ k <= n
    BY <2>2
  <2> HIDE DEF k
  <2>4. /\ \A p \in 1 .. k : s[p] \in Bytes
        /\ \A p \in 1 .. k : f[p] \in Bytes
    BY <1>0, <1>1, <1>2, <2>3, ElementOfSeq
  <2>5. SubSeq(s, 1, k) \in Seq(Bytes) /\ Len(SubSeq(s, 1, k)) = k /\ \A p \in 1 .. k : SubSeq(s, 1, k)[p] = s[p]
    BY <1>1, <2>3, <2>4, SubSeqProperties
  <2>6. SubSeq(f, 1, k) \in Seq(Bytes) /\ Len(SubSeq(f, 1, k)) = k /\ \A p \in 1 .. k : SubSeq(f, 1, k)[p] = f[p]
    BY <1>1, <2>3, <2>4, SubSeqProperties
  <2>7. \A p \in 1 .. k : SubSeq(s, 1, k)[p] = SubSeq(f, 1, k)[p]
    <3>1. \A p \in 1 .. k : p \in 1 .. len
      BY <1>2, <2>3
    <3> QED
      BY <1>1, <2>5, <2>6, <3>1
  <2>8. SubSeq(s, 1, k) = SubSeq(f, 1, k)
    BY <2>5, <2>6, <2>7, SeqEqual
  <2>9. Expected(f) = <<SubSeq(f, 1, k)>>
    BY <1>2, <1>4 DEF Expected, k
  <2> QED
    BY <2>1, <2>2, <2>8, <2>9 DEF k
<1>5. CASE ~whole
  <2>1. emitted' = <<>>
    BY <1>2, <1>3, <1>5 DEF EndOfFrame
  <2>2. Expected(f) = <<>>
    BY <1>2, <1>5 DEF Expected
  <2> QED
    BY <2>1, <2>2
<1> QED
  BY <1>4, <1>5

\* A status byte of the frame takes effect whatever was in effect before it,
LEMMA StatusFollowed ==
  ASSUME NEW f \in Seq(Bytes), NEW j \in 0 .. LastMessage(f),
         FollowsAt(f, j, 0), FeedByte(ByteOf(f, j, 0))
  PROVE  emitted' = <<>> /\ FollowsAt(f, j, 1)'
<1> DEFINE b == ByteOf(f, j, 0)
<1>1. b \in {128, 144, 160} /\ b = StatusOf(f, j)
  BY DEF ByteOf, StatusOf
<1> HIDE DEF b
<1>2. StatusByte(b)
  BY <1>1 DEF FeedByte, Realtime, SysExStart, DataByte, b
<1>3. ExpectedDataBytes(b) = 2
  BY <1>1 DEF ExpectedDataBytes
<1>4. /\ sysex' = FALSE /\ nData' = 0 /\ want' = 2 /\ status' = b
      /\ acc' = acc /\ emitted' = <<>>
  BY <1>2, <1>3 DEF StatusByte, NoMessage
<1> QED
  BY <1>1, <1>4 DEF FollowsAt, InEffect

\* the first data byte waits for the second,
LEMMA FirstFollowed ==
  ASSUME MidiInv, NEW f \in Seq(Bytes), NEW j \in 0 .. LastMessage(f),
         j >= 1 => acc = Taken(f, j - 1), InEffect(f, j), nData = 0, FeedByte(ByteOf(f, j, 1))
  PROVE  emitted' = <<>> /\ FollowsAt(f, j, 2)'
<1> DEFINE b == ByteOf(f, j, 1)
<1>0. Len(f) \in Nat /\ j \in Nat
  BY DEF LastMessage
<1>1. b \in 0 .. 15
  BY <1>0, ByteOfType
<1>a. b = ByteOf(f, j, 1)
  OBVIOUS
<1> HIDE DEF b
<1>2. DataByte(b)
  <2>1. FeedByte(b)
    BY <1>a
  <2>2. b \in Nat /\ b < 128
    BY <1>1
  <2>3. ~(b >= 248) /\ b # 240 /\ b \notin 128 .. 247 \ {240}
    BY ONLY <2>2
  <2> QED
    BY <2>1, <2>3 DEF FeedByte, Realtime, SysExStart, StatusByte
<1>3. StatusOf(f, j) \in {128, 144, 160}
  BY DEF StatusOf
<1>4. ~(sysex \/ status = 0) /\ ~(nData + 1 >= want)
  BY <1>3 DEF InEffect
<1>5. /\ data' = [data EXCEPT ![nData + 1] = b] /\ want' = want /\ sysex' = sysex
      /\ nData' = nData + 1 /\ status' = status /\ acc' = acc /\ emitted' = <<>>
  BY <1>2, <1>4 DEF DataByte, NoMessage
<1>6. nData' = 1 /\ data'[1] = b
  BY <1>5 DEF MidiInv
<1> QED
  BY <1>5, <1>6, <1>a DEF FollowsAt, InEffect

\* and the second completes the message.
LEMMA SecondFollowed ==
  ASSUME MidiInv, NEW f \in Seq(Bytes), NEW j \in 0 .. LastMessage(f),
         FollowsAt(f, j, 2), FeedByte(ByteOf(f, j, 2))
  PROVE  /\ emitted' = IF j = LastMessage(f) THEN Expected(f) ELSE <<>>
         /\ j < LastMessage(f) => FollowsAt(f, j + 1, 0)'
<1> DEFINE b == ByteOf(f, j, 2)
           st == StatusOf(f, j)
           d == [data EXCEPT ![nData + 1] = b]
           n == Len(f)
<1>0. n \in Nat /\ j \in Nat /\ j <= n + 1 /\ LastMessage(f) = n + 1 /\ n = Len(f)
  BY DEF LastMessage
<1>1. b \in 0 .. 15
  BY <1>0, ByteOfType
<1>a. b = ByteOf(f, j, 2)
  OBVIOUS
<1>3. st \in {128, 144, 160} /\ st = IF j = 0 THEN 128 ELSE IF j <= n THEN 144 ELSE 160
  BY DEF StatusOf
<1>4. /\ ~sysex /\ status = st /\ want = 2 /\ nData = 1 /\ data[1] = ByteOf(f, j, 1)
      /\ j >= 1 => acc = Taken(f, j - 1)
  BY DEF FollowsAt, InEffect
<1>5. d[1] = ByteOf(f, j, 1) /\ d[2] = b
  BY <1>4 DEF MidiInv
<1>6. d = [data EXCEPT ![nData + 1] = b]
  OBVIOUS
<1> HIDE DEF b, st, d, n
<1>2. DataByte(b)
  <2>1. FeedByte(b)
    BY <1>a
  <2>2. b \in Nat /\ b < 128
    BY <1>1
  <2>3. ~(b >= 248) /\ b # 240 /\ b \notin 128 .. 247 \ {240}
    BY ONLY <2>2
  <2> QED
    BY <2>1, <2>3 DEF FeedByte, Realtime, SysExStart, StatusByte
<1>7. want' = want /\ sysex' = sysex /\ Completes(status, d)
  <2>1. ~(sysex \/ status = 0) /\ nData + 1 >= want
    BY <1>3, <1>4
  <2> QED
    BY <1>2, <1>6, <2>1 DEF DataByte
<1>8. nData' = 0 /\ status' = st /\ Message(st, d)
  BY <1>3, <1>4, <1>7 DEF Completes
<1>9. CASE j = 0
  <2>1. st \div 16 = 8
    BY <1>3, <1>9
  <2>2. StartOfFrame
    BY <1>8, <2>1 DEF Message
  <2>3. acc' = <<>> /\ emitted' = <<>>
    BY <2>2 DEF StartOfFrame
  <2>4. Taken(f, 0) = <<>>
    <3>1. Len(Taken(f, 0)) = 0 /\ Taken(f, 0) \in Seq(Bytes)
      BY <1>0, TakenIs, DecoderAssumption DEF DecoderAssumption
    <3> QED
      BY <3>1, EmptySeq
  <2>5. FollowsAt(f, 1, 0)'
    BY <2>3, <2>4 DEF FollowsAt
  <2> QED
    BY <1>0, <1>9, <2>3, <2>5
<1>10. CASE j \in 1 .. n
  <2>1. st \div 16 = 9
    BY <1>0, <1>3, <1>10
  <2>2. FrameData(d[1], d[2])
    BY <1>8, <2>1 DEF Message
  <2>3. 16 * (d[1] % 16) + (d[2] % 16) = f[j]
    <3>1. d[1] = f[j] \div 16 /\ d[2] = f[j] % 16
      BY <1>0, <1>5, <1>10, <1>a DEF ByteOf
    <3>2. f[j] \in Nat /\ f[j] <= 255
      <4>1. j \in 1 .. Len(f)
        BY <1>0, <1>10
      <4>2. f[j] \in Bytes
        BY <4>1, ElementOfSeq
      <4>3. \A x \in Bytes : x \in Nat /\ x <= 255
        BY ONLY DEF Bytes
      <4> QED
        BY <4>2, <4>3
    <3> DEFINE x == f[j]
    <3>3. x \in Nat /\ x <= 255
      BY <3>2
    <3> HIDE DEF x
    <3>4. 16 * ((x \div 16) % 16) + ((x % 16) % 16) = x
      <4>1. x % 16 \in 0 .. 15 /\ x \div 16 \in 0 .. 15 /\ x = 16 * (x \div 16) + (x % 16)
        BY ONLY <3>3
      <4>2. (x \div 16) % 16 = x \div 16 /\ (x % 16) % 16 = x % 16
        BY ONLY <4>1
      <4> QED
        BY ONLY <3>3, <4>1, <4>2
    <3> QED
      BY <3>1, <3>4 DEF x
  <2>4. acc' = Taken(f, j) /\ emitted' = <<>>
    <3>1. acc = Taken(f, j - 1)
      BY <1>0, <1>4, <1>10
    <3>2. acc' = (IF Len(acc) < MaxFrameLen THEN Append(acc, f[j]) ELSE acc) /\ emitted' = <<>>
      BY <2>2, <2>3 DEF FrameData
    <3> QED
      BY <1>0, <1>10, <3>1, <3>2, TakenMore
  <2>5. j + 1 - 1 = j /\ j < LastMessage(f)
    BY <1>0, <1>10
  <2>6. j + 1 \in 2 .. Len(f) => st = StatusOf(f, j + 1)
    BY <1>0, <1>3, <1>10 DEF StatusOf
  <2>7. FollowsAt(f, j + 1, 0)'
    BY <1>4, <1>7, <1>8, <2>4, <2>5, <2>6 DEF FollowsAt, InEffect
  <2> QED
    BY <2>4, <2>5, <2>7
<1>11. CASE j = n + 1
  <2>1. st \div 16 = 10
    BY <1>0, <1>3, <1>11
  <2>2. EndOfFrame
    BY <1>8, <2>1 DEF Message
  <2>3. acc = Taken(f, Len(f))
    BY <1>0, <1>4, <1>11
  <2>4. emitted' = Expected(f)
    BY <2>2, <2>3, EndIsExpected
  <2> QED
    BY <1>0, <1>11, <2>4
<1> QED
  BY <1>0, <1>9, <1>10, <1>11

\* The decoder keeps up with the frame, and emits what it is worth with its last byte.
LEMMA StepFollowed ==
  ASSUME MidiInv, NEW f \in Seq(Bytes), NEW b, NEW q, NEW r,
         Follows(f, q), Step(f, b, q, r), FeedByte(b)
  PROVE  /\ Follows(f, r)'
         /\ emitted' = IF r = Places(f) THEN Expected(f) ELSE <<>>
<1>0. Len(f) \in Nat /\ LastMessage(f) = Len(f) + 1 /\ Places(f) = 3 * Len(f) + 6
  BY DEF LastMessage, Places
\* A place is one byte of one message.
<1>1. ASSUME NEW j \in 0 .. LastMessage(f), NEW i \in 0 .. 2, FollowsAt(f, j, i)', r = 3 * j + i
      PROVE  Follows(f, r)' /\ r # Places(f)
  <2>1. ASSUME NEW k \in 0 .. LastMessage(f), NEW l \in 0 .. 2, r = 3 * k + l
        PROVE  k = j /\ l = i
    BY <1>0, <1>1, <2>1
  <2>2. r # Places(f)
    BY <1>0, <1>1
  <2> QED
    BY <1>1, <2>1, <2>2 DEF Follows
<1>2. CASE b = 248 /\ q \in 0 .. Places(f) - 1 /\ r = q
  <2>1. Realtime(b)
    BY <1>2 DEF FeedByte, SysExStart, StatusByte, DataByte
  <2>2. UNCHANGED <<status, data, nData, want, sysex, acc>> /\ emitted' = <<>>
    BY <2>1 DEF Realtime, NoMessage, midiVars
  <2>3. Follows(f, q)'
    BY <2>2 DEF Follows, FollowsAt, InEffect
  <2> QED
    BY <1>0, <1>2, <2>2, <2>3
<1>3. ASSUME NEW j \in 0 .. LastMessage(f), NEW i \in 0 .. 2,
             q = 3 * j + i, r = q + 1, b = ByteOf(f, j, i)
      PROVE  Follows(f, r)' /\ emitted' = IF r = Places(f) THEN Expected(f) ELSE <<>>
  <2>0. FollowsAt(f, j, i) /\ FeedByte(ByteOf(f, j, i)) /\ j \in Nat /\ j <= Len(f) + 1
    BY <1>0, <1>3 DEF Follows
  <2>1. CASE i = 0
    <3>1. emitted' = <<>> /\ FollowsAt(f, j, 1)'
      BY <2>0, <2>1, StatusFollowed
    <3>2. r = 3 * j + 1
      BY <1>3, <2>1
    <3> QED
      BY <1>1, <3>1, <3>2
  <2>2. CASE i = 1
    <3>1. emitted' = <<>> /\ FollowsAt(f, j, 2)'
      BY <2>0, <2>2, FirstFollowed DEF FollowsAt
    <3>2. r = 3 * j + 2
      BY <1>3, <2>2
    <3> QED
      BY <1>1, <3>1, <3>2
  <2>3. CASE i = 2
    <3>1. /\ emitted' = (IF j = LastMessage(f) THEN Expected(f) ELSE <<>>)
          /\ j < LastMessage(f) => FollowsAt(f, j + 1, 0)'
      BY <2>0, <2>3, SecondFollowed
    <3>2. CASE j = LastMessage(f)
      <4>1. r = Places(f)
        BY <1>0, <1>3, <2>3, <3>2
      <4>2. \A k \in 0 .. LastMessage(f), l \in 0 .. 2 : r # 3 * k + l
        BY <1>0, <4>1
      <4>3. Follows(f, r)'
        BY <4>2 DEF Follows
      <4> QED
        BY <3>1, <3>2, <4>1, <4>3
    <3>3. CASE j # LastMessage(f)
      <4>1. j < LastMessage(f) /\ j + 1 \in 0 .. LastMessage(f) /\ r = 3 * (j + 1) + 0
        BY <1>0, <1>3, <2>0, <2>3, <3>3
      <4> QED
        BY <1>1, <3>1, <3>3, <4>1
    <3> QED
      BY <3>2, <3>3
  <2> QED
    BY <2>1, <2>2, <2>3
<1>4. ASSUME NEW j \in 2 .. Len(f), q = 3 * j, r = q + 2, b = ByteOf(f, j, 1)
      PROVE  Follows(f, r)' /\ emitted' = IF r = Places(f) THEN Expected(f) ELSE <<>>
  <2>1. j \in 0 .. LastMessage(f) /\ q = 3 * j + 0 /\ j \in Nat /\ j >= 2
    BY <1>0, <1>4
  <2>2. FollowsAt(f, j, 0)
    BY <2>1 DEF Follows
  <2>3. acc = Taken(f, j - 1) /\ InEffect(f, j) /\ nData = 0
    BY <2>1, <2>2 DEF FollowsAt
  <2>4. emitted' = <<>> /\ FollowsAt(f, j, 2)'
    BY <1>4, <2>1, <2>3, FirstFollowed
  <2>5. r = 3 * j + 2
    BY <1>4, <2>1
  <2> QED
    BY <1>1, <2>1, <2>4, <2>5
<1> QED
  BY <1>2, <1>3, <1>4 DEF Step

-----------------------------------------------------------------------------
(* The same over event packets: splitMessages along a frame.                  *)

\* A message of a frame, with its status; or a realtime byte.
IsWhole(m) ==
  \/ m = <<248>>
  \/ \E k \in {128, 144, 160}, n \in 0 .. 15, p \in 0 .. 15 : m = <<k, n, p>>

Wholes == {m \in Seq(Bytes) : IsWhole(m)}

\* Whole messages are byte sequences.
LEMMA WholesAreBytes ==
  ASSUME NEW ms \in Seq(Wholes)
  PROVE  ms \in Seq(Seq(Bytes))
<1>1. Wholes \subseteq Seq(Bytes)
  BY DEF Wholes
<1>2. Len(ms) \in Nat /\ \A k \in 1 .. Len(ms) : ms[k] \in Seq(Bytes)
  BY <1>1, LenProperties, ElementOfSeq
<1>3. ms \in [1 .. Len(ms) -> Wholes]
  OBVIOUS
<1>4. ms \in [1 .. Len(ms) -> Seq(Bytes)]
  BY <1>2, <1>3
<1> QED
  BY <1>2, <1>4

(* What splitMessages makes of a byte, by where it is.                        *)
Going(messages, a, s, w) == Splitting(messages, a, s, w, TRUE)

\* A realtime byte goes out at once, and disturbs nothing.
LEMMA SplitRealtime ==
  ASSUME NEW ms, NEW a, NEW s, NEW w
  PROVE  SplitByte(Going(ms, a, s, w), 248) = Going(Append(ms, <<248>>), a, s, w)
BY DEF SplitByte, Splitting, Going

\* A status byte begins a message of three bytes.
LEMMA SplitFirst ==
  ASSUME NEW ms, NEW s, NEW w, NEW b \in {128, 144, 160}
  PROVE  SplitByte(Going(ms, <<>>, s, w), b) = Going(ms, <<b>>, b, 3)
<1>1. ~(b >= 248) /\ b \in 128 .. 247
  OBVIOUS
<1>2. Classify(b).length = 3
  BY DEF Classify, Encoding
<1> DEFINE st == Going(ms, <<>>, s, w)
<1>4. st.acc = <<>> /\ st.ok = TRUE /\ st.messages = ms
  BY DEF Splitting, Going
<1> HIDE DEF st
<1>5. SplitByte(st, b) = SplitStatus(st, b)
  BY <1>1, <1>4 DEF SplitByte
<1>6. SplitStatus(st, b) = Going(ms, <<b>>, b, 3)
  <2>1. 3 # 0 /\ 3 # 1
    OBVIOUS
  <2> QED
    BY <1>2, <1>4, <2>1, Zenon DEF SplitStatus, Going
<1> QED
  BY <1>5, <1>6 DEF st

\* A data byte: a complete message is split off.
With(a, s, b) == (IF a = <<>> THEN <<s>> ELSE a) \o <<b>>
Complete(m) == Len(m) = 3

LEMMA SplitNext ==
  ASSUME NEW ms, NEW a, NEW s, NEW b \in 0 .. 15
  PROVE  SplitByte(Going(ms, a, s, 3), b)
           = IF Complete(With(a, s, b)) THEN Going(Append(ms, With(a, s, b)), <<>>, s, 3)
             ELSE Going(ms, With(a, s, b), s, 3)
<1> DEFINE m == With(a, s, b)
<1> DEFINE st == Going(ms, a, s, 3)
<1>1. ~(b >= 248) /\ b \notin 128 .. 247 /\ ~(3 = 0)
  OBVIOUS
<1>2. st.messages = ms /\ st.acc = a /\ st.ok = TRUE /\ st.want = 3 /\ st.status = s
  BY DEF Splitting, Going
<1> HIDE DEF st
<1>3. SplitByte(st, b) = SplitData(st, m)
  BY <1>1, <1>2, Zenon DEF SplitByte, With
<1> HIDE DEF m
<1>4. ~(st.want = 0)
  BY <1>1, <1>2, Zenon
<1>5. Complete(m) => SplitData(st, m) = Going(Append(ms, m), <<>>, s, 3)
  BY <1>2, <1>4, Zenon DEF SplitData, Going, Complete
<1>6. ~Complete(m) => SplitData(st, m) = Going(ms, m, s, 3)
  BY <1>2, <1>4, Zenon DEF SplitData, Going, Complete
<1> QED
  BY <1>3, <1>5, <1>6, Zenon DEF st, m

\* The first data byte after a complete message repeats its status.
LEMMA SplitRunning ==
  ASSUME NEW ms, NEW s \in Bytes, NEW b \in 0 .. 15
  PROVE  SplitByte(Going(ms, <<>>, s, 3), b) = Going(ms, <<s, b>>, s, 3)
<1>1. b \in Bytes
  BY DEF Bytes
<1>2. <<s>> \o <<b>> = <<s, b>>
  BY <1>1, Pair
<1>3. ~Complete(<<s, b>>)
  BY DEF Complete
<1>4. <<s, b>> = With(<<>>, s, b)
  BY <1>2, Zenon DEF With
<1>5. ~Complete(With(<<>>, s, b))
  BY <1>3, <1>4, Zenon
<1>6. SplitByte(Going(ms, <<>>, s, 3), b) = Going(ms, With(<<>>, s, b), s, 3)
  BY <1>5, SplitNext
<1> QED
  BY <1>4, <1>6, Zenon

\* The first data byte after the status.
LEMMA SplitSecond ==
  ASSUME NEW ms, NEW s \in Bytes, NEW b \in 0 .. 15
  PROVE  SplitByte(Going(ms, <<s>>, s, 3), b) = Going(ms, <<s, b>>, s, 3)
<1>1. b \in Bytes
  BY DEF Bytes
<1>2. <<s>> \o <<b>> = <<s, b>> /\ <<s>> # <<>>
  BY <1>1, Pair
<1>3. ~Complete(<<s, b>>)
  BY DEF Complete
<1>4. <<s, b>> = With(<<s>>, s, b)
  BY <1>2, Zenon DEF With
<1>5. ~Complete(With(<<s>>, s, b))
  BY <1>3, <1>4, Zenon
<1>6. SplitByte(Going(ms, <<s>>, s, 3), b) = Going(ms, With(<<s>>, s, b), s, 3)
  BY <1>5, SplitNext
<1> QED
  BY <1>4, <1>6, Zenon

\* The second data byte completes the message.
LEMMA SplitThird ==
  ASSUME NEW ms, NEW s \in Bytes, NEW x \in Bytes, NEW b \in 0 .. 15
  PROVE  SplitByte(Going(ms, <<s, x>>, s, 3), b) = Going(Append(ms, <<s, x, b>>), <<>>, s, 3)
<1>1. b \in Bytes
  BY DEF Bytes
<1>2. <<s, x>> \o <<b>> = <<s, x, b>> /\ <<s, x>> # <<>>
  BY <1>1, Triple
<1>3. Complete(<<s, x, b>>)
  BY DEF Complete
<1>4. <<s, x, b>> = With(<<s, x>>, s, b)
  BY <1>2, Zenon DEF With
<1>5. Complete(With(<<s, x>>, s, b))
  BY <1>3, <1>4, Zenon
<1>6. SplitByte(Going(ms, <<s, x>>, s, 3), b) = Going(Append(ms, With(<<s, x>>, s, b)), <<>>, s, 3)
  BY <1>5, SplitNext
<1> QED
  BY <1>4, <1>6, Zenon

\* Where splitMessages is when byte i of message j comes next.
Begun(f, j, i) ==
  CASE i = 0 -> <<>> [] i = 1 -> <<StatusOf(f, j)>> [] i = 2 -> <<StatusOf(f, j), ByteOf(f, j, 1)>>

SplitWith(f, st, j, i, ms, s, w) ==
  /\ Trail(f, FlattenSeq(ms), 0, 3 * j)
  /\ i >= 1 \/ j \in 2 .. Len(f) => s = StatusOf(f, j) /\ w = 3
  /\ st = Going(ms, Begun(f, j, i), s, w)

SplitAt(f, st, j, i) == \E ms \in Seq(Wholes) : \E s, w : SplitWith(f, st, j, i, ms, s, w)

SplitTo(f, st, q) ==
  \A j \in 0 .. LastMessage(f) + 1, i \in 0 .. 2 : q = 3 * j + i => SplitAt(f, st, j, i)

\* A message that is complete is split off, and is part of the frame.
LEMMA OneMoreWhole ==
  ASSUME NEW f \in Seq(Bytes), NEW ms \in Seq(Wholes), NEW m \in Wholes, NEW q, NEW r,
         Trail(f, FlattenSeq(ms), 0, q), Trail(f, m, q, r)
  PROVE  Append(ms, m) \in Seq(Wholes) /\ Trail(f, FlattenSeq(Append(ms, m)), 0, r)
<1>1. ms \in Seq(Seq(Bytes)) /\ m \in Seq(Bytes)
  BY WholesAreBytes DEF Wholes
<1>2. FlattenSeq(Append(ms, m)) = FlattenSeq(ms) \o m
  BY <1>1, FlattenMore
<1>3. FlattenSeq(ms) \in Seq(Bytes)
  BY <1>1, FlattenTyped
<1>4. Trail(f, FlattenSeq(ms) \o m, 0, r)
  BY <1>1, <1>3, TrailJoin
<1> QED
  BY <1>2, <1>4, AppendProperties

\* The message in progress, by how much of it has come.
LEMMA BegunIs ==
  \A f, j : /\ Begun(f, j, 0) = <<>> /\ Begun(f, j, 1) = <<StatusOf(f, j)>>
            /\ Begun(f, j, 2) = <<StatusOf(f, j), ByteOf(f, j, 1)>>
BY DEF Begun

\* splitMessages keeps up with the frame, byte by byte.
LEMMA SplitFollows ==
  ASSUME NEW f \in Seq(Bytes), NEW st, NEW b, NEW q, NEW r, SplitTo(f, st, q), Step(f, b, q, r)
  PROVE  SplitTo(f, SplitByte(st, b), r)
<1> DEFINE to == SplitByte(st, b)
           end == LastMessage(f) + 1
<1>0. Len(f) \in Nat /\ LastMessage(f) = Len(f) + 1 /\ Places(f) = 3 * Len(f) + 6 /\ end = Len(f) + 2
  BY DEF LastMessage, Places
<1>1. ASSUME NEW j \in 0 .. end, NEW i \in 0 .. 2, SplitAt(f, to, j, i), r = 3 * j + i
      PROVE  SplitTo(f, to, r)
  <2>1. ASSUME NEW k \in 0 .. end, NEW l \in 0 .. 2, r = 3 * k + l
        PROVE  k = j /\ l = i
    BY <1>0, <1>1, <2>1
  <2> QED
    BY <1>1, <2>1 DEF SplitTo
<1> HIDE DEF to, end
<1>2. CASE b = 248 /\ q \in 0 .. Places(f) - 1 /\ r = q
  <2>1. ASSUME NEW j \in 0 .. end, NEW i \in 0 .. 2, q = 3 * j + i
        PROVE  SplitAt(f, to, j, i)
    <3>1. SplitAt(f, st, j, i)
      BY <2>1 DEF SplitTo, end
    <3> DEFINE a == Begun(f, j, i)
    <3>a. PICK ms \in Seq(Wholes) : \E s, w : SplitWith(f, st, j, i, ms, s, w)
      BY <3>1 DEF SplitAt
    <3>b. PICK s, w : SplitWith(f, st, j, i, ms, s, w)
      BY <3>a
    <3>2. /\ Trail(f, FlattenSeq(ms), 0, 3 * j)
          /\ i >= 1 \/ j \in 2 .. Len(f) => s = StatusOf(f, j) /\ w = 3
          /\ st = Going(ms, a, s, w)
      BY <3>b DEF SplitWith
    <3> HIDE DEF a
    <3>3. to = Going(Append(ms, <<248>>), a, s, w)
      BY <1>2, <3>2, SplitRealtime DEF to
    <3>4. <<248>> \in Wholes
      <4>1. 248 \in Bytes
        BY DEF Bytes
      <4> QED
        BY <4>1 DEF Wholes, IsWhole
    <3>5. Trail(f, <<248>>, 3 * j, 3 * j)
      <4>1. 3 * j \in 0 .. Places(f) - 1 /\ 3 * j \in Nat
        BY <1>0, <1>2, <2>1
      <4>2. Step(f, 248, 3 * j, 3 * j)
        BY <4>1 DEF Step
      <4> QED
        BY <4>1, <4>2, TrailOne
    <3>6. Append(ms, <<248>>) \in Seq(Wholes) /\ Trail(f, FlattenSeq(Append(ms, <<248>>)), 0, 3 * j)
      BY <3>2, <3>4, <3>5, OneMoreWhole
    <3>7. SplitWith(f, to, j, i, Append(ms, <<248>>), s, w)
      BY <3>2, <3>3, <3>6 DEF SplitWith, a
    <3> QED
      BY <3>6, <3>7 DEF SplitAt
  <2>3. r = q
    BY <1>2
  <2> QED
    BY <2>1, <2>3 DEF SplitTo, end, to
<1>3. ASSUME NEW j \in 0 .. LastMessage(f), NEW i \in 0 .. 2,
             q = 3 * j + i, r = q + 1, b = ByteOf(f, j, i)
      PROVE  SplitTo(f, to, r)
  <2>0. j \in Nat /\ j <= Len(f) + 1 /\ j \in 0 .. end
    BY <1>0
  <2>1. SplitAt(f, st, j, i)
    BY <1>3, <2>0 DEF SplitTo, end
  <2>2. StatusOf(f, j) \in {128, 144, 160} /\ StatusOf(f, j) \in Bytes
    BY DEF StatusOf, Bytes
  <2>3. CASE i = 0
    <3>a. PICK ms \in Seq(Wholes) : \E s, w : SplitWith(f, st, j, 0, ms, s, w)
      BY <2>1, <2>3 DEF SplitAt
    <3>b. PICK s, w : SplitWith(f, st, j, 0, ms, s, w)
      BY <3>a
    <3>1. Trail(f, FlattenSeq(ms), 0, 3 * j) /\ st = Going(ms, <<>>, s, w)
      BY <3>b, BegunIs DEF SplitWith
    <3>2. b = StatusOf(f, j)
      BY <1>3, <2>3 DEF ByteOf
    <3>3. to = Going(ms, <<StatusOf(f, j)>>, StatusOf(f, j), 3)
      <4>1. SplitByte(Going(ms, <<>>, s, w), b) = Going(ms, <<b>>, b, 3)
        BY <2>2, <3>2, SplitFirst
      <4> QED
        BY <3>1, <3>2, <4>1 DEF to
    <3>6. SplitWith(f, to, j, 1, ms, StatusOf(f, j), 3)
      BY <3>1, <3>3, BegunIs DEF SplitWith
    <3>4. SplitAt(f, to, j, 1)
      BY <3>6 DEF SplitAt
    <3>5. r = 3 * j + 1
      BY <1>3, <2>3
    <3> QED
      BY <1>1, <2>0, <3>4, <3>5
  <2>4. CASE i = 1
    <3>a. PICK ms \in Seq(Wholes) : \E s, w : SplitWith(f, st, j, 1, ms, s, w)
      BY <2>1, <2>4 DEF SplitAt
    <3>1. /\ Trail(f, FlattenSeq(ms), 0, 3 * j)
          /\ st = Going(ms, <<StatusOf(f, j)>>, StatusOf(f, j), 3)
      <4>1. PICK s, w : SplitWith(f, st, j, 1, ms, s, w)
        BY <3>a
      <4> QED
        BY <4>1, BegunIs DEF SplitWith
    <3>2. b \in 0 .. 15 /\ b = ByteOf(f, j, 1)
      BY <1>3, <2>0, <2>4, ByteOfType
    <3>3. to = Going(ms, <<StatusOf(f, j), b>>, StatusOf(f, j), 3)
      BY <2>2, <3>1, <3>2, SplitSecond, Zenon DEF to
    <3>6. SplitWith(f, to, j, 2, ms, StatusOf(f, j), 3)
      BY <3>1, <3>2, <3>3, BegunIs DEF SplitWith
    <3>4. SplitAt(f, to, j, 2)
      BY <3>6 DEF SplitAt
    <3>5. r = 3 * j + 2
      BY <1>3, <2>4
    <3> QED
      BY <1>1, <2>0, <3>4, <3>5
  <2>5. CASE i = 2
    <3> DEFINE x == ByteOf(f, j, 1)
               sj == StatusOf(f, j)
    <3>a. PICK ms \in Seq(Wholes) : \E s, w : SplitWith(f, st, j, 2, ms, s, w)
      BY <2>1, <2>5 DEF SplitAt
    <3>1. /\ Trail(f, FlattenSeq(ms), 0, 3 * j)
          /\ st = Going(ms, <<sj, x>>, sj, 3)
      <4>1. PICK s, w : SplitWith(f, st, j, 2, ms, s, w)
        BY <3>a
      <4> QED
        BY <4>1, BegunIs DEF SplitWith
    <3>2. b \in 0 .. 15 /\ b = ByteOf(f, j, 2) /\ x \in 0 .. 15 /\ x \in Bytes /\ b \in Bytes
      BY <1>3, <2>0, <2>5, ByteOfType
    <3>7. Trail(f, <<sj, x, b>>, 3 * j, 3 * j + 3)
      BY <3>2, TrailMessage
    <3>8. sj \in {128, 144, 160} /\ sj \in Bytes
      BY <2>2
    <3>9. j + 1 \in 2 .. Len(f) => sj = StatusOf(f, j + 1)
      BY <1>0, <2>0 DEF StatusOf
    <3> HIDE DEF x, sj
    <3>3. to = Going(Append(ms, <<sj, x, b>>), <<>>, sj, 3)
      <4>1. SplitByte(Going(ms, <<sj, x>>, sj, 3), b)
              = Going(Append(ms, <<sj, x, b>>), <<>>, sj, 3)
        <5>1. \A s2 \in Bytes, x2 \in Bytes, b2 \in 0 .. 15 :
                SplitByte(Going(ms, <<s2, x2>>, s2, 3), b2) = Going(Append(ms, <<s2, x2, b2>>), <<>>, s2, 3)
          BY SplitThird
        <5> QED
          BY <3>2, <3>8, <5>1, Zenon
      <4> QED
        BY <3>1, <4>1 DEF to
    <3>4. <<sj, x, b>> \in Wholes
      <4>1. <<sj, x, b>> \in Seq(Bytes)
        BY <3>2, <3>8
      <4>2. IsWhole(<<sj, x, b>>)
        <5>1. sj \in {128, 144, 160} /\ x \in 0 .. 15 /\ b \in 0 .. 15
          BY <3>2, <3>8
        <5>2. \E k \in {128, 144, 160}, n \in 0 .. 15, p \in 0 .. 15 : <<sj, x, b>> = <<k, n, p>>
          BY <5>1
        <5> QED
          BY <5>2, Zenon DEF IsWhole
      <4> QED
        BY <4>1, <4>2 DEF Wholes
    <3>5. /\ Append(ms, <<sj, x, b>>) \in Seq(Wholes)
          /\ Trail(f, FlattenSeq(Append(ms, <<sj, x, b>>)), 0, 3 * j + 3)
      BY <3>1, <3>4, <3>7, OneMoreWhole
    <3>6. j + 1 \in 0 .. end /\ 3 * (j + 1) = 3 * j + 3 /\ r = 3 * (j + 1) + 0
      BY <1>0, <1>3, <2>0, <2>5
    <3>11. SplitWith(f, to, j + 1, 0, Append(ms, <<sj, x, b>>), sj, 3)
      BY <3>3, <3>5, <3>6, <3>9, BegunIs DEF SplitWith
    <3>10. SplitAt(f, to, j + 1, 0)
      BY <3>5, <3>11 DEF SplitAt
    <3> QED
      BY <1>1, <3>6, <3>10
  <2> QED
    BY <2>3, <2>4, <2>5
<1>4. ASSUME NEW j \in 2 .. Len(f), q = 3 * j, r = q + 2, b = ByteOf(f, j, 1)
      PROVE  SplitTo(f, to, r)
  <2>0. j \in Nat /\ j <= Len(f) + 1 /\ j \in 0 .. end /\ q = 3 * j + 0
    BY <1>0, <1>4
  <2>1. SplitAt(f, st, j, 0)
    BY <1>4, <2>0 DEF SplitTo, end
  <2>2. StatusOf(f, j) \in Bytes
    BY DEF StatusOf, Bytes
  <2>a. PICK ms \in Seq(Wholes) : \E s, w : SplitWith(f, st, j, 0, ms, s, w)
    BY <2>1 DEF SplitAt
  <2>3. /\ Trail(f, FlattenSeq(ms), 0, 3 * j)
        /\ st = Going(ms, <<>>, StatusOf(f, j), 3)
    BY <2>a, BegunIs DEF SplitWith
  <2>4. b \in 0 .. 15 /\ b = ByteOf(f, j, 1)
    BY <1>4, <2>0, ByteOfType
  <2>5. to = Going(ms, <<StatusOf(f, j), b>>, StatusOf(f, j), 3)
    BY <2>2, <2>3, <2>4, SplitRunning DEF to
  <2>8. SplitWith(f, to, j, 2, ms, StatusOf(f, j), 3)
    BY <2>3, <2>4, <2>5, BegunIs DEF SplitWith
  <2>6. SplitAt(f, to, j, 2)
    BY <2>8 DEF SplitAt
  <2>7. r = 3 * j + 2
    BY <1>4, <2>0
  <2> QED
    BY <1>1, <2>0, <2>6, <2>7
<1>5. SplitTo(f, to, r)
  <2>1. CASE b = 248 /\ q \in 0 .. Places(f) - 1 /\ r = q
    BY <1>2, <2>1 DEF to
  <2>2. CASE \E j \in 0 .. LastMessage(f), i \in 0 .. 2 : q = 3 * j + i /\ r = q + 1 /\ b = ByteOf(f, j, i)
    BY <1>3, <2>2, Zenon
  <2>3. CASE \E j \in 2 .. Len(f) : q = 3 * j /\ r = q + 2 /\ b = ByteOf(f, j, 1)
    BY <1>4, <2>3, Zenon
  <2> QED
    BY <2>1, <2>2, <2>3 DEF Step
<1> QED
  BY <1>5 DEF to

(* splitMessages over a whole frame. *)

Splits(stream, g, k) ==
  IF k = 0 THEN Splitting(<<>>, <<>>, 0, 0, TRUE) ELSE SplitByte(g[k - 1], stream[k])
SplitBy(stream, g, n) == g = [k \in 0 .. n |-> Splits(stream, g, k)]

\* The state after a byte is that of one step from the state before it.
LEMMA SplitByAt ==
  ASSUME NEW stream, NEW g, NEW n, SplitBy(stream, g, n), NEW k \in 0 .. n
  PROVE  g[k] = Splits(stream, g, k)
BY DEF SplitBy

\* The states of a split exist for any stream,
LEMMA SplitByExists ==
  ASSUME NEW stream, NEW n \in Nat
  PROVE  \E g : SplitBy(stream, g, n)
<1> DEFINE D == {m \in Nat : ~\E g : SplitBy(stream, g, m)}
<1>1. SUFFICES ASSUME D # {} PROVE FALSE
  OBVIOUS
<1>2. PICK m \in D : \A k \in D : m <= k
  BY <1>1, SmallestOf
<1>3. CASE m = 0
  <2> DEFINE g == [i \in 0 .. 0 |-> Splits(stream, 0, i)]
  <2>1. \A i \in 0 .. 0 : Splits(stream, 0, i) = Splits(stream, g, i)
    BY DEF Splits
  <2>2. SplitBy(stream, g, 0)
    BY <2>1 DEF SplitBy
  <2> QED
    BY <1>2, <1>3, <2>2
<1>4. CASE m # 0
  <2>1. m - 1 \in Nat /\ m - 1 \notin D
    BY <1>2, <1>4
  <2>2. PICK h : SplitBy(stream, h, m - 1)
    BY <2>1
  <2> DEFINE g == [i \in 0 .. m |-> Splits(stream, h, i)]
  <2>3. \A i \in 0 .. m : g[i] = Splits(stream, h, i)
    OBVIOUS
  <2>4. \A i \in 0 .. m - 1 : h[i] = Splits(stream, h, i)
    BY <2>2, SplitByAt
  <2>5. \A i \in 0 .. m : i # 0 => g[i - 1] = h[i - 1]
    <3> HIDE DEF g
    <3>1. \A i \in 0 .. m : i # 0 => i - 1 \in 0 .. m - 1 /\ i - 1 \in 0 .. m
      BY <2>1
    <3> QED
      BY <2>3, <2>4, <3>1
  <2>6. \A i \in 0 .. m : Splits(stream, h, i) = Splits(stream, g, i)
    BY <2>5 DEF Splits
  <2>7. SplitBy(stream, g, m)
    <3>1. g = [i \in 0 .. m |-> Splits(stream, g, i)]
      BY <2>6
    <3> QED
      BY <3>1 DEF SplitBy
  <2> QED
    BY <1>2, <2>7
<1> QED
  BY <1>3, <1>4

\* and the last of them is what Split yields.
LEMMA SplitIs ==
  ASSUME NEW stream, NEW n \in Nat, n = Len(stream)
  PROVE  \E g : SplitBy(stream, g, n) /\ Split(stream) = g[n]
<1> DEFINE h == CHOOSE g : SplitBy(stream, g, n)
<1>1. SplitBy(stream, h, n)
  BY SplitByExists
<1>2. Split(stream) = h[n]
  BY DEF Split, SplitBy, Splits
<1> HIDE DEF h
<1> QED
  BY <1>1, <1>2

\* The messages a frame is split into are complete ones, and make up the frame.
LEMMA SplitIsWhole ==
  ASSUME NEW f \in Seq(Bytes), NEW s \in Seq(Bytes), Trail(f, s, 0, Places(f))
  PROVE  /\ SplitMessages(Split(s)) \in Seq(Wholes)
         /\ Trail(f, FlattenSeq(SplitMessages(Split(s))), 0, Places(f))
<1> DEFINE n == Len(s)
<1>1. n \in Nat
  BY LenProperties
<1>2. PICK at \in [1 .. n + 1 -> Nat] :
        at[1] = 0 /\ at[n + 1] = Places(f) /\ \A p \in 1 .. n : Step(f, s[p], at[p], at[p + 1])
  BY DEF Trail
<1>3. PICK g : SplitBy(s, g, n) /\ Split(s) = g[n]
  BY <1>1, SplitIs
<1>4. Len(f) \in Nat /\ LastMessage(f) = Len(f) + 1 /\ Places(f) = 3 * (LastMessage(f) + 1) + 0
  BY LenProperties DEF LastMessage, Places
<1> HIDE DEF n
<1>5. SplitTo(f, g[0], at[1])
  <2>1. g[0] = Going(<<>>, <<>>, 0, 0)
    <3>1. 0 \in 0 .. n
      BY <1>1
    <3>2. g[0] = Splits(s, g, 0)
      BY <1>3, <3>1, SplitByAt
    <3> QED
      BY <3>2 DEF Splits, Going
  <2>2. <<>> \in Seq(Wholes) /\ FlattenSeq(<<>>) = <<>>
    <3> DEFINE none == <<>>
    <3>1. none \in Seq(Wholes) /\ none \in Seq(Seq(Bytes)) /\ Len(none) = 0
      OBVIOUS
    <3> HIDE DEF none
    <3>2. FlattenSeq(none) = <<>>
      BY <3>1, FlattenNone
    <3> QED
      BY <3>1, <3>2 DEF none
  <2>3. Trail(f, FlattenSeq(<<>>), 0, 3 * 0)
    BY <2>2, TrailNone
  <2>4. 0 \notin 2 .. Len(f) /\ ~(0 >= 1)
    OBVIOUS
  <2>5. SplitWith(f, g[0], 0, 0, <<>>, 0, 0)
    BY <2>1, <2>3, <2>4, BegunIs DEF SplitWith, Going
  <2>6. SplitAt(f, g[0], 0, 0)
    BY <2>2, <2>5 DEF SplitAt
  <2>7. \A j \in 0 .. LastMessage(f) + 1, i \in 0 .. 2 : at[1] = 3 * j + i => j = 0 /\ i = 0
    BY <1>2, <1>4
  <2> QED
    BY <2>6, <2>7 DEF SplitTo
<1>6. SplitTo(f, g[n], at[n + 1])
  <2> DEFINE D == {k \in Nat : k \in 0 .. n /\ ~SplitTo(f, g[k], at[k + 1])}
  <2>1. SUFFICES ASSUME D # {} PROVE FALSE
    BY <1>1
  <2>2. PICK k \in D : \A l \in D : k <= l
    BY <2>1, SmallestOf
  <2>3. k \in 0 .. n /\ k \in Nat /\ ~SplitTo(f, g[k], at[k + 1])
    OBVIOUS
  <2>4. k # 0
    BY <1>5, <2>3
  <2>5. k - 1 \in 0 .. n /\ k - 1 \in Nat /\ k - 1 \notin D /\ k \in 1 .. n /\ k - 1 + 1 = k
    BY <1>1, <2>2, <2>3, <2>4
  <2>6. SplitTo(f, g[k - 1], at[k])
    BY <2>5
  <2>7. Step(f, s[k], at[k], at[k + 1])
    BY <1>2, <2>5
  <2>8. SplitTo(f, SplitByte(g[k - 1], s[k]), at[k + 1])
    BY <2>6, <2>7, SplitFollows
  <2>9. g[k] = SplitByte(g[k - 1], s[k])
    <3>1. g[k] = Splits(s, g, k)
      BY <1>3, <2>3, SplitByAt
    <3> QED
      BY <2>4, <3>1 DEF Splits
  <2> QED
    BY <2>3, <2>8, <2>9
<1> DEFINE st == Split(s)
           e == LastMessage(f) + 1
<1>7. SplitAt(f, st, e, 0)
  <2>1. e \in 0 .. LastMessage(f) + 1 /\ 0 \in 0 .. 2 /\ at[n + 1] = 3 * e + 0
    BY <1>2, <1>4
  <2>2. SplitTo(f, st, at[n + 1])
    BY <1>3, <1>6
  <2> QED
    BY <2>1, <2>2 DEF SplitTo
<1> HIDE DEF st, e
<1>8. PICK ms \in Seq(Wholes) : \E w, v : SplitWith(f, st, e, 0, ms, w, v)
  BY <1>7 DEF SplitAt
<1>9. PICK w, v : SplitWith(f, st, e, 0, ms, w, v)
  BY <1>8
<1>10. Trail(f, FlattenSeq(ms), 0, 3 * e) /\ st = Going(ms, <<>>, w, v)
  BY <1>9, BegunIs DEF SplitWith
<1>11. SplitMessages(st) = ms
  <2>1. st.acc = <<>> /\ st.ok = TRUE /\ st.messages = ms
    BY <1>10 DEF Splitting, Going
  <2> QED
    BY <2>1, Zenon DEF SplitMessages
<1>12. 3 * e = Places(f)
  BY <1>4 DEF e
<1> QED
  BY <1>10, <1>11, <1>12 DEF st

(* A message through one event packet, and what the device pads a transfer with. *)

Packet(p) == p \in Seq(Bytes) /\ Len(p) = 4

Unpacked(p) == IF p[1] = 0 THEN <<>> ELSE SubSeq(p, 2, 1 + CinLength[(p[1] % 16) + 1])

\* A packet of one message: its code index number says how long it is.
Packs(p, m) ==
  /\ Packet(p) /\ p[1] # 0 /\ p[1] \in 0 .. 15
  /\ CinLength[p[1] + 1] = Len(m)
  /\ \A i \in 1 .. Len(m) : p[i + 1] = m[i]

\* A packet is four bytes.
LEMMA PacketIs ==
  ASSUME NEW p, Packet(p)
  PROVE  p \in Seq(Bytes) /\ \A i \in 1 .. 4 : p[i] \in Bytes
<1> DEFINE l == Len(p)
<1>1. l = 4 /\ p \in Seq(Bytes)
  BY DEF Packet
<1> HIDE DEF l
<1>2. \A i \in 1 .. l : p[i] \in Bytes
  BY <1>1, ElementOfSeq DEF l
<1> QED
  BY <1>1, <1>2

\* A packet yields the message it was made of.
LEMMA PacksUnpacked ==
  ASSUME NEW p, NEW m \in Seq(Bytes), Packs(p, m), NEW n \in 1 .. 3, Len(m) = n
  PROVE  Unpacked(p) = m
<1>1. p[1] % 16 = p[1] /\ p[1] # 0 /\ p \in Seq(Bytes) /\ \A i \in 1 .. 4 : p[i] \in Bytes
  BY PacketIs DEF Packs
<1>2. CinLength[(p[1] % 16) + 1] = n
  BY <1>1 DEF Packs
<1> DEFINE u == SubSeq(p, 2, 1 + n)
<1>3. n \in Nat
  OBVIOUS
<1>4. \A i \in 2 .. 1 + n : p[i] \in Bytes
  BY <1>1, <1>3
<1>5. u \in Seq(Bytes) /\ Len(u) = n /\ \A i \in 1 .. n : u[i] = p[i + 1]
  BY <1>3, <1>4, SubSeqProperties
<1>6. \A i \in 1 .. n : u[i] = m[i]
  BY <1>5 DEF Packs
<1>7. Unpacked(p) = u
  <2>1. ~(p[1] = 0)
    BY <1>1
  <2>2. Unpacked(p) = SubSeq(p, 2, 1 + CinLength[(p[1] % 16) + 1])
    BY <2>1, Zenon DEF Unpacked
  <2> QED
    BY <1>2, <2>2, Zenon
<1> HIDE DEF u
<1> QED
  BY <1>5, <1>6, <1>7, SeqEqual

\* PackPacket makes a packet of a message, and it unpacks to that message.
LEMMA PackPacks ==
  ASSUME NEW m \in Wholes
  PROVE  /\ Packet(PackPacket(m))
         /\ Unpacked(PackPacket(m)) = m
<1>1. m \in Seq(Bytes) /\ IsWhole(m)
  BY DEF Wholes
<1>2. ASSUME NEW c \in 1 .. 15, NEW l \in 1 .. 3,
             Classify(m[1]).cin = c, CinLength[c + 1] = l, Len(m) = l
      PROVE  /\ Packet(PackPacket(m))
             /\ Unpacked(PackPacket(m)) = m
  <2> DEFINE h == <<c>>
             k == 3 - l
             z == [n \in 1 .. k |-> 0]
             p == h \o m \o z
  <2>1. c \in Bytes /\ 0 \in Bytes /\ k \in Nat
    BY DEF Bytes
  <2>2. h \in Seq(Bytes) /\ Len(h) = 1 /\ h[1] = c
    BY <2>1
  <2>4. PackPacket(m) = p
    BY <1>2 DEF PackPacket
  <2>a. k = 3 - l
    OBVIOUS
  <2> HIDE DEF k
  <2>3. z \in Seq(Bytes) /\ Len(z) = k
    BY <2>1
  <2> HIDE DEF h, z
  <2>5. h \o m \in Seq(Bytes) /\ Len(h \o m) = 1 + l /\ (h \o m)[1] = c
        /\ \A i \in 1 .. l : (h \o m)[i + 1] = m[i]
    BY <1>1, <1>2, <2>2, ConcatProperties
  <2>6. p \in Seq(Bytes) /\ Len(p) = 1 + l + k /\ \A i \in 1 .. 1 + l : p[i] = (h \o m)[i]
    BY <1>2, <2>3, <2>5, ConcatProperties
  <2> HIDE DEF p
  <2>b. 1 \in 1 .. 1 + l /\ \A i \in 1 .. l : i + 1 \in 1 .. 1 + l
    OBVIOUS
  <2>7. p[1] = c /\ \A i \in 1 .. l : p[i + 1] = m[i]
    BY <2>5, <2>6, <2>b
  <2>c. Packet(p)
    BY <2>a, <2>6 DEF Packet
  <2>8. Packs(p, m)
    BY <1>2, <2>c, <2>7 DEF Packs
  <2>9. Unpacked(p) = m
    BY <1>1, <1>2, <2>8, PacksUnpacked
  <2> QED
    BY <2>4, <2>c, <2>9
<1>3. CASE m = <<248>>
  <2>1. m[1] = 248 /\ Len(m) = 1
    BY <1>3
  <2>2. Classify(m[1]).cin = 15
    BY <2>1 DEF Classify, Encoding
  <2>3. CinLength[15 + 1] = 1
    BY DEF CinLength
  <2> QED
    BY <1>2, <2>1, <2>2, <2>3
<1>4. ASSUME NEW k \in {128, 144, 160}, NEW n \in 0 .. 15, NEW p \in 0 .. 15, m = <<k, n, p>>
      PROVE  /\ Packet(PackPacket(m))
             /\ Unpacked(PackPacket(m)) = m
  <2>1. m[1] = k /\ Len(m) = 3
    BY <1>4
  <2>2. Classify(k).cin = k \div 16
    BY DEF Classify, Encoding
  <2>3. k \div 16 \in 8 .. 10
    OBVIOUS
  <2>4. \A c \in 8 .. 10 : CinLength[c + 1] = 3
    BY DEF CinLength
  <2> QED
    BY <1>2, <2>1, <2>2, <2>3, <2>4
<1> QED
  BY <1>1, <1>3, <1>4 DEF IsWhole

\* A buffer packet by packet.
Piece(s, n) ==
  IF s[4 * n - 3] = 0 THEN <<>>
  ELSE SubSeq(s, 4 * n - 2, 4 * n - 3 + CinLength[(s[4 * n - 3] % 16) + 1])
Pieces(s, k) == [n \in 1 .. k |-> Piece(s, n)]

Packets(s, k) == s \in Seq(Bytes) /\ Len(s) = 4 * k /\ Pieces(s, k) \in Seq(Seq(Bytes))

\* UnpackPackets joins what each packet stands for.
LEMMA UnpackIs ==
  ASSUME NEW s, NEW k \in Nat, Packets(s, k)
  PROVE  UnpackPackets(s) = FlattenSeq(Pieces(s, k)) /\ UnpackPackets(s) \in Seq(Bytes)
<1>1. Len(s) \div 4 = k
  BY DEF Packets
<1>2. UnpackPackets(s) = FlattenSeq([n \in 1 .. Len(s) \div 4 |-> Piece(s, n)])
  BY DEF UnpackPackets, Piece
<1>3. UnpackPackets(s) = FlattenSeq(Pieces(s, k))
  BY <1>1, <1>2 DEF Pieces
<1> QED
  BY <1>3, FlattenTyped DEF Packets

\* No code index number stands for more bytes than a packet holds.
LEMMA CinIs ==
  ASSUME NEW b \in Bytes
  PROVE  CinLength[(b % 16) + 1] \in 0 .. 3
<1>1. b % 16 \in 0 .. 15
  BY DEF Bytes
<1>2. \A c \in 0 .. 15 : CinLength[c + 1] \in 0 .. 3
  BY DEF CinLength
<1> QED
  BY <1>1, <1>2

\* One packet more unpacks to what it stands for.
LEMMA UnpackMore ==
  ASSUME NEW s, NEW k \in Nat, Packets(s, k), NEW p, Packet(p), Unpacked(p) \in Seq(Bytes)
  PROVE  /\ Packets(s \o p, k + 1)
         /\ UnpackPackets(s \o p) = UnpackPackets(s) \o Unpacked(p)
<1> DEFINE t == s \o p
           l == Len(s)
           w == Len(p)
<1>b. s \in Seq(Bytes) /\ p \in Seq(Bytes)
  BY DEF Packets, Packet
<1>c. /\ t \in Seq(Bytes) /\ Len(t) = l + w
      /\ (\A i \in 1 .. l : t[i] = s[i]) /\ \A i \in 1 .. w : t[l + i] = p[i]
  BY ONLY <1>b, ConcatProperties
<1>d. \A m, n \in 1 .. l : SubSeq(t, m, n) = SubSeq(s, m, n)
  BY ONLY <1>b, SubSeqOfConcat1
<1>e. \A m, n \in l + 1 .. l + w : SubSeq(t, m, n) = SubSeq(p, m - l, n - l)
  BY ONLY <1>b, SubSeqOfConcat2
<1>1. l = 4 * k /\ w = 4
  BY DEF Packets, Packet
<1> HIDE DEF l, w
<1>f. \A m, n \in 1 .. w : SubSeq(t, l + m, l + n) = SubSeq(p, m, n)
  <2> TAKE m, n \in 1 .. w
  <2> DEFINE a == l + m
             b == l + n
  <2>1. a \in l + 1 .. l + w /\ b \in l + 1 .. l + w /\ a - l = m /\ b - l = n
    BY <1>1
  <2> HIDE DEF a, b
  <2>2. SubSeq(t, a, b) = SubSeq(p, a - l, b - l)
    BY <1>e, <2>1, Zenon
  <2> QED
    BY <2>1, <2>2 DEF a, b
<1> HIDE DEF t
<1>2. t \in Seq(Bytes) /\ Len(t) = 4 * (k + 1)
      /\ (\A i \in 1 .. l : t[i] = s[i]) /\ \A i \in 1 .. w : t[l + i] = p[i]
  BY <1>1, <1>c
<1>a. (\A i \in 1 .. l : s[i] \in Bytes) /\ \A i \in 1 .. w : p[i] \in Bytes
  BY <1>b, ElementOfSeq DEF l, w
<1>3. ASSUME NEW n \in 1 .. k
      PROVE  Piece(t, n) = Piece(s, n)
  <2>1. 4 * n - 3 \in 1 .. l /\ 4 * n <= l /\ 4 * n - 2 \in Nat /\ 4 * n - 2 >= 1 /\ 4 * n - 3 \in Nat
    BY <1>1
  <2> DEFINE e == 4 * n - 3
             c == CinLength[(s[e] % 16) + 1]
  <2>2. t[e] = s[e] /\ s[e] \in Bytes /\ e \in Nat
    BY <1>2, <1>a, <2>1
  <2>3. c \in 0 .. 3
    BY <2>2, CinIs
  <2> HIDE DEF c
  <2>4. 4 * n - 2 \in 1 .. l /\ 4 * n - 3 \in 1 .. l /\ e + c \in 1 .. l /\ e + c \in 4 * n - 3 .. l
    BY <1>1, <2>1, <2>3
  <2>5. SubSeq(t, 4 * n - 2, e + c) = SubSeq(s, 4 * n - 2, e + c)
    BY <1>d, <2>4
  <2>6. t[e] = s[e]
    BY <2>2
  <2> QED
    BY <2>5, <2>6 DEF Piece, c
<1>4. Piece(t, k + 1) = Unpacked(p)
  <2> DEFINE e == 4 * (k + 1) - 3
             c == CinLength[(p[1] % 16) + 1]
  <2>1. e = l + 1 /\ 1 \in 1 .. w
    BY <1>1
  <2>2. t[e] = p[1] /\ p[1] \in Bytes
    BY <1>2, <1>a, <2>1
  <2>3. c \in 0 .. 3
    BY <2>2, CinIs
  <2> HIDE DEF c
  <2>4. 2 \in 1 .. w /\ 1 + c \in 1 .. w
    BY <1>1, <2>3
  <2>d. SubSeq(t, l + 2, l + (1 + c)) = SubSeq(p, 2, 1 + c)
    BY <1>f, <2>4, Zenon
  <2>5. 4 * (k + 1) - 2 = l + 2 /\ e + c = l + (1 + c)
    BY <1>1, <2>1, <2>3
  <2>6. SubSeq(t, 4 * (k + 1) - 2, e + c) = SubSeq(p, 2, 1 + c)
    BY <2>5, <2>d, Zenon
  <2> QED
    BY <2>2, <2>6 DEF Piece, Unpacked, c
<1>5. Pieces(t, k + 1) = Append(Pieces(s, k), Unpacked(p))
  <2> DEFINE ps == Pieces(s, k)
             u == Unpacked(p)
  <2>1. ps \in Seq(Seq(Bytes)) /\ Len(ps) = k /\ \A n \in 1 .. k : ps[n] = Piece(s, n)
    BY DEF Packets, Pieces
  <2> HIDE DEF ps, u
  <2>2. u \in Seq(Bytes)
    BY DEF u
  <2>3. /\ Append(ps, u) \in Seq(Seq(Bytes)) /\ Len(Append(ps, u)) = k + 1 /\ Append(ps, u)[k + 1] = u
        /\ \A n \in 1 .. k : Append(ps, u)[n] = Piece(s, n)
    BY <2>1, <2>2, AppendProperties
  <2>4. \A n \in 1 .. k + 1 : Append(ps, u)[n] = Piece(t, n)
    <3>1. \A n \in 1 .. k + 1 : n \in 1 .. k \/ n = k + 1
      OBVIOUS
    <3> QED
      BY <1>3, <1>4, <2>3, <3>1 DEF u
  <2> DEFINE ap == Append(ps, u)
  <2>5. ap \in Seq(Seq(Bytes)) /\ Len(ap) = k + 1 /\ \A n \in 1 .. k + 1 : ap[n] = Piece(t, n)
    BY <2>3, <2>4
  <2> HIDE DEF ap
  <2>6. ap = [n \in 1 .. k + 1 |-> Piece(t, n)]
    BY <2>5
  <2> QED
    BY <2>6 DEF Pieces, ap, ps, u
<1>6. Packets(t, k + 1)
  <2>1. Append(Pieces(s, k), Unpacked(p)) \in Seq(Seq(Bytes))
    BY AppendProperties DEF Packets
  <2> QED
    BY <1>2, <1>5, <2>1 DEF Packets
<1>7. UnpackPackets(t) = UnpackPackets(s) \o Unpacked(p)
  <2>1. UnpackPackets(s) = FlattenSeq(Pieces(s, k))
    BY UnpackIs
  <2>2. UnpackPackets(t) = FlattenSeq(Pieces(t, k + 1))
    BY <1>6, UnpackIs
  <2>3. FlattenSeq(Append(Pieces(s, k), Unpacked(p))) = FlattenSeq(Pieces(s, k)) \o Unpacked(p)
    BY FlattenMore DEF Packets
  <2> QED
    BY <1>5, <2>1, <2>2, <2>3
<1> QED
  BY <1>6, <1>7 DEF t

\* Up to a place, one element more.
LEMMA OneMoreOf ==
  ASSUME NEW S, NEW seq \in Seq(S), NEW k \in 1 .. Len(seq)
  PROVE  /\ SubSeq(seq, 1, k - 1) \in Seq(S) /\ seq[k] \in S
         /\ SubSeq(seq, 1, k) = Append(SubSeq(seq, 1, k - 1), seq[k])
<1>1. Len(seq) \in Nat /\ k \in Nat /\ k >= 1 /\ k <= Len(seq) /\ \A i \in 1 .. Len(seq) : seq[i] \in S
  BY LenProperties, ElementOfSeq
<1>2. SubSeq(seq, 1, k - 1) \in Seq(S)
  <2>1. \A i \in 1 .. k - 1 : seq[i] \in S
    BY <1>1
  <2> QED
    BY <1>1, <2>1, SubSeqProperties
<1>3. SubSeq(seq, 1, k) = SubSeq(seq, 1, k - 1) \o <<seq[k]>>
  BY <1>1, SubSeqRecursiveSecond
<1>4. Append(SubSeq(seq, 1, k - 1), seq[k]) = SubSeq(seq, 1, k - 1) \o <<seq[k]>>
  BY <1>1, <1>2, AppendIsConcat
<1> QED
  BY <1>1, <1>2, <1>3, <1>4

\* An empty buffer holds nothing.
LEMMA NoPiece == Packets(<<>>, 0) /\ UnpackPackets(<<>>) = <<>>
<1> DEFINE ps == Pieces(<<>>, 0)
<1>1. ps \in Seq(Seq(Bytes)) /\ Len(ps) = 0
  BY DEF Pieces
<1>2. FlattenSeq(ps) = <<>>
  <2> HIDE DEF ps
  <2> QED
    BY <1>1, FlattenNone
<1>3. Packets(<<>>, 0)
  BY <1>1 DEF Packets
<1>4. UnpackPackets(<<>>) = FlattenSeq(ps)
  BY <1>3, UnpackIs
<1> QED
  BY <1>2, <1>3, <1>4

\* Padding is a packet that stands for nothing.
LEMMA PaddingIs == Packet(Padding) /\ Unpacked(Padding) = <<>>
<1>1. 0 \in Bytes
  BY DEF Bytes
<1> QED
  BY <1>1 DEF Packet, Unpacked, Padding

\* A transfer is padded with one such packet, or with none.
LEMMA PaddedIs ==
  ASSUME NEW padding \in 0 .. 1
  PROVE  FlattenSeq([k \in 1 .. padding |-> Padding]) \in {<<>>, Padding}
<1> DEFINE ps == [k \in 1 .. padding |-> Padding]
<1>0. Padding \in Seq(Bytes)
  BY PaddingIs DEF Packet
<1>1. CASE padding = 0
  <2>1. ps \in Seq(Seq(Bytes)) /\ Len(ps) = 0
    BY <1>1
  <2> HIDE DEF ps
  <2>2. FlattenSeq(ps) = <<>>
    BY <2>1, FlattenNone
  <2> QED
    BY <2>2 DEF ps
<1>2. CASE padding = 1
  <2> DEFINE none == <<>>
  <2>1. ps = Append(none, Padding)
    BY <1>2
  <2>2. none \in Seq(Seq(Bytes)) /\ Len(none) = 0
    OBVIOUS
  <2> HIDE DEF ps, none
  <2>3. FlattenSeq(none) = <<>>
    BY <2>2, FlattenNone
  <2>4. FlattenSeq(ps) = FlattenSeq(none) \o Padding
    BY <1>0, <2>1, <2>2, FlattenMore
  <2>5. <<>> \o Padding = Padding
    BY <1>0, ConcatEmptySeq
  <2>6. FlattenSeq(ps) = Padding
    BY <2>3, <2>4, <2>5
  <2> QED
    BY <2>6 DEF ps
<1> QED
  BY <1>1, <1>2

\* A message, and padding after it or none, unpacks to the message.
LEMMA MessageUnpacked ==
  ASSUME NEW s, NEW k \in Nat, Packets(s, k), NEW m \in Wholes, NEW t \in {<<>>, Padding}
  PROVE  /\ PackPacket(m) \o t \in Seq(Bytes)
         /\ \E l \in Nat : Packets(s \o (PackPacket(m) \o t), l)
         /\ UnpackPackets(s \o (PackPacket(m) \o t)) = UnpackPackets(s) \o m
<1> DEFINE p == PackPacket(m)
<1>1. Packet(p) /\ p \in Seq(Bytes) /\ Unpacked(p) = m /\ m \in Seq(Bytes) /\ s \in Seq(Bytes)
  BY PackPacks DEF Packet, Wholes, Packets
<1> HIDE DEF p
<1>2. Packets(s \o p, k + 1) /\ UnpackPackets(s \o p) = UnpackPackets(s) \o m /\ k + 1 \in Nat
  <2>1. Unpacked(p) \in Seq(Bytes)
    BY <1>1
  <2>2. Packets(s \o p, k + 1) /\ UnpackPackets(s \o p) = UnpackPackets(s) \o Unpacked(p)
    BY <1>1, <2>1, UnpackMore
  <2> QED
    BY <1>1, <2>2
<1>3. CASE t = <<>>
  <2>1. p \o t = p
    BY <1>1, <1>3, ConcatEmptySeq
  <2> QED
    BY <1>1, <1>2, <2>1 DEF p
<1>4. CASE t = Padding
  <2>1. Packet(t) /\ t \in Seq(Bytes) /\ Unpacked(t) = <<>> /\ Unpacked(t) \in Seq(Bytes)
    BY <1>4, PaddingIs DEF Packet
  <2>2. Packets((s \o p) \o t, k + 2)
        /\ UnpackPackets((s \o p) \o t) = UnpackPackets(s \o p) \o Unpacked(t)
    <3>1. k + 1 + 1 = k + 2
      OBVIOUS
    <3> QED
      BY <1>2, <2>1, <3>1, UnpackMore
  <2>3. UnpackPackets(s \o p) \in Seq(Bytes)
    BY <1>2, UnpackIs
  <2>4. UnpackPackets(s \o p) \o <<>> = UnpackPackets(s \o p)
    BY <2>3, ConcatEmptySeq
  <2>5. s \o (p \o t) = (s \o p) \o t
    BY <1>1, <2>1, ConcatAssociative
  <2>6. p \o t \in Seq(Bytes) /\ k + 2 \in Nat
    BY <1>1, <2>1, ConcatProperties
  <2> QED
    BY <1>2, <2>1, <2>2, <2>4, <2>5, <2>6 DEF p
<1> QED
  BY <1>3, <1>4

\* What is written as event packets is read as it was, padding or none.
LEMMA WrittenIsRead ==
  ASSUME NEW ms \in Seq(Wholes), NEW padding \in 0 .. 1
  PROVE  UnpackPackets(WriteMIDI(ms, padding)) = FlattenSeq(ms)
<1> DEFINE n == Len(ms)
           after(k) == IF k % PerTransfer = 0 \/ k = n
                       THEN FlattenSeq([i \in 1 .. padding |-> Padding]) ELSE <<>>
           chunk(k) == PackPacket(ms[k]) \o after(k)
           cs == [k \in 1 .. n |-> chunk(k)]
<1>1. n \in Nat /\ DOMAIN ms = 1 .. n /\ \A k \in 1 .. n : ms[k] \in Wholes
  BY LenProperties, ElementOfSeq
<1>2. WriteMIDI(ms, padding) = FlattenSeq(cs)
  BY <1>1 DEF WriteMIDI
<1>3. \A k \in 1 .. n : after(k) \in {<<>>, Padding}
  BY PaddedIs
<1> HIDE DEF after
<1>4. \A k \in 1 .. n : chunk(k) \in Seq(Bytes)
  <2>1. Packets(<<>>, 0) /\ 0 \in Nat
    BY NoPiece
  <2> QED
    BY <1>1, <1>3, <2>1, MessageUnpacked
<1>a. ms \in Seq(Seq(Bytes)) /\ Len(ms) = n
  BY WholesAreBytes
<1> HIDE DEF n
<1>5. cs \in Seq(Seq(Bytes)) /\ Len(cs) = n /\ \A k \in 1 .. n : cs[k] = PackPacket(ms[k]) \o after(k)
  BY <1>1, <1>4
<1> HIDE DEF cs, chunk
<1> DEFINE up(k) == FlattenSeq(SubSeq(cs, 1, k))
           Ok(k) == /\ \E l \in Nat : Packets(up(k), l)
                    /\ UnpackPackets(up(k)) = FlattenSeq(SubSeq(ms, 1, k))
<1>6. Ok(0)
  <2> DEFINE none == <<>>
  <2>1. SubSeq(cs, 1, 0) = none /\ SubSeq(ms, 1, 0) = none
    BY SubSeqEmpty
  <2>2. none \in Seq(Seq(Bytes)) /\ Len(none) = 0
    OBVIOUS
  <2>3. none = <<>>
    OBVIOUS
  <2> HIDE DEF none
  <2>4. FlattenSeq(none) = <<>>
    BY <2>2, FlattenNone
  <2>5. 0 \in Nat
    OBVIOUS
  <2> QED
    BY <2>1, <2>4, <2>5, NoPiece
<1>7. ASSUME NEW k \in 1 .. n, Ok(k - 1)
      PROVE  Ok(k)
  <2> DEFINE s == up(k - 1)
             m == ms[k]
             t == after(k)
  <2>1. PICK l \in Nat : Packets(s, l)
    BY <1>7
  <2>2. m \in Wholes /\ t \in {<<>>, Padding} /\ cs[k] = PackPacket(m) \o t
    BY <1>1, <1>3, <1>5
  <2>3. SubSeq(cs, 1, k) = Append(SubSeq(cs, 1, k - 1), cs[k]) /\ SubSeq(cs, 1, k - 1) \in Seq(Seq(Bytes))
        /\ cs[k] \in Seq(Bytes)
    BY <1>5, OneMoreOf
  <2>4. SubSeq(ms, 1, k) = Append(SubSeq(ms, 1, k - 1), m) /\ SubSeq(ms, 1, k - 1) \in Seq(Seq(Bytes))
        /\ m \in Seq(Bytes)
    BY <1>a, OneMoreOf
  <2>5. up(k) = s \o cs[k]
    BY <2>3, FlattenMore
  <2>6. FlattenSeq(SubSeq(ms, 1, k)) = FlattenSeq(SubSeq(ms, 1, k - 1)) \o m
    BY <2>4, FlattenMore
  <2>7. UnpackPackets(s) = FlattenSeq(SubSeq(ms, 1, k - 1))
    BY <1>7
  <2> HIDE DEF s, m, t
  <2>8. (\E i \in Nat : Packets(s \o cs[k], i)) /\ UnpackPackets(s \o cs[k]) = UnpackPackets(s) \o m
    BY <2>1, <2>2, MessageUnpacked
  <2> QED
    BY <2>5, <2>6, <2>7, <2>8
<1>8. Ok(n)
  <2> HIDE DEF Ok
  <2> DEFINE D == {k \in Nat : k \in 0 .. n /\ ~Ok(k)}
  <2>1. SUFFICES ASSUME D # {} PROVE FALSE
    BY <1>1
  <2>2. PICK k \in D : \A i \in D : k <= i
    BY <2>1, SmallestOf
  <2>3. k \in Nat /\ k <= n /\ k # 0 /\ ~Ok(k)
    BY <1>6
  <2>4. k - 1 \in Nat /\ k - 1 \in 0 .. n /\ k - 1 \notin D /\ k \in 1 .. n
    BY <1>1, <2>2, <2>3
  <2> QED
    BY <1>7, <2>3, <2>4
<1>9. SubSeq(cs, 1, n) = cs /\ SubSeq(ms, 1, n) = ms
  BY <1>5, <1>a, SubSeqFull
<1> QED
  BY <1>2, <1>8, <1>9

-----------------------------------------------------------------------------
(* The stream: what is left of a frame takes the decoder to its end.          *)

Awaited(f) == \E q \in Nat : Trail(f, todo, q, Places(f)) /\ Follows(f, q)

Coming ==
  /\ todo \in Seq(Bytes)
  /\ todo # <<>> => \E f \in Seq(Bytes) : f = sending /\ Awaited(f)

\* The first byte of what is left, and the rest.
LEMMA TrailHead ==
  ASSUME NEW f, NEW s \in Seq(Bytes), s # <<>>, NEW q, NEW r, Trail(f, s, q, r)
  PROVE  \E m \in Nat : /\ Step(f, Head(s), q, m) /\ Trail(f, Tail(s), m, r)
                        /\ Tail(s) = <<>> => m = r
                        /\ Tail(s) # <<>> => \E n, b : Step(f, b, m, n)
<1> DEFINE l == Len(s)
<1>1. l \in Nat /\ l >= 1 /\ Head(s) = s[1] /\ Tail(s) = SubSeq(s, 2, l)
  BY LenProperties, EmptySeq, TailIsSubSeq
<1>2. Tail(s) \in Seq(Bytes) /\ Len(Tail(s)) = l - 1 /\ \A p \in 1 .. l - 1 : Tail(s)[p] = s[p + 1]
  BY HeadTailProperties
<1>3. PICK at \in [1 .. l + 1 -> Nat] :
        at[1] = q /\ at[l + 1] = r /\ \A p \in 1 .. l : Step(f, s[p], at[p], at[p + 1])
  BY DEF Trail
<1>4. (Tail(s) = <<>>) <=> (l - 1 = 0)
  BY <1>2, EmptySeq
<1> DEFINE t == Tail(s)
<1> HIDE DEF l, t
<1> DEFINE m == at[2]
           rest == [p \in 1 .. l |-> at[p + 1]]
<1>5. m \in Nat /\ Step(f, Head(s), q, m)
  <2>1. 2 \in 1 .. l + 1 /\ 1 \in 1 .. l /\ 1 + 1 = 2
    BY <1>1
  <2> QED
    BY <1>1, <1>3, <2>1
<1>6. Trail(f, t, m, r)
  <2> DEFINE u == Len(t)
  <2>1. u = l - 1
    BY <1>2 DEF t
  <2>a. l = u + 1 /\ u \in Nat
    BY <1>1, <2>1
  <2> HIDE DEF u
  <2>2. rest \in [1 .. u + 1 -> Nat]
    BY <1>3, <2>a
  <2>3. rest[1] = m /\ rest[u + 1] = r
    <3>1. 1 \in 1 .. l /\ u + 1 \in 1 .. l /\ u + 1 + 1 = l + 1 /\ 1 + 1 = 2
      BY <2>a
    <3> QED
      BY <1>3, <3>1
  <2>4. \A p \in 1 .. u : Step(f, t[p], rest[p], rest[p + 1])
    <3> TAKE p \in 1 .. u
    <3>1. p \in 1 .. l - 1 /\ p + 1 \in 1 .. l /\ p \in 1 .. l
      BY <2>a
    <3>2. t[p] = s[p + 1] /\ rest[p] = at[p + 1] /\ rest[p + 1] = at[p + 1 + 1]
      BY <1>2, <3>1 DEF t
    <3> QED
      BY <1>3, <3>1, <3>2
  <2> HIDE DEF rest, m
  <2> QED
    BY <2>2, <2>3, <2>4 DEF Trail, u
<1>7. t = <<>> => m = r
  <2>1. l - 1 = 0 => l + 1 = 2
    BY <1>1
  <2> QED
    BY <1>3, <1>4, <2>1 DEF t
<1>8. t # <<>> => \E n, b : Step(f, b, m, n)
  <2>1. l - 1 # 0 => 2 \in 1 .. l
    BY <1>1
  <2> QED
    BY <1>3, <1>4, <2>1 DEF t
<1> QED
  BY <1>5, <1>6, <1>7, <1>8 DEF t

\* The next byte of a frame.
LEMMA SendByteDelivers ==
  ASSUME DecoderInv, Coming, SendByte
  PROVE  /\ Coming' /\ \E b \in Bytes : FeedByte(b)
         /\ emitted' = IF todo' = <<>> THEN Expected(sending) ELSE <<>>
<1>1. todo # <<>> /\ todo \in Seq(Bytes) /\ todo' = Tail(todo) /\ sending' = sending
  BY DEF SendByte, Coming
<1>2. PICK b \in Bytes : b = Head(todo)
  BY <1>1, HeadTailProperties
<1>3. FeedByte(b) /\ MidiInv
  BY <1>2 DEF SendByte, DecoderInv
<1>4. PICK f \in Seq(Bytes) : f = sending /\ Awaited(f)
  BY <1>1 DEF Coming
<1>5. PICK q \in Nat : Trail(f, todo, q, Places(f)) /\ Follows(f, q)
  BY <1>4 DEF Awaited
<1>6. PICK m \in Nat : /\ Step(f, b, q, m) /\ Trail(f, Tail(todo), m, Places(f))
                       /\ Tail(todo) = <<>> => m = Places(f)
                       /\ Tail(todo) # <<>> => \E n, c : Step(f, c, m, n)
  BY <1>1, <1>2, <1>5, TrailHead
<1>7. Follows(f, m)' /\ emitted' = IF m = Places(f) THEN Expected(f) ELSE <<>>
  BY <1>3, <1>5, <1>6, StepFollowed
<1>8. Tail(todo) # <<>> => m # Places(f)
  <2>1. ASSUME NEW n, NEW c, Step(f, c, m, n) PROVE m # Places(f)
    <3>1. m < Places(f) /\ Places(f) \in Nat
      BY <2>1, StepBounds, LenProperties DEF Places
    <3> QED
      BY <3>1
  <2> QED
    BY <1>6, <2>1
<1>9. emitted' = IF todo' = <<>> THEN Expected(sending) ELSE <<>>
  BY <1>1, <1>4, <1>6, <1>7, <1>8
<1>10. Tail(todo) \in Seq(Bytes)
  BY <1>1, HeadTailProperties
<1>11. Awaited(f)'
  <2>1. Trail(f, todo', m, Places(f)) /\ Follows(f, m)'
    BY <1>1, <1>6, <1>7
  <2> QED
    BY <2>1 DEF Awaited
<1>12. Coming'
  BY <1>1, <1>4, <1>10, <1>11 DEF Coming
<1> QED
  BY <1>2, <1>3, <1>9, <1>12

\* A frame about to be sent, whole.
LEMMA WholeComes ==
  ASSUME NEW f \in Seq(Bytes), NEW s \in Seq(Bytes), Trail(f, s, 0, Places(f)),
         sending' = f, todo' = s
  PROVE  Coming'
<1>1. Follows(f, 0)'
  <2>1. \A j \in 0 .. LastMessage(f), i \in 0 .. 2 : 0 = 3 * j + i => j = 0 /\ i = 0
    BY LenProperties DEF LastMessage
  <2>2. FollowsAt(f, 0, 0)'
    BY DEF FollowsAt
  <2> QED
    BY <2>1, <2>2 DEF Follows
<1>2. Awaited(f)'
  BY <1>1 DEF Awaited
<1> QED
  BY <1>2 DEF Coming

\* The inductive step.
LEMMA StreamStep ==
  ASSUME DecoderInv, Coming, [StreamNext]_streamVars
  PROVE  /\ Coming' /\ [\E b \in Bytes : FeedByte(b)]_decoderVars
         /\ SendByte => emitted' = IF todo' = <<>> THEN Expected(sending) ELSE <<>>
<1>0. SendByte => todo # <<>>
  BY DEF SendByte
<1>1. CASE SendByte
  BY <1>1, SendByteDelivers
<1>2. ASSUME ~SendByte PROVE Coming' /\ [\E b \in Bytes : FeedByte(b)]_decoderVars
  <2>1. CASE StartSending
    <3>1. PICK f \in Sendable, compress \in BOOLEAN : sending' = f /\ todo' = EncodeMIDI(f, compress)
      BY <2>1 DEF StartSending
    <3>2. f \in Seq(Bytes)
      BY StreamAssumption DEF StreamAssumption
    <3>3. EncodeMIDI(f, compress) \in Seq(Bytes) /\ Trail(f, EncodeMIDI(f, compress), 0, Places(f))
      BY <3>2, EncodedIsWhole
    <3>4. Coming'
      BY <3>1, <3>2, <3>3, WholeComes
    <3> QED
      BY <2>1, <3>4 DEF StartSending
  <2>2. CASE StartSendingOverUsb
    <3>1. PICK f \in Sendable, compress \in BOOLEAN, padding \in 0 .. 1 :
            \E n \in {1, 5} :
              /\ sending' = f
              /\ todo' = UnpackPackets(WriteMIDI(
                           SplitMessages(Split(InsertClock(EncodeMIDI(f, compress), n))), padding))
      BY <2>2 DEF StartSendingOverUsb
    <3>2. PICK n \in {1, 5} :
              /\ sending' = f
              /\ todo' = UnpackPackets(WriteMIDI(
                           SplitMessages(Split(InsertClock(EncodeMIDI(f, compress), n))), padding))
      BY <3>1
    <3>3. f \in Seq(Bytes)
      BY StreamAssumption DEF StreamAssumption
    <3> DEFINE e == EncodeMIDI(f, compress)
               t == InsertClock(e, n)
               ms == SplitMessages(Split(t))
    <3>4. e \in Seq(Bytes) /\ Len(e) >= 6 /\ Trail(f, e, 0, Places(f))
      BY <3>3, EncodedIsWhole
    <3> HIDE DEF e
    <3>5. t \in Seq(Bytes) /\ Trail(f, t, 0, Places(f))
      <4>1. n \in 0 .. Len(e) - 1
        BY <3>4, LenProperties
      <4> QED
        BY <3>3, <3>4, <4>1, TickedIsWhole
    <3> HIDE DEF t
    <3>6. ms \in Seq(Wholes) /\ Trail(f, FlattenSeq(ms), 0, Places(f))
      BY <3>3, <3>5, SplitIsWhole
    <3> HIDE DEF ms
    <3>7. UnpackPackets(WriteMIDI(ms, padding)) = FlattenSeq(ms)
      BY <3>6, WrittenIsRead
    <3>8. FlattenSeq(ms) \in Seq(Bytes)
      BY <3>6, WholesAreBytes, FlattenTyped
    <3>9. sending' = f /\ todo' = FlattenSeq(ms)
      BY <3>2, <3>7 DEF ms, t, e
    <3>10. Coming'
      BY <3>3, <3>6, <3>8, <3>9, WholeComes
    <3> QED
      BY <2>2, <3>10 DEF StartSendingOverUsb
  <2>3. CASE CutShort
    BY <2>3 DEF CutShort, Coming
  <2>4. ASSUME NEW b \in NoiseBytes, Noise(b) PROVE Coming' /\ \E c \in Bytes : FeedByte(c)
    <3>1. b \in Bytes /\ FeedByte(b) /\ todo' = todo /\ sending' = sending
      BY <2>4, StreamAssumption DEF StreamAssumption, Noise
    <3>2. CASE todo = <<>>
      BY <3>1, <3>2 DEF Coming
    <3>3. CASE todo # <<>>
      <4>1. b >= 248
        BY <2>4, <3>3 DEF Noise
      <4>2. Realtime(b)
        <5>1. b \in Nat /\ b >= 248
          BY <3>1, <4>1 DEF Bytes
        <5>2. ~SysExStart(b) /\ ~StatusByte(b) /\ ~DataByte(b)
          BY <5>1 DEF SysExStart, StatusByte, DataByte
        <5> QED
          BY <3>1, <5>2 DEF FeedByte
      <4>3. UNCHANGED <<status, data, nData, want, sysex, acc>>
        BY <4>2 DEF Realtime, NoMessage, midiVars
      <4>4. \A f, q : Follows(f, q) => Follows(f, q)'
        BY <4>3 DEF Follows, FollowsAt, InEffect
      <4>5. ASSUME NEW f \in Seq(Bytes), Awaited(f) PROVE Awaited(f)'
        BY <3>1, <4>4, <4>5 DEF Awaited
      <4> QED
        BY <3>1, <4>5 DEF Coming
    <3> QED
      BY <3>1, <3>2, <3>3
  <2>5. CASE UNCHANGED streamVars
    <3>1. UNCHANGED <<status, data, nData, want, sysex, acc, todo, sending>>
      BY <2>5 DEF streamVars, decoderVars, midiVars, frameVars
    <3>2. \A f, q : Follows(f, q) => Follows(f, q)'
      BY <3>1 DEF Follows, FollowsAt, InEffect
    <3>3. ASSUME NEW f \in Seq(Bytes), Awaited(f) PROVE Awaited(f)'
      BY <3>1, <3>2, <3>3 DEF Awaited
    <3>4. Coming'
      BY <3>1, <3>3 DEF Coming
    <3> QED
      BY <2>5, <3>4 DEF streamVars
  <2> QED
    BY <1>2, <2>1, <2>2, <2>3, <2>4, <2>5 DEF StreamNext
<1> QED
  BY <1>1, <1>2

\* Whatever the decoder has seen before, a frame that arrives whole is delivered by its
\* last byte and not before (decoder.go:71-186), for every frame, sent as a byte stream or
\* as event packets (packet.go, splitMessages and UnpackPackets), with running status or
\* without, and with realtime bytes strewn over it.
THEOREM WholeFrame == StreamSpec => WholeFrameDelivered
<1>1. StreamInit => DecoderInv /\ Coming
  BY DecoderStarts DEF StreamInit, Coming
<1>2. DecoderInv /\ Coming /\ [StreamNext]_streamVars => DecoderInv' /\ Coming'
  BY StreamStep, DecoderStep
<1>3. DecoderInv /\ Coming /\ [StreamNext]_streamVars
        => [SendByte => emitted' = IF todo' = <<>> THEN Expected(sending) ELSE <<>>]_streamVars
  BY StreamStep
<1> QED
  BY <1>1, <1>2, <1>3, PTL DEF StreamSpec, WholeFrameDelivered
=============================================================================
