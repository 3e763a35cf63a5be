--------------------------- MODULE SessionProofs ----------------------------
(***************************************************************************)
(* Theorems about Session, for any number of callers, requests, messages   *)
(* and any capacity of the frames channel.                                 *)
(***************************************************************************)
EXTENDS Session, SequenceTheorems, TLAPS

\* The framer's state is well formed, and a reader that publishes has something
\* to publish.
FrInv ==
  /\ Fr!TypeOK
  /\ reader = "publish" => held # <<>>

TypeInv == TypeOK /\ FrInv

USE SessionAssumption DEF SessionAssumption

LEMMA ReaderTypes ==
  ASSUME FrInv, Fr!Reader
  PROVE  FrInv'
<1> USE DEF FrInv, Fr!TypeOK, Fr!ReaderSteps, Fr!CloserSteps, Fr!ErrCap, Fr!chanVars, Fr!lifeVars
<1>1. CASE Fr!ReadFrames
  <2>1. PICK n \in 1 .. Len(wire) :
          /\ held' = SubSeq(wire, 1, n)
          /\ wire' = SubSeq(wire, n + 1, Len(wire))
    BY <1>1 DEF Fr!ReadFrames
  <2>2. held' \in Seq(Replies) /\ Len(held') = n
    BY <2>1, SubSeqProperties
  <2>3. wire' \in Seq(Replies)
    BY <2>1, SubSeqProperties
  <2> QED
    BY <1>1, <2>2, <2>3 DEF Fr!ReadFrames
<1>2. CASE Fr!Publish
  <2>1. held # <<>> /\ Len(held) > 0 /\ Head(held) \in Replies /\ Tail(held) \in Seq(Replies)
    BY <1>2, HeadTailProperties, EmptySeq DEF Fr!Publish, Fr!PublishHead
  <2>2. frames' \in Seq(Replies) /\ Len(frames') = Len(frames) + 1
    BY <1>2, <2>1, AppendProperties DEF Fr!Publish, Fr!PublishHead
  <2> QED
    BY <1>2, <2>1, <2>2 DEF Fr!Publish, Fr!PublishHead
<1>3. CASE Fr!AbandonPublish
  BY <1>3 DEF Fr!AbandonPublish
<1>4. CASE Fr!ReadError
  BY <1>4 DEF Fr!ReadError
<1>5. CASE Fr!CloseErrs \/ Fr!CloseFrames \/ Fr!CloseExit
  BY <1>5 DEF Fr!CloseErrs, Fr!CloseFrames, Fr!CloseExit
<1> QED
  BY <1>1, <1>2, <1>3, <1>4, <1>5 DEF Fr!Reader, Fr!ReaderLeaves

\* Close, the consumer and the cable leave it so too.
LEMMA FramerTypes ==
  ASSUME FrInv,
         \/ Fr!CloseStep(Owner) \/ Fr!ReceiveFrame \/ Fr!ReceiveErr \/ Fr!Unplug
         \/ UNCHANGED frVars
  PROVE  FrInv'
<1> USE DEF FrInv, Fr!TypeOK, Fr!ReaderSteps, Fr!CloserSteps, Fr!ErrCap, Fr!chanVars, Fr!lifeVars
<1>1. CASE Fr!CloseStep(Owner)
  <2> USE DEF Fr!Goto
  <2>1. CASE Fr!CloseEnter(Owner)
    BY <2>1 DEF Fr!CloseEnter
  <2>2. CASE Fr!CloseSignal(Owner)
    BY <2>2 DEF Fr!CloseSignal
  <2>3. CASE Fr!ClosePort(Owner)
    BY <2>3 DEF Fr!ClosePort
  <2>4. CASE Fr!CloseReturns(Owner)
    BY <2>4 DEF Fr!CloseReturns
  <2>5. CASE Fr!CloseGivesUp(Owner)
    BY <2>5 DEF Fr!CloseGivesUp
  <2> QED
    BY <1>1, <2>1, <2>2, <2>3, <2>4, <2>5 DEF Fr!CloseStep
<1>2. CASE Fr!ReceiveFrame
  <2>1. Tail(frames) \in Seq(Replies) /\ Len(Tail(frames)) <= FrameCap
    BY <1>2, HeadTailProperties DEF Fr!ReceiveFrame
  <2> QED
    BY <1>2, <2>1 DEF Fr!ReceiveFrame
<1>3. CASE Fr!ReceiveErr
  BY <1>3 DEF Fr!ReceiveErr
<1>4. CASE Fr!Unplug
  BY <1>4 DEF Fr!Unplug
<1>5. CASE UNCHANGED frVars
  BY <1>5 DEF frVars
<1> QED
  BY <1>1, <1>2, <1>3, <1>4, <1>5

-----------------------------------------------------------------------------
(* Type correctness.                                                       *)

\* The part of TypeOK that is the callers' own.
CallTypes ==
  /\ sem \in SUBSET Callers
  /\ pc \in [Callers -> Steps]
  /\ req \in [Callers -> Requests \cup {<<>>}]
  /\ \A c \in Callers : pc[c] # "idle" => req[c] \in Requests
  /\ msgs \in 0 .. Msgs
  /\ lastErr \in BOOLEAN
  /\ outcome \in [Ids -> Verdicts \cup {"none"}]
  /\ answeredBy \in [Ids -> 0 .. MaxReq]

LEMMA TellTypes ==
  ASSUME CallTypes, NEW c \in Callers, pc[c] # "idle",
         NEW v \in Verdicts, NEW by \in 0 .. MaxReq, Return(c, v, by)
  PROVE  CallTypes'
<1>1. pc' = [pc EXCEPT ![c] = "idle"] /\ req' = [req EXCEPT ![c] = <<>>] /\ sem' = sem \ {c}
  BY DEF Return, Tell, Goto
<1>2. /\ sem' \in SUBSET Callers
      /\ pc' \in [Callers -> Steps]
      /\ req' \in [Callers -> Requests \cup {<<>>}]
      /\ \A d \in Callers : pc'[d] # "idle" => req'[d] \in Requests
  BY <1>1 DEF CallTypes, Steps
<1>3. msgs' \in 0 .. Msgs /\ lastErr' \in BOOLEAN
  <2>1. (msgs' = 0 /\ lastErr' = FALSE) \/ (msgs' = msgs /\ lastErr' = lastErr)
    BY DEF Return, Tell
  <2>2. msgs' \in 0 .. Msgs
    BY <2>1 DEF CallTypes
  <2>3. lastErr' \in BOOLEAN
    BY <2>1, Zenon DEF CallTypes
  <2> QED
    BY <2>2, <2>3
<1>4. /\ outcome' \in [Ids -> Verdicts \cup {"none"}]
      /\ answeredBy' \in [Ids -> 0 .. MaxReq]
  BY DEF CallTypes, Return, Tell
<1> QED
  BY <1>2, <1>3, <1>4 DEF CallTypes

LEMMA GotoTypes ==
  ASSUME CallTypes, NEW c \in Callers, pc[c] # "idle", NEW s \in Steps, Goto(c, s),
         UNCHANGED <<sem, req, resVars>>, msgs' \in 0 .. Msgs, lastErr' \in BOOLEAN
  PROVE  CallTypes'
BY DEF CallTypes, Goto, Steps, resVars

\* The rest of TypeOK: the history, the contexts and the device.
RestTypes ==
  /\ sclosed \in BOOLEAN
  /\ ctxDone \in SUBSET Callers
  /\ nextId \in 1 .. MaxReq + 1
  /\ asked \in [Ids -> Kinds \cup {"none"}]
  /\ devq \in Seq(Requests)
  /\ handled \in SUBSET Ids /\ whole \in SUBSET Ids /\ deadLink \in SUBSET Ids

LEMMA TypeParts == TypeInv <=> FrInv /\ CallTypes /\ RestTypes
BY DEF TypeInv, TypeOK, FrInv, CallTypes, RestTypes

LEMMA InitTypes == Init => TypeInv
<1> SUFFICES ASSUME Init PROVE TypeInv
  OBVIOUS
<1>1. <<>> \in Seq(Replies) /\ <<>> \in Seq(Requests) /\ Len(<<>>) = 0
  BY EmptySeq
<1>2. FrInv
  <2>1. closer \in [{Owner} -> Fr!CloserSteps]
    BY DEF Init, Fr!CloserSteps
  <2>2. errs \in 0 .. Fr!ErrCap /\ Len(frames) <= FrameCap
    BY <1>1 DEF Init, Fr!ErrCap
  <2> QED
    BY <1>1, <2>1, <2>2 DEF Init, FrInv, Fr!TypeOK, Fr!ReaderSteps
<1>3. pc \in [Callers -> Steps] /\ req \in [Callers -> Requests \cup {<<>>}]
  BY DEF Init, Steps
<1>4. outcome \in [Ids -> Verdicts \cup {"none"}] /\ asked \in [Ids -> Kinds \cup {"none"}]
  BY DEF Init
<1>5. answeredBy \in [Ids -> 0 .. MaxReq] /\ nextId \in 1 .. MaxReq + 1 /\ msgs \in 0 .. Msgs
  BY DEF Init
<1> QED
  BY <1>1, <1>2, <1>3, <1>4, <1>5 DEF Init, TypeInv, TypeOK, FrInv

\* The actions of a caller that leave the framer alone.
SilentCall(c) ==
  \/ Begin(c) \/ Acquire(c) \/ Recheck(c) \/ DrainStale(c) \/ SendFrame(c) \/ WriteMIDI(c) \/ SendFails(c)
  \/ AwaitCancelled(c) \/ AwaitTimeout(c) \/ SettleEnds(c) \/ SettleTimer(c)

LEMMA SilentCallIsSilent ==
  ASSUME NEW c \in Callers, SilentCall(c)
  PROVE  UNCHANGED frVars
BY DEF SilentCall, Begin, Acquire, Recheck, DrainStale, SendFrame, WriteMIDI, SendFails,
       AwaitCancelled, AwaitTimeout, SettleEnds, SettleTimer, SettleReturn

LEMMA NextFrTypes ==
  ASSUME TypeInv, [Next]_vars
  PROVE  FrInv'
<1> USE DEF TypeInv
<1>1. ASSUME NEW c \in Callers, Call(c) PROVE FrInv'
  <2>1. CASE SilentCall(c)
    BY <2>1, SilentCallIsSilent, FramerTypes
  <2>2. CASE DrainDiscard(c) \/ AwaitFrame(c) \/ AwaitErr(c) \/ SettleDiscard(c)
    <3>1. Fr!ReceiveFrame \/ Fr!ReceiveErr
      BY <2>2 DEF DrainDiscard, AwaitFrame, AwaitErr, SettleDiscard
    <3> QED
      BY <3>1, FramerTypes
  <2>4. CASE AwaitClosed(c)
    <3>1. errs' \in 0 .. Fr!ErrCap
      BY <2>4 DEF AwaitClosed, FrInv, Fr!TypeOK, Fr!ErrCap
    <3>2. UNCHANGED <<port, wire, reader, held, frames, framesOpen, errsOpen, readerExit,
                      started, closed, done, closer>>
      BY <2>4 DEF AwaitClosed, Fr!FramesExhausted
    <3> QED
      BY <3>1, <3>2 DEF FrInv, Fr!TypeOK
  <2> QED
    BY <1>1, <2>1, <2>2, <2>4 DEF Call, SilentCall
<1>2. CASE CloseSession \/ Cancel \/ DeviceDrops \/ UNCHANGED vars
  <2>1. UNCHANGED frVars
    BY <1>2 DEF CloseSession, Cancel, DeviceDrops, vars
  <2> QED
    BY <2>1, FramerTypes
<1>3. CASE CloseFramer \/ Unplugged
  BY <1>3, FramerTypes DEF CloseFramer, Unplugged
<1>4. CASE ReaderStep
  BY <1>4, ReaderTypes DEF ReaderStep
<1>5. CASE DeviceServes
  <2> DEFINE r == Head(devq)
  <2>1. r.id \in Ids /\ r.cmd \in Cmds
    <3>1. devq \in Seq(Requests) /\ devq # <<>>
      BY <1>5 DEF DeviceServes, TypeOK
    <3>2. r \in Requests
      BY <3>1, HeadTailProperties
    <3> QED
      BY <3>2 DEF Requests
  <2>2. [id |-> r.id, cmd |-> r.cmd] \in Replies
    BY <2>1 DEF Replies
  <2>3. wire' \in Seq(Replies)
    <3>1. wire \in Seq(Replies)
      BY DEF TypeOK, Fr!TypeOK
    <3>2. Append(wire, [id |-> r.id, cmd |-> r.cmd]) \in Seq(Replies)
      BY <3>1, <2>2, AppendProperties
    <3>3. wire' \in {wire, Append(wire, [id |-> r.id, cmd |-> r.cmd])}
      BY <1>5 DEF DeviceServes
    <3> QED
      BY <3>1, <3>2, <3>3
  <2>4. port' \in {"open", "gone", "closed"}
    BY <1>5 DEF DeviceServes, FrInv, Fr!TypeOK
  <2>5. UNCHANGED <<reader, held, frames, framesOpen, errs, errsOpen, readerExit,
                    started, closed, done, closer>>
    BY <1>5 DEF DeviceServes
  <2> QED
    BY <2>3, <2>4, <2>5 DEF FrInv, Fr!TypeOK
<1> QED
  BY <1>1, <1>2, <1>3, <1>4, <1>5 DEF Next

LEMMA NextCallTypes ==
  ASSUME TypeInv, [Next]_vars
  PROVE  CallTypes'
<1>1. FrInv /\ CallTypes /\ RestTypes
  BY TypeParts
<1> USE DEF resVars, localVars
<1>2. ASSUME NEW c \in Callers, Call(c) PROVE CallTypes'
  <2>0. {"queued", "locked", "stale", "send", "sending", "await", "settle"} \subseteq Steps
        /\ Verdicts = {"ok", "sent", "notSent", "timeout", "cancelled", "unacked", "closed", "closedBare"}
    BY DEF Steps, Verdicts
  <2>1. CASE Begin(c)
    <3>1. PICK cmd \in Cmds, kind \in Kinds, refused \in BOOLEAN :
            /\ req' = [req EXCEPT ![c] = [id |-> nextId, cmd |-> cmd, kind |-> kind]]
            /\ IF refused \/ sclosed
               THEN outcome' = [outcome EXCEPT ![nextId] = "notSent"] /\ UNCHANGED pc
               ELSE Goto(c, "queued") /\ UNCHANGED outcome
      BY <2>1, Zenon DEF Begin
    <3>2. [id |-> nextId, cmd |-> cmd, kind |-> kind] \in Requests /\ nextId \in Ids
      BY <2>1, Zenon DEF Begin, Requests
    <3>3. req' \in [Callers -> Requests \cup {<<>>}] /\ req'[c] \in Requests
      BY <1>1, <3>1, <3>2 DEF CallTypes
    <3>4. pc' \in [Callers -> Steps] /\ \A d \in Callers : pc'[d] # "idle" => req'[d] \in Requests
      BY <1>1, <2>0, <3>1, <3>3 DEF CallTypes, Goto
    <3>5. outcome' \in [Ids -> Verdicts \cup {"none"}]
      BY <1>1, <2>0, <3>1, <3>2 DEF CallTypes
    <3> QED
      BY <1>1, <2>1, <3>3, <3>4, <3>5 DEF CallTypes, Begin
  <2>2. ASSUME NEW v \in Verdicts, Conclude(c, v), pc[c] # "idle" PROVE CallTypes'
    BY <1>1, <2>2, TellTypes DEF Conclude
  <2>3. CASE Acquire(c)
    <3>1. CASE sem = {} /\ sem' = {c} /\ Goto(c, "locked") /\ UNCHANGED <<localVars, resVars>>
      BY <1>1, <2>0, <2>3, <3>1 DEF CallTypes, Goto, Acquire
    <3> QED
      BY <2>0, <2>2, <2>3, <3>1 DEF Acquire
  <2>4. CASE Recheck(c)
    BY <1>1, <2>0, <2>2, <2>4, GotoTypes DEF Recheck, CallTypes
  <2>5. CASE DrainStale(c)
    BY <1>1, <2>0, <2>5, GotoTypes DEF DrainStale, CallTypes
  <2>6. CASE SendFrame(c)
    BY <1>1, <2>0, <2>2, <2>6, GotoTypes DEF SendFrame, CallTypes
  <2>7. CASE WriteMIDI(c)
    <3>1. CASE msgs + 1 < Msgs
      BY <1>1, <2>7, <3>1 DEF WriteMIDI, CallTypes
    <3>2. CASE ~(msgs + 1 < Msgs) /\ req[c].kind = "jump"
      BY <2>0, <2>2, <2>7, <3>2 DEF WriteMIDI
    <3>3. CASE ~(msgs + 1 < Msgs) /\ req[c].kind # "jump"
      BY <1>1, <2>0, <2>7, <3>3, GotoTypes DEF WriteMIDI, CallTypes
    <3> QED
      BY <3>1, <3>2, <3>3
  <2>8. CASE SendFails(c)
    BY <2>0, <2>2, <2>8 DEF SendFails
  <2>9. CASE AwaitFrame(c)
    <3>1. CASE Head(frames).cmd = req[c].cmd
      <4>1. Head(frames) \in Replies
        BY <1>1, <2>9, HeadTailProperties DEF AwaitFrame, Fr!ReceiveFrame, FrInv, Fr!TypeOK
      <4>2. Head(frames).id \in 0 .. MaxReq
        BY <4>1 DEF Replies, Ids
      <4> QED
        BY <1>1, <2>0, <2>9, <3>1, <4>2, TellTypes DEF AwaitFrame
    <3>2. CASE Head(frames).cmd # req[c].cmd
      BY <1>1, <2>9, <3>2 DEF AwaitFrame, CallTypes
    <3> QED
      BY <3>1, <3>2
  <2>10. CASE AwaitErr(c)
    BY <1>1, <2>10 DEF AwaitErr, CallTypes
  <2>11. CASE AwaitClosed(c)
    BY <2>0, <2>2, <2>11 DEF AwaitClosed
  <2>12. CASE AwaitCancelled(c)
    BY <2>0, <2>2, <2>12 DEF AwaitCancelled, Unacknowledged
  <2>13. CASE AwaitTimeout(c)
    BY <1>1, <2>0, <2>13, GotoTypes DEF AwaitTimeout, CallTypes
  <2>14. CASE SettleDiscard(c) \/ DrainDiscard(c)
    BY <1>1, <2>14 DEF SettleDiscard, DrainDiscard, CallTypes, callVars
  <2>15. CASE SettleEnds(c) \/ SettleTimer(c)
    BY <2>0, <2>2, <2>15 DEF SettleEnds, SettleTimer, SettleReturn, Unacknowledged
  <2> QED
    BY <1>2, <2>1, <2>3, <2>4, <2>5, <2>6, <2>7, <2>8, <2>9, <2>10, <2>11, <2>12, <2>13, <2>14, <2>15
       DEF Call
<1>3. CASE UNCHANGED <<callVars, resVars>>
  BY <1>1, <1>3 DEF CallTypes, callVars
<1>4. CASE Cancel
  BY <1>1, <1>4 DEF CallTypes, Cancel
<1>5. CloseSession \/ CloseFramer \/ ReaderStep \/ DeviceServes \/ DeviceDrops \/ Unplugged
        \/ UNCHANGED vars
      => UNCHANGED <<callVars, resVars>>
  BY DEF CloseSession, CloseFramer, ReaderStep, DeviceServes, DeviceDrops, Unplugged, vars
<1> QED
  BY <1>2, <1>3, <1>4, <1>5 DEF Next

LEMMA NextRestTypes ==
  ASSUME TypeInv, [Next]_vars
  PROVE  RestTypes'
<1>1. FrInv /\ CallTypes /\ RestTypes
  BY TypeParts
<1>2. ASSUME NEW c \in Callers, Call(c) PROVE RestTypes'
  <2>1. CASE Begin(c)
    <3>1. nextId \in Ids /\ nextId' = nextId + 1
      BY <2>1 DEF Begin
    <3>2. nextId' \in 1 .. MaxReq + 1
      BY <3>1 DEF Ids
    <3>3. asked' \in [Ids -> Kinds \cup {"none"}]
      <4>1. PICK kind \in Kinds : asked' = [asked EXCEPT ![nextId] = kind]
        BY <2>1, Zenon DEF Begin
      <4> QED
        BY <1>1, <3>1, <4>1 DEF RestTypes
    <3>4. UNCHANGED <<sclosed, ctxDone, devq, handled, whole, deadLink>>
      BY <2>1 DEF Begin, devVars
    <3> QED
      BY <1>1, <3>2, <3>3, <3>4 DEF RestTypes
  <2>2. CASE DrainStale(c)
    <3>1. req[c].id \in Ids
      BY <1>1, <2>2 DEF DrainStale, CallTypes, Requests
    <3>2. deadLink' \in SUBSET Ids
      BY <1>1, <2>2, <3>1 DEF DrainStale, RestTypes
    <3> QED
      BY <1>1, <2>2, <3>2 DEF DrainStale, RestTypes, devVars
  <2>3. CASE WriteMIDI(c)
    <3>1. req[c] \in Requests /\ req[c].id \in Ids
      BY <1>1, <2>3 DEF WriteMIDI, CallTypes, Requests
    <3>2. devq' \in Seq(Requests) /\ whole' \in SUBSET Ids
      <4>1. devq' = devq \/ devq' = Append(devq, req[c])
        BY <2>3 DEF WriteMIDI
      <4>2. whole' = whole \/ whole' = whole \cup {req[c].id}
        BY <2>3 DEF WriteMIDI
      <4> QED
        BY <1>1, <3>1, <4>1, <4>2, AppendProperties DEF RestTypes
    <3> QED
      BY <1>1, <2>3, <3>2 DEF WriteMIDI, RestTypes
  <2>4. ~Begin(c) /\ ~DrainStale(c) /\ ~WriteMIDI(c)
          => UNCHANGED <<sclosed, ctxDone, nextId, asked, devq, handled, whole, deadLink>>
    BY <1>2 DEF Call, Acquire, Recheck, DrainDiscard, SendFrame, SendFails, AwaitFrame, AwaitErr, AwaitClosed,
       AwaitCancelled, AwaitTimeout, SettleDiscard, SettleEnds, SettleTimer, SettleReturn, callVars, devVars
  <2> QED
    BY <1>1, <2>1, <2>2, <2>3, <2>4 DEF RestTypes
<1>3. CASE CloseSession
  BY <1>1, <1>3 DEF RestTypes, CloseSession, callVars, devVars
<1>4. CASE Cancel
  BY <1>1, <1>4 DEF RestTypes, Cancel, devVars
<1>5. CASE DeviceServes
  <2>1. devq # <<>> /\ devq \in Seq(Requests)
    BY <1>1, <1>5 DEF DeviceServes, RestTypes
  <2>2. Head(devq) \in Requests /\ Tail(devq) \in Seq(Requests) /\ <<>> \in Seq(Requests)
    BY <2>1, HeadTailProperties, EmptySeq
  <2>3. Head(devq).id \in Ids
    BY <2>2 DEF Requests
  <2>4. devq' \in Seq(Requests) /\ handled' = handled \cup {Head(devq).id}
    BY <1>5, <2>2 DEF DeviceServes
  <2> QED
    BY <1>1, <1>5, <2>3, <2>4 DEF RestTypes, DeviceServes, callVars
<1>6. CASE DeviceDrops
  <2>1. devq # <<>> /\ devq \in Seq(Requests)
    BY <1>1, <1>6 DEF DeviceDrops, RestTypes
  <2>2. devq' \in Seq(Requests)
    BY <1>6, <2>1, HeadTailProperties DEF DeviceDrops
  <2> QED
    BY <1>1, <1>6, <2>2 DEF RestTypes, DeviceDrops, callVars
<1>7. CASE CloseFramer \/ ReaderStep \/ Unplugged \/ UNCHANGED vars
  <2>1. UNCHANGED <<sclosed, ctxDone, nextId, asked, devq, handled, whole, deadLink>>
    BY <1>7 DEF CloseFramer, ReaderStep, Unplugged, vars, callVars, devVars
  <2> QED
    BY <1>1, <2>1 DEF RestTypes
<1> QED
  BY <1>2, <1>3, <1>4, <1>5, <1>6, <1>7 DEF Next

LEMMA NextTypes == TypeInv /\ [Next]_vars => TypeInv'
<1> SUFFICES ASSUME TypeInv, [Next]_vars PROVE TypeInv'
  OBVIOUS
<1>1. FrInv' /\ CallTypes' /\ RestTypes'
  BY NextFrTypes, NextCallTypes, NextRestTypes
<1> QED
  BY <1>1 DEF TypeInv, TypeOK, FrInv, CallTypes, RestTypes

\* The state of the session and of the framer under it stays well formed.
THEOREM TypeCorrect == Spec => []TypeOK
<1>1. Spec => []TypeInv
  BY InitTypes, NextTypes, PTL DEF Spec
<1>2. TypeInv => TypeOK
  BY DEF TypeInv
<1> QED
  BY <1>1, <1>2, PTL

-----------------------------------------------------------------------------
(* Single flight.                                                          *)

\* A return keeps it: the caller that leaves gives back what it held.
LEMMA ReturnFrees ==
  ASSUME CallTypes, SingleFlight, NEW c \in Callers, NEW v, NEW by, Return(c, v, by)
  PROVE  SingleFlight'
BY DEF CallTypes, SingleFlight, Return, Tell, Goto, Holding

\* So does a step between two places that both hold the slot, or neither.
LEMMA GotoKeeps ==
  ASSUME CallTypes, SingleFlight, NEW c \in Callers, NEW s \in Steps, Goto(c, s),
         s \in Holding <=> pc[c] \in Holding, sem' = sem
  PROVE  SingleFlight'
BY DEF CallTypes, SingleFlight, Goto

LEMMA NextSingleFlight == TypeInv /\ SingleFlight /\ [Next]_vars => SingleFlight'
<1> SUFFICES ASSUME TypeInv, SingleFlight, [Next]_vars PROVE SingleFlight'
  OBVIOUS
<1>1. CallTypes
  BY TypeParts
<1> USE <1>1 DEF localVars, resVars
<1>2. ASSUME NEW c \in Callers, Call(c) PROVE SingleFlight'
  <2>0. /\ {"queued", "locked", "stale", "send", "sending", "await", "settle"} \subseteq Steps
        /\ Holding = {"locked", "stale", "send", "sending", "await", "settle"}
    BY DEF Steps, Holding
  <2>1. CASE Begin(c)
    <3>1. sem' = sem /\ pc[c] = "idle" /\ (pc' = pc \/ Goto(c, "queued"))
      BY <2>1 DEF Begin
    <3> QED
      BY <2>0, <3>1, GotoKeeps DEF SingleFlight
  <2>2. CASE Acquire(c)
    <3>1. CASE Conclude(c, "notSent")
      BY <3>1, ReturnFrees DEF Conclude
    <3>2. CASE sem = {} /\ sem' = {c} /\ Goto(c, "locked")
      BY <2>0, <3>2 DEF SingleFlight, Goto, CallTypes
    <3> QED
      BY <2>2, <3>1, <3>2 DEF Acquire
  <2>3. CASE Recheck(c)
    BY <2>0, <2>3, ReturnFrees, GotoKeeps DEF Recheck, Conclude
  <2>4. CASE DrainStale(c)
    BY <2>0, <2>4, GotoKeeps DEF DrainStale
  <2>5. CASE SendFrame(c)
    BY <2>0, <2>5, ReturnFrees, GotoKeeps DEF SendFrame, Conclude
  <2>6. CASE WriteMIDI(c)
    <3>1. CASE Conclude(c, "sent")
      BY <3>1, ReturnFrees DEF Conclude
    <3>2. CASE sem' = sem /\ Goto(c, "await")
      BY <2>0, <2>6, <3>2, GotoKeeps DEF WriteMIDI
    <3>3. CASE sem' = sem /\ pc' = pc
      BY <3>3 DEF SingleFlight
    <3> QED
      BY <2>6, <3>1, <3>2, <3>3 DEF WriteMIDI
  <2>7. CASE AwaitFrame(c)
    BY <2>7, ReturnFrees DEF AwaitFrame, SingleFlight
  <2>8. CASE AwaitTimeout(c)
    BY <2>0, <2>8, GotoKeeps DEF AwaitTimeout
  <2>9. CASE DrainDiscard(c) \/ AwaitErr(c) \/ SettleDiscard(c)
    BY <2>9 DEF DrainDiscard, AwaitErr, SettleDiscard, SingleFlight, callVars
  <2>10. CASE SendFails(c) \/ AwaitClosed(c) \/ AwaitCancelled(c) \/ SettleEnds(c) \/ SettleTimer(c)
    <3>1. \E v : Return(c, v, 0)
      BY <2>10 DEF SendFails, AwaitClosed, AwaitCancelled, SettleEnds, SettleTimer, SettleReturn, Conclude
    <3> QED
      BY <3>1, ReturnFrees
  <2> QED
    BY <1>2, <2>1, <2>2, <2>3, <2>4, <2>5, <2>6, <2>7, <2>8, <2>9, <2>10 DEF Call
<1>3. CloseSession \/ CloseFramer \/ ReaderStep \/ Cancel \/ DeviceServes \/ DeviceDrops
        \/ Unplugged \/ UNCHANGED vars
      => sem' = sem /\ pc' = pc
  BY DEF CloseSession, CloseFramer, ReaderStep, Cancel, DeviceServes, DeviceDrops, Unplugged, vars, callVars
<1> QED
  BY <1>2, <1>3 DEF Next, SingleFlight

\* However many goroutines use the session, one at a time is past acquire, and
\* no path out of exchange leaves the slot taken.
THEOREM OneInFlight == Spec => []SingleFlight
<1>1. Init => TypeInv /\ SingleFlight
  BY InitTypes DEF Init, SingleFlight, Holding
<1>2. TypeInv /\ SingleFlight /\ [Next]_vars => (TypeInv /\ SingleFlight)'
  BY NextTypes, NextSingleFlight
<1> QED
  BY <1>1, <1>2, PTL DEF Spec

-----------------------------------------------------------------------------
(* What a caller is told of its request.                                   *)

\* A request not issued yet has left no trace.
Untouched(i) == outcome[i] = "none" /\ asked[i] = "none" /\ i \notin whole

\* The device knows only of requests whose whole frame left the host.
DeviceKnows == handled \subseteq whole /\ \A n \in DOMAIN devq : devq[n].id \in whole

\* A request in progress has been told nothing, and its frame is whole exactly
\* when its caller waits for the answer.
InProgress(c) ==
  LET i == req[c].id IN
    /\ i < nextId
    /\ outcome[i] = "none" /\ asked[i] = req[c].kind
    /\ i \in whole <=> pc[c] \in {"await", "settle"}

\* What a verdict says of the frame.
Truthful(v, i) ==
  /\ v = "notSent" => i \notin whole
  /\ v = "unacked" => asked[i] = "write" /\ i \in whole
  /\ v \in {"sent", "timeout", "cancelled"} => asked[i] # "write"

FateInv ==
  /\ \A i \in Ids : i >= nextId => Untouched(i)
  /\ DeviceKnows
  /\ \A c \in Callers : pc[c] # "idle" => InProgress(c)
  /\ \A c, d \in Callers : pc[c] # "idle" /\ pc[d] # "idle" /\ req[c].id = req[d].id => c = d
  /\ \A i \in Ids : Truthful(outcome[i], i)

\* A truthful return keeps the invariant.
LEMMA ReturnTruthful ==
  ASSUME TypeInv, FateInv, NEW c \in Callers, pc[c] # "idle", NEW v \in Verdicts, NEW by,
         Return(c, v, by), Truthful(v, req[c].id),
         UNCHANGED <<asked, whole, nextId, handled, devq>>
  PROVE  FateInv'
<1> DEFINE i == req[c].id
<1>1. /\ i \in Ids /\ i < nextId
      /\ outcome \in [Ids -> Verdicts \cup {"none"}]
      /\ pc \in [Callers -> Steps] /\ req \in [Callers -> Requests \cup {<<>>}]
      /\ nextId \in Nat
  BY DEF TypeInv, TypeOK, FateInv, InProgress, Requests, Ids
<1>2. /\ outcome' = [outcome EXCEPT ![i] = v]
      /\ pc' = [pc EXCEPT ![c] = "idle"] /\ req' = [req EXCEPT ![c] = <<>>]
  BY DEF Return, Tell, Goto
<1> HIDE DEF i
<1>3. \A j \in Ids : j >= nextId => Untouched(j)'
  BY <1>1, <1>2 DEF FateInv, Untouched, Ids
<1>4. DeviceKnows'
  BY DEF FateInv, DeviceKnows
<1>5. \A d \in Callers : pc'[d] # "idle" =>
        /\ d # c /\ pc[d] # "idle" /\ pc'[d] = pc[d] /\ req'[d] = req[d]
        /\ req[d].id # i /\ req[d].id \in Ids
  BY <1>1, <1>2 DEF FateInv, TypeInv, TypeOK, Requests, i
<1>6. \A d \in Callers : pc'[d] # "idle" => InProgress(d)'
  BY <1>1, <1>2, <1>5 DEF FateInv, InProgress
<1>7. \A j \in Ids : Truthful(outcome[j], j)'
  BY <1>1, <1>2 DEF FateInv, Truthful, i
<1> QED
  BY <1>3, <1>4, <1>5, <1>6, <1>7 DEF FateInv

\* So does a step of a caller that sends nothing and is told nothing.
LEMMA GotoTruthful ==
  ASSUME TypeInv, FateInv, NEW c \in Callers, pc[c] # "idle", NEW s \in Steps, s # "idle", Goto(c, s),
         s \in {"await", "settle"} <=> pc[c] \in {"await", "settle"},
         UNCHANGED <<req, outcome, asked, whole, nextId, handled, devq>>
  PROVE  FateInv'
<1>1. pc' = [pc EXCEPT ![c] = s] /\ pc \in [Callers -> Steps]
  BY DEF Goto, TypeInv, TypeOK
<1> QED
  BY <1>1 DEF FateInv, Untouched, DeviceKnows, InProgress, Truthful

\* And a step that only consumes what the device was sent.
LEMMA DeviceTruthful ==
  ASSUME FateInv,
         UNCHANGED <<pc, req, outcome, asked, whole, nextId>>,
         handled' \subseteq whole, \A n \in DOMAIN devq' : devq'[n].id \in whole
  PROVE  FateInv'
BY DEF FateInv, Untouched, DeviceKnows, InProgress, Truthful

LEMMA BeginTruthful ==
  ASSUME TypeInv, FateInv, NEW c \in Callers, Begin(c)
  PROVE  FateInv'
<1>1. PICK cmd \in Cmds, kind \in Kinds, refused \in BOOLEAN :
        /\ req' = [req EXCEPT ![c] = [id |-> nextId, cmd |-> cmd, kind |-> kind]]
        /\ IF refused \/ sclosed
           THEN outcome' = [outcome EXCEPT ![nextId] = "notSent"] /\ UNCHANGED pc
           ELSE Goto(c, "queued") /\ UNCHANGED outcome
        /\ asked' = [asked EXCEPT ![nextId] = kind]
  BY Zenon DEF Begin
<1>2. /\ pc[c] = "idle" /\ nextId \in Ids /\ nextId' = nextId + 1
      /\ UNCHANGED <<whole, handled, devq>>
  BY DEF Begin, devVars
<1>3. /\ outcome \in [Ids -> Verdicts \cup {"none"}] /\ asked \in [Ids -> Kinds \cup {"none"}]
      /\ pc \in [Callers -> Steps] /\ req \in [Callers -> Requests \cup {<<>>}]
      /\ "queued" \in Steps
  BY DEF TypeInv, TypeOK, Steps
<1>4. \A d \in Callers : pc[d] # "idle" =>
        d # c /\ req'[d] = req[d] /\ req[d].id \in Ids /\ req[d].id < nextId
  BY <1>1, <1>2, <1>3 DEF FateInv, InProgress, TypeInv, TypeOK, Requests
<1>5. \A d \in Callers : pc'[d] # "idle" => d = c \/ pc[d] # "idle"
  BY <1>1, <1>3 DEF Goto
<1>6. req'[c] = [id |-> nextId, cmd |-> cmd, kind |-> kind]
  BY <1>1, <1>3
<1>7. Untouched(nextId)
  BY <1>2 DEF FateInv, Ids
<1>8. \A i \in Ids : i >= nextId' => Untouched(i)'
  BY <1>1, <1>2, <1>3 DEF FateInv, Untouched, Ids
<1>9. DeviceKnows'
  BY <1>2 DEF FateInv, DeviceKnows
<1>10. \A d \in Callers : pc'[d] # "idle" => InProgress(d)'
  <2>1. ASSUME NEW d \in Callers, d # c, pc'[d] # "idle" PROVE InProgress(d)'
    <3>1. pc'[d] = pc[d] /\ pc[d] # "idle"
      BY <1>1, <1>3, <2>1 DEF Goto
    <3>2. req'[d] = req[d] /\ req[d].id \in Ids /\ req[d].id < nextId /\ InProgress(d)
      BY <1>4, <3>1 DEF FateInv
    <3>3. outcome'[req[d].id] = outcome[req[d].id] /\ asked'[req[d].id] = asked[req[d].id]
      BY <1>1, <1>2, <1>3, <3>2 DEF Ids
    <3> QED
      BY <1>2, <3>1, <3>2, <3>3 DEF InProgress, Ids
  <2>2. ASSUME pc'[c] # "idle" PROVE InProgress(c)'
    <3>1. pc'[c] = "queued" /\ outcome' = outcome
      BY <1>1, <1>2, <1>3, <2>2 DEF Goto
    <3>2. asked'[nextId] = kind /\ nextId < nextId'
      BY <1>1, <1>2, <1>3 DEF Ids
    <3> QED
      BY <1>2, <1>6, <1>7, <3>1, <3>2 DEF InProgress, Untouched
  <2> QED
    BY <2>1, <2>2
<1>11. \A d, e \in Callers : pc'[d] # "idle" /\ pc'[e] # "idle" /\ req'[d].id = req'[e].id => d = e
  BY <1>2, <1>4, <1>5, <1>6 DEF FateInv, Ids
<1>12. \A i \in Ids : Truthful(outcome[i], i)'
  BY <1>1, <1>2, <1>3, <1>7 DEF FateInv, Truthful, Untouched, Goto
<1> QED
  BY <1>8, <1>9, <1>10, <1>11, <1>12 DEF FateInv

\* The last message makes the frame whole: from there on the request may land.
LEMMA WriteTruthful ==
  ASSUME TypeInv, FateInv, NEW c \in Callers, WriteMIDI(c)
  PROVE  FateInv'
<1> DEFINE i == req[c].id
<1>1. /\ pc[c] = "sending" /\ req[c] \in Requests /\ i \in Ids /\ i < nextId
      /\ outcome[i] = "none" /\ asked[i] = req[c].kind /\ nextId \in Nat
  BY DEF WriteMIDI, TypeInv, TypeOK, FateInv, InProgress, Requests, Ids
<1>2. UNCHANGED <<asked, nextId, handled>>
  BY DEF WriteMIDI
<1>3. /\ outcome \in [Ids -> Verdicts \cup {"none"}] /\ pc \in [Callers -> Steps]
      /\ req \in [Callers -> Requests \cup {<<>>}] /\ devq \in Seq(Requests)
      /\ "await" \in Steps
  BY DEF TypeInv, TypeOK, Steps
<1>4. CASE msgs + 1 < Msgs
  <2>1. UNCHANGED <<pc, req, outcome, whole, devq>>
    BY <1>4 DEF WriteMIDI, resVars
  <2> QED
    BY <1>2, <2>1 DEF FateInv, Untouched, DeviceKnows, InProgress, Truthful
<1>5. CASE ~(msgs + 1 < Msgs)
  <2>1. /\ devq' = Append(devq, req[c]) /\ whole' = whole \cup {i}
        /\ \/ req[c].kind = "jump" /\ Return(c, "sent", 0)
           \/ Goto(c, "await") /\ UNCHANGED <<req, outcome>>
    BY <1>5 DEF WriteMIDI, Conclude, resVars
  <2>2. \A d \in Callers : pc[d] # "idle" /\ d # c => req[d].id # i /\ req[d].id \in Ids
    BY <1>1 DEF FateInv, TypeInv, TypeOK, Requests
  <2>3. DeviceKnows'
    <3>1. \A n \in DOMAIN devq' : devq'[n].id \in whole'
      <4>1. ASSUME NEW n \in DOMAIN devq' PROVE devq'[n].id \in whole'
        <5>1. n \in 1 .. Len(devq) + 1 /\ Len(devq) \in Nat
          BY <1>1, <1>3, <2>1, AppendProperties, LenProperties
        <5>2. CASE n \in 1 .. Len(devq)
          <6>1. devq'[n] = devq[n] /\ n \in DOMAIN devq
            BY <1>1, <1>3, <2>1, <5>2, AppendProperties, LenProperties
          <6> QED
            BY <2>1, <6>1 DEF FateInv, DeviceKnows
        <5>3. CASE n = Len(devq) + 1
          BY <1>1, <1>3, <2>1, <5>3, AppendProperties
        <5> QED
          BY <5>1, <5>2, <5>3
      <4> QED
        BY <4>1
    <3> QED
      BY <1>2, <2>1, <3>1 DEF FateInv, DeviceKnows
  <2> HIDE DEF i
  <2>4. CASE Goto(c, "await") /\ UNCHANGED <<req, outcome>>
    <3>1. pc' = [pc EXCEPT ![c] = "await"]
      BY <2>4 DEF Goto
    <3>2. \A j \in Ids : j >= nextId => Untouched(j)'
      BY <1>1, <1>2, <2>1, <2>4 DEF FateInv, Untouched, Ids
    <3>3. \A d \in Callers : pc'[d] # "idle" => InProgress(d)'
      BY <1>1, <1>2, <1>3, <2>1, <2>2, <2>4, <3>1 DEF FateInv, InProgress, i
    <3>4. \A j \in Ids : Truthful(outcome[j], j)'
      BY <1>1, <1>2, <2>1, <2>4 DEF FateInv, Truthful
    <3>5. \A d, e \in Callers : pc'[d] # "idle" /\ pc'[e] # "idle" /\ req'[d].id = req'[e].id => d = e
      BY <1>1, <1>3, <2>4, <3>1 DEF FateInv
    <3> QED
      BY <1>2, <2>3, <3>2, <3>3, <3>4, <3>5 DEF FateInv
  <2>5. CASE req[c].kind = "jump" /\ Return(c, "sent", 0)
    <3>1. /\ outcome' = [outcome EXCEPT ![i] = "sent"]
          /\ pc' = [pc EXCEPT ![c] = "idle"] /\ req' = [req EXCEPT ![c] = <<>>]
      BY <2>5 DEF Return, Tell, Goto, i
    <3>2. \A j \in Ids : j >= nextId => Untouched(j)'
      BY <1>1, <1>2, <1>3, <2>1, <3>1 DEF FateInv, Untouched, Ids
    <3>3. \A d \in Callers : pc'[d] # "idle" => d # c /\ pc'[d] = pc[d] /\ req'[d] = req[d]
      BY <1>3, <3>1
    <3>4. \A d \in Callers : pc'[d] # "idle" => InProgress(d)'
      BY <1>1, <1>2, <1>3, <2>1, <2>2, <3>1, <3>3 DEF FateInv, InProgress
    <3>5. \A j \in Ids : Truthful(outcome[j], j)'
      <4>1. asked[i] # "write"
        BY <1>1, <2>5 DEF i
      <4> QED
        BY <1>1, <1>2, <1>3, <2>1, <3>1, <4>1 DEF FateInv, Truthful
    <3>6. \A d, e \in Callers : pc'[d] # "idle" /\ pc'[e] # "idle" /\ req'[d].id = req'[e].id => d = e
      BY <3>3 DEF FateInv
    <3> QED
      BY <1>2, <2>3, <3>2, <3>4, <3>5, <3>6 DEF FateInv
  <2> QED
    BY <2>1, <2>4, <2>5
<1> QED
  BY <1>4, <1>5

LEMMA NextFate == TypeInv /\ FateInv /\ [Next]_vars => FateInv'
<1> SUFFICES ASSUME TypeInv, FateInv, [Next]_vars PROVE FateInv'
  OBVIOUS
<1> USE DEF localVars, resVars, devVars
<1>1. ASSUME NEW c \in Callers, Call(c) PROVE FateInv'
  <2>0. /\ {"queued", "locked", "stale", "send", "sending", "await", "settle"} \subseteq Steps
        /\ Verdicts = {"ok", "sent", "notSent", "timeout", "cancelled", "unacked", "closed", "closedBare"}
    BY DEF Steps, Verdicts
  <2>1. pc[c] # "idle" => InProgress(c)
    BY DEF FateInv
  <2>2. ASSUME NEW v \in Verdicts, Conclude(c, v), pc[c] # "idle", Truthful(v, req[c].id),
               UNCHANGED <<asked, whole, nextId, handled, devq>>
        PROVE  FateInv'
    BY <2>2, ReturnTruthful DEF Conclude
  <2>3. CASE Acquire(c)
    <3>1. Truthful("notSent", req[c].id)
      BY <2>1, <2>3 DEF Acquire, InProgress, Truthful
    <3> QED
      BY <2>0, <2>2, <2>3, <3>1, GotoTruthful DEF Acquire
  <2>4. CASE Recheck(c)
    <3>1. Truthful("notSent", req[c].id)
      BY <2>1, <2>4 DEF Recheck, InProgress, Truthful
    <3> QED
      BY <2>0, <2>2, <2>4, <3>1, GotoTruthful DEF Recheck
  <2>5. CASE DrainStale(c)
    BY <2>0, <2>5, GotoTruthful DEF DrainStale
  <2>6. CASE SendFrame(c)
    <3>1. Truthful("notSent", req[c].id)
      BY <2>1, <2>6 DEF SendFrame, InProgress, Truthful
    <3> QED
      BY <2>0, <2>2, <2>6, <3>1, GotoTruthful DEF SendFrame
  <2>7. CASE SendFails(c)
    <3>1. Truthful("notSent", req[c].id)
      BY <2>1, <2>7 DEF SendFails, InProgress, Truthful
    <3> QED
      BY <2>0, <2>2, <2>7, <3>1 DEF SendFails
  <2>8. CASE AwaitFrame(c)
    <3>1. CASE Head(frames).cmd = req[c].cmd
      <4>1. Truthful("ok", req[c].id)
        BY DEF Truthful
      <4>2. Return(c, "ok", Head(frames).id) /\ pc[c] # "idle"
            /\ UNCHANGED <<asked, whole, nextId, handled, devq>>
        BY <2>8, <3>1 DEF AwaitFrame
      <4> QED
        BY <2>0, <4>1, <4>2, ReturnTruthful
    <3>2. CASE Head(frames).cmd # req[c].cmd
      <4>1. UNCHANGED <<pc, req, outcome, asked, whole, nextId, handled, devq>>
        BY <2>8, <3>2 DEF AwaitFrame
      <4> QED
        BY <4>1, DeviceTruthful DEF FateInv, DeviceKnows
    <3> QED
      BY <3>1, <3>2
  <2>9. CASE DrainDiscard(c) \/ AwaitErr(c) \/ SettleDiscard(c)
    <3>1. UNCHANGED <<pc, req, outcome, asked, whole, nextId, handled, devq>>
      BY <2>9 DEF DrainDiscard, AwaitErr, SettleDiscard, callVars
    <3> QED
      BY <3>1, DeviceTruthful DEF FateInv, DeviceKnows
  <2>10. CASE AwaitClosed(c)
    <3>1. Truthful("closed", req[c].id) /\ Truthful("closedBare", req[c].id)
      BY DEF Truthful
    <3> QED
      BY <2>0, <2>2, <2>10, <3>1 DEF AwaitClosed
  <2>11. ASSUME NEW v \in {"timeout", "cancelled"}, pc[c] \in {"await", "settle"}
         PROVE  /\ Truthful(Unacknowledged(c, v), req[c].id)
                /\ Unacknowledged(c, v) \in Verdicts
    BY <2>0, <2>1, <2>11 DEF InProgress, Truthful, Unacknowledged
  <2>12. CASE AwaitCancelled(c)
    BY <2>2, <2>11, <2>12 DEF AwaitCancelled
  <2>13. CASE AwaitTimeout(c)
    BY <2>0, <2>13, GotoTruthful DEF AwaitTimeout
  <2>14. CASE SettleEnds(c) \/ SettleTimer(c)
    BY <2>2, <2>11, <2>14 DEF SettleEnds, SettleTimer, SettleReturn
  <2> QED
    BY <1>1, BeginTruthful, WriteTruthful,
       <2>3, <2>4, <2>5, <2>6, <2>7, <2>8, <2>9, <2>10, <2>12, <2>13, <2>14
       DEF Call
<1>2. CASE DeviceServes
  <2>1. devq # <<>> /\ devq \in Seq(Requests)
    BY <1>2 DEF DeviceServes, TypeInv, TypeOK
  <2>2. 1 \in DOMAIN devq /\ Head(devq) = devq[1]
    BY <2>1, HeadTailProperties, EmptySeq, LenProperties
  <2>3. handled' \subseteq whole
    BY <1>2, <2>2 DEF DeviceServes, FateInv, DeviceKnows
  <2>4. devq' = <<>> \/ devq' = Tail(devq)
    BY <1>2 DEF DeviceServes
  <2>5. \A n \in DOMAIN devq' : devq'[n].id \in whole
    <3>1. CASE devq' = <<>>
      BY <3>1
    <3>2. CASE devq' = Tail(devq)
      BY <2>1, <3>2, HeadTailProperties, LenProperties DEF FateInv, DeviceKnows
    <3> QED
      BY <2>4, <3>1, <3>2
  <2> QED
    BY <1>2, <2>3, <2>5, DeviceTruthful DEF DeviceServes, callVars
<1>3. CASE DeviceDrops
  <2>1. devq # <<>> /\ devq \in Seq(Requests) /\ devq' = Tail(devq)
    BY <1>3 DEF DeviceDrops, TypeInv, TypeOK
  <2>2. \A n \in DOMAIN devq' : devq'[n].id \in whole
    BY <2>1, HeadTailProperties, LenProperties DEF FateInv, DeviceKnows
  <2> QED
    BY <1>3, <2>2, DeviceTruthful DEF DeviceDrops, callVars, FateInv, DeviceKnows
<1>4. CASE CloseSession \/ CloseFramer \/ ReaderStep \/ Cancel \/ Unplugged \/ UNCHANGED vars
  <2>1. UNCHANGED <<pc, req, outcome, asked, whole, nextId, handled, devq>>
    BY <1>4 DEF CloseSession, CloseFramer, ReaderStep, Cancel, Unplugged, vars, callVars
  <2> QED
    BY <2>1, DeviceTruthful DEF FateInv, DeviceKnows
<1> QED
  BY <1>1, <1>2, <1>3, <1>4 DEF Next

LEMMA FateHolds == Spec => [](TypeInv /\ FateInv)
<1>1. Init => TypeInv /\ FateInv
  BY InitTypes, EmptySeq, LenProperties DEF Init, FateInv, Untouched, DeviceKnows, InProgress, Truthful
<1>2. TypeInv /\ FateInv /\ [Next]_vars => (TypeInv /\ FateInv)'
  BY NextTypes, NextFate
<1> QED
  BY <1>1, <1>2, PTL DEF Spec

\* A write the device has acted on, or still may, is never denied.
THEOREM NeverDenied == Spec => []LandedNeverDenied
<1>1. TypeInv /\ FateInv => LandedNeverDenied
  <2> SUFFICES ASSUME TypeInv, FateInv, NEW i \in Ids, asked[i] = "write", i \in whole
               PROVE  outcome[i] \in {"none", "ok", "unacked", "closed", "closedBare"}
    BY DEF LandedNeverDenied, FateInv, DeviceKnows
  <2>1. outcome[i] \in Verdicts \cup {"none"} /\ Truthful(outcome[i], i)
    BY DEF TypeInv, TypeOK, FateInv
  <2> QED
    BY <2>1 DEF Verdicts, Truthful
<1> QED
  BY <1>1, FateHolds, PTL

\* A write is called possibly applied only when its whole frame was sent.
THEOREM MarkJustified == Spec => []MarkedWasSent
<1>1. TypeInv /\ FateInv => MarkedWasSent
  BY DEF FateInv, Truthful, MarkedWasSent
<1> QED
  BY <1>1, FateHolds, PTL

-----------------------------------------------------------------------------
(* Whose answer a command returns: one context, and answers that come no    *)
(* later than timeout + settle.                                            *)

Waiting(c) == pc[c] \in {"await", "settle"}

\* Nothing an earlier request left behind can still become an answer.
Clean ==
  /\ held = <<>>
  /\ ReaderAlive => wire = <<>> /\ \A n \in DOMAIN devq : devq[n].kind = "jump"

\* What is in play is the request i, its answer, or nothing; never two.
OnlyMine(i) ==
  /\ \A n \in DOMAIN held : held[n].id = i
  /\ \A n \in DOMAIN frames : frames[n].id = i
  /\ Len(held) + Len(frames) <= 1
  /\ Len(held) + Len(frames) > 0 => i \in handled
  /\ ReaderAlive =>
       /\ \A n \in DOMAIN wire : wire[n].id = i
       /\ Len(wire) + Len(held) + Len(frames) <= 1
       /\ Len(wire) > 0 => i \in handled
       /\ \A n \in DOMAIN devq : devq[n].kind # "jump" => devq[n].id = i /\ i \notin handled
       /\ \A m, n \in DOMAIN devq : devq[m].kind # "jump" /\ devq[n].kind # "jump" => m = n

\* The reader's exit and the one context.
Life ==
  /\ started
  /\ ctxDone \in {{}, Callers}
  /\ reader # "publish" => held = <<>>
  /\ ~framesOpen => ~ReaderAlive

Settled == ctxDone = {} /\ (\A c \in Callers : ~Waiting(c)) => Clean
Drained == ctxDone = {} => \A c \in Callers : pc[c] \in {"send", "sending"} => frames = <<>>
Mine    == \A c \in Callers : pc[c] = "await" => OnlyMine(req[c].id)
Told    == AnswerIsMine /\ AckedWasHandled

QuietInv == Life /\ Settled /\ Drained /\ Mine /\ Told

\* A step that touches none of the pipeline, moves no caller into or out of
\* the steps that matter and tells nobody of success.
LEMMA QuietStutter ==
  ASSUME QuietInv,
         UNCHANGED <<started, reader, held, framesOpen, frames, wire, devq, handled>>,
         ctxDone' \in {ctxDone, Callers}, Callers = {} => ctxDone' = ctxDone,
         \A c \in Callers :
           \/ pc'[c] = pc[c] /\ req'[c] = req[c]
           \/ ~Waiting(c) /\ pc'[c] \in {"idle", "queued", "locked", "stale"}
           \/ pc[c] = "send" /\ pc'[c] = "sending"
           \/ pc[c] = "await" /\ pc'[c] = "settle"
           \/ pc[c] = "settle" /\ pc'[c] = "settle",
         \A i \in Ids : outcome'[i] = "ok" => outcome[i] = "ok" /\ answeredBy'[i] = answeredBy[i]
  PROVE  QuietInv'
<1>1. Life' /\ Settled'
  BY DEF QuietInv, Life, Settled, Clean, ReaderAlive, Waiting
<1>2. Drained'
  BY DEF QuietInv, Drained, Life, Waiting
<1>3. Mine'
  BY DEF QuietInv, Mine, OnlyMine, ReaderAlive, Waiting
<1>4. Told'
  BY DEF QuietInv, Told, AnswerIsMine, AckedWasHandled
<1> QED
  BY <1>1, <1>2, <1>3, <1>4 DEF QuietInv

\* A call that was waiting returns, and the pipeline it leaves is clean.
LEMMA WaiterLeaves ==
  ASSUME TypeInv, SingleFlight, QuietInv, NEW c \in Callers, Waiting(c),
         NEW v \in Verdicts, NEW by \in 0 .. MaxReq, Return(c, v, by),
         ctxDone = {} => Clean',
         v = "ok" => by = req[c].id /\ by \in handled,
         UNCHANGED <<started, reader, held, framesOpen, wire, devq, handled, ctxDone>>
  PROVE  QuietInv'
<1>1. /\ pc \in [Callers -> Steps] /\ req[c].id \in Ids
      /\ outcome \in [Ids -> Verdicts \cup {"none"}] /\ answeredBy \in [Ids -> 0 .. MaxReq]
  BY DEF TypeInv, TypeOK, Requests, Waiting
<1>2. pc' = [pc EXCEPT ![c] = "idle"]
  BY DEF Return, Tell, Goto
<1>3. \A d \in Callers : d # c => pc[d] \notin Holding
  BY DEF SingleFlight, Waiting, Holding
<1>4. \A d \in Callers : pc'[d] \notin {"send", "sending", "await", "settle"}
  BY <1>1, <1>2, <1>3 DEF Holding
<1>5. Life' /\ Settled'
  BY DEF QuietInv, Life, Settled, ReaderAlive
<1>6. Drained' /\ Mine'
  BY <1>4 DEF Drained, Mine
<1>7. Told'
  <2>1. /\ outcome' = [outcome EXCEPT ![req[c].id] = v]
        /\ answeredBy' = [answeredBy EXCEPT ![req[c].id] = by]
    BY DEF Return, Tell
  <2> QED
    BY <1>1, <2>1 DEF QuietInv, Told, AnswerIsMine, AckedWasHandled
<1> QED
  BY <1>5, <1>6, <1>7 DEF QuietInv

\* The reader moves answers along the pipeline and makes none.
LEMMA ReadFramesQuiet ==
  ASSUME TypeInv, QuietInv, Fr!ReadFrames, UNCHANGED <<callVars, resVars, devVars>>
  PROVE  QuietInv'
<1>1. PICK n \in 1 .. Len(wire) :
        held' = SubSeq(wire, 1, n) /\ wire' = SubSeq(wire, n + 1, Len(wire))
  BY DEF Fr!ReadFrames
<1>2. /\ reader = "read" /\ reader' = "publish" /\ ReaderAlive /\ held = <<>>
      /\ wire \in Seq(Replies) /\ wire # <<>>
      /\ UNCHANGED <<started, framesOpen, frames, ctxDone, pc, req, outcome, answeredBy, devq, handled>>
  BY <1>1, LenProperties DEF Fr!ReadFrames, Fr!chanVars, Fr!lifeVars, callVars, resVars, devVars,
     TypeInv, FrInv, Fr!TypeOK, QuietInv, Life, ReaderAlive
<1>3. Life' /\ Drained' /\ Told'
  BY <1>2 DEF QuietInv, Life, Drained, Told, AnswerIsMine, AckedWasHandled, ReaderAlive
<1>4. Settled'
  BY <1>2 DEF QuietInv, Settled, Clean, Waiting
<1>5. ASSUME NEW c \in Callers, pc[c] = "await" PROVE OnlyMine(req[c].id)'
  <2>1. OnlyMine(req[c].id)
    BY <1>5 DEF QuietInv, Mine
  <2>2. Len(wire) = 1 /\ n = 1 /\ Len(frames) = 0 /\ wire[1].id = req[c].id /\ req[c].id \in handled
    <3>1. /\ Len(wire) + Len(held) + Len(frames) <= 1 /\ (Len(wire) > 0 => req[c].id \in handled)
          /\ \A m \in DOMAIN wire : wire[m].id = req[c].id
      BY <1>2, <2>1 DEF OnlyMine
    <3>2. Len(wire) \in Nat /\ Len(held) \in Nat /\ Len(frames) \in Nat /\ DOMAIN wire = 1 .. Len(wire)
      BY <1>2, LenProperties DEF TypeInv, FrInv, Fr!TypeOK
    <3>3. Len(wire) = 1 /\ n = 1 /\ Len(frames) = 0
      BY <1>1, <3>1, <3>2
    <3> QED
      BY <3>1, <3>2, <3>3
  <2>3. /\ held' \in Seq(Replies) /\ Len(held') = 1 /\ held'[1] = wire[1]
        /\ wire' \in Seq(Replies) /\ Len(wire') = 0
    BY <1>1, <1>2, <2>2, SubSeqProperties
  <2> QED
    BY <1>2, <2>1, <2>2, <2>3, LenProperties DEF OnlyMine, ReaderAlive
<1> QED
  BY <1>2, <1>3, <1>4, <1>5 DEF QuietInv, Mine

LEMMA PublishQuiet ==
  ASSUME TypeInv, SingleFlight, QuietInv, Fr!Publish, UNCHANGED <<callVars, resVars, devVars>>
  PROVE  QuietInv'
<1>1. /\ reader = "publish" /\ held # <<>> /\ ReaderAlive
      /\ held \in Seq(Replies) /\ frames \in Seq(Replies)
      /\ held' = Tail(held) /\ frames' = Append(frames, Head(held))
      /\ Tail(held) # <<>> <=> reader' = "publish"
      /\ UNCHANGED <<wire, started, framesOpen, ctxDone, pc, req, outcome, answeredBy, devq, handled>>
  BY DEF Fr!Publish, Fr!PublishHead, Fr!lifeVars, callVars, resVars, devVars,
     TypeInv, FrInv, Fr!TypeOK, ReaderAlive
<1>2. Life' /\ Told'
  BY <1>1 DEF QuietInv, Life, Told, AnswerIsMine, AckedWasHandled, ReaderAlive
<1>3. Settled'
  BY <1>1 DEF QuietInv, Settled, Clean, Waiting
<1>4. Drained'
  <2>1. ASSUME ctxDone = {}, NEW c \in Callers, pc[c] \in {"send", "sending"} PROVE FALSE
    <3>1. \A d \in Callers : ~Waiting(d)
      BY <2>1 DEF SingleFlight, Waiting, Holding
    <3> QED
      BY <1>1, <2>1, <3>1 DEF QuietInv, Settled, Clean
  <2> QED
    BY <1>1, <2>1 DEF Drained
<1>5. ASSUME NEW c \in Callers, pc[c] = "await" PROVE OnlyMine(req[c].id)'
  <2>1. OnlyMine(req[c].id)
    BY <1>5 DEF QuietInv, Mine
  <2>2. Len(held) \in Nat /\ Len(held) > 0 /\ Len(frames) \in Nat /\ Len(wire) \in Nat
    BY <1>1, LenProperties, EmptySeq DEF TypeInv, TypeOK, Fr!TypeOK
  <2>3. Len(held) = 1 /\ Len(frames) = 0 /\ Len(wire) = 0 /\ req[c].id \in handled
    <3>1. Len(wire) + Len(held) + Len(frames) <= 1
      BY <1>1, <2>1 DEF OnlyMine
    <3>2. Len(held) = 1
      BY <2>2, <3>1
    <3>3. Len(frames) = 0 /\ Len(wire) = 0
      BY <2>2, <3>1
    <3>4. Len(held) + Len(frames) > 0
      BY <2>2
    <3> QED
      BY <2>1, <3>2, <3>3, <3>4 DEF OnlyMine
  <2>4. Head(held).id = req[c].id
    BY <1>1, <2>1, <2>3, LenProperties DEF OnlyMine
  <2>5. /\ Len(held') = 0 /\ held' \in Seq(Replies)
        /\ frames' \in Seq(Replies) /\ Len(frames') = 1 /\ frames'[1] = Head(held)
    BY <1>1, <2>3, HeadTailProperties, AppendProperties
  <2> QED
    BY <1>1, <2>1, <2>3, <2>4, <2>5, LenProperties DEF OnlyMine, ReaderAlive
<1> QED
  BY <1>1, <1>2, <1>3, <1>4, <1>5 DEF QuietInv, Mine

LEMMA LeavesQuiet ==
  ASSUME QuietInv, Fr!ReaderLeaves, UNCHANGED <<callVars, resVars, devVars>>
  PROVE  QuietInv'
<1>1. /\ ~ReaderAlive' /\ reader' # "publish"
      /\ UNCHANGED <<wire, frames, started, ctxDone, pc, req, outcome, answeredBy, devq, handled>>
  BY DEF Fr!ReaderLeaves, Fr!AbandonPublish, Fr!ReadError, Fr!CloseErrs, Fr!CloseFrames, Fr!CloseExit,
         Fr!chanVars, Fr!lifeVars, callVars, resVars, devVars, ReaderAlive
<1>2. held' = <<>>
  BY DEF Fr!ReaderLeaves, Fr!AbandonPublish, Fr!ReadError, Fr!CloseErrs, Fr!CloseFrames, Fr!CloseExit,
         QuietInv, Life
<1>3. Life' /\ Drained' /\ Told' /\ Settled'
  BY <1>1, <1>2 DEF QuietInv, Life, Drained, Told, AnswerIsMine, AckedWasHandled, Settled, Clean, Waiting
<1>4. Mine'
  <2>1. Len(held') = 0 /\ DOMAIN held' = {}
    BY <1>2, EmptySeq
  <2>2. held' = held \/ Len(held') = 0
    BY <2>1
  <2> QED
    BY <1>1, <1>2, <2>1 DEF QuietInv, Mine, OnlyMine
<1> QED
  BY <1>3, <1>4 DEF QuietInv

\* The device answers a request once.
LEMMA ServeQuiet ==
  ASSUME TypeInv, QuietInv, DeviceServes
  PROVE  QuietInv'
<1> DEFINE r == Head(devq)
           answer == [id |-> r.id, cmd |-> r.cmd]
<1>1. /\ devq \in Seq(Requests) /\ devq # <<>> /\ r = devq[1] /\ 1 \in DOMAIN devq
      /\ wire \in Seq(Replies) /\ Len(wire) \in Nat /\ Len(held) \in Nat /\ Len(frames) \in Nat
  BY LenProperties, EmptySeq DEF DeviceServes, TypeInv, TypeOK, FrInv, Fr!TypeOK
<1>2. /\ handled' = handled \cup {r.id}
      /\ UNCHANGED <<reader, held, frames, framesOpen, started, ctxDone, pc, req, outcome, answeredBy>>
  BY DEF DeviceServes, callVars, resVars
<1>3. \/ r.kind = "jump" /\ devq' = <<>> /\ wire' = wire
      \/ r.kind # "jump" /\ devq' = Tail(devq) /\ wire' \in {wire, Append(wire, answer)}
  BY DEF DeviceServes
<1>4. /\ Tail(devq) \in Seq(Requests)
      /\ \A n \in DOMAIN Tail(devq) : n + 1 \in DOMAIN devq /\ n + 1 # 1 /\ Tail(devq)[n] = devq[n + 1]
  BY <1>1, HeadTailProperties, LenProperties
<1>5. answer \in Replies
  <2>1. r \in Requests
    BY <1>1, HeadTailProperties
  <2>2. r.id \in Ids /\ r.cmd \in Cmds
    BY <2>1 DEF Requests
  <2> QED
    BY <2>2 DEF Replies
<1> HIDE DEF r, answer
<1>6. Life' /\ Drained' /\ Told'
  BY <1>2 DEF QuietInv, Life, Drained, Told, AnswerIsMine, AckedWasHandled, ReaderAlive
<1>7. Settled'
  <2>1. CASE ReaderAlive /\ ctxDone = {} /\ \A c \in Callers : ~Waiting(c)
    <3>1. held = <<>> /\ wire = <<>> /\ r.kind = "jump"
      BY <1>1, <2>1 DEF QuietInv, Settled, Clean
    <3> QED
      BY <1>2, <1>3, <3>1 DEF Settled, Clean
  <2> QED
    BY <1>2, <2>1 DEF QuietInv, Settled, Clean, ReaderAlive, Waiting
<1>8. ASSUME NEW c \in Callers, pc[c] = "await" PROVE OnlyMine(req[c].id)'
  <2> DEFINE i == req[c].id
  <2>1. OnlyMine(i) /\ i' = i
    BY <1>2, <1>8 DEF QuietInv, Mine
  <2>2. CASE ~ReaderAlive
    BY <1>2, <2>1, <2>2 DEF OnlyMine, ReaderAlive
  <2>3. CASE ReaderAlive /\ r.kind = "jump"
    BY <1>2, <1>3, <2>1, <2>3 DEF OnlyMine, ReaderAlive
  <2>4. CASE ReaderAlive /\ r.kind # "jump"
    <3>1. r.id = i /\ i \notin handled
      BY <1>1, <2>1, <2>4 DEF OnlyMine
    <3>2. ~(Len(wire) > 0) /\ ~(Len(held) + Len(frames) > 0)
      BY <2>1, <2>4, <3>1 DEF OnlyMine
    <3>3. Len(wire) = 0 /\ Len(held) = 0 /\ Len(frames) = 0
      BY <1>1, <3>2
    <3>4. answer.id = i
      BY <3>1 DEF answer
    <3>5. Len(wire') <= 1 /\ Len(wire') \in Nat /\ \A n \in DOMAIN wire' : wire'[n].id = i
      <4>1. CASE wire' = wire
        BY <1>1, <3>3, <4>1, LenProperties
      <4>2. CASE wire' = Append(wire, answer)
        <5>1. /\ wire' \in Seq(Replies) /\ Len(wire') = 1 /\ wire'[1] = answer
          BY <1>1, <1>5, <3>3, <4>2, AppendProperties
        <5> QED
          BY <3>4, <5>1, LenProperties
      <4> QED
        BY <1>3, <2>4, <4>1, <4>2
    <3>6. \A n \in DOMAIN devq' : devq'[n].kind = "jump"
      <4>1. ASSUME NEW n \in DOMAIN Tail(devq), Tail(devq)[n].kind # "jump" PROVE FALSE
        BY <1>1, <1>4, <2>1, <2>4, <4>1 DEF OnlyMine
      <4> QED
        BY <1>3, <2>4, <4>1
    <3>7. Len(wire') + Len(held') + Len(frames') <= 1 /\ Len(held') + Len(frames') <= 1
      BY <1>2, <3>3, <3>5
    <3>8. i \in handled'
      BY <1>2, <3>1
    <3> QED
      BY <1>2, <2>1, <3>5, <3>6, <3>7, <3>8 DEF OnlyMine
  <2> QED
    BY <2>2, <2>3, <2>4
<1> QED
  BY <1>2, <1>6, <1>7, <1>8 DEF QuietInv, Mine

LEMMA DropQuiet ==
  ASSUME TypeInv, QuietInv, DeviceDrops
  PROVE  QuietInv'
<1>1. /\ devq \in Seq(Requests) /\ devq # <<>> /\ devq' = Tail(devq)
      /\ UNCHANGED <<reader, held, wire, frames, framesOpen, started, ctxDone, pc, req, outcome, answeredBy, handled>>
  BY DEF DeviceDrops, TypeInv, TypeOK, frVars, callVars, resVars
<1>2. \A n \in DOMAIN devq' : n \in Nat /\ n + 1 \in DOMAIN devq /\ devq'[n] = devq[n + 1]
  BY <1>1, HeadTailProperties, LenProperties
<1>3. Life' /\ Drained' /\ Told'
  BY <1>1 DEF QuietInv, Life, Drained, Told, AnswerIsMine, AckedWasHandled, ReaderAlive
<1>4. Settled'
  BY <1>1, <1>2 DEF QuietInv, Settled, Clean, ReaderAlive, Waiting
<1>5. ASSUME NEW c \in Callers, pc[c] = "await" PROVE OnlyMine(req[c].id)'
  <2>1. OnlyMine(req[c].id)
    BY <1>5 DEF QuietInv, Mine
  <2>2. \A m, n \in DOMAIN devq' : m + 1 = n + 1 => m = n
    BY <1>2
  <2> QED
    BY <1>1, <1>2, <2>1, <2>2 DEF OnlyMine, ReaderAlive
<1> QED
  BY <1>1, <1>3, <1>4, <1>5 DEF QuietInv, Mine

\* A request enters an empty pipeline.
LEMMA WriteQuiet ==
  ASSUME TypeInv, SingleFlight, FateInv, QuietInv, NEW c \in Callers, WriteMIDI(c)
  PROVE  QuietInv'
<1> DEFINE i == req[c].id
<1>1. /\ pc[c] = "sending" /\ pc \in [Callers -> Steps] /\ "await" \in Steps
      /\ req[c] \in Requests /\ i \in Ids /\ i \notin handled
      /\ devq \in Seq(Requests) /\ Len(devq) \in Nat
      /\ outcome \in [Ids -> Verdicts \cup {"none"}]
      /\ UNCHANGED <<frVars, ctxDone, handled>>
  BY LenProperties DEF WriteMIDI, TypeInv, TypeOK, FateInv, DeviceKnows, InProgress, Requests, Steps
<1>2. ctxDone = {}
  BY DEF WriteMIDI, QuietInv, Life
<1>3. \A d \in Callers : d # c => pc[d] \notin Holding
  BY <1>1 DEF SingleFlight, Holding
<1>4. Clean /\ frames = <<>>
  BY <1>1, <1>2, <1>3 DEF QuietInv, Settled, Drained, Waiting, Holding
<1>5. CASE msgs + 1 < Msgs
  <2>1. UNCHANGED <<pc, req, outcome, answeredBy, devq>>
    BY <1>5 DEF WriteMIDI, resVars
  <2> QED
    BY <1>1, <2>1, QuietStutter DEF frVars
<1>6. CASE ~(msgs + 1 < Msgs)
  <2>1. devq' = Append(devq, req[c])
    BY <1>6 DEF WriteMIDI
  <2>2. /\ DOMAIN devq' = 1 .. Len(devq) + 1 /\ devq'[Len(devq) + 1] = req[c]
        /\ \A n \in 1 .. Len(devq) : devq'[n] = devq[n] /\ n \in DOMAIN devq
    BY <1>1, <2>1, AppendProperties, LenProperties
  <2>3. Life'
    BY <1>1 DEF QuietInv, Life, ReaderAlive, frVars
  <2>4. CASE req[c].kind = "jump"
    <3>1. Return(c, "sent", 0)
      BY <1>6, <2>4 DEF WriteMIDI, Conclude
    <3>2. pc' = [pc EXCEPT ![c] = "idle"] /\ outcome' = [outcome EXCEPT ![i] = "sent"]
          /\ answeredBy' = [answeredBy EXCEPT ![i] = 0]
      BY <3>1 DEF Return, Tell, Goto
    <3>3. \A d \in Callers : pc'[d] \notin {"send", "sending", "await", "settle"}
      BY <1>1, <1>3, <3>2 DEF Holding
    <3>4. Clean'
      BY <1>1, <1>4, <2>2, <2>4 DEF Clean, ReaderAlive, frVars
    <3>5. Told'
      BY <1>1, <3>2 DEF QuietInv, Told, AnswerIsMine, AckedWasHandled, TypeInv, TypeOK
    <3> QED
      BY <2>3, <3>3, <3>4, <3>5 DEF QuietInv, Settled, Drained, Mine
  <2>5. CASE req[c].kind # "jump"
    <3>1. pc' = [pc EXCEPT ![c] = "await"] /\ UNCHANGED <<req, outcome, answeredBy>>
      BY <1>6, <2>5 DEF WriteMIDI, Goto, resVars
    <3>2. \A d \in Callers : d # c => pc'[d] \notin {"send", "sending", "await", "settle"}
      BY <1>1, <1>3, <3>1 DEF Holding
    <3>3. OnlyMine(i)'
      <4>1. held' = <<>> /\ frames' = <<>> /\ (ReaderAlive' => ReaderAlive /\ wire' = <<>>)
        BY <1>1, <1>4 DEF Clean, ReaderAlive, frVars
      <4>2. ASSUME ReaderAlive, NEW n \in DOMAIN devq', devq'[n].kind # "jump" PROVE n = Len(devq) + 1
        BY <1>1, <1>4, <2>2, <4>2 DEF Clean
      <4> QED
        BY <1>1, <2>2, <3>1, <4>1, <4>2, EmptySeq DEF OnlyMine
    <3>4. Mine'
      BY <3>2, <3>3 DEF Mine
    <3>5. Settled' /\ Drained' /\ Told'
      BY <1>1, <1>4, <3>1, <3>2 DEF QuietInv, Settled, Drained, Told, AnswerIsMine, AckedWasHandled, Waiting, frVars
    <3> QED
      BY <2>3, <3>4, <3>5 DEF QuietInv
  <2> QED
    BY <2>4, <2>5
<1> QED
  BY <1>5, <1>6

LEMMA OneOfTwo == \A a, b \in Nat : a + b <= 1 /\ b > 0 => a = 0 /\ b = 1
OBVIOUS

\* The frame that arrives is the answer to this request, and the last.
LEMMA AwaitFrameQuiet ==
  ASSUME TypeInv, SingleFlight, QuietInv, NEW c \in Callers, AwaitFrame(c)
  PROVE  QuietInv'
<1> DEFINE i == req[c].id
<1>1. /\ pc[c] = "await" /\ Waiting(c) /\ OnlyMine(i)
      /\ frames \in Seq(Replies) /\ frames # <<>> /\ frames' = Tail(frames)
      /\ Len(wire) \in Nat /\ Len(held) \in Nat /\ Len(frames) \in Nat
      /\ wire \in Seq(Replies) /\ held \in Seq(Replies)
      /\ UNCHANGED <<wire, held, reader, framesOpen, started, ctxDone, devq, handled>>
  BY LenProperties DEF AwaitFrame, Fr!ReceiveFrame, Fr!lifeVars, TypeInv, FrInv, Fr!TypeOK, QuietInv, Mine,
                       Waiting, devVars
<1>2. Len(frames) > 0
  BY <1>1, EmptySeq, LenProperties
<1>3. /\ Len(held) + Len(frames) <= 1 /\ (Len(held) + Len(frames) > 0 => i \in handled)
      /\ ReaderAlive => Len(wire) + Len(held) + Len(frames) <= 1
  BY <1>1 DEF OnlyMine
<1>4. Len(held) = 0 /\ Len(frames) = 1
  <2>1. Len(held) + Len(frames) <= 1 /\ Len(held) \in Nat /\ Len(frames) \in Nat
    BY <1>1, <1>3
  <2> QED
    BY <1>2, <2>1, OneOfTwo
<1>5. ReaderAlive => Len(wire) = 0
  <2>1. ReaderAlive => Len(wire) + Len(held) + Len(frames) <= 1
    BY <1>3
  <2> QED
    BY <1>1, <1>4, <2>1
<1>6. i \in handled /\ Head(frames).id = i
  <2>1. Head(frames) = frames[1] /\ 1 \in DOMAIN frames /\ Len(held) + Len(frames) > 0
    BY <1>1, <1>4, LenProperties
  <2> QED
    BY <1>1, <1>3, <2>1 DEF OnlyMine
<1>7. Clean
  BY <1>1, <1>4, <1>5, <1>6, EmptySeq DEF Clean, OnlyMine
<1>8. CASE Head(frames).cmd = req[c].cmd
  <2>1. Return(c, "ok", i) /\ i \in 0 .. MaxReq /\ "ok" \in Verdicts
    BY <1>1, <1>6, <1>8 DEF AwaitFrame, TypeInv, TypeOK, Requests, Ids, Verdicts
  <2>2. Clean'
    BY <1>1, <1>7 DEF Clean, ReaderAlive
  <2> QED
    BY <1>1, <1>6, <2>1, <2>2, WaiterLeaves
<1>9. CASE Head(frames).cmd # req[c].cmd
  <2>1. UNCHANGED <<pc, req, outcome, answeredBy>>
    BY <1>9 DEF AwaitFrame, localVars, resVars
  <2>2. Len(frames') = 0 /\ frames' \in Seq(Replies)
    BY <1>1, <1>4, HeadTailProperties
  <2>3. \A d \in Callers : pc[d] = "await" \/ pc[d] \in {"send", "sending"} => d = c
    BY <1>1 DEF SingleFlight, Holding
  <2>4. Drained'
    BY <1>1, <2>1, <2>3 DEF Drained
  <2>5. OnlyMine(i)'
    <3>1. Len(held') + Len(frames') = 0 /\ (ReaderAlive' => Len(wire') + Len(held') + Len(frames') = 0)
      BY <1>1, <1>4, <1>5, <2>2 DEF ReaderAlive
    <3>2. DOMAIN frames' = {}
      BY <2>2, LenProperties
    <3> QED
      BY <1>1, <2>1, <3>1, <3>2 DEF OnlyMine, ReaderAlive
  <2>6. Mine'
    BY <2>1, <2>3, <2>5 DEF Mine
  <2> QED
    BY <1>1, <2>1, <2>4, <2>6
       DEF QuietInv, Life, Settled, Clean, ReaderAlive, Told, AnswerIsMine, AckedWasHandled, Waiting
<1> QED
  BY <1>8, <1>9

LEMMA NextQuiet ==
  ASSUME SettleCovers, RootContext
  PROVE  TypeInv /\ SingleFlight /\ FateInv /\ QuietInv /\ [Next]_vars => QuietInv'
<1> SUFFICES ASSUME TypeInv, SingleFlight, FateInv, QuietInv, [Next]_vars PROVE QuietInv'
  OBVIOUS
<1> USE DEF localVars, resVars, devVars, frVars
<1>1. ASSUME NEW c \in Callers, Call(c) PROVE QuietInv'
  <2> DEFINE pipe == <<started, reader, held, framesOpen, frames, wire, devq, handled>>
  <2>0. /\ {"idle", "queued", "locked", "stale", "send", "sending", "await", "settle"} \subseteq Steps
        /\ Verdicts = {"ok", "sent", "notSent", "timeout", "cancelled", "unacked", "closed", "closedBare"}
        /\ pc \in [Callers -> Steps] /\ req \in [Callers -> Requests \cup {<<>>}]
        /\ outcome \in [Ids -> Verdicts \cup {"none"}] /\ answeredBy \in [Ids -> 0 .. MaxReq]
        /\ nextId \in Nat
    BY DEF Steps, Verdicts, TypeInv, TypeOK
  \* A call that ends before anything was sent.
  <2>1. ASSUME ~Waiting(c), pc[c] # "idle", NEW v \in Verdicts \ {"ok"}, Conclude(c, v), UNCHANGED <<pipe, ctxDone>>
        PROVE  QuietInv'
    <3>1. /\ pc' = [pc EXCEPT ![c] = "idle"] /\ req' = [req EXCEPT ![c] = <<>>]
          /\ outcome' = [outcome EXCEPT ![req[c].id] = v]
          /\ answeredBy' = [answeredBy EXCEPT ![req[c].id] = 0]
      BY <2>1 DEF Conclude, Return, Tell, Goto
    <3>2. \A i \in Ids : outcome'[i] = "ok" => outcome[i] = "ok" /\ answeredBy'[i] = answeredBy[i]
      BY <2>0, <2>1, <3>1
    <3>3. \A d \in Callers :
            \/ pc'[d] = pc[d] /\ req'[d] = req[d]
            \/ ~Waiting(d) /\ pc'[d] \in {"idle", "queued", "locked", "stale"}
      BY <2>0, <2>1, <3>1 DEF Waiting
    <3> QED
      BY <2>1, <3>2, <3>3, QuietStutter
  \* A step of c alone between two points of exchange.
  <2>2. ASSUME NEW s \in {"locked", "stale", "sending", "settle"}, Goto(c, s), UNCHANGED <<pipe, ctxDone, req, resVars>>,
               \/ ~Waiting(c) /\ s \in {"locked", "stale"}
               \/ pc[c] = "send" /\ s = "sending"
               \/ pc[c] = "await" /\ s = "settle"
        PROVE  QuietInv'
    BY <2>0, <2>2, QuietStutter DEF Goto
  <2>3. CASE Begin(c)
    <3>1. /\ UNCHANGED <<pipe, ctxDone, answeredBy>> /\ pc[c] = "idle" /\ nextId \in Ids
          /\ \A d \in Callers : d # c => req'[d] = req[d]
      BY <2>0, <2>3 DEF Begin
    <3>2. (pc' = pc /\ outcome' = [outcome EXCEPT ![nextId] = "notSent"])
          \/ (pc' = [pc EXCEPT ![c] = "queued"] /\ outcome' = outcome)
      BY <2>3 DEF Begin, Goto
    <3> QED
      BY <2>0, <3>1, <3>2, QuietStutter DEF Waiting
  <2>4. CASE Acquire(c)
    BY <2>0, <2>1, <2>2, <2>4 DEF Acquire, Waiting
  <2>5. CASE Recheck(c)
    BY <2>0, <2>1, <2>2, <2>5 DEF Recheck, Waiting
  <2>6. CASE DrainStale(c)
    <3>1. /\ frames' = <<>> /\ pc' = [pc EXCEPT ![c] = "send"] /\ pc[c] = "stale"
          /\ UNCHANGED <<started, reader, held, framesOpen, wire, devq, handled, ctxDone, req, resVars>>
      BY <2>6 DEF DrainStale, Goto
    <3>2. \A d \in Callers : pc[d] # "await"
      BY <3>1 DEF SingleFlight, Holding
    <3>3. Drained' /\ Mine'
      BY <2>0, <3>1, <3>2 DEF Drained, Mine
    <3> QED
      BY <2>0, <3>1, <3>3 DEF QuietInv, Life, Settled, Clean, ReaderAlive, Told, AnswerIsMine, AckedWasHandled, Waiting
  <2>7. CASE SendFrame(c)
    BY <2>0, <2>1, <2>2, <2>7 DEF SendFrame, Waiting
  <2>8. CASE SendFails(c)
    BY <2>0, <2>1, <2>8 DEF SendFails, Waiting
  <2>9. CASE AwaitErr(c) \/ ((DrainDiscard(c) \/ SettleDiscard(c)) /\ Fr!ReceiveErr)
    <3>1. UNCHANGED <<pipe, ctxDone, pc, req, resVars>>
      BY <2>9 DEF AwaitErr, DrainDiscard, SettleDiscard, Fr!ReceiveErr, Fr!lifeVars, callVars
    <3> QED
      BY <3>1, QuietStutter
  <2>10. CASE (DrainDiscard(c) \/ SettleDiscard(c)) /\ Fr!ReceiveFrame
    <3>1. pc[c] \in {"stale", "settle"} /\ UNCHANGED <<started, reader, held, framesOpen, wire, devq, handled, ctxDone, pc, req, resVars>>
      BY <2>10 DEF DrainDiscard, SettleDiscard, Fr!ReceiveFrame, Fr!lifeVars, callVars
    <3>2. \A d \in Callers : pc[d] \notin {"send", "sending", "await"}
      BY <3>1 DEF SingleFlight, Holding
    <3>3. Drained' /\ Mine'
      BY <3>1, <3>2 DEF Drained, Mine
    <3> QED
      BY <3>1, <3>3 DEF QuietInv, Life, Settled, Clean, ReaderAlive, Told, AnswerIsMine, AckedWasHandled, Waiting
  \* A call that was waiting ends.
  <2>11. ASSUME Waiting(c), NEW v \in Verdicts \ {"ok"}, Conclude(c, v), ctxDone = {} => Clean',
                UNCHANGED <<started, reader, held, framesOpen, wire, devq, handled, ctxDone>>
         PROVE  QuietInv'
    BY <2>0, <2>11, WaiterLeaves DEF Conclude
  <2>12. Unacknowledged(c, "timeout") \in Verdicts \ {"ok"} /\ Unacknowledged(c, "cancelled") \in Verdicts \ {"ok"}
    BY <2>0 DEF Unacknowledged
  <2>13. c \in ctxDone => ctxDone # {}
    OBVIOUS
  <2>14. CASE AwaitClosed(c)
    <3>1. Clean'
      BY <2>14 DEF AwaitClosed, Fr!FramesExhausted, QuietInv, Life, Clean, ReaderAlive
    <3> QED
      BY <2>0, <2>11, <2>14, <3>1 DEF AwaitClosed, Waiting
  <2>15. CASE AwaitCancelled(c)
    BY <2>11, <2>12, <2>13, <2>15 DEF AwaitCancelled, Waiting
  <2>16. CASE AwaitTimeout(c)
    BY <2>2, <2>16 DEF AwaitTimeout
  <2>17. CASE SettleEnds(c)
    <3>1. ctxDone = {} => Clean'
      BY <2>13, <2>17 DEF SettleEnds, SettleReturn, Fr!FramesExhausted, QuietInv, Life, Clean, ReaderAlive
    <3> QED
      BY <2>11, <2>12, <2>17, <3>1 DEF SettleEnds, SettleReturn, Waiting
  <2>18. CASE SettleTimer(c)
    <3>1. Clean'
      BY <2>18, EmptySeq DEF SettleTimer, SettleReturn, Clean, ReaderAlive
    <3> QED
      BY <2>11, <2>12, <2>18, <3>1 DEF SettleTimer, SettleReturn, Waiting
  <2>19. CASE WriteMIDI(c)
    BY <2>19, WriteQuiet
  <2>20. CASE AwaitFrame(c)
    BY <2>20, AwaitFrameQuiet
  <2>21. CASE DrainDiscard(c) \/ SettleDiscard(c)
    BY <2>9, <2>10, <2>21 DEF DrainDiscard, SettleDiscard
  <2> QED
    BY <1>1, <2>3, <2>4, <2>5, <2>6, <2>7, <2>8, <2>9, <2>14, <2>15, <2>16, <2>17, <2>18, <2>19, <2>20, <2>21
       DEF Call
<1>2. CASE ReaderStep
  <2>1. CASE Fr!ReadFrames
    BY <1>2, <2>1, ReadFramesQuiet DEF ReaderStep
  <2>2. CASE Fr!Publish
    BY <1>2, <2>2, PublishQuiet DEF ReaderStep
  <2>3. CASE Fr!ReaderLeaves
    BY <1>2, <2>3, LeavesQuiet DEF ReaderStep
  <2> QED
    BY <1>2, <2>1, <2>2, <2>3 DEF ReaderStep, Fr!Reader
<1>3. CASE DeviceServes \/ DeviceDrops
  BY <1>3, ServeQuiet, DropQuiet
<1>4. CASE CloseSession \/ CloseFramer \/ Cancel \/ Unplugged \/ UNCHANGED vars
  <2>1. UNCHANGED <<started, reader, held, framesOpen, frames, wire, devq, handled, pc, req, outcome, answeredBy>>
    <3>1. CASE CloseFramer
      BY <3>1 DEF CloseFramer, Fr!CloseStep, Fr!CloseEnter, Fr!CloseSignal, Fr!ClosePort, Fr!CloseReturns,
                  Fr!CloseGivesUp, Fr!chanVars, callVars, QuietInv, Life
    <3>2. CASE CloseSession \/ Cancel \/ Unplugged \/ UNCHANGED vars
      BY <3>2 DEF CloseSession, Cancel, Unplugged, Fr!Unplug, Fr!chanVars, Fr!lifeVars, vars, callVars
    <3> QED
      BY <1>4, <3>1, <3>2
  <2>2. ctxDone' \in {ctxDone, Callers} /\ (Callers = {} => ctxDone' = ctxDone)
    BY <1>4 DEF CloseSession, CloseFramer, Cancel, Unplugged, vars, callVars, TypeInv, TypeOK
  <2> QED
    BY <2>1, <2>2, QuietStutter
<1> QED
  BY <1>1, <1>2, <1>3, <1>4 DEF Next

LEMMA InitQuiet == Init => QuietInv
<1> SUFFICES ASSUME Init PROVE QuietInv
  OBVIOUS
<1>1. Life /\ Settled /\ Drained /\ Mine
  BY EmptySeq DEF Init, Life, Settled, Clean, Drained, Mine, ReaderAlive
<1>2. Told
  BY DEF Init, Told, AnswerIsMine, AckedWasHandled
<1> QED
  BY <1>1, <1>2 DEF QuietInv

LEMMA QuietHolds ==
  ASSUME SettleCovers, RootContext
  PROVE  Spec => [](TypeInv /\ SingleFlight /\ FateInv /\ QuietInv)
<1>1. Init => TypeInv /\ SingleFlight /\ FateInv /\ QuietInv
  BY InitTypes, InitQuiet, EmptySeq, LenProperties
     DEF Init, SingleFlight, Holding, FateInv, Untouched, DeviceKnows, InProgress, Truthful
<1>2. TypeInv /\ SingleFlight /\ FateInv /\ QuietInv /\ [Next]_vars
        => (TypeInv /\ SingleFlight /\ FateInv /\ QuietInv)'
  BY NextTypes, NextSingleFlight, NextFate, NextQuiet
<1> QED
  BY <1>1, <1>2, PTL DEF Spec

\* With one context, and no answer later than timeout + settle, a command is
\* satisfied by its own answer only.
THEOREM OwnAnswer ==
  ASSUME SettleCovers, RootContext
  PROVE  Spec => []AnswerIsMine
<1>1. QuietInv => AnswerIsMine
  BY DEF QuietInv, Told
<1> QED
  BY <1>1, QuietHolds, PTL

\* A command reported as answered has been acted on.
THEOREM AckMeansDone ==
  ASSUME SettleCovers, RootContext
  PROVE  Spec => []AckedWasHandled
<1>1. QuietInv => AckedWasHandled
  BY DEF QuietInv, Told
<1> QED
  BY <1>1, QuietHolds, PTL

\* The pipeline holds nothing of an earlier command.
THEOREM PipelineQuiet ==
  ASSUME SettleCovers, RootContext
  PROVE  Spec => []Quiet
<1>1. TypeInv /\ SingleFlight /\ QuietInv => Quiet
  <2> SUFFICES ASSUME TypeInv, SingleFlight, QuietInv, NEW c \in Callers,
                      pc[c] = "await" \/ (pc[c] \in {"send", "sending"} /\ c \notin ctxDone)
               PROVE  /\ ReaderAlive =>
                           /\ \A n \in DOMAIN devq : devq[n].kind = "jump" \/ devq[n].id = req[c].id
                           /\ \A n \in DOMAIN wire : wire[n].id = req[c].id
                      /\ \A n \in DOMAIN held : held[n].id = req[c].id
                      /\ \A n \in DOMAIN frames : frames[n].id = req[c].id
    BY DEF Quiet
  <2>1. CASE pc[c] = "await"
    BY <2>1 DEF QuietInv, Mine, OnlyMine
  <2>2. CASE pc[c] \in {"send", "sending"} /\ c \notin ctxDone
    <3>1. ctxDone = {} /\ \A d \in Callers : ~Waiting(d)
      BY <2>2 DEF QuietInv, Life, SingleFlight, Holding, Waiting
    <3>2. Clean /\ frames = <<>>
      BY <2>2, <3>1 DEF QuietInv, Settled, Drained
    <3> QED
      BY <3>2, EmptySeq DEF Clean
  <2> QED
    BY <2>1, <2>2
<1> QED
  BY <1>1, QuietHolds, PTL

-----------------------------------------------------------------------------
(* The session implements the contract of a command.                       *)

LEMMA InitImplements == Init => Contract!Init
BY DEF Init, Contract!Init, Status, Verdict, Ids

LEMMA VerdictIs ==
  ASSUME TypeInv, FateInv, NEW i \in Ids
  PROVE  /\ outcome[i] = "none" /\ i < nextId => Verdict(i) = "running"
         /\ i >= nextId => Verdict(i) = "new"
         /\ outcome[i] = "ok" => Verdict(i) = "answered"
         /\ outcome[i] = "notSent" => Verdict(i) = "notSent"
         /\ outcome[i] \notin {"none", "ok", "notSent"} => Verdict(i) = "unknown"
<1>1. nextId \in Nat /\ (i >= nextId => outcome[i] = "none")
  BY DEF TypeInv, TypeOK, FateInv, Untouched
<1> QED
  BY <1>1 DEF Verdict, Ids

\* A return ends the call with what the contract lets it say.
LEMMA ReturnImplements ==
  ASSUME TypeInv, FateInv, TypeInv', FateInv', Told',
         NEW c \in Callers, pc[c] # "idle", NEW v \in Verdicts, NEW by, Return(c, v, by),
         UNCHANGED <<nextId, handled>>
  PROVE  Contract!Next
<1> DEFINE i == req[c].id
           verdict == IF v = "ok" THEN "answered" ELSE IF v = "notSent" THEN "notSent" ELSE "unknown"
<1>1. /\ i \in Ids /\ i < nextId /\ outcome[i] = "none"
      /\ outcome \in [Ids -> Verdicts \cup {"none"}] /\ outcome' = [outcome EXCEPT ![i] = v]
      /\ v # "none"
  BY DEF TypeInv, TypeOK, FateInv, InProgress, Requests, Return, Tell, Verdicts
<1> HIDE DEF i
<1>2. Verdict(i) = "running"
  BY <1>1, VerdictIs
<1>3. \A j \in Ids : j = i => Verdict(j)' = verdict
  BY <1>1 DEF Verdict
<1>4. \A j \in Ids : j # i => Verdict(j)' = Verdict(j)
  BY <1>1 DEF Verdict
<1>5. verdict = "answered" => i \in handled
  BY <1>1 DEF Told, AckedWasHandled
<1>6. verdict = "notSent" => i \notin handled
  BY <1>1 DEF FateInv, Truthful, DeviceKnows
<1>7. Status' = [Status EXCEPT ![i] = verdict]
  BY <1>1, <1>3, <1>4 DEF Status
<1>8. Contract!End(i, verdict)
  BY <1>1, <1>2, <1>5, <1>6, <1>7 DEF Contract!End, Status
<1> QED
  BY <1>1, <1>8 DEF Contract!Next

LEMMA BeginImplements ==
  ASSUME TypeInv, FateInv, NEW c \in Callers, Begin(c)
  PROVE  Contract!Next
<1>1. /\ nextId \in Ids /\ nextId' = nextId + 1 /\ handled' = handled /\ nextId \in Nat
      /\ outcome \in [Ids -> Verdicts \cup {"none"}] /\ Untouched(nextId)
  BY DEF Begin, devVars, TypeInv, TypeOK, FateInv, Ids
<1>2. outcome' = outcome \/ outcome' = [outcome EXCEPT ![nextId] = "notSent"]
  BY DEF Begin
<1>3. Verdict(nextId) = "new"
  BY <1>1, VerdictIs
<1>4. \A j \in Ids : j # nextId => Verdict(j)' = Verdict(j)
  BY <1>1, <1>2 DEF Verdict, Ids
<1>5. CASE outcome' = outcome
  <2>1. \A j \in Ids : j = nextId => Verdict(j)' = "running"
    BY <1>1, <1>5 DEF Verdict, Untouched
  <2>2. Status' = [Status EXCEPT ![nextId] = "running"]
    BY <1>1, <1>4, <2>1 DEF Status
  <2>3. Contract!Begin(nextId)
    BY <1>1, <1>3, <2>2 DEF Contract!Begin, Status
  <2> QED
    BY <1>1, <2>3 DEF Contract!Next
<1>6. CASE outcome' = [outcome EXCEPT ![nextId] = "notSent"]
  <2>1. \A j \in Ids : j = nextId => Verdict(j)' = "notSent"
    BY <1>1, <1>6 DEF Verdict
  <2>2. Status' = [Status EXCEPT ![nextId] = "notSent"]
    BY <1>1, <1>4, <2>1 DEF Status
  <2>3. Contract!Refuse(nextId)
    BY <1>1, <1>3, <2>2 DEF Contract!Refuse, Status
  <2> QED
    BY <1>1, <2>3 DEF Contract!Next
<1> QED
  BY <1>2, <1>5, <1>6

\* The device acts on a call that is running or has been given up on; acting on
\* an answered one again would change nothing.
LEMMA ServeImplements ==
  ASSUME TypeInv, FateInv, Told, DeviceServes
  PROVE  [Contract!Next]_(Contract!vars)
<1> DEFINE i == Head(devq).id
<1>1. /\ devq \in Seq(Requests) /\ devq # <<>> /\ 1 \in DOMAIN devq /\ Head(devq) = devq[1]
  BY LenProperties, EmptySeq DEF DeviceServes, TypeInv, TypeOK
<1>2. i \in Ids /\ i \in whole
  BY <1>1 DEF FateInv, DeviceKnows, TypeInv, TypeOK
<1>3. handled' = handled \cup {i} /\ outcome' = outcome /\ nextId' = nextId
  BY DEF DeviceServes, resVars, callVars
<1> HIDE DEF i
<1>4. Status' = Status
  BY <1>3 DEF Status, Verdict
<1>5. CASE i \in handled
  BY <1>3, <1>4, <1>5 DEF Contract!vars
<1>6. CASE i \notin handled
  <2>1. outcome[i] # "notSent" /\ i < nextId
    BY <1>2 DEF FateInv, Truthful, Untouched, TypeInv, TypeOK, Ids
  <2>2. CASE outcome[i] # "ok"
    <3>1. Verdict(i) \in {"running", "unknown"}
      BY <1>2, <2>1, <2>2 DEF Verdict
    <3>2. Contract!Act(i)
      BY <1>2, <1>3, <1>4, <3>1 DEF Contract!Act, Status
    <3> QED
      BY <1>2, <3>2 DEF Contract!Next
  <2>3. CASE outcome[i] = "ok"
    BY <1>2, <1>6, <2>3 DEF Told, AckedWasHandled
  <2> QED
    BY <2>2, <2>3
<1> QED
  BY <1>5, <1>6

LEMMA NextImplements ==
  ASSUME TypeInv, FateInv, Told, TypeInv', FateInv', Told', [Next]_vars
  PROVE  [Contract!Next]_(Contract!vars)
<1> USE DEF localVars, resVars, devVars
<1>1. CASE UNCHANGED <<outcome, nextId, handled>>
  BY <1>1 DEF Contract!vars, Status, Verdict
<1>2. ASSUME NEW c \in Callers, Call(c) PROVE [Contract!Next]_(Contract!vars)
  <2>0. Verdicts = {"ok", "sent", "notSent", "timeout", "cancelled", "unacked", "closed", "closedBare"}
    BY DEF Verdicts
  <2>1. ASSUME pc[c] # "idle", NEW v \in Verdicts, NEW by, Return(c, v, by), UNCHANGED <<nextId, handled>>
        PROVE  Contract!Next
    BY <2>1, ReturnImplements
  <2>2. CASE Begin(c)
    BY <2>2, BeginImplements
  <2>3. CASE Acquire(c) \/ Recheck(c) \/ SendFrame(c) \/ SendFails(c)
    <3>1. UNCHANGED <<outcome, nextId, handled>>
            \/ (Return(c, "notSent", 0) /\ pc[c] # "idle" /\ UNCHANGED <<nextId, handled>>)
      BY <2>3 DEF Acquire, Recheck, SendFrame, SendFails, Conclude
    <3> QED
      BY <1>1, <2>0, <2>1, <3>1
  <2>4. CASE DrainDiscard(c) \/ DrainStale(c) \/ AwaitErr(c) \/ AwaitTimeout(c) \/ SettleDiscard(c)
    BY <1>1, <2>4 DEF DrainDiscard, DrainStale, callVars, AwaitErr, AwaitTimeout, SettleDiscard
  <2>5. CASE WriteMIDI(c)
    <3>1. UNCHANGED <<outcome, nextId, handled>>
            \/ (Return(c, "sent", 0) /\ pc[c] # "idle" /\ UNCHANGED <<nextId, handled>>)
      BY <2>5 DEF WriteMIDI, Conclude
    <3> QED
      BY <1>1, <2>0, <2>1, <3>1
  <2>6. CASE AwaitFrame(c)
    <3>1. UNCHANGED <<outcome, nextId, handled>>
            \/ (Return(c, "ok", Head(frames).id) /\ pc[c] # "idle" /\ UNCHANGED <<nextId, handled>>)
      BY <2>6 DEF AwaitFrame
    <3> QED
      BY <1>1, <2>0, <2>1, <3>1
  <2>7. CASE AwaitClosed(c)
    <3>1. \E v \in Verdicts : Return(c, v, 0) /\ pc[c] # "idle" /\ UNCHANGED <<nextId, handled>>
      BY <2>0, <2>7 DEF AwaitClosed, Conclude
    <3> QED
      BY <2>1, <3>1
  <2>8. CASE AwaitCancelled(c) \/ SettleEnds(c) \/ SettleTimer(c)
    <3>1. \E v \in Verdicts : Return(c, v, 0) /\ pc[c] # "idle" /\ UNCHANGED <<nextId, handled>>
      BY <2>0, <2>8 DEF AwaitCancelled, SettleEnds, SettleTimer, SettleReturn, Conclude, Unacknowledged
    <3> QED
      BY <2>1, <3>1
  <2> QED
    BY <1>2, <2>2, <2>3, <2>4, <2>5, <2>6, <2>7, <2>8 DEF Call
<1>3. CASE DeviceServes
  BY <1>3, ServeImplements
<1>4. CASE CloseSession \/ CloseFramer \/ ReaderStep \/ Cancel \/ DeviceDrops \/ Unplugged \/ UNCHANGED vars
  <2>1. UNCHANGED <<outcome, nextId, handled>>
    BY <1>4 DEF CloseSession, CloseFramer, ReaderStep, Cancel, DeviceDrops, Unplugged, vars, callVars
  <2> QED
    BY <1>1, <2>1
<1> QED
  BY <1>2, <1>3, <1>4 DEF Next

\* Every behaviour of the session is one the command contract allows.
THEOREM Implements ==
  ASSUME SettleCovers, RootContext
  PROVE  Spec => ContractSpec
<1>1. QuietInv => Told
  BY DEF QuietInv
<1>2. TypeInv /\ FateInv /\ Told /\ (TypeInv /\ FateInv /\ Told)' /\ [Next]_vars
        => [Contract!Next]_(Contract!vars)
  BY NextImplements
<1>3. Spec => [](TypeInv /\ FateInv /\ Told)
  BY <1>1, QuietHolds, PTL
<1> QED
  BY <1>2, <1>3, InitImplements, PTL DEF Spec, ContractSpec, Contract!Spec
=============================================================================
