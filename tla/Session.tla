------------------------------ MODULE Session -------------------------------
(***************************************************************************)
(* internal/session: every command of the tool passes through one          *)
(* single-flight exchange over the framer.  The protocol has no request    *)
(* tag and no NACK: an answer is recognised by its command code alone, so  *)
(* the session drains what is stale before it sends and absorbs what is    *)
(* late after a timeout.                                                   *)
(*                                                                         *)
(* Several goroutines may hold the Session.  A request carries a ghost     *)
(* identity, which the device's answer repeats, so that properties can     *)
(* tell whose answer a command returned; no guard reads it.                *)
(***************************************************************************)
EXTENDS Naturals, Sequences

CONSTANTS
  Callers,       \* goroutines that issue commands
  Cmds,          \* command codes
  Kinds,         \* what is issued: "read", "write", "jump" (SendNoACK)
  Owner,         \* the goroutine that runs the body of Close, once
  MaxReq,        \* bound: requests issued in all
  Msgs,          \* MIDI messages in a frame, the end marker included
  FrameCap,      \* capacity of the framer's frames channel
  MayStick,      \* see Framer
  RootContext,   \* TRUE: one context for the process, as in the CLI
  SettleCovers   \* TRUE: no answer comes later than timeout + settle

ASSUME SessionAssumption ==
  /\ MaxReq \in Nat
  /\ Kinds \subseteq {"read", "write", "jump"}
  /\ Msgs \in Nat \ {0}
  /\ FrameCap \in Nat \ {0}
  /\ MayStick \in BOOLEAN /\ RootContext \in BOOLEAN /\ SettleCovers \in BOOLEAN

Ids == 1 .. MaxReq
Requests == [id : Ids, cmd : Cmds, kind : Kinds]
Replies == [id : Ids, cmd : Cmds]

VARIABLES port, wire, reader, held, frames, framesOpen, errs, errsOpen,
          readerExit, started, closed, done, closer        \* the framer's
VARIABLES
  sclosed,    \* Session.closed
  sem,        \* the one-slot semaphore: {} or the one caller holding it
  pc,         \* where each caller is in exchange
  req,        \* the request each caller is in, or <<>>
  ctxDone,    \* callers whose context has ended
  nextId,     \* history: identity of the next request
  msgs,       \* messages of the holder's frame written so far
  lastErr,    \* await's lastTransportErr # nil
  asked,      \* history: the kind of each request
  outcome,    \* history: what the caller of each request was told
  answeredBy  \* history: the request whose answer it was told
VARIABLES
  devq,       \* whole frames the device has received and not handled
  handled,    \* history: requests the device has acted on
  whole,      \* history: requests whose every message was written
  deadLink    \* history: requests sent after the reader had already failed

Fr == INSTANCE Framer WITH Frames <- Replies, Closers <- {Owner}

frVars == <<port, wire, reader, held, frames, framesOpen, errs, errsOpen,
            readerExit, started, closed, done, closer>>
devVars == <<devq, handled>>
resVars == <<outcome, answeredBy>>
localVars == <<req, msgs, lastErr>>
callVars == <<sem, pc, req, ctxDone, nextId, asked, msgs, lastErr, whole, deadLink>>
vars == <<frVars, sclosed, callVars, resVars, devVars>>

Steps == {"idle", "queued", "locked", "stale", "send", "sending", "await", "settle"}
Holding == {"locked", "stale", "send", "sending", "await", "settle"}

\* What a caller is told.  "sent" is all SendNoACK can say; "unacked" is
\* ErrUnacknowledged around a timeout or a dead context; "closed" is
\* ErrTransportClosed with its cause, "closedBare" without; "notSent" is any
\* error that precedes the last message.
Verdicts == {"ok", "sent", "notSent", "timeout", "cancelled", "unacked", "closed", "closedBare"}

TypeOK ==
  /\ Fr!TypeOK
  /\ sclosed \in BOOLEAN
  /\ sem \in SUBSET Callers
  /\ pc \in [Callers -> Steps]
  /\ req \in [Callers -> Requests \cup {<<>>}]
  /\ \A c \in Callers : pc[c] # "idle" => req[c] \in Requests
  /\ ctxDone \in SUBSET Callers
  /\ nextId \in 1 .. MaxReq + 1
  /\ msgs \in 0 .. Msgs
  /\ lastErr \in BOOLEAN
  /\ asked \in [Ids -> Kinds \cup {"none"}]
  /\ outcome \in [Ids -> Verdicts \cup {"none"}]
  /\ answeredBy \in [Ids -> 0 .. MaxReq]
  /\ devq \in Seq(Requests)
  /\ handled \in SUBSET Ids /\ whole \in SUBSET Ids /\ deadLink \in SUBSET Ids

\* New starts the framer before anybody holds the session.
Init ==
  /\ port = "open" /\ wire = <<>>
  /\ reader = "read" /\ held = <<>>
  /\ frames = <<>> /\ framesOpen = TRUE /\ errs = 0 /\ errsOpen = TRUE
  /\ readerExit = FALSE
  /\ started = TRUE /\ closed = FALSE /\ done = FALSE
  /\ closer = [k \in {Owner} |-> "idle"]
  /\ sclosed = FALSE
  /\ sem = {}
  /\ pc = [c \in Callers |-> "idle"]
  /\ req = [c \in Callers |-> <<>>]
  /\ ctxDone = {}
  /\ nextId = 1 /\ msgs = 0 /\ lastErr = FALSE
  /\ asked = [i \in Ids |-> "none"]
  /\ outcome = [i \in Ids |-> "none"]
  /\ answeredBy = [i \in Ids |-> 0]
  /\ devq = <<>> /\ handled = {} /\ whole = {} /\ deadLink = {}

-----------------------------------------------------------------------------
(* exchange and SendNoACK, step by step.                                   *)

Goto(c, step) == pc' = [pc EXCEPT ![c] = step]

ReaderAlive == reader \in {"read", "publish"}

\* The caller is told; its locals are gone.
Tell(c, verdict, by) ==
  /\ outcome' = [outcome EXCEPT ![req[c].id] = verdict]
  /\ answeredBy' = [answeredBy EXCEPT ![req[c].id] = by]
  /\ Goto(c, "idle")
  /\ req' = [req EXCEPT ![c] = <<>>]
  /\ IF c \in sem THEN msgs' = 0 /\ lastErr' = FALSE ELSE UNCHANGED <<msgs, lastErr>>

\* Mutant of Return: the slot is never given back.
ReturnHolding(c, verdict, by) == Tell(c, verdict, by) /\ UNCHANGED sem

\* The call returns, and gives the slot back if it had taken it.
Return(c, verdict, by) == Tell(c, verdict, by) /\ sem' = sem \ {c}

Conclude(c, verdict) == Return(c, verdict, 0)

\* Mutants of Unacknowledged: no mark; a write said not to have been sent.
Unmarked(c, verdict) == verdict
Denied(c, verdict) == "notSent"

\* A write that ends unanswered after a complete send is marked.
Unacknowledged(c, verdict) == IF req[c].kind = "write" THEN "unacked" ELSE verdict

\* A command is issued.  A frame too long for the device's receive path, or a
\* session already closed, ends it at once.
Begin(c) ==
  /\ pc[c] = "idle" /\ nextId \in Ids
  /\ \E cmd \in Cmds, kind \in Kinds, refused \in BOOLEAN :
       /\ refused => kind # "jump"
       /\ req' = [req EXCEPT ![c] = [id |-> nextId, cmd |-> cmd, kind |-> kind]]
       /\ IF refused \/ sclosed
          THEN /\ outcome' = [outcome EXCEPT ![nextId] = "notSent"]
               /\ UNCHANGED pc
          ELSE /\ Goto(c, "queued")
               /\ UNCHANGED outcome
       /\ asked' = [asked EXCEPT ![nextId] = kind]
  /\ nextId' = nextId + 1
  /\ UNCHANGED <<frVars, sclosed, sem, ctxDone, msgs, lastErr, whole, deadLink, answeredBy, devVars>>

\* acquire's select: the slot is free, or the context has ended.
Acquire(c) ==
  /\ pc[c] = "queued"
  /\ \/ /\ sem = {}
        /\ sem' = {c}
        /\ Goto(c, "locked")
        /\ UNCHANGED <<localVars, resVars>>
     \/ /\ c \in ctxDone
        /\ Conclude(c, "notSent")
  /\ UNCHANGED <<frVars, sclosed, ctxDone, nextId, asked, whole, deadLink, devVars>>

\* The second look at closed, with the slot in hand.
Recheck(c) ==
  /\ pc[c] = "locked"
  /\ IF sclosed
     THEN Conclude(c, "notSent")
     ELSE Goto(c, "stale") /\ UNCHANGED <<sem, localVars, resVars>>
  /\ UNCHANGED <<frVars, sclosed, ctxDone, nextId, asked, whole, deadLink, devVars>>

\* drainStale: a receive that yields something ...
DrainDiscard(c) ==
  /\ pc[c] = "stale"
  /\ Fr!ReceiveFrame \/ Fr!ReceiveErr
  /\ UNCHANGED <<sclosed, callVars, resVars, devVars>>

\* ... and the return, at the first moment nothing is ready on either channel.
DrainStale(c) ==
  /\ pc[c] = "stale"
  /\ frames = <<>> /\ errs = 0
  /\ deadLink' = IF ReaderAlive THEN deadLink ELSE deadLink \cup {req[c].id}
  /\ Goto(c, "send")
  /\ UNCHANGED <<frVars, sclosed, sem, req, ctxDone, nextId, asked, msgs, lastErr, whole, resVars, devVars>>

\* SendFrame: refused outright once the framer is closed.
SendFrame(c) ==
  /\ pc[c] = "send"
  /\ IF done
     THEN Conclude(c, "notSent")
     ELSE Goto(c, "sending") /\ UNCHANGED <<sem, localVars, resVars>>
  /\ UNCHANGED <<frVars, sclosed, ctxDone, nextId, asked, whole, deadLink, devVars>>

\* One WriteMIDI that succeeds.  The last one puts the end marker on the wire:
\* the device has a whole frame, and the caller waits for the answer unless
\* none will come.
WriteMIDI(c) ==
  /\ pc[c] = "sending" /\ c \notin ctxDone /\ port = "open"
  /\ IF msgs + 1 < Msgs
     THEN /\ msgs' = msgs + 1
          /\ UNCHANGED <<sem, pc, req, whole, lastErr, resVars, devq>>
     ELSE /\ devq' = Append(devq, req[c])
          /\ whole' = whole \cup {req[c].id}
          /\ IF req[c].kind = "jump"
             THEN Conclude(c, "sent")
             ELSE Goto(c, "await") /\ msgs' = 0 /\ UNCHANGED <<sem, req, lastErr, resVars>>
  /\ UNCHANGED <<frVars, sclosed, ctxDone, nextId, asked, deadLink, handled>>

\* The context ended between two messages, or WriteMIDI failed.  The device
\* drops the truncated frame for want of an end marker.
SendFails(c) ==
  /\ pc[c] = "sending"
  /\ Conclude(c, "notSent")
  /\ UNCHANGED <<frVars, sclosed, ctxDone, nextId, asked, whole, deadLink, devVars>>

-----------------------------------------------------------------------------
(* await: one action per arm of its select.                                *)

AwaitFrame(c) ==
  /\ pc[c] = "await"
  /\ Fr!ReceiveFrame
  /\ IF Head(frames).cmd = req[c].cmd
     THEN Return(c, "ok", Head(frames).id)
     ELSE UNCHANGED <<sem, pc, localVars, resVars>>
  /\ UNCHANGED <<sclosed, ctxDone, nextId, asked, whole, deadLink, devVars>>

AwaitErr(c) ==
  /\ pc[c] = "await"
  /\ Fr!ReceiveErr
  /\ lastErr' = TRUE
  /\ UNCHANGED <<sclosed, sem, pc, req, ctxDone, nextId, asked, msgs, whole, deadLink, resVars, devVars>>

\* The frames channel reports !ok; a buffered error is taken before returning.
AwaitClosed(c) ==
  /\ pc[c] = "await"
  /\ Fr!FramesExhausted
  /\ Conclude(c, IF lastErr \/ errs > 0 THEN "closed" ELSE "closedBare")
  /\ errs' = IF errs > 0 THEN errs - 1 ELSE 0
  /\ UNCHANGED <<port, wire, reader, held, frames, framesOpen, errsOpen, readerExit, started, closed, done, closer,
                 sclosed, ctxDone, nextId, asked, whole, deadLink, devVars>>

AwaitCancelled(c) ==
  /\ pc[c] = "await" /\ c \in ctxDone
  /\ Conclude(c, Unacknowledged(c, "cancelled"))
  /\ UNCHANGED <<frVars, sclosed, ctxDone, nextId, asked, whole, deadLink, devVars>>

\* Mutant of AwaitTimeout: the call returns without settling.
TimeoutUnsettled(c) ==
  /\ pc[c] = "await"
  /\ Conclude(c, Unacknowledged(c, "timeout"))
  /\ UNCHANGED <<frVars, sclosed, ctxDone, nextId, asked, whole, deadLink, devVars>>

\* The response timer: drainFor absorbs what is late before the call returns.
AwaitTimeout(c) ==
  /\ pc[c] = "await"
  /\ Goto(c, "settle")
  /\ UNCHANGED <<frVars, sclosed, sem, req, ctxDone, nextId, asked, msgs, lastErr, whole, deadLink, resVars, devVars>>

-----------------------------------------------------------------------------
(* drainFor after a timeout.                                               *)

SettleDiscard(c) ==
  /\ pc[c] = "settle"
  /\ Fr!ReceiveFrame \/ Fr!ReceiveErr
  /\ UNCHANGED <<sclosed, sem, pc, req, ctxDone, nextId, asked, msgs, lastErr, whole, deadLink, resVars, devVars>>

SettleReturn(c) ==
  /\ Conclude(c, Unacknowledged(c, "timeout"))
  /\ UNCHANGED <<frVars, sclosed, ctxDone, nextId, asked, whole, deadLink, devVars>>

\* Mutant of SettleEnds: closed channels are waited on like quiet ones.
SettleEndsCancelled(c) ==
  /\ pc[c] = "settle"
  /\ c \in ctxDone
  /\ SettleReturn(c)

\* Both channels exhausted, or the context ended: nothing to wait for.
SettleEnds(c) ==
  /\ pc[c] = "settle"
  /\ (Fr!FramesExhausted /\ Fr!ErrsExhausted) \/ c \in ctxDone
  /\ SettleReturn(c)

\* The settle timer.  If answers come in time, none is on its way by now.
SettleTimer(c) ==
  /\ pc[c] = "settle"
  /\ SettleCovers => devq = <<>> /\ wire = <<>> /\ held = <<>>
  /\ SettleReturn(c)

-----------------------------------------------------------------------------
(* Close, the reader, the contexts and the device.                         *)

\* The body of closeOnce: closed first, then the framer's Close.
CloseSession ==
  /\ ~sclosed
  /\ sclosed' = TRUE
  /\ UNCHANGED <<frVars, callVars, resVars, devVars>>

CloseFramer ==
  /\ sclosed
  /\ Fr!CloseStep(Owner)
  /\ UNCHANGED <<sclosed, callVars, resVars, devVars>>

ReaderStep ==
  /\ Fr!Reader
  /\ UNCHANGED <<sclosed, callVars, resVars, devVars>>

\* An interrupt, or a deadline of one call's own context.
Cancel ==
  /\ IF RootContext
     THEN ctxDone' = Callers
     ELSE \E c \in Callers : ctxDone' = ctxDone \cup {c}
  /\ ctxDone' # ctxDone
  /\ UNCHANGED <<frVars, sclosed, sem, pc, req, nextId, asked, msgs, lastErr, whole, deadLink, resVars, devVars>>

\* The device acts on the oldest whole frame and answers with its code.  Either
\* direction may lose it: the frame unread, or the answer on its way.  The jump
\* restarts the unit, which leaves the bus without an answer.
DeviceServes ==
  /\ devq # <<>>
  /\ LET r == Head(devq) IN
       IF r.kind = "jump"
       THEN /\ handled' = handled \cup {r.id}
            /\ devq' = <<>>
            /\ port' = IF port = "open" THEN "gone" ELSE port
            /\ UNCHANGED wire
       ELSE /\ handled' = handled \cup {r.id}
            /\ devq' = Tail(devq)
            /\ wire' \in {wire} \cup
                         IF port = "gone" THEN {} ELSE {Append(wire, [id |-> r.id, cmd |-> r.cmd])}
            /\ UNCHANGED port
  /\ UNCHANGED <<reader, held, frames, framesOpen, errs, errsOpen, readerExit, started, closed, done, closer,
                 sclosed, callVars, resVars>>

DeviceDrops ==
  /\ devq # <<>>
  /\ devq' = Tail(devq)
  /\ UNCHANGED <<frVars, sclosed, callVars, resVars, handled>>

Unplugged ==
  /\ Fr!Unplug
  /\ UNCHANGED <<sclosed, callVars, resVars, devVars>>

Call(c) ==
  \/ Begin(c) \/ Acquire(c) \/ Recheck(c) \/ DrainDiscard(c) \/ DrainStale(c)
  \/ SendFrame(c) \/ WriteMIDI(c) \/ SendFails(c)
  \/ AwaitFrame(c) \/ AwaitErr(c) \/ AwaitClosed(c) \/ AwaitCancelled(c) \/ AwaitTimeout(c)
  \/ SettleDiscard(c) \/ SettleEnds(c) \/ SettleTimer(c)

Next ==
  \/ \E c \in Callers : Call(c)
  \/ CloseSession \/ CloseFramer \/ ReaderStep
  \/ Cancel \/ DeviceServes \/ DeviceDrops \/ Unplugged

\* What a goroutine does by itself, no timer involved: each runs whenever it
\* can.  A write to a port that is gone fails; one to a port that is there may.
Prompt(c) ==
  \/ Acquire(c) \/ Recheck(c) \/ DrainDiscard(c) \/ DrainStale(c) \/ SendFrame(c) \/ WriteMIDI(c)
  \/ SendFails(c) /\ (c \in ctxDone \/ port # "open")
  \/ AwaitFrame(c) \/ AwaitErr(c) \/ AwaitClosed(c) \/ AwaitCancelled(c)
  \/ SettleDiscard(c) \/ SettleEnds(c)

\* A read returns when there is something to read, or the port is gone or closed.
ReaderRuns == ReaderStep /\ (reader # "read" \/ wire # <<>> \/ port # "open")

TimerFairness ==
  /\ \A c \in Callers : WF_vars(AwaitTimeout(c)) /\ WF_vars(SettleTimer(c))
  /\ WF_vars(DeviceServes \/ DeviceDrops)

\* The goroutines run; no timer need ever fire, no device ever answer.
Spec ==
  /\ Init /\ [][Next]_vars
  /\ \A c \in Callers : WF_vars(Prompt(c))
  /\ WF_vars(CloseFramer)
  /\ WF_vars(ReaderRuns)

-----------------------------------------------------------------------------
(* Properties.                                                             *)

\* Single flight: the callers past acquire are the one that holds the slot.
\* Every error path of exchange must give it back, and none before its time.
SingleFlight ==
  /\ sem = {c \in Callers : pc[c] \in Holding}
  /\ \A c, d \in sem : c = d

\* A command is never satisfied by the answer to another, although an answer
\* names only the command code: this is what drainStale and drainFor are for.
AnswerIsMine == \A i \in Ids : outcome[i] = "ok" => answeredBy[i] = i

\* A caller told a write succeeded can rely on the device having acted on it.
AckedWasHandled == \A i \in Ids : outcome[i] = "ok" => i \in handled

\* The rule ErrUnacknowledged exists for: a write the device has acted on, or
\* still may, is never reported as one that did not happen.
LandedNeverDenied ==
  \A i \in Ids :
    /\ asked[i] = "write"
    /\ i \in handled \/ \E n \in DOMAIN devq : devq[n].id = i
    => outcome[i] \in {"none", "ok", "unacked", "closed", "closedBare"}

\* And its converse, which keeps the warning trustworthy: a write is reported
\* as possibly applied only when its whole frame left the host.
MarkedWasSent == \A i \in Ids : outcome[i] = "unacked" => asked[i] = "write" /\ i \in whole

\* A link that dies while a command waits is reported with its cause, although
\* the select may see the closed frames channel before the buffered error:
\* "transport closed" stands alone only if the session was being closed, or the
\* link was dead before the command was sent.
CauseNamed == \A i \in Ids : outcome[i] = "closedBare" => sclosed \/ i \in deadLink

\* While a command is on its way or waits, nothing left by an earlier one can
\* still reach the caller: neither an answer nor a request yet to be answered.
Quiet ==
  \A c \in Callers : pc[c] = "await" \/ (pc[c] \in {"send", "sending"} /\ c \notin ctxDone) =>
    /\ ReaderAlive =>
         /\ \A n \in DOMAIN devq : devq[n].kind = "jump" \/ devq[n].id = req[c].id
         /\ \A n \in DOMAIN wire : wire[n].id = req[c].id
    /\ \A n \in DOMAIN held : held[n].id = req[c].id
    /\ \A n \in DOMAIN frames : frames[n].id = req[c].id

\* Every call returns, whatever the device and the link do, once timers run.
CallsReturn == TimerFairness => \A c \in Callers : pc[c] # "idle" ~> pc[c] = "idle"

\* Close ends the command in flight and those queued behind it without waiting
\* for any timer: session.go, on Close.
CloseEndsCalls == sclosed ~> \A c \in Callers : pc[c] = "idle"

-----------------------------------------------------------------------------
(* The contract of exchange, as module CommandContract states it.          *)

Verdict(i) ==
  IF outcome[i] = "none" THEN (IF i < nextId THEN "running" ELSE "new")
  ELSE IF outcome[i] = "ok" THEN "answered"
  ELSE IF outcome[i] = "notSent" THEN "notSent" ELSE "unknown"

Status == [i \in Ids |-> Verdict(i)]

Contract == INSTANCE CommandContract WITH Calls <- Ids, status <- Status, effect <- handled

ContractSpec == Contract!Spec
=============================================================================
