----------------------------- MODULE WebSocket ------------------------------
(***************************************************************************)
(* internal/bootloader/websocket.go: the one request the firmware download *)
(* makes of the vendor's service, wsDial and FetchRaw, against an endpoint *)
(* that may fragment, interleave control frames, stall, leave or break the *)
(* protocol.                                                               *)
(*                                                                         *)
(* The reply is pieces 1 .. length; Junk is a piece of anything else.  The *)
(* socket's reads and writes are blocking: what calls them off is the hook *)
(* context.AfterFunc arms, on a goroutine of its own, which closes it.     *)
(***************************************************************************)
EXTENDS Naturals, Sequences

CONSTANTS
  Lengths,      \* how many pieces a reply may have
  MaxMsg,       \* MaxMessageBytes, in pieces
  MaxHeader,    \* maxUpgradeResponseBytes, in reads of the stream
  MaxFlood,     \* bound: header lines the endpoint sends
  MaxControls   \* bound: control and empty frames it interleaves

ASSUME WebSocketAssumption ==
  /\ Lengths \subseteq Nat \ {0}
  /\ {MaxMsg, MaxHeader} \subseteq Nat \ {0} /\ {MaxFlood, MaxControls} \subseteq Nat

Junk == 0
None == [op |-> "none"]
Controls == {"close", "ping", "pong"}

VARIABLES   \* the endpoint
  length,   \* how many pieces its reply has
  sent,     \* how many of them it has sent
  wire,     \* what it has sent and the client has not read
  server,   \* "handshake", "frames", "midway" in a message, "finished" or "gone"
  lines,    \* header lines it has sent
  extras,   \* control frames and empty fragments it has sent
  rude      \* has it refused the client or broken the protocol?
VARIABLES   \* the client
  ctx,      \* "live", "cancelled" or "expired"
  call,     \* where the call is
  tcp,      \* the socket: "none", "open" or "closed"
  hook,     \* is a hook armed that closes the socket when the context ends?
  bound,    \* does the limit on the upgrade response apply?
  left,     \* what is left of it
  frame,    \* the frame whose payload is awaited
  buf,      \* the message so far
  started,  \* has a message begun?
  outcome   \* what the call returned

endpoint == <<length, sent, wire, server, lines, extras, rude>>
reader == <<bound, left, frame, buf, started>>
client == <<ctx, call, tcp, hook, reader, outcome>>
wsVars == <<endpoint, client>>

Returned == call = "done"
NoOutcome == [err |-> "", msg |-> <<>>]

\* What a piece or a frame header costs while the handshake's limit is on.
Room == ~bound \/ left > 0
Spend == left' = IF bound THEN left - 1 ELSE left

WSInit ==
  /\ length \in Lengths /\ sent = 0 /\ wire = <<>> /\ server = "handshake" /\ lines = 0 /\ extras = 0
  /\ rude = FALSE
  /\ ctx = "live" /\ call = "idle"
  /\ tcp = "none" /\ hook = FALSE
  /\ bound = TRUE /\ left = MaxHeader /\ frame = None /\ buf = <<>> /\ started = FALSE
  /\ outcome = NoOutcome

\* Nothing is left of a connection that is closed, and nothing of the call's locals.
Forget ==
  /\ sent' = 0 /\ wire' = <<>> /\ server' = "gone" /\ lines' = 0 /\ extras' = 0 /\ rude' = FALSE
  /\ ctx' = "live" /\ call' = "over" /\ tcp' = "none" /\ hook' = FALSE /\ outcome' = NoOutcome
  /\ bound' = TRUE /\ left' = MaxHeader /\ frame' = None /\ buf' = <<>> /\ started' = FALSE
  /\ UNCHANGED length

(* The endpoint *)

Emit(f) == wire' = Append(wire, f) /\ UNCHANGED <<length, client>>

HeaderLine ==
  /\ call = "headers" /\ tcp = "open" /\ server = "handshake" /\ lines < MaxFlood /\ Len(wire) < 2
  /\ lines' = lines + 1
  /\ Emit([op |-> "line"]) /\ UNCHANGED <<sent, server, extras, rude>>

\* 101 with the fields RFC 6455 asks for, or anything else.
AnswerUpgrade(proper) ==
  /\ call = "headers" /\ tcp = "open" /\ server = "handshake" /\ Len(wire) < 2
  /\ server' = "frames" /\ rude' = (rude \/ ~proper)
  /\ Emit([op |-> IF proper THEN "101" ELSE "refusal"]) /\ UNCHANGED <<sent, lines, extras>>

Frame(op, fin, body) == [op |-> op, fin |-> fin, body |-> body, ok |-> TRUE, torn |-> FALSE]
Sending == server \in {"frames", "midway"} /\ tcp = "open" /\ Len(wire) < 2
InOrderOp == IF server = "frames" THEN "text" ELSE "continuation"
CanAdd == extras < MaxControls

\* The next n pieces of the reply, or an empty fragment.
Fragment(n, fin) ==
  /\ Sending /\ sent + n <= length /\ (n = 0 => CanAdd)
  /\ fin => sent + n = length
  /\ sent' = sent + n /\ extras' = IF n = 0 THEN extras + 1 ELSE extras
  /\ server' = IF fin THEN "finished" ELSE "midway"
  /\ Emit(Frame(InOrderOp, fin, [i \in 1 .. n |-> sent + i]))
  /\ UNCHANGED <<lines, rude>>

Control(op) ==
  /\ Sending /\ CanAdd
  /\ extras' = extras + 1
  /\ server' = (IF op = "close" THEN "finished" ELSE server) /\ rude' = (rude \/ op = "close")
  /\ Emit(Frame(op, TRUE, <<Junk>>)) /\ UNCHANGED <<sent, lines>>

\* Frames no conforming endpoint sends here.  A header that is not ok has a reserved
\* bit, or is a control frame that is fragmented or too long.
Breaches ==
  {[Frame(op, TRUE, <<Junk>>) EXCEPT !.ok = FALSE] : op \in {"text", "ping"}}
    \cup {Frame("unknown", TRUE, <<Junk>>),
          Frame(InOrderOp, FALSE, [i \in 1 .. MaxMsg + 1 |-> Junk]),
          Frame(IF server = "frames" THEN "continuation" ELSE "binary", TRUE, <<Junk>>)}

Breach ==
  /\ Sending
  /\ rude' = TRUE /\ server' = "finished"
  /\ \E f \in Breaches : Emit(f)
  /\ UNCHANGED <<sent, lines, extras>>

\* It goes, in the middle of the last frame or after it.
Leave ==
  /\ server # "gone"
  /\ server' = "gone"
  /\ wire' \in {wire} \cup
       IF wire # <<>> /\ wire[Len(wire)].op \notin {"line", "101", "refusal"}
       THEN {[wire EXCEPT ![Len(wire)].torn = TRUE]} ELSE {}
  /\ UNCHANGED <<length, sent, lines, extras, rude, client>>

Endpoint ==
  \/ HeaderLine \/ Breach \/ Leave
  \/ \E proper \in BOOLEAN : AnswerUpgrade(proper)
  \/ \E n \in 0 .. MaxMsg, fin \in BOOLEAN : Fragment(n, fin)
  \/ \E op \in Controls : Control(op)

(* The context *)

\* --fetch-timeout runs out, or the operator interrupts the command.
EndContext(how) ==
  /\ ctx = "live" /\ call \notin {"idle", "done"}
  /\ ctx' = how
  /\ UNCHANGED <<endpoint, call, tcp, hook, reader, outcome>>

HookFires ==
  /\ hook /\ ctx # "live" /\ tcp = "open"
  /\ tcp' = "closed"
  /\ UNCHANGED <<endpoint, ctx, call, hook, reader, outcome>>

(* The client *)

\* Every return closes the socket; a failure of a context that has ended is its end.
Return(out) ==
  /\ call' = "done" /\ hook' = FALSE /\ outcome' = out
  /\ tcp' = (IF tcp = "none" THEN "none" ELSE "closed")
  /\ UNCHANGED <<ctx, reader>>

Fails(err) == Return([err |-> IF ctx = "live" THEN err ELSE "interrupted", msg |-> <<>>])

Goto(pc) == call' = pc /\ UNCHANGED <<ctx, outcome>>

\* The socket's deadline is the context's.
IOFails == tcp = "closed" \/ ctx = "expired"

\* --ws-url: ws:// and http:// are refused, ws+insecure:// skips TLS.
Dial(url) ==
  /\ call = "dial"
  /\ \/ url = "cleartext" /\ Fails("url")
     \/ url # "cleartext" /\ (ctx # "live" \/ server = "gone") /\ Fails("dial")
     \/ /\ url # "cleartext" /\ server # "gone"
        /\ Goto(IF url = "tls" THEN "tls" ELSE "upgrade")
        /\ tcp' = "open" /\ hook' = TRUE
        /\ UNCHANGED reader
  /\ UNCHANGED endpoint

\* HandshakeContext watches the context itself.
Handshake ==
  /\ call = "tls"
  /\ \/ /\ tcp = "open" /\ server # "gone" /\ Goto("upgrade")
        /\ UNCHANGED <<tcp, hook, reader, rude>>
     \/ rude' = TRUE /\ Fails("tls")
     \/ (ctx # "live" \/ IOFails \/ server = "gone") /\ Fails("tls") /\ UNCHANGED rude
  /\ UNCHANGED <<length, sent, wire, server, lines, extras>>

SendUpgrade ==
  /\ call = "upgrade"
  /\ \/ tcp = "open" /\ Goto("headers") /\ UNCHANGED <<tcp, hook, reader>>
     \/ (IOFails \/ server = "gone") /\ Fails("write")
  /\ UNCHANGED endpoint

Take == wire' = Tail(wire) /\ UNCHANGED <<length, sent, server, lines, extras, rude>>

\* The limit is lifted in place: the reader may hold the first frames already.
ReadHeader ==
  /\ call = "headers" /\ wire # <<>>
  /\ Take
  /\ \/ ~Room /\ Fails("too large")
     \/ /\ Room /\ Head(wire).op = "line"
        /\ Spend /\ Goto("headers") /\ UNCHANGED <<tcp, hook, bound, frame, buf, started>>
     \/ Room /\ Head(wire).op = "refusal" /\ Fails("refused")
     \/ /\ Room /\ Head(wire).op = "101"
        /\ Spend /\ bound' = FALSE /\ hook' = FALSE /\ Goto("arm")
        /\ UNCHANGED <<tcp, frame, buf, started>>

\* Mutant of ArmHook: the frame stream is read with nothing to close the socket.
ArmNothing == call = "arm" /\ Goto("serial") /\ UNCHANGED <<endpoint, tcp, hook, reader>>

ArmHook ==
  /\ call = "arm"
  /\ hook' = TRUE /\ Goto("serial")
  /\ UNCHANGED <<endpoint, tcp, reader>>

\* The one failure that is not looked at for the context's end.
SendSerial ==
  /\ call = "serial"
  /\ \/ tcp = "open" /\ Goto("read") /\ UNCHANGED <<tcp, hook, reader>>
     \/ (IOFails \/ server = "gone") /\ Return([err |-> "write", msg |-> <<>>])
  /\ UNCHANGED endpoint

\* Mutant of Budget: every fragment may use the whole ceiling.
WholeCeiling == MaxMsg

\* A data frame may use what the message so far has left of the ceiling.
Budget == MaxMsg - Len(buf)

Acceptable(f) == f.ok /\ (f.op \in Controls \/ Len(f.body) <= Budget)

ReadFrame ==
  /\ call = "read" /\ wire # <<>>
  /\ Take
  /\ \/ ~(Room /\ Acceptable(Head(wire))) /\ Fails("protocol")
     \/ /\ Room /\ Acceptable(Head(wire))
        /\ Spend /\ frame' = Head(wire) /\ Goto("payload")
        /\ UNCHANGED <<tcp, hook, bound, buf, started>>

\* The message, and then a close frame nobody minds the loss of.
Complete(msg) == Return([err |-> "", msg |-> msg])

Accumulate(msg) ==
  \/ frame.fin /\ Complete(msg)
  \/ /\ ~frame.fin /\ Goto("read")
     /\ buf' = msg /\ started' = TRUE /\ frame' = None
     /\ UNCHANGED <<tcp, hook, bound, left>>

\* Mutant of CarryOn: a control frame ends the message in progress.
StartOver(pc) ==
  Goto(pc) /\ frame' = None /\ buf' = <<>> /\ started' = FALSE /\ UNCHANGED <<tcp, hook, bound, left>>

CarryOn(pc) == Goto(pc) /\ frame' = None /\ UNCHANGED <<tcp, hook, bound, left, buf, started>>

\* Mutant of Dispatch: a new data frame replaces the message in progress.
DispatchAny ==
  CASE frame.op = "ping" -> CarryOn("pong")
    [] frame.op = "pong" -> CarryOn("read")
    [] frame.op = "close" -> Fails("closed")
    [] frame.op \in {"text", "binary"} -> Accumulate(frame.body)
    [] frame.op = "continuation" /\ started -> Accumulate(buf \o frame.body)
    [] OTHER -> Fails("protocol")

Dispatch ==
  CASE frame.op = "ping" -> CarryOn("pong")
    [] frame.op = "pong" -> CarryOn("read")
    [] frame.op = "close" -> Fails("closed")
    [] frame.op \in {"text", "binary"} /\ ~started -> Accumulate(frame.body)
    [] frame.op = "continuation" /\ started -> Accumulate(buf \o frame.body)
    [] OTHER -> Fails("protocol")

ReadPayload ==
  /\ call = "payload" /\ ~frame.torn
  /\ Dispatch
  /\ UNCHANGED endpoint

SendPong ==
  /\ call = "pong"
  /\ \/ tcp = "open" /\ Goto("read") /\ UNCHANGED <<tcp, hook, reader>>
     \/ (IOFails \/ server = "gone") /\ Fails("write")
  /\ UNCHANGED endpoint

\* A blocked read comes back without anything; what is buffered may be read first.
ReadFails ==
  /\ call \in {"headers", "read", "payload"}
  /\ \/ IOFails
     \/ server = "gone" /\ IF call = "payload" THEN frame.torn ELSE wire = <<>>
  /\ Fails("read")
  /\ UNCHANGED endpoint

Client ==
  \/ \E url \in {"tls", "insecure", "cleartext"} : Dial(url)
  \/ Handshake \/ SendUpgrade \/ ReadHeader \/ ArmHook \/ SendSerial
  \/ ReadFrame \/ ReadPayload \/ SendPong \/ ReadFails
=============================================================================
