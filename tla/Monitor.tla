------------------------------ MODULE Monitor -------------------------------
(***************************************************************************)
(* A framer with the consumer `gflex monitor` puts on it: monitorLoop      *)
(* selects over both channels and the context, drainMonitor empties what   *)
(* is buffered once the context is done, and the deferred Close stops the  *)
(* reader.  Other goroutines may call Close at any moment.                 *)
(***************************************************************************)
EXTENDS Framer, SequencesExt

CONSTANTS
  Main,        \* the goroutine that runs runMonitor and its deferred Close
  MaxFrames    \* bound: how many frames the device sends in all

ASSUME MonitorAssumption == Main \in Closers /\ MaxFrames \in Nat

VARIABLES
  mon,         \* "start", "loop", "drain", "closing", "returned"
  terminal,    \* the transport error monitorLoop will return
  ctxDone,     \* the interrupt, or the end of --for
  sent,        \* history: every frame the device has sent
  shown        \* history: every frame printed

monVars == <<mon, terminal, ctxDone, sent, shown>>
vars == <<framerVars, monVars>>

MonInit ==
  /\ Init
  /\ mon = "start" /\ terminal = FALSE /\ ctxDone = FALSE
  /\ sent = <<>> /\ shown = <<>>

\* The device sends a frame.
DeviceSends ==
  /\ port = "open"
  /\ Len(sent) < MaxFrames
  /\ \E f \in Frames : wire' = Append(wire, f) /\ sent' = Append(sent, f)
  /\ UNCHANGED <<port, reader, held, chanVars, lifeVars, mon, terminal, ctxDone, shown>>

Interrupt ==
  /\ ~ctxDone
  /\ ctxDone' = TRUE
  /\ UNCHANGED <<framerVars, mon, terminal, sent, shown>>

MonStart ==
  /\ mon = "start"
  /\ Start
  /\ mon' = "loop"
  /\ UNCHANGED <<terminal, ctxDone, sent, shown>>

\* The arm of either select that prints a frame.
MonFrame ==
  /\ mon \in {"loop", "drain"}
  /\ ReceiveFrame
  /\ shown' = Append(shown, Head(frames))
  /\ UNCHANGED <<mon, terminal, ctxDone, sent>>

MonErr ==
  /\ mon \in {"loop", "drain"}
  /\ ReceiveErr
  /\ terminal' = TRUE
  /\ UNCHANGED <<mon, ctxDone, sent, shown>>

\* The context ended, or both channels are exhausted: drainMonitor takes over.
MonDrain ==
  /\ mon = "loop"
  /\ ctxDone \/ (FramesExhausted /\ ErrsExhausted)
  /\ mon' = "drain"
  /\ UNCHANGED <<framerVars, terminal, ctxDone, sent, shown>>

\* drainMonitor's default arm, then the deferred Close (CloseStep of Main).
MonReturn ==
  /\ mon = "drain"
  /\ frames = <<>> /\ errs = 0
  /\ mon' = "returned"
  /\ UNCHANGED <<framerVars, terminal, ctxDone, sent, shown>>

\* Main closes only on its way out; the others whenever they like.
MonClose(k) ==
  /\ k = Main => mon = "returned"
  /\ CloseStep(k)
  /\ UNCHANGED monVars

MonReader == Reader /\ UNCHANGED monVars
MonUnplug == Unplug /\ UNCHANGED monVars

Next ==
  \/ DeviceSends \/ MonUnplug \/ Interrupt
  \/ MonStart \/ MonFrame \/ MonErr \/ MonDrain \/ MonReturn
  \/ MonReader
  \/ \E k \in Closers : MonClose(k)

\* Every goroutine that can run runs: the reader leaves a read once the port is
\* gone or done is closed, a caller inside Close and the monitor take their
\* next step.  Nothing forces the device, the user or a first call of Close.
Fairness ==
  /\ WF_vars(MonReader /\ (port # "open" \/ done \/ reader # "read"))
  /\ WF_vars(MonStart \/ MonDrain \/ MonReturn)
  /\ WF_vars(MonFrame)
  /\ WF_vars(MonErr)
  /\ \A k \in Closers : WF_vars(MonClose(k) /\ closer[k] # "idle")

Spec == MonInit /\ [][Next]_vars /\ Fairness

-----------------------------------------------------------------------------
(* Properties.                                                             *)

\* Neither Start, the reader nor Close ever sends on a closed channel or
\* closes one twice, whichever of them runs first: each would panic.
NoPanic ==
  /\ reader \in {"read", "publish", "closeErrs"} => errsOpen /\ framesOpen /\ ~readerExit
  /\ reader = "closeFrames" => framesOpen /\ ~readerExit
  /\ reader = "closeExit" => ~readerExit
  /\ \A k \in Closers :
       closer[k] = "closePort" /\ ~started => errsOpen /\ framesOpen /\ ~readerExit
  /\ \A k, l \in Closers :
       {closer[k], closer[l]} \subseteq {"signal", "closePort"} => k = l

\* Once a Close has returned without ErrReaderStuck, to the first caller or to
\* a later one, nothing new ever appears on either channel.
CloseIsBarrier ==
  [][(\E k \in Closers : closer[k] \in {"ok", "okLater"})
       => Len(frames') <= Len(frames) /\ errs' <= errs]_vars

\* Frames reach the monitor in the order the device sent them, and until
\* Close signals the reader none is lost, however full the channel gets.
InOrder ==
  LET received == shown \o frames \o held
  IN  /\ IsPrefix(received, sent)
      /\ ~done => received \o wire = sent

\* A monitor that ends by itself ends because the link died, says so, and has
\* shown every frame that had been received when it did.
EndsWithTheCause ==
  mon = "returned" /\ ~ctxDone /\ ~closed
    => terminal /\ shown \o wire = sent

\* Close is never held up by a reader nobody listens to: whoever calls Close
\* gets it back, and the reader is gone then.
CloseCompletes ==
  \A k \in Closers :
    closer[k] # "idle" ~> closer[k] \in {"ok", "okLater"} /\ reader \in {"absent", "exited"}
=============================================================================
