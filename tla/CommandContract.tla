-------------------------- MODULE CommandContract ---------------------------
(***************************************************************************)
(* What a command promises its caller over a link that may lose it, its    *)
(* answer, or itself.  The device acts on a call at a moment of its own;   *)
(* the caller is told "answered" only after it did, "notSent" only if it   *)
(* never will, and "unknown" otherwise.                                    *)
(***************************************************************************)
CONSTANT Calls

VARIABLES
  status,   \* each call: "new", "running" or what the caller was told
  effect    \* the calls the device has acted on

vars == <<status, effect>>

Init == status = [i \in Calls |-> "new"] /\ effect = {}

Begin(i) ==
  /\ status[i] = "new"
  /\ status' = [status EXCEPT ![i] = "running"]
  /\ UNCHANGED effect

\* A call refused on the spot.
Refuse(i) ==
  /\ status[i] = "new"
  /\ status' = [status EXCEPT ![i] = "notSent"]
  /\ UNCHANGED effect

Act(i) ==
  /\ status[i] \in {"running", "unknown"}
  /\ effect' = effect \cup {i}
  /\ UNCHANGED status

End(i, verdict) ==
  /\ status[i] = "running"
  /\ verdict = "answered" => i \in effect
  /\ verdict = "notSent" => i \notin effect
  /\ status' = [status EXCEPT ![i] = verdict]
  /\ UNCHANGED effect

Next == \E i \in Calls :
  Begin(i) \/ Refuse(i) \/ Act(i) \/ \E v \in {"answered", "notSent", "unknown"} : End(i, v)

Spec == Init /\ [][Next]_vars
=============================================================================
