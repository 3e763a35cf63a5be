------------------------------- MODULE Usbfs --------------------------------
(***************************************************************************)
(* internal/usbfs Device and internal/transport/usbmidi: one interface of  *)
(* one unit, taken from its kernel driver for the time of a command and    *)
(* given back at the end, while goroutines still transfer on it.           *)
(*                                                                         *)
(* The kernel's side, external, is the owner of the interface.  Two facts  *)
(* about it make the closing hard.  A transfer on an interface nobody owns *)
(* claims it for the process that submitted it; and USBDEVFS_CONNECT says  *)
(* that the re-probe was accepted, not that a driver bound.                *)
(***************************************************************************)
EXTENDS Naturals, FiniteSets

CONSTANTS
  Users,        \* goroutines that transfer: the framer's reader, a writer
  MaxMeddling,  \* bound: steps of other processes
  MaxFaults     \* bound: ioctls that fail for a reason of their own

ASSUME UsbfsAssumption == IsFiniteSet(Users) /\ MaxMeddling \in Nat /\ MaxFaults \in Nat

\* "ours" is usbfs on our descriptor, "foreign" usbfs on another process's.
Owners == {"none", "kernel", "ours", "foreign"}

VARIABLES    \* the kernel
  owner,      \* who is bound to the interface
  present,    \* is the unit on the bus?
  binds,      \* does a driver bind when this kernel probes the interface again?
  atomic,     \* does it know USBDEVFS_DISCONNECT_CLAIM?
  sysfs       \* does the DeviceRef carry a SysPath?
VARIABLES    \* Device and transport
  pc,         \* where the opening or closing goroutine is
  call,       \* for whom: "open" until it is open, "fallback" or "bail" if that fails,
              \* then the "transport", with its goroutines, or the bootloader's "flasher"
  hadDriver,  \* claimState.hadDriver
  claimed,    \* is there an entry in claimed? (always with detached set)
  releasing, closed, cancelled,
  errs,       \* what the release or the failed claim reports
  user,       \* where each goroutine is in a read or a write
  result      \* how the last one that failed was reported to it
VARIABLES    \* history
  before,     \* the owner when sysfs was read before the claim
  seen,       \* the owner when sysfs was read after the re-probe
  inflight,   \* goroutines between their last check and the ioctl when a release began
  strays,     \* goroutines whose transfer took the interface while it was being released
  meddled, faults

kernel == <<owner, present, binds, atomic, sysfs>>
device == <<pc, call, hadDriver, claimed, releasing, closed, cancelled, errs>>
history == <<before, seen, inflight, strays, meddled, faults>>
vars == <<kernel, device, user, result, history>>

Init ==
  /\ owner \in {"none", "kernel", "foreign"} /\ present = TRUE
  /\ binds \in BOOLEAN /\ atomic \in BOOLEAN /\ sysfs \in BOOLEAN
  /\ pc = "probe" /\ call = "open"
  /\ hadDriver = FALSE /\ claimed = FALSE
  /\ releasing = FALSE /\ closed = FALSE /\ cancelled = FALSE
  /\ errs = {}
  /\ user = [u \in Users |-> "idle"] /\ result = [u \in Users |-> "none"]
  /\ before = "none" /\ seen = "unread" /\ inflight = {} /\ strays = {}
  /\ meddled = 0 /\ faults = 0

-----------------------------------------------------------------------------
\* sysfs shows a link for any owner, usbfs included, and nothing at all once
\* the unit is gone.

InterfaceDriverBound == owner # "none"
BindingKnown == sysfs /\ present

Goto(here, there) == pc = here /\ pc' = there

\* An ioctl fails for a reason outside the ones the code tells apart.
Fault == faults < MaxFaults /\ faults' = faults + 1
NoFault == UNCHANGED faults

-----------------------------------------------------------------------------
\* ClaimInterface

ReadHadDriver ==
  /\ Goto("probe", "claim")
  /\ hadDriver' = (BindingKnown /\ InterfaceDriverBound)
  /\ before' = owner
  /\ UNCHANGED <<kernel, call, claimed, releasing, closed, cancelled, errs, user, result,
                 seen, inflight, strays, meddled, faults>>

MarkClaimed == pc' = "select" /\ claimed' = TRUE

\* USBDEVFS_DISCONNECT_CLAIM: whoever holds the interface is detached and usbfs
\* claims it, in one step; only usbfs itself is left alone.
ClaimDetaching ==
  /\ pc = "claim" /\ atomic /\ present /\ owner # "foreign"
  /\ owner' = "ours" /\ MarkClaimed
  /\ UNCHANGED <<present, binds, atomic, sysfs, call, hadDriver, releasing, closed, cancelled,
                 errs, user, result, history>>

\* The first ioctl fails, having touched nothing: the error is returned as it is.
ClaimRefused ==
  /\ Goto("claim", "closing")
  /\ \/ (~present \/ (atomic /\ owner = "foreign")) /\ NoFault
     \/ Fault
  /\ UNCHANGED <<kernel, call, hadDriver, claimed, releasing, closed, cancelled, errs, user,
                 result, before, seen, inflight, strays, meddled>>

\* detachThenClaim, on a kernel without it: USBDEVFS_DISCONNECT unbinds any
\* owner, and from here on the interface is anybody's.
DetachDriver ==
  /\ Goto("claim", "plain") /\ ~atomic /\ present
  /\ owner' = "none"
  /\ UNCHANGED <<present, binds, atomic, sysfs, call, hadDriver, claimed, releasing, closed,
                 cancelled, errs, user, result, history>>

Claim ==
  /\ pc = "plain" /\ present /\ owner = "none"
  /\ owner' = "ours" /\ MarkClaimed
  /\ UNCHANGED <<present, binds, atomic, sysfs, call, hadDriver, releasing, closed, cancelled,
                 errs, user, result, history>>

\* Mutant of ClaimLost: the failed claim is returned at once.
ClaimLostOwing ==
  /\ Goto("plain", "closing")
  /\ \/ (~present \/ owner # "none") /\ NoFault
     \/ Fault
  /\ call' = "fallback"
  /\ UNCHANGED <<kernel, hadDriver, claimed, releasing, closed, cancelled, errs, user, result,
                 before, seen, inflight, strays, meddled>>

\* The claim fails: the driver is handed back at once, nothing else knows that
\* it is owed.
ClaimLost ==
  /\ Goto("plain", "connect")
  /\ \/ (~present \/ owner # "none") /\ NoFault
     \/ Fault
  /\ call' = "fallback"
  /\ UNCHANGED <<kernel, hadDriver, claimed, releasing, closed, cancelled, errs, user, result,
                 before, seen, inflight, strays, meddled>>

-----------------------------------------------------------------------------
\* The alternate setting is selected, or that fails and the caller backs out,
\* throwing the release's error away.

Opened ==
  /\ Goto("select", "open")
  /\ call' \in {"transport", "flasher"}
  /\ UNCHANGED <<kernel, hadDriver, claimed, releasing, closed, cancelled, errs, user, result,
                 history>>

Bail ==
  /\ Goto("select", "mark")
  /\ call' = "bail"
  /\ UNCHANGED <<kernel, hadDriver, claimed, releasing, closed, cancelled, errs, user, result,
                 history>>

\* transport.Close; the flasher's device is closed with its claim in place.
Close ==
  /\ Goto("open", "cancel") /\ call = "transport"
  /\ closed' = TRUE
  /\ UNCHANGED <<kernel, call, hadDriver, claimed, releasing, cancelled, errs, user, result,
                 history>>

CloseDevice ==
  /\ Goto("open", "closing") /\ call = "flasher"
  /\ UNCHANGED <<kernel, call, hadDriver, claimed, releasing, closed, cancelled, errs, user,
                 result, history>>

Cancel ==
  /\ Goto("cancel", "mark")
  /\ cancelled' = TRUE
  /\ UNCHANGED <<kernel, call, hadDriver, claimed, releasing, closed, errs, user, result, history>>

-----------------------------------------------------------------------------
\* ReleaseInterface

MarkReleasing ==
  /\ pc = "mark" \/ (pc = "closing" /\ claimed)
  /\ pc' = "release"
  /\ releasing' = TRUE
  /\ inflight' = {u \in Users : user[u] = "ioctl"}
  /\ UNCHANGED <<kernel, call, hadDriver, claimed, closed, cancelled, errs, user, result, before,
                 seen, strays, meddled, faults>>

\* Whatever the ioctl answers, the driver is owed, unless the unit is gone.
ReleaseClaim ==
  /\ pc = "release"
  /\ \/ /\ ~present /\ pc' = "forget"
        /\ UNCHANGED <<owner, errs>> /\ NoFault
     \/ /\ present /\ pc' = "connect"
        /\ owner' = "none"
        /\ UNCHANGED errs /\ NoFault
     \/ /\ present /\ pc' = "connect"
        /\ errs' = errs \cup {"release"}
        /\ UNCHANGED owner /\ Fault
  /\ UNCHANGED <<present, binds, atomic, sysfs, call, hadDriver, claimed, releasing, closed,
                 cancelled, user, result, before, seen, inflight, strays, meddled>>

\* Where attachDriver returns to.
Attached == IF call = "fallback" THEN "closing" ELSE "forget"

Verified == IF hadDriver THEN "verify" ELSE Attached

\* USBDEVFS_CONNECT, asked once and, when the interface is busy, once more; any
\* other answer is final.
ConnectDriver(here, ifBusy, busyErrs) ==
  /\ pc = here
  /\ \/ /\ present /\ owner = "none"
        /\ owner' = IF binds THEN "kernel" ELSE "none"
        /\ pc' = Verified
        /\ UNCHANGED errs /\ NoFault
     \/ /\ present /\ owner # "none"
        /\ pc' = ifBusy
        /\ errs' = errs \cup busyErrs
        /\ UNCHANGED owner /\ NoFault
     \/ /\ present /\ pc' = Attached
        /\ errs' = errs \cup {"connect"}
        /\ UNCHANGED owner /\ Fault
     \/ /\ ~present /\ pc' = Attached
        /\ UNCHANGED <<owner, errs>> /\ NoFault
  /\ UNCHANGED <<present, binds, atomic, sysfs, call, hadDriver, claimed, releasing, closed,
                 cancelled, user, result, before, seen, inflight, strays, meddled>>

\* Mutant of Connect: busy is final.
ConnectOnce == ConnectDriver("connect", Attached, {"attach"})

Connect == ConnectDriver("connect", "handBack", {})

\* Busy is usbfs itself, as a rule: our own claim is given back, whatever the
\* answer, and the question put again.
HandBack ==
  /\ Goto("handBack", "reconnect")
  /\ \/ /\ owner' = IF owner = "ours" THEN "none" ELSE owner
        /\ NoFault
     \/ /\ UNCHANGED owner /\ Fault
  /\ UNCHANGED <<present, binds, atomic, sysfs, call, hadDriver, claimed, releasing, closed,
                 cancelled, errs, user, result, before, seen, inflight, strays, meddled>>

Reconnect == ConnectDriver("reconnect", Attached, {"attach"})

\* driverRebound: a driver is seen at once, none only after the settle window,
\* in which other steps happen; what cannot be known is not complained about.
DriverRebound ==
  /\ Goto("verify", Attached)
  /\ errs' = IF BindingKnown /\ ~InterfaceDriverBound THEN errs \cup {"notRebound"} ELSE errs
  /\ seen' = owner
  /\ UNCHANGED <<kernel, call, hadDriver, claimed, releasing, closed, cancelled, user, result,
                 before, inflight, strays, meddled, faults>>

Forget ==
  /\ Goto("forget", "closing")
  /\ claimed' = FALSE /\ releasing' = FALSE
  /\ UNCHANGED <<kernel, call, hadDriver, closed, cancelled, errs, user, result, history>>

\* Device.Close, no claim left to release; the kernel drops with the descriptor
\* whatever a stray transfer still holds.
CloseDescriptor ==
  /\ Goto("closing", "done") /\ ~claimed
  /\ owner' = IF owner = "ours" THEN "none" ELSE owner
  /\ UNCHANGED <<present, binds, atomic, sysfs, call, hadDriver, claimed, releasing, closed,
                 cancelled, errs, user, result, history>>
-----------------------------------------------------------------------------
\* ReadMIDI and WriteMIDI, each down to Device.Transfer: three checks, made one
\* after the other and without a lock, and the ioctl.

EnterTransfer(u) ==
  /\ call = "transport" /\ user[u] = "idle"
  /\ IF closed
     THEN /\ user' = [user EXCEPT ![u] = "left"]
          /\ result' = [result EXCEPT ![u] = "ErrClosed"]
     ELSE /\ user' = [user EXCEPT ![u] = "context"]
          /\ UNCHANGED result
  /\ UNCHANGED <<kernel, device, history>>

\* An error of Transfer is ErrClosed to the caller when the transport is closed
\* by the time the error is looked at.
TransferFails(u, cause) ==
  /\ user' = [user EXCEPT ![u] = "left"]
  /\ result' = [result EXCEPT ![u] = IF closed THEN "ErrClosed" ELSE cause]

CheckContext(u) ==
  /\ user[u] = "context"
  /\ IF cancelled
     THEN TransferFails(u, "refused")
     ELSE user' = [user EXCEPT ![u] = "releasing"] /\ UNCHANGED result
  /\ UNCHANGED <<kernel, device, history>>

RefuseWhileReleasing(u) ==
  /\ user[u] = "releasing"
  /\ IF releasing
     THEN TransferFails(u, "refused")
     ELSE user' = [user EXCEPT ![u] = "ioctl"] /\ UNCHANGED result
  /\ UNCHANGED <<kernel, device, history>>

\* The kernel takes the transfer, claiming the interface for it if nobody owns
\* it.  A short write goes on with the next part and looks at closed no more.
Ioctl(u) ==
  /\ user[u] = "ioctl" /\ pc # "done" /\ present /\ owner \in {"ours", "none"}
  /\ owner' = "ours"
  /\ strays' = IF owner = "none" /\ releasing THEN strays \cup {u} ELSE strays
  /\ \E there \in {"idle", "context"} : user' = [user EXCEPT ![u] = there]
  /\ UNCHANGED <<present, binds, atomic, sysfs, device, result, before, seen, inflight, meddled,
                 faults>>

IoctlFails(u) ==
  /\ user[u] = "ioctl"
  /\ pc = "done" \/ ~present \/ owner \notin {"ours", "none"}
  /\ TransferFails(u, "failed")
  /\ UNCHANGED <<kernel, device, history>>

-----------------------------------------------------------------------------
\* Everybody else: another process takes a free interface, or lets it go; a
\* driver binds to it unasked, by udev; the unit is unplugged.

Meddle ==
  /\ meddled < MaxMeddling /\ meddled' = meddled + 1
  /\ \/ owner = "none" /\ owner' \in {"foreign", "kernel"}
     \/ owner = "foreign" /\ owner' = "none"
  /\ present
  /\ UNCHANGED <<present, binds, atomic, sysfs, device, user, result, before, seen, inflight,
                 strays, faults>>

Unplug ==
  /\ present
  /\ present' = FALSE /\ owner' = "none"
  /\ UNCHANGED <<binds, atomic, sysfs, device, user, result, history>>

Transfers == \E u \in Users :
  EnterTransfer(u) \/ CheckContext(u) \/ RefuseWhileReleasing(u) \/ Ioctl(u) \/ IoctlFails(u)

Opening == ReadHadDriver \/ ClaimDetaching \/ ClaimRefused \/ DetachDriver \/ Claim \/ ClaimLost
           \/ Opened

Closing == Bail \/ Close \/ CloseDevice \/ Cancel \/ MarkReleasing \/ ReleaseClaim \/ Connect
           \/ HandBack \/ Reconnect \/ DriverRebound \/ Forget \/ CloseDescriptor

Next == Opening \/ Closing \/ Transfers \/ Meddle \/ Unplug

Spec == Init /\ [][Next]_vars

-----------------------------------------------------------------------------
(* Properties *)

Points == {"probe", "claim", "plain", "select", "open", "cancel", "mark", "release", "connect",
           "handBack", "reconnect", "verify", "forget", "closing", "done"}

Flags ==
  /\ present \in BOOLEAN /\ binds \in BOOLEAN /\ atomic \in BOOLEAN /\ sysfs \in BOOLEAN
  /\ hadDriver \in BOOLEAN /\ claimed \in BOOLEAN
  /\ releasing \in BOOLEAN /\ closed \in BOOLEAN /\ cancelled \in BOOLEAN

Types ==
  /\ owner \in Owners /\ before \in Owners /\ seen \in Owners \cup {"unread"}
  /\ pc \in Points /\ call \in {"open", "fallback", "bail", "transport", "flasher"}
  /\ errs \subseteq {"release", "attach", "connect", "notRebound"}
  /\ user \in [Users -> {"idle", "context", "releasing", "ioctl", "left"}]
  /\ result \in [Users -> {"none", "ErrClosed", "refused", "failed"}]
  /\ inflight \subseteq Users /\ strays \subseteq Users

Counters == meddled \in 0 .. MaxMeddling /\ faults \in 0 .. MaxFaults

Releasing == {"release", "connect", "handBack", "reconnect", "verify", "forget"}

\* Types, and what ties them together: releasing is up for exactly the span of
\* ReleaseInterface, and the entry in claimed is there all that time.
TypeOK ==
  /\ Flags /\ Types /\ Counters
  /\ releasing <=> call # "fallback" /\ pc \in Releasing
  /\ releasing => claimed

\* The driver that was bound before the claim is bound again when the descriptor
\* is closed, or the caller is told that it is not.  Excepted are the paths that
\* cannot tell: no sysfs, or somebody else's driver met where ours should be;
\* and the bail-out, which throws the answer away.
DriverBackOrReported ==
  pc = "done" /\ present /\ before = "kernel" /\ sysfs /\ call # "bail" =>
    owner = "kernel" \/ errs # {} \/ seen \in {"ours", "foreign"}

\* One thing that goes wrong costs nothing: a transfer that took the interface
\* from under the release, a release that failed, a claim that failed after
\* the detach.  If the kernel binds at all, the driver is back.  The one call
\* whose failure is not made up for is the reattachment itself: it is put again
\* for a busy interface only, and its error is in the report.
OneMishapCostsNothing ==
  pc = "done" /\ present /\ before = "kernel" /\ binds /\ meddled = 0
  /\ faults + Cardinality(strays) <= 1 => owner = "kernel" \/ "connect" \in errs

\* Only a transfer that had made its last check before the release began can
\* take the interface back: the flag keeps out every later one.
StraysWereInFlight == strays \subseteq inflight

\* The alarm that the driver did not come back is never raised for an interface
\* that had none, the bootloader's, nor while one is bound.
AlarmMeansLoss ==
  [][("notRebound" \in errs') /\ ("notRebound" \notin errs) => before # "none" /\ owner = "none"]_vars

\* A transfer refused because the transport is being closed says so: it is never
\* passed to the framer as a failure of the link.
RefusalIsClosed == \A u \in Users : result[u] # "refused"

\* What usbmidi promises of a Close: "Close detects that and says so".
LossIsReported ==
  pc = "done" /\ present /\ before = "kernel" /\ sysfs /\ call = "transport" /\ meddled = 0
  => owner = "kernel" \/ errs # {}
=============================================================================
