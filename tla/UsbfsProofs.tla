---------------------------- MODULE UsbfsProofs -----------------------------
(***************************************************************************)
(* Theorems about Usbfs, for any number of transferring goroutines, of     *)
(* steps of other processes and of failing ioctls.                         *)
(***************************************************************************)
EXTENDS Usbfs, FiniteSetTheorems, TLAPS

\* Which call is at which point, and what it has claimed.
Control ==
  /\ call = "open" => pc \in {"probe", "claim", "plain", "select", "closing", "done"}
  /\ call = "fallback" =>
       pc \in {"connect", "handBack", "reconnect", "verify", "closing", "done"}
  /\ call = "bail" => pc \in {"mark", "closing", "done"} \cup Releasing
  /\ call = "transport" => pc \in {"open", "cancel", "mark", "closing", "done"} \cup Releasing
  /\ call = "flasher" => pc \in {"open", "closing", "done"} \cup Releasing
  /\ pc \in {"select", "open", "cancel", "mark"} \cup Releasing =>
       claimed \/ call = "fallback"
  /\ pc = "closing" /\ claimed => call = "flasher"
  /\ pc \in {"probe", "claim", "plain", "done"} \/ call = "fallback" => ~claimed
  /\ releasing <=> call # "fallback" /\ pc \in Releasing

Shape == Flags /\ Types /\ Control

\* Goroutines transfer on a transport only, and whoever closes it has said so
\* before anything that refuses them.
Announced ==
  /\ call = "transport" /\ pc # "open" => closed
  /\ cancelled => closed
  /\ call # "transport" => \A u \in Users : user[u] = "idle"
  /\ \A u \in Users : result[u] # "refused"

\* A goroutine past its last check while the release is under way was past it
\* when the release began.
InFlight ==
  /\ call # "transport" => (strays = {} /\ \A u \in Users : user[u] = "idle")
  /\ ~releasing /\ claimed => strays = {}
  /\ releasing => \A u \in Users : user[u] = "ioctl" => u \in inflight
  /\ strays \subseteq inflight

\* What is known of the driver from the look at sysfs on.
Driver ==
  /\ hadDriver => before # "none"
  /\ pc = "verify" => hadDriver
  /\ pc = "probe" => before = "none"
  /\ pc # "probe" /\ sysfs /\ present /\ before # "none" => hadDriver
  /\ pc = "claim" /\ present /\ before = "kernel" => owner = "kernel"

\* The driver is back, or the loss is reported, from the end of attachDriver on.
Settled ==
  (pc = "forget" \/ (pc \in {"closing", "done"} /\ ~claimed))
    /\ present /\ before = "kernel" /\ sysfs /\ call # "bail" =>
  owner = "kernel" \/ errs # {} \/ seen \in {"ours", "foreign"}

\* What has gone wrong so far, and a run in which at most one thing has, which is
\* not the reattachment.
Mishaps == faults + Cardinality(strays)
Calm ==
  before = "kernel" /\ present /\ binds /\ meddled = 0 /\ Mishaps <= 1 /\ "connect" \notin errs

\* A goroutine whose transfer took the interface back is refused the next one.
Once == releasing => \A u \in strays : user[u] # "ioctl"

\* Who has the interface on the way: a mishap is spent by the time it is met, so
\* that the second question is answered.
Course ==
  Calm =>
    /\ pc = "claim" => owner = "kernel"
    /\ pc = "plain" => owner = "none"
    /\ pc \in {"select", "open", "cancel", "mark"} \/ (pc = "closing" /\ claimed) => owner = "ours"
    /\ pc = "release" => owner = "ours" /\ strays = {}
    /\ pc = "connect" => owner = "none" \/ (owner = "ours" /\ Mishaps = 1)
    /\ pc = "handBack" => owner = "ours" /\ Mishaps = 1
    /\ pc = "reconnect" => owner = "none" /\ Mishaps = 1
    /\ pc \in {"verify", "forget", "done"} \/ (pc = "closing" /\ ~claimed) => owner = "kernel"

USE UsbfsAssumption

\* Every step keeps the flags Boolean.
LEMMA FlagsStep ==
  ASSUME Flags, [Next]_vars
  PROVE  Flags'
<1> USE DEF kernel, device, history, Flags
<1>1. CASE ReadHadDriver
  BY <1>1 DEF ReadHadDriver, Goto, BindingKnown, InterfaceDriverBound
<1>2. CASE ClaimDetaching
  BY <1>2 DEF ClaimDetaching, MarkClaimed
<1>3. CASE ClaimRefused
  BY <1>3 DEF ClaimRefused, Goto, Fault, NoFault
<1>4. CASE DetachDriver
  BY <1>4 DEF DetachDriver, Goto
<1>5. CASE Claim
  BY <1>5 DEF Claim, MarkClaimed
<1>6. CASE ClaimLost
  BY <1>6 DEF ClaimLost, Goto, Fault, NoFault
<1>7. CASE Opened
  BY <1>7 DEF Opened, Goto
<1>8. CASE Bail
  BY <1>8 DEF Bail, Goto
<1>9. CASE Close
  BY <1>9 DEF Close, Goto
<1>10. CASE CloseDevice
  BY <1>10 DEF CloseDevice, Goto
<1>11. CASE Cancel
  BY <1>11 DEF Cancel, Goto
<1>12. CASE MarkReleasing
  BY <1>12 DEF MarkReleasing
<1>13. CASE ReleaseClaim
  BY <1>13 DEF ReleaseClaim, Fault, NoFault
<1>14. CASE Connect
  BY <1>14 DEF Connect, ConnectDriver, Verified, Attached, Fault, NoFault
<1>15. CASE HandBack
  BY <1>15 DEF HandBack, Goto, Fault, NoFault
<1>16. CASE Reconnect
  BY <1>16 DEF Reconnect, ConnectDriver, Verified, Attached, Fault, NoFault
<1>17. CASE DriverRebound
  BY <1>17 DEF DriverRebound, Goto, Attached, BindingKnown, InterfaceDriverBound
<1>18. CASE Forget
  BY <1>18 DEF Forget, Goto
<1>19. CASE CloseDescriptor
  BY <1>19 DEF CloseDescriptor, Goto
<1>20. CASE Meddle
  BY <1>20 DEF Meddle
<1>21. CASE Unplug
  BY <1>21 DEF Unplug
<1>22. ASSUME NEW u \in Users, EnterTransfer(u) PROVE Flags'
  BY <1>22 DEF EnterTransfer
<1>23. ASSUME NEW u \in Users, CheckContext(u) PROVE Flags'
  BY <1>23 DEF CheckContext, TransferFails
<1>24. ASSUME NEW u \in Users, RefuseWhileReleasing(u) PROVE Flags'
  BY <1>24 DEF RefuseWhileReleasing, TransferFails
<1>25. ASSUME NEW u \in Users, Ioctl(u) PROVE Flags'
  BY <1>25 DEF Ioctl
<1>26. ASSUME NEW u \in Users, IoctlFails(u) PROVE Flags'
  BY <1>26 DEF IoctlFails, TransferFails
<1>27. CASE UNCHANGED vars
  BY <1>27 DEF vars
<1> QED
  BY <1>1, <1>2, <1>3, <1>4, <1>5, <1>6, <1>7, <1>8, <1>9, <1>10, <1>11, <1>12, <1>13, <1>14,
        <1>15, <1>16, <1>17, <1>18, <1>19, <1>20, <1>21, <1>22, <1>23, <1>24, <1>25, <1>26, <1>27
  DEF Next, Opening, Closing, Transfers

\* Every step keeps the types.
LEMMA TypesStep ==
  ASSUME Types, [Next]_vars
  PROVE  Types'
<1> USE DEF kernel, device, history, Types, Points, Owners
<1>1. CASE ReadHadDriver
  BY <1>1 DEF ReadHadDriver, Goto, BindingKnown, InterfaceDriverBound
<1>2. CASE ClaimDetaching
  BY <1>2 DEF ClaimDetaching, MarkClaimed
<1>3. CASE ClaimRefused
  BY <1>3 DEF ClaimRefused, Goto, Fault, NoFault
<1>4. CASE DetachDriver
  BY <1>4 DEF DetachDriver, Goto
<1>5. CASE Claim
  BY <1>5 DEF Claim, MarkClaimed
<1>6. CASE ClaimLost
  BY <1>6 DEF ClaimLost, Goto, Fault, NoFault
<1>7. CASE Opened
  BY <1>7 DEF Opened, Goto
<1>8. CASE Bail
  BY <1>8 DEF Bail, Goto
<1>9. CASE Close
  BY <1>9 DEF Close, Goto
<1>10. CASE CloseDevice
  BY <1>10 DEF CloseDevice, Goto
<1>11. CASE Cancel
  BY <1>11 DEF Cancel, Goto
<1>12. CASE MarkReleasing
  BY <1>12 DEF MarkReleasing
<1>13. CASE ReleaseClaim
  BY <1>13 DEF ReleaseClaim, Fault, NoFault
<1>14. CASE Connect
  BY <1>14 DEF Connect, ConnectDriver, Verified, Attached, Fault, NoFault
<1>15. CASE HandBack
  BY <1>15 DEF HandBack, Goto, Fault, NoFault
<1>16. CASE Reconnect
  BY <1>16 DEF Reconnect, ConnectDriver, Verified, Attached, Fault, NoFault
<1>17. CASE DriverRebound
  BY <1>17 DEF DriverRebound, Goto, Attached, BindingKnown, InterfaceDriverBound
<1>18. CASE Forget
  BY <1>18 DEF Forget, Goto
<1>19. CASE CloseDescriptor
  BY <1>19 DEF CloseDescriptor, Goto
<1>20. CASE Meddle
  BY <1>20 DEF Meddle
<1>21. CASE Unplug
  BY <1>21 DEF Unplug
<1>22. ASSUME NEW u \in Users, EnterTransfer(u) PROVE Types'
  BY <1>22 DEF EnterTransfer
<1>23. ASSUME NEW u \in Users, CheckContext(u) PROVE Types'
  BY <1>23 DEF CheckContext, TransferFails
<1>24. ASSUME NEW u \in Users, RefuseWhileReleasing(u) PROVE Types'
  BY <1>24 DEF RefuseWhileReleasing, TransferFails
<1>25. ASSUME NEW u \in Users, Ioctl(u) PROVE Types'
  BY <1>25 DEF Ioctl
<1>26. ASSUME NEW u \in Users, IoctlFails(u) PROVE Types'
  BY <1>26 DEF IoctlFails, TransferFails
<1>27. CASE UNCHANGED vars
  BY <1>27 DEF vars
<1> QED
  BY <1>1, <1>2, <1>3, <1>4, <1>5, <1>6, <1>7, <1>8, <1>9, <1>10, <1>11, <1>12, <1>13, <1>14,
        <1>15, <1>16, <1>17, <1>18, <1>19, <1>20, <1>21, <1>22, <1>23, <1>24, <1>25, <1>26, <1>27
  DEF Next, Opening, Closing, Transfers

\* Every step keeps the control.
LEMMA ControlStep ==
  ASSUME Shape, [Next]_vars
  PROVE  Control'
<1> USE DEF kernel, device, history, Shape, Flags, Types, Control, Points, Releasing
<1>1. CASE ReadHadDriver
  BY <1>1 DEF ReadHadDriver, Goto, BindingKnown, InterfaceDriverBound
<1>2. CASE ClaimDetaching
  BY <1>2 DEF ClaimDetaching, MarkClaimed
<1>3. CASE ClaimRefused
  BY <1>3 DEF ClaimRefused, Goto, Fault, NoFault
<1>4. CASE DetachDriver
  BY <1>4 DEF DetachDriver, Goto
<1>5. CASE Claim
  BY <1>5 DEF Claim, MarkClaimed
<1>6. CASE ClaimLost
  BY <1>6 DEF ClaimLost, Goto, Fault, NoFault
<1>7. CASE Opened
  BY <1>7 DEF Opened, Goto
<1>8. CASE Bail
  BY <1>8 DEF Bail, Goto
<1>9. CASE Close
  BY <1>9 DEF Close, Goto
<1>10. CASE CloseDevice
  BY <1>10 DEF CloseDevice, Goto
<1>11. CASE Cancel
  BY <1>11 DEF Cancel, Goto
<1>12. CASE MarkReleasing
  BY <1>12 DEF MarkReleasing
<1>13. CASE ReleaseClaim
  BY <1>13 DEF ReleaseClaim, Fault, NoFault
<1>14. CASE Connect
  BY <1>14 DEF Connect, ConnectDriver, Verified, Attached, Fault, NoFault
<1>15. CASE HandBack
  BY <1>15 DEF HandBack, Goto, Fault, NoFault
<1>16. CASE Reconnect
  BY <1>16 DEF Reconnect, ConnectDriver, Verified, Attached, Fault, NoFault
<1>17. CASE DriverRebound
  BY <1>17 DEF DriverRebound, Goto, Attached, BindingKnown, InterfaceDriverBound
<1>18. CASE Forget
  BY <1>18 DEF Forget, Goto
<1>19. CASE CloseDescriptor
  BY <1>19 DEF CloseDescriptor, Goto
<1>20. CASE Meddle
  BY <1>20 DEF Meddle
<1>21. CASE Unplug
  BY <1>21 DEF Unplug
<1>22. ASSUME NEW u \in Users, EnterTransfer(u) PROVE Control'
  BY <1>22 DEF EnterTransfer
<1>23. ASSUME NEW u \in Users, CheckContext(u) PROVE Control'
  BY <1>23 DEF CheckContext, TransferFails
<1>24. ASSUME NEW u \in Users, RefuseWhileReleasing(u) PROVE Control'
  BY <1>24 DEF RefuseWhileReleasing, TransferFails
<1>25. ASSUME NEW u \in Users, Ioctl(u) PROVE Control'
  BY <1>25 DEF Ioctl
<1>26. ASSUME NEW u \in Users, IoctlFails(u) PROVE Control'
  BY <1>26 DEF IoctlFails, TransferFails
<1>27. CASE UNCHANGED vars
  BY <1>27 DEF vars
<1> QED
  BY <1>1, <1>2, <1>3, <1>4, <1>5, <1>6, <1>7, <1>8, <1>9, <1>10, <1>11, <1>12, <1>13, <1>14,
        <1>15, <1>16, <1>17, <1>18, <1>19, <1>20, <1>21, <1>22, <1>23, <1>24, <1>25, <1>26, <1>27
  DEF Next, Opening, Closing, Transfers

\* Every step keeps the bounds of the counters.
LEMMA CountersStep ==
  ASSUME Counters, [Next]_vars
  PROVE  Counters'
<1> USE DEF kernel, device, history, Counters
<1>1. CASE ReadHadDriver
  BY <1>1 DEF ReadHadDriver, Goto, BindingKnown, InterfaceDriverBound
<1>2. CASE ClaimDetaching
  BY <1>2 DEF ClaimDetaching, MarkClaimed
<1>3. CASE ClaimRefused
  BY <1>3 DEF ClaimRefused, Goto, Fault, NoFault
<1>4. CASE DetachDriver
  BY <1>4 DEF DetachDriver, Goto
<1>5. CASE Claim
  BY <1>5 DEF Claim, MarkClaimed
<1>6. CASE ClaimLost
  BY <1>6 DEF ClaimLost, Goto, Fault, NoFault
<1>7. CASE Opened
  BY <1>7 DEF Opened, Goto
<1>8. CASE Bail
  BY <1>8 DEF Bail, Goto
<1>9. CASE Close
  BY <1>9 DEF Close, Goto
<1>10. CASE CloseDevice
  BY <1>10 DEF CloseDevice, Goto
<1>11. CASE Cancel
  BY <1>11 DEF Cancel, Goto
<1>12. CASE MarkReleasing
  BY <1>12 DEF MarkReleasing
<1>13. CASE ReleaseClaim
  BY <1>13 DEF ReleaseClaim, Fault, NoFault
<1>14. CASE Connect
  BY <1>14 DEF Connect, ConnectDriver, Verified, Attached, Fault, NoFault
<1>15. CASE HandBack
  BY <1>15 DEF HandBack, Goto, Fault, NoFault
<1>16. CASE Reconnect
  BY <1>16 DEF Reconnect, ConnectDriver, Verified, Attached, Fault, NoFault
<1>17. CASE DriverRebound
  BY <1>17 DEF DriverRebound, Goto, Attached, BindingKnown, InterfaceDriverBound
<1>18. CASE Forget
  BY <1>18 DEF Forget, Goto
<1>19. CASE CloseDescriptor
  BY <1>19 DEF CloseDescriptor, Goto
<1>20. CASE Meddle
  BY <1>20 DEF Meddle
<1>21. CASE Unplug
  BY <1>21 DEF Unplug
<1>22. ASSUME NEW u \in Users, EnterTransfer(u) PROVE Counters'
  BY <1>22 DEF EnterTransfer
<1>23. ASSUME NEW u \in Users, CheckContext(u) PROVE Counters'
  BY <1>23 DEF CheckContext, TransferFails
<1>24. ASSUME NEW u \in Users, RefuseWhileReleasing(u) PROVE Counters'
  BY <1>24 DEF RefuseWhileReleasing, TransferFails
<1>25. ASSUME NEW u \in Users, Ioctl(u) PROVE Counters'
  BY <1>25 DEF Ioctl
<1>26. ASSUME NEW u \in Users, IoctlFails(u) PROVE Counters'
  BY <1>26 DEF IoctlFails, TransferFails
<1>27. CASE UNCHANGED vars
  BY <1>27 DEF vars
<1> QED
  BY <1>1, <1>2, <1>3, <1>4, <1>5, <1>6, <1>7, <1>8, <1>9, <1>10, <1>11, <1>12, <1>13, <1>14,
        <1>15, <1>16, <1>17, <1>18, <1>19, <1>20, <1>21, <1>22, <1>23, <1>24, <1>25, <1>26, <1>27
  DEF Next, Opening, Closing, Transfers

\* Every step keeps the order of the announcements.
LEMMA AnnouncedStep ==
  ASSUME Shape, Announced, [Next]_vars
  PROVE  Announced'
<1> USE DEF kernel, device, history, Shape, Flags, Types, Control, Points, Releasing, Announced
<1>1. CASE ReadHadDriver
  BY <1>1 DEF ReadHadDriver, Goto, BindingKnown, InterfaceDriverBound
<1>2. CASE ClaimDetaching
  BY <1>2 DEF ClaimDetaching, MarkClaimed
<1>3. CASE ClaimRefused
  BY <1>3 DEF ClaimRefused, Goto, Fault, NoFault
<1>4. CASE DetachDriver
  BY <1>4 DEF DetachDriver, Goto
<1>5. CASE Claim
  BY <1>5 DEF Claim, MarkClaimed
<1>6. CASE ClaimLost
  BY <1>6 DEF ClaimLost, Goto, Fault, NoFault
<1>7. CASE Opened
  BY <1>7 DEF Opened, Goto
<1>8. CASE Bail
  BY <1>8 DEF Bail, Goto
<1>9. CASE Close
  BY <1>9 DEF Close, Goto
<1>10. CASE CloseDevice
  BY <1>10 DEF CloseDevice, Goto
<1>11. CASE Cancel
  BY <1>11 DEF Cancel, Goto
<1>12. CASE MarkReleasing
  BY <1>12 DEF MarkReleasing
<1>13. CASE ReleaseClaim
  BY <1>13 DEF ReleaseClaim, Fault, NoFault
<1>14. CASE Connect
  BY <1>14 DEF Connect, ConnectDriver, Verified, Attached, Fault, NoFault
<1>15. CASE HandBack
  BY <1>15 DEF HandBack, Goto, Fault, NoFault
<1>16. CASE Reconnect
  BY <1>16 DEF Reconnect, ConnectDriver, Verified, Attached, Fault, NoFault
<1>17. CASE DriverRebound
  BY <1>17 DEF DriverRebound, Goto, Attached, BindingKnown, InterfaceDriverBound
<1>18. CASE Forget
  BY <1>18 DEF Forget, Goto
<1>19. CASE CloseDescriptor
  BY <1>19 DEF CloseDescriptor, Goto
<1>20. CASE Meddle
  BY <1>20 DEF Meddle
<1>21. CASE Unplug
  BY <1>21 DEF Unplug
<1>22. ASSUME NEW u \in Users, EnterTransfer(u) PROVE Announced'
  BY <1>22 DEF EnterTransfer
<1>23. ASSUME NEW u \in Users, CheckContext(u) PROVE Announced'
  BY <1>23 DEF CheckContext, TransferFails
<1>24. ASSUME NEW u \in Users, RefuseWhileReleasing(u) PROVE Announced'
  BY <1>24 DEF RefuseWhileReleasing, TransferFails
<1>25. ASSUME NEW u \in Users, Ioctl(u) PROVE Announced'
  BY <1>25 DEF Ioctl
<1>26. ASSUME NEW u \in Users, IoctlFails(u) PROVE Announced'
  BY <1>26 DEF IoctlFails, TransferFails
<1>27. CASE UNCHANGED vars
  BY <1>27 DEF vars
<1> QED
  BY <1>1, <1>2, <1>3, <1>4, <1>5, <1>6, <1>7, <1>8, <1>9, <1>10, <1>11, <1>12, <1>13, <1>14,
        <1>15, <1>16, <1>17, <1>18, <1>19, <1>20, <1>21, <1>22, <1>23, <1>24, <1>25, <1>26, <1>27
  DEF Next, Opening, Closing, Transfers

\* Every step keeps the account of the transfers in flight.
LEMMA InFlightStep ==
  ASSUME Shape, InFlight, [Next]_vars
  PROVE  InFlight'
<1> USE DEF kernel, device, history, Shape, Flags, Types, Control, Points, Releasing, InFlight
<1>1. CASE ReadHadDriver
  BY <1>1 DEF ReadHadDriver, Goto, BindingKnown, InterfaceDriverBound
<1>2. CASE ClaimDetaching
  BY <1>2 DEF ClaimDetaching, MarkClaimed
<1>3. CASE ClaimRefused
  BY <1>3 DEF ClaimRefused, Goto, Fault, NoFault
<1>4. CASE DetachDriver
  BY <1>4 DEF DetachDriver, Goto
<1>5. CASE Claim
  BY <1>5 DEF Claim, MarkClaimed
<1>6. CASE ClaimLost
  BY <1>6 DEF ClaimLost, Goto, Fault, NoFault
<1>7. CASE Opened
  BY <1>7 DEF Opened, Goto
<1>8. CASE Bail
  BY <1>8 DEF Bail, Goto
<1>9. CASE Close
  BY <1>9 DEF Close, Goto
<1>10. CASE CloseDevice
  BY <1>10 DEF CloseDevice, Goto
<1>11. CASE Cancel
  BY <1>11 DEF Cancel, Goto
<1>12. CASE MarkReleasing
  BY <1>12 DEF MarkReleasing
<1>13. CASE ReleaseClaim
  BY <1>13 DEF ReleaseClaim, Fault, NoFault
<1>14. CASE Connect
  BY <1>14 DEF Connect, ConnectDriver, Verified, Attached, Fault, NoFault
<1>15. CASE HandBack
  BY <1>15 DEF HandBack, Goto, Fault, NoFault
<1>16. CASE Reconnect
  BY <1>16 DEF Reconnect, ConnectDriver, Verified, Attached, Fault, NoFault
<1>17. CASE DriverRebound
  BY <1>17 DEF DriverRebound, Goto, Attached, BindingKnown, InterfaceDriverBound
<1>18. CASE Forget
  BY <1>18 DEF Forget, Goto
<1>19. CASE CloseDescriptor
  BY <1>19 DEF CloseDescriptor, Goto
<1>20. CASE Meddle
  BY <1>20 DEF Meddle
<1>21. CASE Unplug
  BY <1>21 DEF Unplug
<1>22. ASSUME NEW u \in Users, EnterTransfer(u) PROVE InFlight'
  BY <1>22 DEF EnterTransfer
<1>23. ASSUME NEW u \in Users, CheckContext(u) PROVE InFlight'
  BY <1>23 DEF CheckContext, TransferFails
<1>24. ASSUME NEW u \in Users, RefuseWhileReleasing(u) PROVE InFlight'
  BY <1>24 DEF RefuseWhileReleasing, TransferFails
<1>25. ASSUME NEW u \in Users, Ioctl(u) PROVE InFlight'
  BY <1>25 DEF Ioctl
<1>26. ASSUME NEW u \in Users, IoctlFails(u) PROVE InFlight'
  BY <1>26 DEF IoctlFails, TransferFails
<1>27. CASE UNCHANGED vars
  BY <1>27 DEF vars
<1> QED
  BY <1>1, <1>2, <1>3, <1>4, <1>5, <1>6, <1>7, <1>8, <1>9, <1>10, <1>11, <1>12, <1>13, <1>14,
        <1>15, <1>16, <1>17, <1>18, <1>19, <1>20, <1>21, <1>22, <1>23, <1>24, <1>25, <1>26, <1>27
  DEF Next, Opening, Closing, Transfers

\* Every step keeps what is known of the driver.
LEMMA DriverStep ==
  ASSUME Shape, Driver, [Next]_vars
  PROVE  Driver'
<1> USE DEF kernel, device, history, Shape, Flags, Types, Control, Points, Owners, Releasing, Driver
<1>1. CASE ReadHadDriver
  BY <1>1 DEF ReadHadDriver, Goto, BindingKnown, InterfaceDriverBound
<1>2. CASE ClaimDetaching
  BY <1>2 DEF ClaimDetaching, MarkClaimed
<1>3. CASE ClaimRefused
  BY <1>3 DEF ClaimRefused, Goto, Fault, NoFault
<1>4. CASE DetachDriver
  BY <1>4 DEF DetachDriver, Goto
<1>5. CASE Claim
  BY <1>5 DEF Claim, MarkClaimed
<1>6. CASE ClaimLost
  BY <1>6 DEF ClaimLost, Goto, Fault, NoFault
<1>7. CASE Opened
  BY <1>7 DEF Opened, Goto
<1>8. CASE Bail
  BY <1>8 DEF Bail, Goto
<1>9. CASE Close
  BY <1>9 DEF Close, Goto
<1>10. CASE CloseDevice
  BY <1>10 DEF CloseDevice, Goto
<1>11. CASE Cancel
  BY <1>11 DEF Cancel, Goto
<1>12. CASE MarkReleasing
  BY <1>12 DEF MarkReleasing
<1>13. CASE ReleaseClaim
  BY <1>13 DEF ReleaseClaim, Fault, NoFault
<1>14. CASE Connect
  BY <1>14 DEF Connect, ConnectDriver, Verified, Attached, Fault, NoFault
<1>15. CASE HandBack
  BY <1>15 DEF HandBack, Goto, Fault, NoFault
<1>16. CASE Reconnect
  BY <1>16 DEF Reconnect, ConnectDriver, Verified, Attached, Fault, NoFault
<1>17. CASE DriverRebound
  BY <1>17 DEF DriverRebound, Goto, Attached, BindingKnown, InterfaceDriverBound
<1>18. CASE Forget
  BY <1>18 DEF Forget, Goto
<1>19. CASE CloseDescriptor
  BY <1>19 DEF CloseDescriptor, Goto
<1>20. CASE Meddle
  BY <1>20 DEF Meddle
<1>21. CASE Unplug
  BY <1>21 DEF Unplug
<1>22. ASSUME NEW u \in Users, EnterTransfer(u) PROVE Driver'
  BY <1>22 DEF EnterTransfer
<1>23. ASSUME NEW u \in Users, CheckContext(u) PROVE Driver'
  BY <1>23 DEF CheckContext, TransferFails
<1>24. ASSUME NEW u \in Users, RefuseWhileReleasing(u) PROVE Driver'
  BY <1>24 DEF RefuseWhileReleasing, TransferFails
<1>25. ASSUME NEW u \in Users, Ioctl(u) PROVE Driver'
  BY <1>25 DEF Ioctl
<1>26. ASSUME NEW u \in Users, IoctlFails(u) PROVE Driver'
  BY <1>26 DEF IoctlFails, TransferFails
<1>27. CASE UNCHANGED vars
  BY <1>27 DEF vars
<1> QED
  BY <1>1, <1>2, <1>3, <1>4, <1>5, <1>6, <1>7, <1>8, <1>9, <1>10, <1>11, <1>12, <1>13, <1>14,
        <1>15, <1>16, <1>17, <1>18, <1>19, <1>20, <1>21, <1>22, <1>23, <1>24, <1>25, <1>26, <1>27
  DEF Next, Opening, Closing, Transfers

\* Every step keeps the outcome.
LEMMA SettledStep ==
  ASSUME Shape, Driver, Settled, [Next]_vars
  PROVE  Settled'
<1> USE DEF kernel, device, history, Shape, Flags, Types, Control, Points, Owners, Releasing,
      Driver, Settled
<1>1. CASE ReadHadDriver
  BY <1>1 DEF ReadHadDriver, Goto, BindingKnown, InterfaceDriverBound
<1>2. CASE ClaimDetaching
  BY <1>2 DEF ClaimDetaching, MarkClaimed
<1>3. CASE ClaimRefused
  BY <1>3 DEF ClaimRefused, Goto, Fault, NoFault
<1>4. CASE DetachDriver
  BY <1>4 DEF DetachDriver, Goto
<1>5. CASE Claim
  BY <1>5 DEF Claim, MarkClaimed
<1>6. CASE ClaimLost
  BY <1>6 DEF ClaimLost, Goto, Fault, NoFault
<1>7. CASE Opened
  BY <1>7 DEF Opened, Goto
<1>8. CASE Bail
  BY <1>8 DEF Bail, Goto
<1>9. CASE Close
  BY <1>9 DEF Close, Goto
<1>10. CASE CloseDevice
  BY <1>10 DEF CloseDevice, Goto
<1>11. CASE Cancel
  BY <1>11 DEF Cancel, Goto
<1>12. CASE MarkReleasing
  BY <1>12 DEF MarkReleasing
<1>13. CASE ReleaseClaim
  BY <1>13 DEF ReleaseClaim, Fault, NoFault
<1>14. CASE Connect
  BY <1>14 DEF Connect, ConnectDriver, Verified, Attached, Fault, NoFault
<1>15. CASE HandBack
  BY <1>15 DEF HandBack, Goto, Fault, NoFault
<1>16. CASE Reconnect
  BY <1>16 DEF Reconnect, ConnectDriver, Verified, Attached, Fault, NoFault
<1>17. CASE DriverRebound
  BY <1>17 DEF DriverRebound, Goto, Attached, BindingKnown, InterfaceDriverBound
<1>18. CASE Forget
  BY <1>18 DEF Forget, Goto
<1>19. CASE CloseDescriptor
  BY <1>19 DEF CloseDescriptor, Goto
<1>20. CASE Meddle
  BY <1>20 DEF Meddle
<1>21. CASE Unplug
  BY <1>21 DEF Unplug
<1>22. ASSUME NEW u \in Users, EnterTransfer(u) PROVE Settled'
  BY <1>22 DEF EnterTransfer
<1>23. ASSUME NEW u \in Users, CheckContext(u) PROVE Settled'
  BY <1>23 DEF CheckContext, TransferFails
<1>24. ASSUME NEW u \in Users, RefuseWhileReleasing(u) PROVE Settled'
  BY <1>24 DEF RefuseWhileReleasing, TransferFails
<1>25. ASSUME NEW u \in Users, Ioctl(u) PROVE Settled'
  BY <1>25 DEF Ioctl
<1>26. ASSUME NEW u \in Users, IoctlFails(u) PROVE Settled'
  BY <1>26 DEF IoctlFails, TransferFails
<1>27. CASE UNCHANGED vars
  BY <1>27 DEF vars
<1> QED
  BY <1>1, <1>2, <1>3, <1>4, <1>5, <1>6, <1>7, <1>8, <1>9, <1>10, <1>11, <1>12, <1>13, <1>14,
        <1>15, <1>16, <1>17, <1>18, <1>19, <1>20, <1>21, <1>22, <1>23, <1>24, <1>25, <1>26, <1>27
  DEF Next, Opening, Closing, Transfers

\* Every step keeps out a goroutine that has had its stray transfer.
LEMMA OnceStep ==
  ASSUME Shape, InFlight, Once, [Next]_vars
  PROVE  Once'
<1> USE DEF kernel, device, history, Shape, Flags, Types, Control, Points, Releasing, InFlight,
        Once
<1>1. CASE ReadHadDriver
  BY <1>1 DEF ReadHadDriver, Goto, BindingKnown, InterfaceDriverBound
<1>2. CASE ClaimDetaching
  BY <1>2 DEF ClaimDetaching, MarkClaimed
<1>3. CASE ClaimRefused
  BY <1>3 DEF ClaimRefused, Goto, Fault, NoFault
<1>4. CASE DetachDriver
  BY <1>4 DEF DetachDriver, Goto
<1>5. CASE Claim
  BY <1>5 DEF Claim, MarkClaimed
<1>6. CASE ClaimLost
  BY <1>6 DEF ClaimLost, Goto, Fault, NoFault
<1>7. CASE Opened
  BY <1>7 DEF Opened, Goto
<1>8. CASE Bail
  BY <1>8 DEF Bail, Goto
<1>9. CASE Close
  BY <1>9 DEF Close, Goto
<1>10. CASE CloseDevice
  BY <1>10 DEF CloseDevice, Goto
<1>11. CASE Cancel
  BY <1>11 DEF Cancel, Goto
<1>12. CASE MarkReleasing
  BY <1>12 DEF MarkReleasing
<1>13. CASE ReleaseClaim
  BY <1>13 DEF ReleaseClaim, Fault, NoFault
<1>14. CASE Connect
  BY <1>14 DEF Connect, ConnectDriver, Verified, Attached, Fault, NoFault
<1>15. CASE HandBack
  BY <1>15 DEF HandBack, Goto, Fault, NoFault
<1>16. CASE Reconnect
  BY <1>16 DEF Reconnect, ConnectDriver, Verified, Attached, Fault, NoFault
<1>17. CASE DriverRebound
  BY <1>17 DEF DriverRebound, Goto, Attached, BindingKnown, InterfaceDriverBound
<1>18. CASE Forget
  BY <1>18 DEF Forget, Goto
<1>19. CASE CloseDescriptor
  BY <1>19 DEF CloseDescriptor, Goto
<1>20. CASE Meddle
  BY <1>20 DEF Meddle
<1>21. CASE Unplug
  BY <1>21 DEF Unplug
<1>22. ASSUME NEW u \in Users, EnterTransfer(u) PROVE Once'
  BY <1>22 DEF EnterTransfer
<1>23. ASSUME NEW u \in Users, CheckContext(u) PROVE Once'
  BY <1>23 DEF CheckContext, TransferFails
<1>24. ASSUME NEW u \in Users, RefuseWhileReleasing(u) PROVE Once'
  BY <1>24 DEF RefuseWhileReleasing, TransferFails
<1>25. ASSUME NEW u \in Users, Ioctl(u) PROVE Once'
  BY <1>25 DEF Ioctl
<1>26. ASSUME NEW u \in Users, IoctlFails(u) PROVE Once'
  BY <1>26 DEF IoctlFails, TransferFails
<1>27. CASE UNCHANGED vars
  BY <1>27 DEF vars
<1> QED
  BY <1>1, <1>2, <1>3, <1>4, <1>5, <1>6, <1>7, <1>8, <1>9, <1>10, <1>11, <1>12, <1>13, <1>14,
        <1>15, <1>16, <1>17, <1>18, <1>19, <1>20, <1>21, <1>22, <1>23, <1>24, <1>25, <1>26, <1>27
  DEF Next, Opening, Closing, Transfers

\* Each stray transfer counts for one.
LEMMA StraysCounted ==
  ASSUME Types
  PROVE  /\ Cardinality(strays) \in Nat /\ (Cardinality(strays) = 0 <=> strays = {})
         /\ \A u \in Users \ strays : Cardinality(strays \cup {u}) = Cardinality(strays) + 1
<1>1. IsFiniteSet(strays)
  BY FS_Subset DEF Types
<1> QED
  BY <1>1, FS_CardinalityType, FS_EmptySet, FS_AddElement

\* Every step keeps the course of a run in which at most one thing goes wrong.
LEMMA CourseStep ==
  ASSUME Shape, Counters, InFlight, Driver, Once, Course, [Next]_vars
  PROVE  Course'
<1>0. /\ Cardinality(strays) \in Nat /\ (Cardinality(strays) = 0 <=> strays = {})
      /\ \A u \in Users \ strays : Cardinality(strays \cup {u}) = Cardinality(strays) + 1
  BY StraysCounted DEF Shape
<1> USE <1>0 DEF kernel, device, history, Shape, Flags, Types, Control, Points, Owners, Releasing,
        Counters, InFlight, Driver, Once, Mishaps, Calm, Course
<1>1. CASE ReadHadDriver
  BY <1>1 DEF ReadHadDriver, Goto, BindingKnown, InterfaceDriverBound
<1>2. CASE ClaimDetaching
  BY <1>2 DEF ClaimDetaching, MarkClaimed
<1>3. CASE ClaimRefused
  BY <1>3 DEF ClaimRefused, Goto, Fault, NoFault
<1>4. CASE DetachDriver
  BY <1>4 DEF DetachDriver, Goto
<1>5. CASE Claim
  BY <1>5 DEF Claim, MarkClaimed
<1>6. CASE ClaimLost
  BY <1>6 DEF ClaimLost, Goto, Fault, NoFault
<1>7. CASE Opened
  BY <1>7 DEF Opened, Goto
<1>8. CASE Bail
  BY <1>8 DEF Bail, Goto
<1>9. CASE Close
  BY <1>9 DEF Close, Goto
<1>10. CASE CloseDevice
  BY <1>10 DEF CloseDevice, Goto
<1>11. CASE Cancel
  BY <1>11 DEF Cancel, Goto
<1>12. CASE MarkReleasing
  BY <1>12 DEF MarkReleasing
<1>13. CASE ReleaseClaim
  BY <1>13 DEF ReleaseClaim, Fault, NoFault
<1>14. CASE Connect
  BY <1>14 DEF Connect, ConnectDriver, Verified, Attached, Fault, NoFault
<1>15. CASE HandBack
  BY <1>15 DEF HandBack, Goto, Fault, NoFault
<1>16. CASE Reconnect
  BY <1>16 DEF Reconnect, ConnectDriver, Verified, Attached, Fault, NoFault
<1>17. CASE DriverRebound
  BY <1>17 DEF DriverRebound, Goto, Attached, BindingKnown, InterfaceDriverBound
<1>18. CASE Forget
  BY <1>18 DEF Forget, Goto
<1>19. CASE CloseDescriptor
  BY <1>19 DEF CloseDescriptor, Goto
<1>20. CASE Meddle
  BY <1>20 DEF Meddle
<1>21. CASE Unplug
  BY <1>21 DEF Unplug
<1>22. ASSUME NEW u \in Users, EnterTransfer(u) PROVE Course'
  BY <1>22 DEF EnterTransfer
<1>23. ASSUME NEW u \in Users, CheckContext(u) PROVE Course'
  BY <1>23 DEF CheckContext, TransferFails
<1>24. ASSUME NEW u \in Users, RefuseWhileReleasing(u) PROVE Course'
  BY <1>24 DEF RefuseWhileReleasing, TransferFails
<1>25. ASSUME NEW u \in Users, Ioctl(u) PROVE Course'
  BY <1>25 DEF Ioctl
<1>26. ASSUME NEW u \in Users, IoctlFails(u) PROVE Course'
  BY <1>26 DEF IoctlFails, TransferFails
<1>27. CASE UNCHANGED vars
  BY <1>27 DEF vars
<1> QED
  BY <1>1, <1>2, <1>3, <1>4, <1>5, <1>6, <1>7, <1>8, <1>9, <1>10, <1>11, <1>12, <1>13, <1>14,
        <1>15, <1>16, <1>17, <1>18, <1>19, <1>20, <1>21, <1>22, <1>23, <1>24, <1>25, <1>26, <1>27
  DEF Next, Opening, Closing, Transfers

Inv == Shape /\ Counters /\ Announced /\ InFlight /\ Driver /\ Settled /\ Once /\ Course

LEMMA Invariant == Spec => []Inv
<1>1. Init => Inv
  <2> USE DEF Init
  <2>1. Init => Flags /\ Types
    BY DEF Flags, Types, Points, Owners
  <2>2. Init => Control
    BY DEF Control, Releasing
  <2>3. Init => Counters
    BY DEF Counters
  <2>4. Init => Announced /\ InFlight
    BY DEF Announced, InFlight
  <2>5. Init => Driver /\ Settled
    BY DEF Driver, Settled
  <2>6. Init => Once /\ Course
    BY DEF Once, Course, Calm
  <2> QED
    BY <2>1, <2>2, <2>3, <2>4, <2>5, <2>6 DEF Inv, Shape
<1>2. Inv /\ [Next]_vars => Inv'
  BY FlagsStep, TypesStep, ControlStep, CountersStep, AnnouncedStep, InFlightStep, DriverStep,
        SettledStep, OnceStep, CourseStep
     DEF Inv, Shape
<1> QED
  BY <1>1, <1>2, PTL DEF Spec

\* Types hold, and releasing is up for exactly the span of ReleaseInterface.
THEOREM UsbfsTypeCorrect == Spec => []TypeOK
<1>1. Inv => TypeOK
  BY DEF Inv, TypeOK, Shape, Control, Releasing
<1> QED
  BY <1>1, Invariant, PTL

\* The driver that was bound before the claim is back at the end, or reported, on
\* every path of claim and release that can tell.
THEOREM DriverAccountedFor == Spec => []DriverBackOrReported
<1>1. Inv => DriverBackOrReported
  BY DEF Inv, DriverBackOrReported, Settled, Shape, Control
<1> QED
  BY <1>1, Invariant, PTL

\* One thing that goes wrong costs nothing: the second question to the kernel finds
\* the interface free, whichever it was, unless it is the question itself that fails,
\* which is reported.
THEOREM MishapSurvived == Spec => []OneMishapCostsNothing
<1>1. Inv => OneMishapCostsNothing
  BY DEF Inv, OneMishapCostsNothing, Course, Calm, Mishaps
<1> QED
  BY <1>1, Invariant, PTL

\* ReleaseInterface keeps out every transfer that had not made its last check
\* when it began.
THEOREM OnlyInFlightStrays == Spec => []StraysWereInFlight
<1>1. Inv => StraysWereInFlight
  BY DEF Inv, StraysWereInFlight, InFlight
<1> QED
  BY <1>1, Invariant, PTL

\* No transfer refused by a Close is reported as a failure of the link.
THEOREM RefusedAsClosed == Spec => []RefusalIsClosed
<1>1. Inv => RefusalIsClosed
  BY DEF Inv, RefusalIsClosed, Announced
<1> QED
  BY <1>1, Invariant, PTL

\* The alarm of a driver that did not bind again is raised only for an interface
\* that had one and has none.
THEOREM AlarmJustified == Spec => AlarmMeansLoss
<1> DEFINE A == "notRebound" \in errs' /\ "notRebound" \notin errs => before # "none" /\ owner = "none"
<1>1. Inv /\ [Next]_vars => [A]_vars
  <2> SUFFICES ASSUME Inv, Next, "notRebound" \in errs', "notRebound" \notin errs
               PROVE  before # "none" /\ owner = "none"
    OBVIOUS
  <2>1. DriverRebound
    BY DEF Next, Opening, Closing, Transfers, kernel, device, history, ReadHadDriver,
          ClaimDetaching, ClaimRefused, DetachDriver, Claim, ClaimLost, Opened, Bail, Close,
          CloseDevice, Cancel, MarkReleasing, ReleaseClaim, Connect, HandBack, Reconnect, Forget,
          CloseDescriptor, EnterTransfer, CheckContext, RefuseWhileReleasing, Ioctl, IoctlFails,
          Meddle, Unplug, ConnectDriver, Fault, NoFault
  <2> QED
    BY <2>1 DEF DriverRebound, Goto, BindingKnown, InterfaceDriverBound, Inv, Driver
<1> QED
  BY <1>1, Invariant, PTL DEF Spec, AlarmMeansLoss
=============================================================================
