------------------------------- MODULE Opening ------------------------------
(***************************************************************************)
(* Which device is this?  The three ways a command gets hold of a unit, on *)
(* a machine where units come and go between any two of its steps: over    *)
(* ALSA, over usbfs as USB-MIDI, and over usbfs as a bootloader.           *)
(***************************************************************************)
EXTENDS UsbOpen, Ports

openingVars == <<machine, command, usbVars, portVars>>

\* A card without a USB parent is not on the bus that usbfs looks at.

OpeningInit ==
  /\ BusInit /\ UsbInit /\ PortsInit
  /\ \/ route \in {"bootloader", "usb"} /\ pc = "enumerate" /\ hint.by = "none"
     \/ route = "rawmidi" /\ pc = "vendors" /\ failFast = FALSE
  /\ route = "usb" => failFast = FALSE
  /\ route # "rawmidi" => \A u \in Present : ShapeOf(u).vendor # "virtual"

OverUsb == route # "rawmidi" /\ UsbStep /\ UNCHANGED portVars
OverAlsa == route = "rawmidi" /\ PortStep /\ UNCHANGED usbVars
Machine == pc # "end" /\ (Hotplug \/ Cancel \/ Expire) /\ UNCHANGED <<usbVars, portVars>>

OpeningNext == OverUsb \/ OverAlsa \/ Machine

\* The command keeps going, and its window closes however often it has to look
\* at the clock; the bus, and the operator, owe it nothing.
OpeningSpec ==
  /\ OpeningInit /\ [][OpeningNext]_openingVars
  /\ WF_openingVars(OverUsb \/ OverAlsa)
  /\ SF_openingVars(Expire /\ UNCHANGED <<usbVars, portVars>>)

-----------------------------------------------------------------------------
\* Properties

\* Is this a unit that could be flashed as it stands: ours, in its bootloader,
\* its node free and its configuration, or the one that would be selected for
\* it, with an interface for it?
Claimable(u) ==
  LET cfg == Parsed[bus[u].layout]
      configuration == IF bus[u].configuration = 0 THEN FirstConfigurationValue(cfg)
                       ELSE bus[u].configuration
  IN /\ On(u) /\ ShapeOf(u).vendor = "ours" /\ ShapeOf(u).mode = "bootloader"
     /\ bus[u].access = "free"
     /\ \E f \in cfg.interfaces : Paired(f) /\ f.configuration = configuration

\* What is claimed to be flashed is one of ours and, unless another of ours took
\* over the address it was enumerated at, it is not running its application and
\* the interface is one of the configuration it is in.  A unit that resets, one
\* that takes a freed address, an unconfigured one and one with several
\* configurations all pass through these steps; and none that has a configuration
\* is made to select it again, which would reset it on the eve of the flash.
ClaimsOnlyABootloader ==
  /\ route = "bootloader" /\ claimed /\ file.live =>
       /\ ShapeOf(file.unit).vendor = "ours"
       /\ Genuine => /\ ShapeOf(file.unit).mode = "bootloader"
                     /\ face \in InForce(file.unit)
  /\ reset = {}

\* What is opened without --port is the only VFLEX there was since the machine
\* was last looked at.  Another device is opened for it only if nobody can tell
\* whose it is, and then with a warning; a unit that took the place of the one
\* found is the exception.
OpenedIsMeant ==
  outcome = "opened" /\ route # "bootloader" /\ hint.by = "none" /\ file.live =>
    /\ \A u \in undisturbed :
         ShapeOf(u).vendor = "ours" /\ (route = "usb" \/ ShapeOf(u).card) => u = file.unit
    /\ file.unit \in undisturbed =>
         \/ ShapeOf(file.unit).vendor = "ours"
         \/ ShapeOf(file.unit).vendor = "virtual" /\ warned # "nothing"

\* No unit that could be flashed, and that nothing has happened to since the
\* last look at the bus, is given up on: not at the end of the window, and not
\* on the ground that every candidate runs its application.
ReadyIsClaimed ==
  outcome \in {"window", "application"} => \A u \in undisturbed : ~Claimable(u)

\* Opening ends, one way or the other, and with nothing left open if it failed.
OpeningEnds == <>[](/\ pc = "end"
                    /\ outcome # "opened" => file = NoFile /\ ~claimed)
=============================================================================
