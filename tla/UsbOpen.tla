------------------------------ MODULE UsbOpen -------------------------------
(***************************************************************************)
(* Opening a unit over usbfs: bootloader.ConnectWithOptions, which looks   *)
(* for a unit in the bootloader until its window closes, and               *)
(* usbmidi.OpenAuto, which looks once for the one unit there is.  Between  *)
(* any two steps the bus may change.                                       *)
(***************************************************************************)
EXTENDS Bus

VARIABLES
  route,         \* "bootloader", or "usb": USB-MIDI
  failFast,      \* ConnectOptions.FailFastOnApplicationMode: no jump is in flight
  refs,          \* the candidates that are left
  cache,         \* Device.cfg, None until the descriptors are read
  face,          \* the interface picked
  claimed,       \* is it in Device.claimed?
  allApp,        \* connectFailure.allApplicationMode so far
  reset          \* history: configured units whose configuration was selected again

looking == <<route, failFast>>
device == <<cache, face, claimed>>
pass == <<refs, allApp>>
usbVars == <<looking, device, pass, reset>>

UsbInit ==
  /\ failFast \in BOOLEAN
  /\ refs = {} /\ allApp = FALSE /\ reset = {}
  /\ cache = None /\ face = None /\ claimed = FALSE

\* By address; this is the one at hand.
ref == CHOOSE r \in refs : \A s \in refs : r.address <= s.address

\* Is the unit on this address the one enumeration saw there?
Genuine == file.unit = ref.unit

-----------------------------------------------------------------------------
\* A pass over the bus

\* usbfs.EnumerateIn: the devices of the vendor.
Enumerated ==
  {[unit |-> u, address |-> bus[u].address] : u \in {u \in Present : ShapeOf(u).vendor = "ours"}}

Look ==
  /\ refs' = Enumerated /\ undisturbed' = Present
  /\ UNCHANGED <<bus, file, hotplugs, looking, device, reset>>

EnumerateCandidates ==
  /\ pc = "enumerate" /\ route = "bootloader" /\ Look
  /\ Goto("enumerate", IF refs' = {} THEN "judge" ELSE "open")
  /\ allApp' = (refs' # {})

\* usbmidi.OpenAuto: the single one attached, or none.
EnumerateSingle ==
  /\ pc = "enumerate" /\ route = "usb" /\ Look
  /\ IF Sole(refs') THEN Goto("enumerate", "open")
     ELSE End("enumerate", IF refs' = {} THEN "absent" ELSE "ambiguous")
  /\ UNCHANGED allApp

\* Mutant of NextCandidate: the first candidate that fails ends the pass.
OneCandidate(err) ==
  /\ allApp' = (err = "application") /\ refs' = {}
  /\ Goto(pc, "judge")

\* The next candidate, or the verdict on the pass.
NextCandidate(err) ==
  /\ allApp' = (allApp /\ err = "application")
  /\ refs' = refs \ {ref}
  /\ Goto(pc, IF Sole(refs) THEN "judge" ELSE "open")

\* Mutant of Fail: an error path that forgets the Close.
FailOpen(err) ==
  /\ UNCHANGED <<file, looking>> /\ cache' = None /\ face' = None /\ claimed' = FALSE
  /\ \/ route = "bootloader" /\ NextCandidate(err)
     \/ route = "usb" /\ End(pc, err) /\ UNCHANGED pass

\* Whatever was opened and claimed for this candidate is given back.
Fail(err) ==
  /\ file' = NoFile /\ cache' = None /\ face' = None /\ claimed' = FALSE
  /\ UNCHANGED looking
  /\ \/ route = "bootloader" /\ NextCandidate(err)
     \/ route = "usb" /\ End(pc, err) /\ UNCHANGED pass

-----------------------------------------------------------------------------
\* One candidate

\* The node is opened by its address, whoever is there by now.
OpenNode ==
  /\ pc = "open"
  /\ \/ \E u \in Openable(ref.address) :
          /\ file' = [unit |-> u, live |-> TRUE]
          /\ Goto("open", IF route = "bootloader" THEN "configuration" ELSE "descriptors")
          /\ UNCHANGED <<looking, device, pass>>
     \/ Openable(ref.address) = {} /\ Fail(Refusal(ref.address))
  /\ UNCHANGED <<bus, hotplugs, undisturbed, reset>>

\* sysfsConfiguration: the attribute of the port, whoever is on it by now; no
\* answer if nobody is.
SysfsConfiguration == {bus[u].configuration : u \in {ref.unit} \intersect Present}

\* Mutant of ReadConfiguration: configuration 1 is selected without asking.
SelectUnasked == Goto("configuration", "unset") /\ UNCHANGED <<machine, usbVars>>

\* EnsureConfigured reads first, from sysfs or, failing that, with
\* GET_CONFIGURATION.  ErrConfigUnknown is no reason to stop, nor to select.
ReadConfiguration ==
  /\ pc = "configuration"
  /\ \/ \E v \in SysfsConfiguration : Goto("configuration", IF v = 0 THEN "unset" ELSE "descriptors")
     \/ /\ SysfsConfiguration = {} /\ file.live
        /\ Goto("configuration",
                IF bus[file.unit].configuration = 0 THEN "unset" ELSE "descriptors")
     \/ SysfsConfiguration = {} /\ Goto("configuration", "descriptors")
  /\ UNCHANGED <<machine, usbVars>>

\* Device.Descriptors: the blob comes from the unit behind the descriptor, the
\* configuration it is narrowed to from the port enumeration saw.
Active == IF SysfsConfiguration = {} THEN 0 ELSE CHOOSE v \in SysfsConfiguration : TRUE

Read(l) == Restricted(l, Active)

\* "The device at this bus address was replaced."
Replaced(cfg) == cfg.vendor \notin {"unknown", "ours"}

KeepForSelection(cfg) ==
  cache' = cfg /\ Goto("unset", "select") /\ UNCHANGED <<file, looking, face, claimed, pass>>

Take(faces, err, cfg) ==
  IF faces = {} THEN Fail(err)
  ELSE /\ face' = First(faces) /\ cache' = cfg /\ Goto("descriptors", "claim")
       /\ UNCHANGED <<file, looking, claimed, pass>>

Judge(cfg) ==
  IF route = "usb" THEN Take(SelectInterface(cfg), "interface", cfg)
  ELSE IF InApplicationMode(cfg) THEN Fail("application")
  ELSE Take(PickBootloaderInterface(cfg), "interface", cfg)

\* The first reading is for EnsureConfigured, the second for the caller.
Use(cfg) ==
  \/ pc = "unset" /\ KeepForSelection(cfg)
  \/ pc = "descriptors" /\ Judge(cfg)

DescriptorsRead ==
  \/ cache # None /\ Use(cache)
  \/ /\ cache = None /\ file.live
     /\ IF Malformed(ShapeOf(file.unit).blob) THEN Fail("malformed")
        ELSE IF Replaced(Parsed[bus[file.unit].layout]) THEN Fail("replaced")
        ELSE Use(Read(bus[file.unit].layout))
  \/ cache = None /\ ~file.live /\ Fail("gone")

ReadUnconfigured ==
  /\ pc = "unset" /\ DescriptorsRead
  /\ UNCHANGED <<bus, hotplugs, undisturbed, reset>>

\* Mutant of SetConfiguration: the cached descriptors stay.
SetConfigurationOnly ==
  /\ Goto("select", "descriptors")
  /\ file.live
  /\ bus' = [bus EXCEPT ![file.unit].configuration = FirstConfigurationValue(cache)]
  /\ UNCHANGED <<file, hotplugs, undisturbed, looking, device, pass, reset>>

\* SetConfiguration drops the descriptors: they were narrowed for another
\* configuration, or for none.
SetConfiguration ==
  /\ Goto("select", "descriptors")
  /\ file.live
  /\ bus' = [bus EXCEPT ![file.unit].configuration = FirstConfigurationValue(cache)]
  /\ reset' = reset \union
       {u \in {file.unit} : Genuine /\ bus[u].configuration # 0}
  /\ cache' = None
  /\ UNCHANGED <<file, hotplugs, undisturbed, looking, face, claimed, pass>>

\* A request that needs the unit, and does not get it.
Refused == \/ ~file.live /\ UNCHANGED <<bus, hotplugs, undisturbed>>
           \/ file.live /\ Stalls

SetConfigurationFails ==
  pc = "select" /\ Refused /\ Fail("configuration") /\ UNCHANGED reset

ReadDescriptors ==
  /\ pc = "descriptors" /\ DescriptorsRead
  /\ UNCHANGED <<bus, hotplugs, undisturbed, reset>>

\* The kernel knows the interface by its number in the configuration in force.
\* What follows for a bootloader, SET_CONTROL_LINE_STATE, may fail unnoticed.
ClaimInterface ==
  /\ pc = "claim"
  /\ file.live /\ \E f \in InForce(file.unit) : f.number = face.number
  /\ claimed' = TRUE
  /\ IF face.alt = 0 THEN End("claim", "opened") ELSE Goto("claim", "alt")
  /\ UNCHANGED <<machine, looking, cache, face, pass, reset>>

ClaimFails ==
  /\ pc = "claim"
  /\ \/ Refused
     \/ /\ file.live /\ \A f \in InForce(file.unit) : f.number # face.number
        /\ UNCHANGED <<bus, hotplugs, undisturbed>>
  /\ Fail("claim") /\ UNCHANGED reset

SetInterface == End("alt", "opened") /\ file.live /\ UNCHANGED <<machine, usbVars>>

SetInterfaceFails == pc = "alt" /\ Refused /\ Fail("alt") /\ UNCHANGED reset

-----------------------------------------------------------------------------
\* The verdict on a pass

NothingToWaitFor == failFast /\ allApp

GiveUp ==
  /\ \/ NothingToWaitFor /\ End("judge", "application")
     \/ ~NothingToWaitFor /\ expired /\ End("judge", "window")
  /\ UNCHANGED <<machine, usbVars>>

WaitToRetry == ~NothingToWaitFor /\ ~expired /\ Goto("judge", "wait") /\ UNCHANGED <<machine, usbVars>>

Retry == ~called /\ Goto("wait", "enumerate") /\ UNCHANGED <<machine, usbVars>>
Interrupted == called /\ End("wait", "interrupted") /\ UNCHANGED <<machine, usbVars>>

UsbStep ==
  \/ EnumerateCandidates \/ EnumerateSingle
  \/ OpenNode \/ ReadConfiguration \/ ReadUnconfigured
  \/ SetConfiguration \/ SetConfigurationFails \/ ReadDescriptors
  \/ ClaimInterface \/ ClaimFails \/ SetInterface \/ SetInterfaceFails
  \/ GiveUp \/ WaitToRetry \/ Retry \/ Interrupted
=============================================================================
