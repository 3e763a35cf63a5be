---------------------------- MODULE Descriptors -----------------------------
(***************************************************************************)
(* internal/usbfs/descriptors.go and what picks an interface out of its    *)
(* result: the flattened descriptor blob of a device taken apart again,    *)
(* the narrowing to the configuration in force, and the two selection      *)
(* rules, the bootloader's and USB-MIDI's.                                 *)
(*                                                                         *)
(* A descriptor is a record: its type, whether its bLength is "tiny"       *)
(* (below the two bytes of a header), "short" (of the type's minimum),     *)
(* "full", or "over" (past the end of the blob), and the fields that are   *)
(* read of that type.                                                      *)
(***************************************************************************)
EXTENDS Integers, Sequences

Full(d, type) == d.type = type /\ d.length = "full"

\* A truncated tail ends the walk; what came before it is kept.
Walked(blob) ==
  LET cut == {i \in DOMAIN blob : blob[i].length = "over"}
  IN IF cut = {} THEN blob ELSE SubSeq(blob, 1, (CHOOSE i \in cut : \A j \in cut : i <= j) - 1)

\* ErrBadDescriptor
Malformed(blob) ==
  \/ blob = <<>> \/ blob[1].type # "device"
  \/ \E i \in DOMAIN Walked(blob) : blob[i].length = "tiny"

\* Of what was found in the blob, the one that stands first.
First(found) == CHOOSE f \in found : \A g \in found : f.at <= g.at

\* An interface belongs to the configuration descriptor that most recently
\* preceded it, and to none, 0, if it preceded them all.
ConfigurationOf(walk, i) ==
  LET before == {j \in 1..i : Full(walk[j], "config")}
  IN IF before = {} THEN 0 ELSE walk[CHOOSE j \in before : \A k \in before : k <= j].value

\* The endpoints that follow it, up to the next interface or configuration.
EndpointsOf(walk, i) ==
  {[direction |-> walk[j].direction, data |-> walk[j].data] : j \in {j \in i + 1..Len(walk) :
     /\ Full(walk[j], "endpoint")
     /\ \A k \in i + 1..j : ~Full(walk[k], "interface") /\ ~Full(walk[k], "config")}}

InterfaceAt(walk, i) ==
  [at |-> i, number |-> walk[i].number, alt |-> walk[i].alt, class |-> walk[i].class,
   midi |-> walk[i].midi, endpoints |-> EndpointsOf(walk, i),
   configuration |-> ConfigurationOf(walk, i)]

Positions(walk, type) == {i \in DOMAIN walk : Full(walk[i], type)}

\* Config.VendorID: "unknown" when no device descriptor was long enough.
VendorIn(walk) ==
  LET at == Positions(walk, "device")
  IN IF at = {} THEN "unknown" ELSE walk[CHOOSE i \in at : \A j \in at : j <= i].vendor

ParsedWalk(walk) ==
  [vendor |-> VendorIn(walk), active |-> 0,
   interfaces |-> {InterfaceAt(walk, i) : i \in Positions(walk, "interface")},
   configurations |-> {[at |-> i, value |-> walk[i].value] : i \in Positions(walk, "config")}]

ParseDescriptors(blob) == ParsedWalk(Walked(blob))

\* A declared 0 is skipped: selecting it would deconfigure the device.
FirstConfigurationValue(cfg) ==
  LET declared == {c \in cfg.configurations : c.value # 0}
  IN IF declared = {} THEN 1 ELSE First(declared).value

InterfacesIn(cfg, value) == {f \in cfg.interfaces : f.configuration = value}

Several(cfg) == \E c, d \in cfg.configurations : c # d

\* The interfaces that are left once it is known which configuration is in force.
RestrictToActive(cfg, active) ==
  IF active # 0 /\ Several(cfg) /\ InterfacesIn(cfg, active) # {}
  THEN InterfacesIn(cfg, active) ELSE cfg.interfaces

-----------------------------------------------------------------------------
\* bootloader: which interface of which unit may be flashed

\* A MIDIStreaming interface says that the application runs.  On the vendor
\* class it says so only beside another one, which is then the bootloader's.
InApplicationMode(cfg) ==
  \/ \E f \in cfg.interfaces : f.class = "audio" /\ f.midi
  \/ /\ \E f \in cfg.interfaces : f.class = "vendor" /\ f.midi
     /\ \E f \in cfg.interfaces : f.class = "vendor" /\ ~f.midi

\* The endpoint pair is tested for direction alone.
Paired(f) == f.class = "vendor" /\ {e.direction : e \in f.endpoints} = {"in", "out"}

\* pickVendorInterface: an interface of the active configuration, or failing
\* that one that belongs to no configuration at all.
PickVendor(cfg, skipMIDI) ==
  LET candidates == {f \in cfg.interfaces : Paired(f) /\ ~(skipMIDI /\ f.midi)}
      active == {f \in candidates : cfg.active \in {0, f.configuration}}
  IN IF active # {} THEN active ELSE {f \in candidates : f.configuration = 0}

\* The candidates of the better kind: the first is the one picked.
PickBootloaderInterface(cfg) ==
  IF PickVendor(cfg, TRUE) # {} THEN PickVendor(cfg, TRUE) ELSE PickVendor(cfg, FALSE)

-----------------------------------------------------------------------------
\* usbmidi: which interface speaks USB-MIDI, the audio class preferred

\* endpointsFor: bulk or interrupt endpoints only, one in each direction.
Usable(f) == f.midi /\ {e.direction : e \in {e \in f.endpoints : e.data}} = {"in", "out"}

SelectInterface(cfg) ==
  LET usable(class) == {f \in cfg.interfaces : Usable(f) /\ f.class = class}
  IN IF usable("audio") # {} THEN usable("audio") ELSE usable("vendor")
=============================================================================
