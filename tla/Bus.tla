-------------------------------- MODULE Bus ---------------------------------
(***************************************************************************)
(* The machine a device is looked for on, external to the program: units   *)
(* come and go, change mode by dropping off the bus and coming back, and   *)
(* their device nodes are denied to the user until udev has applied its    *)
(* rule.  An address that a unit leaves is given to the next one.  One     *)
(* number stands for the usbfs address and for the sound card's.           *)
(***************************************************************************)
EXTENDS Integers, Descriptors

CONSTANTS
  Units,         \* what may be plugged in; each has a port, and a sysfs directory, of its own
  Addresses,     \* bus addresses and card numbers, lowest first
  Layouts,       \* the shapes a unit may have
  LayoutsOf,     \* unit -> the ones this unit may have
  Shape,         \* layout -> its descriptors, vendor, mode; whether its name says "vflex",
                 \* it has a sound card; and the configurations it may be found in
  MaxHotplug,    \* bound: events on the bus
  None

\* What the blob of each shape parses to.
Parsed == [l \in Layouts |-> ParseDescriptors(Shape[l].blob)]

\* The descriptors left of it in a configuration, 0 for one that is not known.
Restricted(l, active) ==
  [vendor |-> Parsed[l].vendor, active |-> active,
   interfaces |-> RestrictToActive(Parsed[l], active), configurations |-> Parsed[l].configurations]

\* The configurations a unit may be in, 0 for none.
Configurations(l) == Shape[l].found \union {FirstConfigurationValue(Parsed[l])}

ASSUME BusAssumption ==
  /\ Addresses \subseteq Nat \ {0} /\ MaxHotplug \in Nat
  /\ \A u \in Units : LayoutsOf[u] \subseteq Layouts
  /\ None \notin Units

\* Descriptors tell the truth.  A device descriptor says who made the unit.  Of ours
\* they are well-formed, each of their interfaces belongs to a configuration, and
\* they have the mark of the application if and only if the application runs.
ASSUME ShapeAssumption ==
  \A l \in Layouts :
    /\ \A i \in DOMAIN Shape[l].blob : i \in Nat
    /\ Parsed[l].vendor # "unknown" /\ (Parsed[l].vendor = "ours" <=> Shape[l].vendor = "ours")
    /\ Shape[l].vendor \in {"ours", "other", "virtual"}
    /\ Shape[l].vendor = "ours" =>
         /\ ~Malformed(Shape[l].blob)
         /\ \A f \in Parsed[l].interfaces : f.configuration # 0
         /\ \A c \in Configurations(l) \ {0} :
              InApplicationMode(Restricted(l, c)) <=> Shape[l].mode # "bootloader"

\* The one member of a set that has no other.
Sole(S) == \E x \in S : S = {x}

VARIABLES      \* the machine
  bus,           \* unit -> where it is, in which shape, and who may open its node
  file,          \* the process's descriptor: the unit behind it, and is that still there?
  hotplugs,
  undisturbed    \* history: units nothing has happened to since the last look at the bus
VARIABLES      \* the command that opens a device
  pc,
  called,        \* has its context ended?
  expired,       \* has its window closed?
  outcome

machine == <<bus, file, hotplugs, undisturbed>>
command == <<pc, called, expired, outcome>>

Off == [state |-> "off"]
Resetting == [state |-> "resetting"]
On(u) == bus[u].state = "on"
Present == {u \in Units : On(u)}
ShapeOf(u) == Shape[bus[u].layout]
At(address) == {u \in Present : bus[u].address = address}

\* A configuration is selected by the kernel at enumeration, or none is.
Attachments(l) ==
  [state : {"on"}, layout : {l}, address : Addresses, access : {"denied", "free"},
   configuration : Shape[l].found]

NoFile == [unit |-> None, live |-> FALSE]

Gone(u) == file' = IF file.unit = u THEN [file EXCEPT !.live = FALSE] ELSE file

Happens(u, there) ==
  /\ hotplugs < MaxHotplug /\ hotplugs' = hotplugs + 1
  /\ bus' = [bus EXCEPT ![u] = there]
  /\ undisturbed' = undisturbed \ {u}

\* A unit that resets comes back as a bootloader; any other as it pleases.
PlugIn(u) ==
  /\ ~On(u)
  /\ \E l \in LayoutsOf[u] : \E there \in Attachments(l) :
       /\ bus[u].state = "resetting" => Shape[l].mode = "bootloader"
       /\ At(there.address) = {} /\ Happens(u, there)
  /\ UNCHANGED <<file, command>>

PullOut(u) == On(u) /\ Happens(u, Off) /\ Gone(u) /\ UNCHANGED command

\* The jump was asked for before: the unit leaves the bus to come back.
Jump(u) ==
  /\ On(u) /\ ShapeOf(u).mode = "application" /\ ShapeOf(u).vendor = "ours"
  /\ Happens(u, Resetting) /\ Gone(u) /\ UNCHANGED command

\* udev has applied its rule, or another process has let go.
Grant(u) ==
  /\ On(u) /\ bus[u].access # "free"
  /\ Happens(u, [bus[u] EXCEPT !.access = "free"]) /\ UNCHANGED <<file, command>>

Hotplug == \E u \in Units : PlugIn(u) \/ PullOut(u) \/ Jump(u) \/ Grant(u)

\* A request fails for a reason of the unit's own.
Stalls == Happens(file.unit, bus[file.unit])

BusInit ==
  /\ bus \in [Units -> {Off, Resetting} \union UNION {Attachments(l) : l \in Layouts}]
  /\ \A u \in Units :
       /\ On(u) => bus[u].layout \in LayoutsOf[u] /\ At(bus[u].address) = {u}
       /\ bus[u].state = "resetting" => \E l \in LayoutsOf[u] : Shape[l].mode = "bootloader"
  /\ file = NoFile /\ hotplugs = 0 /\ undisturbed = {}
  /\ called = FALSE /\ expired = FALSE /\ outcome = "none"

\* The operator's Ctrl-C and the clock, each at the steps that look at it: what
\* happens earlier is seen no sooner.
Cancel ==
  /\ pc \in {"wait", "acl"} /\ ~called /\ called' = TRUE
  /\ UNCHANGED <<machine, pc, expired, outcome>>
Expire ==
  /\ pc \in {"judge", "node"} /\ ~expired /\ expired' = TRUE
  /\ UNCHANGED <<machine, pc, called, outcome>>

Goto(here, there) == pc = here /\ pc' = there /\ UNCHANGED <<called, expired, outcome>>
End(here, how) == pc = here /\ pc' = "end" /\ outcome' = how /\ UNCHANGED <<called, expired>>

-----------------------------------------------------------------------------
\* What the kernel answers.

\* Opening a device node, and what that says when it fails.
Openable(address) == {u \in At(address) : bus[u].access = "free"}
Refusal(address) == IF At(address) = {} THEN "absent" ELSE "permission"

\* The interfaces of the configuration in force, on which a claim is judged.
InForce(u) == InterfacesIn(Parsed[bus[u].layout], bus[u].configuration)
=============================================================================
