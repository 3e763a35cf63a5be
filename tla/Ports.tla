-------------------------------- MODULE Ports -------------------------------
(***************************************************************************)
(* Opening a unit over ALSA: rawmidi discovery in its two passes, the      *)
(* policy that picks a port, App.openRawMIDI around them with its wait for *)
(* the node's ACL, and the two warnings.  A port is known by its path, the *)
(* card's number; what is known about it was read at different times.      *)
(***************************************************************************)
EXTENDS Bus

VARIABLES
  hint,      \* --port: by nothing, "none", by a "name", or by the "path" of a node
  ports,     \* what discovery knows so far
  chosen,    \* the one selected, a set of at most one
  warned     \* what the operator was told about it

portVars == <<hint, ports, chosen, warned>>

PortsInit ==
  /\ hint \in [by : {"none", "name"}, address : {0}] \union [by : {"path"}, address : Addresses]
  /\ ports = {} /\ chosen = {} /\ warned = "nothing"

ByPath == hint.by = "path"

-----------------------------------------------------------------------------
\* Discovery.  vendor is "unknown" until a USB parent has been found; a virtual
\* card has none.

Cards == {u \in Present : ShapeOf(u).card}
CardAt(address) == {u \in Cards : bus[u].address = address}
Traced(u) == IF ShapeOf(u).vendor = "virtual" THEN "unknown" ELSE ShapeOf(u).vendor

Unnamed(address, vendor) ==
  [address |-> address, vendor |-> vendor, named |-> FALSE, vflex |-> FALSE, fallback |-> FALSE]

DiscoverByVendor ==
  /\ ~ByPath /\ Goto("vendors", "nodes")
  /\ ports' = {Unnamed(bus[u].address, "ours") : u \in {u \in Cards : ShapeOf(u).vendor = "ours"}}
  /\ chosen' = {} /\ undisturbed' = Present
  /\ UNCHANGED <<bus, file, hotplugs, hint, warned>>

\* The /dev/snd sweep adds the nodes the first pass did not find.
SweepNodes ==
  /\ Goto("nodes", "enrich")
  /\ ports' = ports \union
       {Unnamed(bus[u].address, "unknown") :
          u \in {u \in Cards : \A p \in ports : p.address # bus[u].address}}
  /\ UNCHANGED <<machine, hint, chosen, warned>>

\* classify: the vendor, when it is known, is the whole answer.
Classified(p) == [p EXCEPT !.vflex = IF p.vendor # "unknown" THEN p.vendor = "ours" ELSE p.named]

\* The name and the vendor of whoever is behind the path by now.
Enriched(p) ==
  LET behind == CardAt(p.address)
  IN Classified([p EXCEPT !.named = @ \/ \E u \in behind : ShapeOf(u).named,
                          !.vendor = IF @ # "unknown" \/ behind = {} THEN @
                                     ELSE Traced(CHOOSE u \in behind : TRUE)])

Enrich ==
  /\ Goto("enrich", "choose")
  /\ ports' = {Enriched(p) : p \in ports}
  /\ UNCHANGED <<machine, hint, chosen, warned>>

-----------------------------------------------------------------------------
\* Select: the vendor first, the name second, the sole port last; each only if
\* it singles one out.

VFlex(ps) == {p \in ps : p.vflex}
Confirmed(ps) == {p \in VFlex(ps) : p.vendor = "ours"}
\* Mutant of Best: the first that looks like one.
AnyVFlex(ps) == {p \in VFlex(ps) : \A q \in VFlex(ps) : p.address <= q.address}

Best(ps) == IF Confirmed(ps) # {} THEN Confirmed(ps) ELSE VFlex(ps)

\* A vendor that is known, and somebody else's, rules the sole port out.
SolePort(ps) == {[p EXCEPT !.fallback = TRUE] :
                   p \in {p \in ps : Sole(ps) /\ p.vendor \in {"unknown", "ours"}}}

Candidates(ps) ==
  IF hint.by = "name" THEN {p \in ps : p.named}
  ELSE IF Best(ps) # {} THEN Best(ps) ELSE SolePort(ps)

Select ==
  /\ pc = "choose"
  /\ \/ Sole(Candidates(ports)) /\ chosen' = Candidates(ports) /\ Goto("choose", "again")
     \/ /\ Candidates(ports) # {} /\ ~Sole(Candidates(ports))
        /\ End("choose", "ambiguous") /\ UNCHANGED chosen
     \/ Candidates(ports) = {} /\ End("choose", "absent") /\ UNCHANGED chosen
  /\ UNCHANGED <<machine, hint, ports, warned>>

-----------------------------------------------------------------------------
\* openAuto asks once more about the port it selected, and opens its path.

EnrichAgain ==
  /\ Goto("again", "node")
  /\ chosen' = {Enriched(p) : p \in chosen}
  /\ UNCHANGED <<machine, hint, ports, warned>>

\* An explicit path skips discovery.
TakePath ==
  /\ ByPath /\ Goto("vendors", "node")
  /\ chosen' = {Unnamed(hint.address, "unknown")}
  /\ UNCHANGED <<machine, hint, ports, warned>>

\* warnSolePortFallback and warnNameOnlyMatch
Warning(p) == IF p.fallback THEN "sole port"
              ELSE IF p.vflex /\ p.vendor = "unknown" THEN "by name" ELSE "nothing"

\* The node is opened by its path, whoever is there by now; what is said about
\* it is what was found before.
OpenPort ==
  /\ End("node", "opened")
  /\ \E p \in chosen : \E u \in CardAt(p.address) \intersect Openable(p.address) :
       /\ file' = [unit |-> u, live |-> TRUE]
       /\ warned' = IF ByPath THEN "nothing" ELSE Warning(p)
  /\ UNCHANGED <<bus, hotplugs, undisturbed, hint, ports, chosen>>

NodeAbsent ==
  /\ End("node", "absent")
  /\ \E p \in chosen : CardAt(p.address) = {}
  /\ UNCHANGED <<machine, portVars>>

Denied == \E p \in chosen : \E u \in CardAt(p.address) : bus[u].access # "free"

\* openWaitingForACL: only a permission failure is asked again, and only in the
\* grace; everything is discovered anew.
AskAgain == Goto("node", "acl") /\ ~expired /\ Denied /\ UNCHANGED <<machine, portVars>>

PortRefused == End("node", "permission") /\ expired /\ Denied /\ UNCHANGED <<machine, portVars>>
PollAgain == ~called /\ Goto("acl", "vendors") /\ UNCHANGED <<machine, portVars>>
PollCancelled == called /\ End("acl", "permission") /\ UNCHANGED <<machine, portVars>>

PortStep ==
  \/ DiscoverByVendor \/ SweepNodes \/ Enrich \/ Select \/ EnrichAgain \/ TakePath
  \/ OpenPort \/ NodeAbsent \/ AskAgain \/ PortRefused \/ PollAgain \/ PollCancelled
=============================================================================
