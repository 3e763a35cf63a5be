------------------------------ MODULE MCOpening -----------------------------
\* Two VFLEX units and a place where somebody else's card may be plugged in, on
\* a machine with two addresses to give out.
EXTENDS Opening, TLC

CONSTANTS unit1, unit2, other1

MCUnits == {unit1, unit2, other1}
MCAddresses == 1..2

D(vendor) == [type |-> "device", length |-> "full", vendor |-> vendor]
C(value) == [type |-> "config", length |-> "full", value |-> value]
I(number, alt, class, midi) ==
  [type |-> "interface", length |-> "full", number |-> number, alt |-> alt,
   class |-> class, midi |-> midi]
E(direction) == [type |-> "endpoint", length |-> "full", direction |-> direction, data |-> TRUE]
Pair == <<E("out"), E("in")>>
ClassSpecific == [type |-> "class", length |-> "short"]
Tail1 == [type |-> "config", length |-> "over", value |-> 3]

Vflex(blob, mode, card, found) ==
  [blob |-> <<D("ours"), C(1)>> \o blob, vendor |-> "ours", mode |-> mode, named |-> card,
   card |-> card, found |-> found]
Card(vendor, named) ==
  [blob |-> <<D("other"), C(1), I(0, 0, "audio", TRUE)>> \o Pair, vendor |-> vendor,
   mode |-> "other", named |-> named, card |-> TRUE, found |-> {1}]

\* The unit measured; the same with USB-MIDI on the vendor class; a bootloader,
\* and one whose endpoints are in an alternate setting of its second
\* configuration only.
MCShape ==
  [application |-> Vflex(<<I(0, 0, "audio", FALSE), I(1, 0, "audio", TRUE), ClassSpecific>> \o Pair
                           \o <<I(2, 0, "vendor", FALSE)>> \o Pair, "application", TRUE, {1}),
   vendorMidi |-> Vflex(<<I(0, 0, "vendor", TRUE)>> \o Pair \o <<I(1, 0, "vendor", FALSE)>> \o Pair,
                        "application", FALSE, {1}),
   bootloader |-> Vflex(<<I(0, 0, "vendor", FALSE)>> \o Pair \o <<Tail1>>, "bootloader", FALSE, {0, 1}),
   second |-> Vflex(<<I(0, 0, "other", FALSE)>> \o Pair
                      \o <<C(2), I(0, 0, "vendor", TRUE), I(0, 1, "vendor", TRUE)>> \o Pair,
                    "bootloader", FALSE, {0, 2}),
   impostor |-> Card("other", TRUE), loopback |-> Card("virtual", TRUE),
   through |-> Card("virtual", FALSE)]

MCLayouts == DOMAIN MCShape
MCLayoutsOf == (unit1 :> {"application", "vendorMidi", "bootloader"})
                 @@ (unit2 :> {"application", "second"})
                 @@ (other1 :> {"impostor", "loopback", "through"})
=============================================================================
