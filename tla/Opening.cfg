SPECIFICATION OpeningSpec
CONSTANTS
  unit1 = unit1
  unit2 = unit2
  other1 = other1
  None = None
  Units <- MCUnits
  Addresses <- MCAddresses
  Layouts <- MCLayouts
  LayoutsOf <- MCLayoutsOf
  Shape <- MCShape
  MaxHotplug = 2
INVARIANTS ClaimsOnlyABootloader OpenedIsMeant ReadyIsClaimed
PROPERTIES OpeningEnds
CHECK_DEADLOCK FALSE
