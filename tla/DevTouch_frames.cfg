\* Every kind of driver on a screen of two slots.
SPECIFICATION FairSpec
CONSTANTS
  MaxSlot = 1
  Places = {0, 1}
  TrackingIds = {0, 1}
  Drivers = {"B", "BKey", "A", "AId"}
INVARIANTS
  ContactsAgree
  SeriesInTurn
  NoGhostInSlot
PROPERTIES
  LiftReported
