\* Two connectors, a touch screen or a focus device.
SPECIFICATION Spec
CONSTANTS
  Connectors = {c1, c2}
  Surfaces = {s1, s2}
  Contacts = {i1, i2}
  Kinds = {"touch", "focus"}
  None = None
INVARIANTS
  SubscriptionsAgree
  InputReachesOwner
  FocusIsHeard
  ContactsReachOwner
SYMMETRY Symmetry
