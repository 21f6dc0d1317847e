\* Making the connection, using it, losing it and stopping.
SPECIFICATION FairSpec
CONSTANTS
  Rings = {r1, r2}
  Offers <- MCOffers
  None = None
INVARIANTS
  NobodyDenied
  OneOfAKind
PROPERTIES
  AuthenticationAnswered
  LossNoticed
CHECK_DEADLOCK FALSE
