\* Making the connection, using it, losing it and stopping.
SPECIFICATION Spec
CONSTANTS
  Rings = {r1, r2}
  Offers <- MCOffers
  None = None
INVARIANTS
  FeedbackBeforeDraw
CHECK_DEADLOCK FALSE
