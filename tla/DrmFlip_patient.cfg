\* A frontend that waits for each flip event; the kernel may refuse any flip.
SPECIFICATION FairSpec
CONSTANTS
  MaxFlips = 3
  Patient = TRUE
INVARIANTS
  NoDanglingEvent
PROPERTIES
  EventNamesCompletedFlip
  ImplementsFlipService
  FlipReported
