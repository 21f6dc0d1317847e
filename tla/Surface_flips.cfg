\* Draws, timeouts, frame events, failures and teardown in every order.
SPECIFICATION FairSpec
CONSTANT MaxFlips = 3
INVARIANTS
  FlipIsWatched
  HandlerOwnsCallback
PROPERTIES
  LastEventOfSurface
  ImplementsFlipService
  FlipAnswered
  ReleaseCompletes
  BecomesActive
