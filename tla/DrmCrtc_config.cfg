\* Connectors configure and release themselves; init() may fail half way.
SPECIFICATION CSpec
CONSTANTS
  c1 = c1
  c2 = c2
  c3 = c3
  x1 = x1
  x2 = x2
  NoCrtc = NoCrtc
  Connectors <- ThreeConnectors
  Crtcs <- TwoCrtcs
  Possible <- Fits
  HasEncoder <- WiredUp
INVARIANTS
  CrtcExclusive
  NoCrtcLost
  ScanoutKept
