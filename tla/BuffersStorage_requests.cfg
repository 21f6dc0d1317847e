\* Any requests, by a careful frontend or not; any of them may fail.
SPECIFICATION Spec
CONSTANTS
  DbCookies <- TwoCookies
  FbCookies <- TwoCookies
  Directories <- TwoDirectories
  MaxRequests = 3
INVARIANTS
  ViewAgrees
  NoBufferLeaked
  PagesMappedOnce
PROPERTIES
  BuffersStable
