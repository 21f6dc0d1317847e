\* Display buffers and EDID blocks behind page directories.
SPECIFICATION ESpec
CONSTANTS
  Pages = {1, 2, 3}
  PerPage = 2
  PageSize = 4
  Sizes = {0, 1, 4, 8, 9, 13, 17, 21}
  Tasks = {"get", "set", "edid"}
  Modes <- MCModes
  Stale = 170
INVARIANTS
  DirectoryAgrees
  EdidDescribesConnector
CHECK_DEADLOCK FALSE
