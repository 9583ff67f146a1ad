\* Hot reload with two batches that may overlap, one script.
SPECIFICATION LoaderFairSpec
CONSTANTS
  Names = {wa}
  Manifest = Manifest
  Main = Main
  Flushers = {f1, f2}
  Api = {}
  Overlap = TRUE
  None = None
  MaxEdits = 2
PROPERTIES
  Converges
CHECK_DEADLOCK FALSE
