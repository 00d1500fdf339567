SPECIFICATION Spec
CONSTANTS
  c1 = c1
  c2 = c2
  c3 = c3
  f1 = f1
  Archives <- AllArchives
  Filters = {f1}
  Places <- MCPlaces
  Foreign = {c3}
  Intruded <- EPlace
  DiskErrors = {"open", "write"}
  MaxFilters = 1
INVARIANTS
  ExtractionIsPrefix
  SuccessIsComplete
  VerifiedIsOriginal
PROPERTIES
  KeepsExistingFiles
CHECK_DEADLOCK FALSE
