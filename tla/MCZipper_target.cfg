SPECIFICATION Spec
CONSTANTS
  c1 = c1
  c2 = c2
  s1 = s1
  f1 = f1
  k1 = k1
  h1 = h1
  h2 = h2
  m1 = m1
  m2 = m2
  Nothing = Nothing
  Names <- EntryNames
  RawPaths <- OnePath
  Hosts <- NoPaths
  Files <- NoPaths
  Dirs <- NoPaths
  Contents = {c1}
  Buffers = {}
  Objects = {c1}
  Streams = {}
  Commands = {}
  Hooks = {k1}
  Filters = {}
  Destinations = {""}
  ArchiveNames = {""}
  Codecs = {}
  Sinks = {"file"}
  DiskErrors = {"open", "write"}
  Handles = {h1, h2}
  Manifests = {}
  MaxEntries = 2
  MaxFilters = 0
PROPERTIES
  FailedEncodeKeepsArchive
  SealedIsFrozen
  ImplementsMap
SYMMETRY
  HandleSymmetry
