SPECIFICATION Spec
CONSTANTS
  c1 = c1
  c2 = c2
  s1 = s1
  f1 = f1
  k1 = k1
  h1 = h1
  h2 = h2
  m1 = m1
  m2 = m2
  Nothing = Nothing
  Names <- ManifestNames
  RawPaths <- ManifestPaths
  Hosts <- NoPaths
  Files <- NoPaths
  Dirs <- NoPaths
  Contents = {c1}
  Buffers = {c1}
  Objects = {}
  Streams = {}
  Commands = {}
  Hooks = {}
  Filters = {}
  Destinations = {}
  ArchiveNames = {}
  Codecs = {}
  Sinks = {"file"}
  DiskErrors = {"open", "write", "flush"}
  Handles = {h1}
  Manifests = {}
  MaxEntries = 1
  MaxFilters = 0
PROPERTIES
  SuccessMeansWritten
