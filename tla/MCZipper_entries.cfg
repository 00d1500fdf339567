SPECIFICATION Spec
CONSTANTS
  c1 = c1
  c2 = c2
  s1 = s1
  f1 = f1
  k1 = k1
  h1 = h1
  h2 = h2
  m1 = m1
  m2 = m2
  Nothing = Nothing
  Names <- EntryNames
  RawPaths <- EntryPaths
  Hosts <- EntryHosts
  Files <- EntryFiles
  Dirs <- EntryDirs
  Contents = {c1}
  Buffers = {c1}
  Objects = {}
  Streams = {s1}
  Commands = {}
  Hooks = {}
  Filters = {}
  Destinations = {}
  ArchiveNames = {}
  Codecs = {"zstd"}
  Sinks = {}
  DiskErrors = {}
  Handles = {h1}
  Manifests = {}
  MaxEntries = 4
  MaxFilters = 0
INVARIANTS
  TypeOK
  UniqueLogicalPaths
PROPERTIES
  ImplementsMap
