SPECIFICATION MCSpec
CONSTANTS
  c1 = c1
  h1 = h1
  m1 = m1
  m2 = m2
  Nothing = Nothing
  Missing = Missing
  Own = h1
  FromFile = TRUE
  Scripts <- JournalScripts
  Names <- JournalNames
  RawPaths = {}
  Hosts = {}
  Files <- JournalFiles
  Dirs <- JournalDirs
  Contents = {c1}
  Buffers = {}
  Objects = {}
  Streams = {}
  Commands <- JournalCommands
  Hooks = {}
  Filters = {}
  Destinations = {"dist"}
  ArchiveNames = {"a", "b"}
  Codecs = {"stored", "zstd"}
  Sinks = {"file"}
  DiskErrors = {}
  Handles = {h1}
  Manifests = {m1, m2}
  MaxEntries = 5
  MaxFilters = 0
INVARIANTS
  ScaffoldFollowsCommands
  ChainMeansText
CHECK_DEADLOCK FALSE
