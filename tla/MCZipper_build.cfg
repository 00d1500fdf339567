SPECIFICATION FairSpec
CONSTANTS
  c1 = c1
  c2 = c2
  s1 = s1
  f1 = f1
  k1 = k1
  h1 = h1
  h2 = h2
  m1 = m1
  m2 = m2
  Nothing = Nothing
  Names <- ManifestNames
  RawPaths <- ManifestPaths
  Hosts <- BuildFiles
  Files <- BuildFiles
  Dirs <- NoPaths
  Contents = {c1}
  Buffers = {}
  Objects = {}
  Streams = {}
  Commands <- ManifestCommands
  Hooks = {k1}
  Filters = {f1}
  Destinations = {}
  ArchiveNames = {}
  Codecs = {}
  Sinks = {"memory", "file"}
  DiskErrors = {}
  Handles = {h1}
  Manifests = {m1}
  MaxEntries = 2
  MaxFilters = 1
INVARIANTS
  ArchiveIsSnapshot
  ManifestIsFinal
PROPERTIES
  BuildReturns
  FailedEncodeKeepsArchive
