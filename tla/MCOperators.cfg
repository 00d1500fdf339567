SPECIFICATION MCSpec
CONSTANTS
  PathComponents = {"a", "b", ".", "..", ""}
  MaxLen = 5
  VersionsToOrder <- SomeVersions
  RangeTexts <- SomeTexts
  Words <- SomeWords
  MaxWords = 5
  PackageContents <- SomeContents
  Registered <- FormatNames
  Serialize <- serialize
  Deserialize <- deserialize
  NumberLimit = 3
  IdentifierLimit = 3
  Base = 3
  Immediate = 1
INVARIANTS
  NormalIsSurvivors
  VersionOrderIsWeak
  RangesMeanTheirPrefix
  ConstraintMeansItsWords
  FormatsKeepDocuments
  StorageKeepsVerdict
  PackageKeepsContents
CHECK_DEADLOCK FALSE
