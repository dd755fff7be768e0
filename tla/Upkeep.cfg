SPECIFICATION MCSpec
CONSTANTS
  Paths = {"p", "r"}
  OwnSlug <- MCOwnSlug
  Bodies = {1, 2}
  None = None
  MaxEdits = 3
  Words <- MCWords
  Spellings <- MCSpellings
  SuffixOf <- MCSuffixOf
  PrefixOf <- MCPrefixOf
  Baselines <- MCBaselines
  MaxEntries = 2
  MaxChanges = 2
  Order <- MCOrder
  Others = {"q"}
  Posts = {1, 2}
  Old = 1
  New = 2
  MaxMoves = 2
  ProjectList <- MCProjectList
  VersionList <- MCVersionList
  LocaleList <- MCLocaleList
  Pinned <- MCPinned
  Sites <- MCSites
  Faults <- MCFaults
  MaxSpoilt = 1
  Lower <- MCLower
  Marks = {"'", "-", ".", " "}
  Odd = {"_"}
  Alphabet <- MCAlphabet
  Vocabularies <- MCVocabularies
  LongestWord = 3
  MaxSuggestions = 1
  MaxLetters = 4
  MatterLines <- MCMatterLines
  Starts <- MCStarts
  Schema <- MCSchema
  NoKey = NoKey
  MaxMatterLines = 4
  PageSets <- MCPageSets
  WordSets <- MCWordSets
  NoManifestFile = NoManifestFile
  Broken = Broken
  MaxTurns = 5
  Gone = Gone
  LayoutStarts <- MCLayoutStarts
  MaxDeaths = 1
  Misnamed = {"docs-cache"}
CHECK_DEADLOCK FALSE
PROPERTY PostsAreAsRecorded
PROPERTY WordsAreSettled
PROPERTY SitesComeOutWhole
PROPERTY RecordsAreRead
PROPERTY MigrationIsWhole
