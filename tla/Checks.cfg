SPECIFICATION MCSpec
CONSTANTS
  Pieces <- MCPieces
  NameChars = {"a", "b", "["}
  MaxPieces = 3
  MaxName = 3
  DirNames = {"pkg", "test", "tests", "test_util", "a_test", "testdata", "dist", "experiments"}
  FileNames <- MCFileNames
  SourceRoots <- MCSourceRoots
  Patterns <- MCPatterns
  NoPattern = NoPattern
  MaxDepth = 2
  MaxFiles = 2
  MaxBlocks = 3
  MaxMatter = 2
  Names = {"a", "b"}
  Written = {1}
  Absent = Absent
  Dir = Dir
  Starts <- MCStarts
  MaxOps = 3
  Writers = {"w1", "w2", "w3"}
  NoFile = NoFile
  Torn = Torn
  MaxStages = 3
  Chunks = 2
  Capacity = 1
  Sources <- MCSources
  Places <- MCPlaces
  Projects <- MCProjects
  NoEntry = NoEntry
  Schemas <- MCSchemas
  NoPage = NoPage
  Files <- MCFiles
  Templates <- MCTemplates
  Readme <- MCReadme
  StartPage <- MCStartPage
  Docs <- MCDocs
  GeneratedPages <- MCGeneratedPages
  Modules <- MCModules
  MaxSteps = 5
  Looks <- MCLooks
  Stripped <- MCStripped
  Basename <- MCBasename
  CleanPaths = {"README", "LICENSE"}
  Documents <- MCDocuments
  Edits <- MCEdits
  Right <- MCRight
  MaxEdits = 2
CHECK_DEADLOCK FALSE
PROPERTY WalksAgree
INVARIANT ChecksMeanWhatTheySay
PROPERTY HandleKeepsItsWord
PROPERTY ReportsAreOfTheProject
PROPERTY ConfigsCanBeMadeToLoad
