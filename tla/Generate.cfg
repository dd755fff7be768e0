SPECIFICATION MCSpec
CONSTANTS
  Modules = {"mod"}
  Commands = {"cli-run"}
  Indexes = {"index"}
  Essays = {"essay"}
  Unknown = Unknown
  Sentences = {"s1", "s2"}
  Handwriting = {"h1", "h2"}
  Refs <- MCRefs
  Bodies = {1, 2}
  GenDies = TRUE
  MaxEdits = 3
  Files = {"README.md", "pypi/README.md", ".claude/CLAUDE.md", "CLAUDE.md", "a.json"}
  Absent = Absent
  RootFiles <- MCRootFiles
  Scripts <- MCScripts
  PreviousOutput = "CLAUDE.md"
  Renderings = {"r1", "r2"}
  Handwritten = "hand"
  Data = {"d1"}
  Ignorable = {".claude/CLAUDE.md"}
  MaxSteps = 2
  Tree <- MCTree
  LocaleList <- MCLocales
  VersionList <- MCVersions
  PlainDocs = FALSE
  Posts = {"hello"}
  Drafts = {"hello"}
  Sources = {"src"}
  Redirects <- MCRedirects
  ChangelogDeclared = FALSE
  None = None
  MaxMoves = 2
  Paths = {"p", "q"}
  Terms = {"t"}
  Contents <- MCContents
  Missing = Missing
  Unread = Unread
  MaxPublishes = 1
  MaxDisturbances = 2
CHECK_DEADLOCK FALSE
PROPERTY PersonsDecide
PROPERTY CommitsAreTheCommands
PROPERTY BuildsAreOfTheirSources
PROPERTY PublishingIsScreened
