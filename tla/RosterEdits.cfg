SPECIFICATION MCSpec
CONSTANTS
  hub = hub
  lib = lib
  libx = libx
  index = index
  guide = guide
  projects = projects
  news = news
  talk = talk
  root = root
  blog = blog
  cv = cv
  none = none
  Slugs <- MCSlugs
  Pages = {index, guide}
  Posts = {news, talk}
  Index = index
  RootDir = root
  BlogDir = blog
  HomeDirs = {cv}
  PageDir <- MCPageDir
  Reserved = {}
  Extends <- NoExtends
  Cut <- NoCut
  None = none
  Runners = {r1}
  Publishers = {p1}
  Serialized = TRUE
  Attempts = 2
  InitialTree <- ThreeProjects
  OfferedJobs <- DropJobs
  OfferedCommands <- DropCommands
  OfferedRosters <- DropRosters
  MaxJobs = 2
  MaxCommands = 1
  MaxEdits = 2
  MaxFaults = 0
  PreviewBuilds <- MCBuilds
  OfferedLines <- MCLines
  MaxPreviews = 3
  MaxSourceEdits = 1
  MaxKills = 2
  OutPages = {"p", "q"}
  Urls = {"u"}
  Declarations <- MCDeclarations
  NoFile = NoFile
  MaxDays = 3
  MaxEvents = 2
CHECK_DEADLOCK FALSE
INVARIANT LiveIsVerified
PROPERTY OnlyMembersRemain
INVARIANT RerunIsFresh
PROPERTY AnswersAreTrustedRightly
