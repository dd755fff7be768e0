SPECIFICATION Spec
CONSTANTS
  hub = hub
  lib = lib
  libx = libx
  index = index
  guide = guide
  projects = projects
  news = news
  talk = talk
  root = root
  blog = blog
  cv = cv
  none = none
  Slugs <- MCSlugs
  Pages = {index, guide}
  Posts = {news, talk}
  Index = index
  RootDir = root
  BlogDir = blog
  HomeDirs = {cv}
  PageDir <- MCPageDir
  Reserved = {}
  Extends <- NoExtends
  Cut <- NoCut
  None = none
  Runners = {r1, r2}
  Publishers = {}
  Serialized = FALSE
  Attempts = 2
  InitialTree <- ThreeProjects
  OfferedJobs <- RacingJobs
  OfferedCommands <- Nothing
  OfferedRosters <- Nothing
  MaxJobs = 3
  MaxCommands = 0
  MaxEdits = 0
  MaxFaults = 1
SYMMETRY Symmetry
CHECK_DEADLOCK FALSE
INVARIANT RetryIsIdempotent
INVARIANT FilesAreClaimed
PROPERTY IntegratesAreAtomic
PROPERTY IntegrateKeepsPostsDisjoint
PROPERTY IntegrateSparesOthers
