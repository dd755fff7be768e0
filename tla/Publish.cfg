SPECIFICATION Spec
CONSTANTS
  hub = hub
  lib = lib
  libx = libx
  index = index
  guide = guide
  projects = projects
  news = news
  talk = talk
  root = root
  blog = blog
  cv = cv
  none = none
  Slugs <- MCSlugs
  Pages = {index, guide}
  Posts = {news, talk}
  Index = index
  RootDir = root
  BlogDir = blog
  HomeDirs = {cv}
  PageDir <- MCPageDir
  Reserved = {}
  Extends <- NoExtends
  Cut <- NoCut
  None = none
  Runners = {r1, r2}
  Publishers = {p1, p2}
  Serialized = TRUE
  Attempts = 2
  InitialTree <- TwoProjects
  OfferedJobs <- LibJobs
  OfferedCommands <- LibCommands
  OfferedRosters <- Nothing
  MaxJobs = 1
  MaxCommands = 2
  MaxEdits = 0
  MaxFaults = 1
SYMMETRY Symmetry
CHECK_DEADLOCK FALSE
INVARIANT TypeOK
INVARIANT WorkIsCurrent
PROPERTY LiveNeverGoesBack
PROPERTY PublishesStayRebuildable
