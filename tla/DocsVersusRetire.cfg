SPECIFICATION Spec
CONSTANTS
  hub = hub
  lib = lib
  libx = libx
  index = index
  guide = guide
  projects = projects
  news = news
  talk = talk
  root = root
  blog = blog
  cv = cv
  none = none
  Slugs <- MCSlugs
  Pages = {index, guide}
  Posts = {news, talk}
  Index = index
  RootDir = root
  BlogDir = blog
  HomeDirs = {cv}
  PageDir <- MCPageDir
  Reserved = {}
  Extends <- NoExtends
  Cut <- NoCut
  None = none
  Runners = {r1}
  Publishers = {p1, p2}
  Serialized = TRUE
  Attempts = 2
  InitialTree <- TwoProjects
  OfferedJobs <- Nothing
  OfferedCommands <- DocsAndRetire
  OfferedRosters <- Nothing
  MaxJobs = 0
  MaxCommands = 2
  MaxEdits = 0
  MaxFaults = 0
CHECK_DEADLOCK FALSE
PROPERTY DocsCannotCreateMembership
