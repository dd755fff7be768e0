SPECIFICATION FairSpec
CONSTANTS
  hub = hub
  lib = lib
  libx = libx
  index = index
  guide = guide
  projects = projects
  news = news
  talk = talk
  root = root
  blog = blog
  cv = cv
  none = none
  Slugs <- MCSlugs
  Pages = {index, guide, projects}
  Posts = {news, talk}
  Index = index
  RootDir = root
  BlogDir = blog
  HomeDirs = {cv}
  PageDir <- MCPageDir
  Reserved = {projects}
  Extends <- NoExtends
  Cut <- NoCut
  None = none
  Runners = {r1}
  Publishers = {p1, p2}
  Serialized = TRUE
  Attempts = 3
  InitialTree <- ThreeProjects
  OfferedJobs <- HomeJobs
  OfferedCommands <- TeamCommands
  OfferedRosters <- Nothing
  MaxJobs = 1
  MaxCommands = 2
  MaxEdits = 0
  MaxFaults = 0
CHECK_DEADLOCK FALSE
PROPERTY RunsComeThrough
