SPECIFICATION MCSpec
CONSTANTS
  MaxLines = 4
  NoFence = NoFence
  MaxChars = 7
  PageNames = {"index", "a", "blog", "v"}
  Mounts <- MCMounts
  MaxPage = 2
  MaxRef = 3
  Targets = {"p"}
  NotChecked = NotChecked
  MountDepths = {0, 1}
  Trees <- MCTrees
  LowerCase <- MCLowerCase
  Slug <- MCSlug
  Fold <- MCFold
  DirTitle <- MCDirTitle
  NoOrder = NoOrder
  NoPage = NoPage
  Chars = {"pipe", "tick", "slash", "a", "dash"}
  Alignments <- MCAlignments
  MaxColumns = 2
  MaxTyped = 3
  Blocks <- MCBlocks
  MaxBlocks = 4
  Lookback = 2
  Titles <- MCTitles
  NoTitle = NoTitle
  Settings <- MCSettings
  LocaleLists <- MCLocaleLists
  Paths <- MCPaths
  Posts <- MCPosts
  Unfed <- MCUnfed
  NoDate = NoDate
  MaxEdits = 4
  Stripped <- MCStripped
  Projects <- MCProjects
  OfferedKeys <- MCOfferedKeys
  Values <- MCValues
  Authors <- MCAuthors
  PageBodies <- MCPageBodies
  Edited = {"cv"}
  MaxCvEdits = 2
CHECK_DEADLOCK FALSE
INVARIANT ReadersAgree
INVARIANT AddressesResolve
INVARIANT NavigationLands
INVARIANT BodiesKeepTheirMeaning
INVARIANT TheSiteSaysWhatIsSo
