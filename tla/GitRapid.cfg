CONSTANTS
  stable = stable
  test = test
  c1 = c1
  c2 = c2
  c3 = c3
  a = a
  A = A
  dots = dots
  doc = doc
  dir = dir
  x = x
  y = y
  top = top
  Tags = {stable, test}
  Commits = {c1, c2, c3}
  Editions <- MCEditions
  Paths <- MCPaths
  Files = {x, y}
  Tree <- MCTree
  Under <- MCUnder
  Names <- MCNames
  NoName = NoName
  ArchivePath <- MCArchivePath
  Rank <- MCRank
  TooLong = {}
  RapidPackages <- MCRapidPackages
  Damaged = Damaged
  NoText = NoText
  NoTag = NoTag
SPECIFICATION FairSpec
INVARIANTS TypeOK ResolvedIsCommit
PROPERTY DamageHeals
CHECK_DEADLOCK FALSE
