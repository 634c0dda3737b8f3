CONSTANTS
  c1 = c1
  c2 = c2
  c3 = c3
  c4 = c4
  s1 = s1
  modinfo = modinfo
  a = a
  A = A
  s = s
  sx = sx
  info = info
  stuck = stuck
  x = x
  ziptag = ziptag
  Programs = {p, q}
  Names <- MCNames
  DiffOrder <- MCDiffOrder
  Lower <- MCLower
  Begins <- MCBegins
  Blobs = {info, stuck, x}
  Commits <- MCCommits
  Tree <- MCTree
  Main = {c1, c2, c3}
  Modinfo = modinfo
  Stuck = {stuck}
  Branch <- MCBranch
  Version <- MCVersion
  Stable = Stable
  Test = Test
  Zip <- MCZip
  ZipTags = {ziptag}
  TagOrder <- MCTagOrder
  None = None
  Wanted <- MCWanted
  Cuts = {1}
  MaxRuns = 3
SPECIFICATION FairSpec
INVARIANTS TypeOK PackageIsTree TagsKept
PROPERTIES CatalogSpec StreamReturns BuildReturns
CHECK_DEADLOCK FALSE
