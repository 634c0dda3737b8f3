CONSTANTS
  c1 = c1
  c2 = c2
  c3 = c3
  c4 = c4
  s1 = s1
  modinfo = modinfo
  a = a
  A = A
  s = s
  sx = sx
  info = info
  stuck = stuck
  x = x
  ziptag = ziptag
  Programs = {p}
  Names <- MCNames
  DiffOrder <- MCDiffOrder
  Lower <- MCLower
  Begins <- MCBegins
  Blobs = {info, stuck, x}
  Commits <- MCCommits
  Tree <- MCTree
  Main = {c1, c4}
  Modinfo = modinfo
  Stuck = {stuck}
  Branch <- MCBranch
  Version <- MCVersion
  Stable = Stable
  Test = Test
  Zip <- MCZip
  ZipTags = {ziptag}
  TagOrder <- MCTagOrder
  None = None
  Wanted <- MCWanted
  Cuts = {0, 2}
  MaxRuns = 3
SPECIFICATION Spec
INVARIANT IncrementalIsFull
CHECK_DEADLOCK FALSE
