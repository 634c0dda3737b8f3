CONSTANTS
  N = 1
  MirrorCount <- MCThreeMirrors
  BodyLen <- MCGrowAndShrink
  Hashed <- MCFirst
  Sized = {}
  MultiErrors = TRUE
  NoFile = NoFile
  NoHash = NoHash
  Unset = Unset
SPECIFICATION Spec
INVARIANTS TypeOK DigestDescribesFile MirrorsTakeTurns
PROPERTY FinishedStays
