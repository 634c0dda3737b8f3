CONSTANTS
  N = 2
  MirrorCount <- MCOneMirrorEach
  BodyLen <- MCOneCell
  Hashed <- MCSecond
  Sized <- MCSecond
  MultiErrors = TRUE
  NoFile = NoFile
  NoHash = NoHash
  Unset = Unset
SPECIFICATION FairSpec
INVARIANTS AllProcessed TrueMeansAttempted NoTmpBesideFile
PROPERTY CallReturns
