CONSTANTS
  N = 1
  MirrorCount <- MCOneMirror
  BodyLen <- MCTwoCells
  Hashed = {}
  Sized = {}
  MultiErrors = FALSE
  NoFile = NoFile
  NoHash = NoHash
  Unset = Unset
SPECIFICATION Spec
INVARIANT FinishedIsComplete
