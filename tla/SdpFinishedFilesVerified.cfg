CONSTANTS
  a = a
  b = b
  NoFile = NoFile
  PoolFiles <- MCPoolFiles
  Entries <- MCEntries
  Size <- MCSize
  SentLengths <- MCSentLengths
SPECIFICATION Spec
INVARIANT FinishedFilesVerified

