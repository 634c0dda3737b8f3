CONSTANTS
  a = a
  b = b
  NoFile = NoFile
  PoolFiles <- MCPoolFiles
  Entries <- MCEntries
  Size <- MCSize
  SentLengths <- MCSentLengths
SPECIFICATION FairSpec
INVARIANTS TypeOK InStep OnlyDamagedRejected PassedFilesValid ListNotOverrun
PROPERTIES FinishedByStreamComplete PoolSpec CallReturns

