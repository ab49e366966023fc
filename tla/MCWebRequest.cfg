CONSTANTS
  Nothing = Nothing
  Escapes <- MCEscapes
  ExcludeFile <- MCExcludeFile
  LineMax = 8
  ApName = "ap"
  NoObject = 0
  Handlers <- MCHandlers
  CatchAll <- MCCatchAll
  Rewrites <- MCRewrites
  MaxJson = 4
  StoredHash <- MCStoredHash
  Boundary <- MCBoundary
  UploadMax = 2
  Disposition <- MCDisposition
  Messages <- MCMessages
  InitialFiles <- MCFiles
  Hidden <- MCHidden
  Turns <- MCTurns
  Segments = {1, 2, 5}
  MaxTries = 1
SPECIFICATION Spec
INVARIANTS TypeOK HandledWhole AuthDecides RefusedUnseen FilesKept PagesServed
CHECK_DEADLOCK FALSE
