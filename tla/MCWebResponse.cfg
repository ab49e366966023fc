CONSTANTS
  Kind = {"basic", "progmem", "stream", "printed", "json", "callback", "unknown", "chunked", "template"}
  HeadLen = 2
  MaxContent = 3
  MaxWindow = 3
  Texts <- MCTexts
  TextWindows = {4, 6}
  NameMax = 2
  Values <- MCValues
  MaxEvents = 2
CHECK_DEADLOCK FALSE
SPECIFICATION FairSpec
INVARIANTS TypeOK StreamIntact
PROPERTY ResponseEnds
