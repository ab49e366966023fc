CONSTANTS
  Always = 50
  Clusters = 2
  BlockUnits = 2
  BlockEntries = 3
  Handle = {h1}
  h1 = h1
  NoPath = NoPath
  NoFile = NoFile
  Name = {"a"}
  Dir = {"d"}
  SubName = {"b"}
  Mode <- MCMode
  MaxFaults = 1
  Length = {1, 3}
  SeekTo = {0, 2}
  MaxChanges = 4
CHECK_DEADLOCK FALSE
SPECIFICATION Spec
INVARIANTS TypeOK VolumeSound
PROPERTY KeepsPromise
