SPECIFICATION FairSpec
CONSTANTS
  Devices = {d}
  SharedSafe = {d}
  Missions = {m}
  Captures = {c}
  MaxLeases = 2
  ListLimit = 2
  Faults = {"crash", "timeout"}
  None = None
INVARIANT TypeOK
INVARIANT NoConflict
PROPERTY DeviceFrees
PROPERTY EndedMissionFrees
