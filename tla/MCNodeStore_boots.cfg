SPECIFICATION Spec
CONSTANTS
  Tags = {"num", "key", "region", "preset", "power", "name"}
  Kept = {"num", "key"}
  Fresh <- Numbered
  Default <- Unnumbered
  Declared <- FromFile
  Edits <- Misfits
  TooLong = "too long"
  Unresolved <- TooWide
  Untuned <- TooStrong
  Keys = {k1, k2, k3, k4}
  NoKey = nokey
  NoEdit = noedit
  NoWrite = nowrite
  NoRestart = norestart
  Ttl = 2
  Rotate = 1
  MinRestart = 1
  Delays <- Waits
INVARIANT StoredBoots
CHECK_DEADLOCK FALSE
