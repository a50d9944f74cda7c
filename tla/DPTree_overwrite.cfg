\* Two keys; the buffer is merged when it holds one of them and half of all.
CONSTANTS
  NLoad = 2
  MergeAt = 1
  MergeShare = 2
SPECIFICATION DPSpec
INVARIANTS
  LastCallStands
