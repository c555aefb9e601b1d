SPECIFICATION Spec
CONSTANTS
  p = p
  q = q
  Programs = {p}
  Types <- MCTypes
  Shipped <- MCShipped
  Dirs = {"away"}
  Files <- MCFiles
  Edits <- MCEdits
  Latest = {2}
  MaxStarts = 1
  MaxUses = 2
  MaxPending = 1
PROPERTY AddCounts
CHECK_DEADLOCK FALSE
