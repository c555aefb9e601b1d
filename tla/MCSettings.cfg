SPECIFICATION Spec
CONSTANTS
  p = p
  q = q
  Programs = {p, q}
  Types <- MCTypes
  Shipped <- MCShipped
  Dirs = {"away"}
  Files <- MCFiles
  Edits <- MCEdits
  Latest = {2}
  MaxStarts = 2
  MaxUses = 2
  MaxPending = 2
SYMMETRY Either
INVARIANTS NoSectionLost LastWordIsSaved UsesAreKept
PROPERTY GuessIsBest
CHECK_DEADLOCK FALSE
