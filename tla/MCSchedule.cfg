SPECIFICATION Spec
CONSTANTS
  Null = Null
  Lists <- MCLists
  Sink = "rgb"
  Types <- MCTypes
  In <- MCIn
  Out <- MCOut
  Accepts <- MCAccepts
  Files = {"whole", "short", "lost"}
  Missing = {"lost"}
  FileSize <- MCFileSize
  Formats = {1, 2}
  BadLibs = {"MIPI"}
  MuteLibs = {"Gray8"}
INVARIANTS NoMissingConverter CodeIsLoaded Delivered
PROPERTY ProcessReturns
