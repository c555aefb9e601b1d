SPECIFICATION Spec
CONSTANTS
  RawFiles = {"a.raw"}
  ImageFiles = {"b.jpg"}
  Zooms = {100, 120}
  MinZoom = 100
  MaxZoom = 120
  NoFile = NoFile
  Null = Null
  Garbage = Garbage
INVARIANTS ShownIsHeld LabelIsCurrent OriginIsPristine
PROPERTY HandlersRepaint
