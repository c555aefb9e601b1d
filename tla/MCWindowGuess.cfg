SPECIFICATION Spec
CONSTANTS
  v1 = v1
  v2 = v2
  v3 = v3
  Viewers = {v1, v2, v3}
  Files = {"a.nv12", "b.raw10"}
  Pictures = {}
  Class <- MCClass
  Types = {"NV12", "RGGB"}
  Sizes = {1}
  None = None
PROPERTY OpenedIsGuessed
