SPECIFICATION Spec
CONSTANTS
  v1 = v1
  v2 = v2
  v3 = v3
  Viewers = {v1, v2, v3}
  Files = {"a.nv12", "b.jpg"}
  Pictures = {"b.jpg"}
  Class <- MCClass
  Types = {"NV12", "RGGB"}
  Sizes = {1}
  None = None
SYMMETRY Addresses
INVARIANT CurrentIsShown
PROPERTIES TabsKeepTheirName FieldsFollowTab
