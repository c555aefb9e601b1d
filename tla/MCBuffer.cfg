SPECIFICATION BufferSpec
CONSTANTS
  i = i
  o = o
  k = k
  b1 = b1
  b2 = b2
  b3 = b3
  b4 = b4
  c1 = c1
  c2 = c2
  c3 = c3
  Objects = {i, o, k}
  Blocks = {b1, b2, b3, b4}
  Cells = {c1, c2, c3}
  Sizes = {1, 2, 3}
  Contents = {"raw", "rgb"}
  Unwritten = Unwritten
  NoAddress = NoAddress
SYMMETRY Addresses
INVARIANTS Ownership SizeFits
PROPERTY OthersUndisturbed
