SPECIFICATION Spec
CONSTANTS
  Formats <- MCFormats
  Threads = 3
INVARIANTS InBuffer Converted Averaged Lit
