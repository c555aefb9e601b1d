SPECIFICATION Spec
CONSTANTS
  Formats <- MCFormats
INVARIANTS NoCellTwice InBuffers Converted
PROPERTY Returns
