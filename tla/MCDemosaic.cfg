SPECIFICATION Spec
CONSTANTS
  Formats <- MCFormats
  Word = 32
INVARIANTS NoPixelShared InPicture Demosaiced
PROPERTY Returns
