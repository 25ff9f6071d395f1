SPECIFICATION Spec
CONSTANTS
  Absent = Absent
  Junk = Junk
  Hollow = Hollow
  Blank = Blank
  NaN = NaN
  Infinity = Infinity
  Usual <- Sound
  Variations <- AllVariations
INVARIANTS
  NoDefectEscapes
  DispositionIsDeserved
CHECK_DEADLOCK FALSE
