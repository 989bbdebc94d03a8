SPECIFICATION Spec
CONSTANTS
  Size = 2
  Printable = {"a", "b"}
  MaxKeys = 4
INVARIANTS
  LineTypeOK
  CollectsWhatIsTyped
  ReturnsTheLine
PROPERTIES
  BufferLeftAlone
  NewlineEndsTheLine
