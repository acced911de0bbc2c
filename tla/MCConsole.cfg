SPECIFICATION Spec
CONSTANTS
  WIDTH = 5
  HIGHT = 2
  CELLS = 24
  UINT32 = 64
  BITS = 16
  WORD = 8
  SHORT = 6
  CHAR = 4
  PrintAt = {0}
  NULL = NULL
  Messages <- TheMessages
  Texts <- TheTexts
INVARIANTS
  CursorOnScreen
  WritesInside
  FreshLines
  NumberRight
