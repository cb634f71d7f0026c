SPECIFICATION IVSpec
CONSTANTS
  Index = {0}
  Vals = {0, 1, 2}
  MaxLen = 3
PROPERTIES
  FindCorrect
