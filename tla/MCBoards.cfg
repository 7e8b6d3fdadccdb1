CONSTANTS
  Sessions = {s1, s2}
  Keys = {k1}
  Widgets = {w1}
  Names = {Main, Ops, Ads}
  Main = Main
  Limit = 2
  MaxNow = 5
SPECIFICATION Spec
SYMMETRY Symmetry
PROPERTIES SaveOnItsBase LayingKeeps
CHECK_DEADLOCK FALSE
