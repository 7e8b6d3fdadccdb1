SPECIFICATION MCSpec
CONSTANTS
  x = x  o = o  g = g  p1 = p1  p2 = p2  c1 = c1  c2 = c2
  Humans = {x, o}
  Owner = o
  Nobody = Nobody
  Groups = {g}
  Projects = {p1, p2}
  Calls = {c1, c2}
  Seats = 3
  Conns = 4
  MaxLinks = 2
  Load = 3
SYMMETRY Symmetry
INVARIANTS
  ActiveIsProved
  MailKnowsItsReader
  ChatIsOfItsPerson
  RemovedIsOut
CHECK_DEADLOCK FALSE
