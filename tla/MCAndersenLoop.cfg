SPECIFICATION Spec
CONSTANTS
  p1 = p1  p2 = p2  p3 = p3  p4 = p4  p5 = p5  a = a  b = b  f = f  g = g
  Ptr = {p1, p2, p3, p4, p5}
  Base = {a}
  MaxField = 2
  Opaque = {}
  NoDeref = {}
  Programs <- UnsolvedPrograms
  IndCallLimit = 2
  NoNode = NoNode
INVARIANTS AllConstraintsSolved
