SPECIFICATION Spec
CONSTANTS
  p1 = p1  p2 = p2  p3 = p3  p4 = p4  p5 = p5  a = a  b = b  f = f  g = g
  Ptr = {p1, p2, p3, p4, p5}
  Base = {a, b, f, g}
  MaxField = 2
  Opaque = {g}
  NoDeref = {f, g}
  Programs <- AllPrograms
  IndCallLimit = 2
  NoNode = NoNode
INVARIANTS
  PropagatedReached MergedNodesDetached RepSubsAgree NoDanglingField VisitedSettled DirectConstraintsSolved SolvedWithoutMerges
  IndirectCallsSolved NoCoarserThanFieldInsensitive
PROPERTIES NoLostTarget Termination
