SPECIFICATION Spec
CONSTANTS
  N = {n1, n2, n3, n4}
  Graphs <- SmallGraphs
  Candidates <- WholeOrOne
  NoRep = NoRep
SYMMETRY NodeSymmetry
INVARIANTS
  TypeOK RepsConnected TopologicalOrder ComponentsFound
