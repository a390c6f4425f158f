SPECIFICATION Spec
CONSTANTS
  m = m  r1 = r1  r2 = r2  f1 = f1  f2 = f2  g1 = g1  c1 = c1  c2 = c2  c3 = c3
  SVFGNode = {m, r1, r2, f1, f2, g1}
  CallSite = {c1, c2, c3}
  NoCallSite = NoCallSite
  NoNode = NoNode
  CxtLimit = 1
  PathBound = 7
  Inputs <- NoSourceInputs
INVARIANTS Completes
