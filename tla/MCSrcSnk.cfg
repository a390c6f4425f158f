SPECIFICATION Spec
CONSTANTS
  a = a  w = w  r1 = r1  r2 = r2  p = p  s1 = s1  s2 = s2  g = g
  c0 = c0  c1 = c1  c2 = c2  c3 = c3  c4 = c4  c = c
  SVFGNode = {a, w, r1, r2, p, s1, s2, g}
  CallSite = {c0, c1, c2, c3, c4}
  NoCallSite = NoCallSite
  NoNode = NoNode
  CxtLimit = 1
  Atom = {c}
  MaxStepInWrapper = 2
  PathBound = 9
  Inputs <- AllInputs
INVARIANTS JudgedAlone GuardsExact AllocationsJudged
PROPERTIES Termination
