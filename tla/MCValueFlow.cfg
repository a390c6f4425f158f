SPECIFICATION MCSpec
CONSTANTS
  p = p q = q x = x y = y z = z w = w r = r
  a = a b = b s1 = s1 s2 = s2 m = m fi = fi ao = ao
  Var = {p, q, x, y, z, w, r}
  Obj = {a, b}
  Store = {s1, s2}
  MemRef = {m, fi, ao}
  NoItem = NoItem
  Rounds = 34
  Budgets = {8, 60}
  Programs <- LoopAndCallPrograms
INVARIANTS
  WithinAndersen VisitedComplete AnswersExact Settled FlowSensitiveExact
PROPERTIES
  AnalysesEnd
