SPECIFICATION Spec
CONSTANTS
  main = main A = A B = B C = C H = H L = L  mu = mu  nu = nu
  Fun = {main, A, B, C, H, L}
  Main = main
  NoInst = NoInst
  Lock = {mu, nu}
  MaxThreads = 4
  MaxDepth = 3
  Programs <- Missed
INVARIANTS RacesReported
CHECK_DEADLOCK FALSE
