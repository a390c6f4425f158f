SPECIFICATION Spec
CONSTANTS BB = {1, 2, 3, 4, 5, 6}
Requests <- Plain
INVARIANTS LoopExitsCovered
