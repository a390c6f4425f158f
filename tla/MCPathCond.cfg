SPECIFICATION Spec
CONSTANTS BB = {1, 2, 3, 4, 5, 6}
Requests <- AllRequests
INVARIANTS PathsCovered NothingPassedBy
PROPERTIES Termination
