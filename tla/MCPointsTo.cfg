SPECIFICATION MCSpec
CONSTANTS
  Key = {p, q}
  Data = {a, b, c}
  MaxId = 4
  MaxCalls = 6
SYMMETRY Symmetry
INVARIANTS CacheExact RevPtsInverse
PROPERTY ImplementsMutable
