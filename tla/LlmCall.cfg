\* Three equal JSON requests under any cache policies; Redis may fail at any operation.
SPECIFICATION Spec
CONSTANTS
  c1 = c1
  c2 = c2
  c3 = c3
  p1 = p1
  Calls <- ThreeCalls
  Processes <- OneProcess
  ProcessOf <- AllThere
  WantJson = TRUE
  Strict = TRUE
  MaxRetries = 1
INVARIANTS AsksBounded RefreshWins
SYMMETRY EqualCalls
