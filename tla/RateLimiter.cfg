\* One process without Redis: 429s and nearly spent windows pause the model.
SPECIFICATION Spec
CONSTANTS
  c1 = c1
  c2 = c2
  c3 = c3
  Calls <- ThreeCalls
  Estimate <- OneOversized
  Spends = {8}
  Rpm = 2
  Tpm = 5
  Window = 2
  MaxWait = 1
  PauseWaits = {2}
  Redis = "none"
  MaxKeys = 10000
  MaxNow = 3
INVARIANTS WindowBound TokensExplained
SYMMETRY EqualCalls
