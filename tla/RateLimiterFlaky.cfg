\* Redis shared by the processes, any operation of it may fail over to memory.
SPECIFICATION FairSpec
CONSTANTS
  c1 = c1
  c2 = c2
  c3 = c3
  Calls <- TwoCalls
  Estimate <- Small
  Spends = {1}
  Rpm = 1
  Tpm = 0
  Window = 2
  MaxWait = 1
  PauseWaits = {2}
  Redis = "flaky"
  MaxKeys = 10000
  MaxNow = 3
PROPERTIES EveryCallDecided
