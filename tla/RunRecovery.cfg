\* Two runs started one after the other, broken streams polled twice.
SPECIFICATION RecoveryFairSpec
CONSTANTS
  Last = 2
  MaxPolls = 2
INVARIANTS ShownIsReal OneLiveCall StaleOnlyFromPoll
PROPERTIES EveryRunSettles
