\* Four sections, two of them drafted at a time, drafted up to twice (a replan).
SPECIFICATION FairSpec
CONSTANTS
  Sections <- FourSections
  Concurrency = 2
  MaxTraces = 1
  MaxRounds = 2
INVARIANTS NoOrphans FirstAlone StoredBeforeTold
PROPERTIES ImplementsEventStream StreamEnds RunOutlivesStream
