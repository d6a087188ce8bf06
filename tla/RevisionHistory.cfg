SPECIFICATION FairSpec
CONSTANTS
  r1 = r1
  r2 = r2
  r3 = r3
  Requests <- ThreeRequests
  Supplied <- OneSupplied
INVARIANTS HistoryConsistent
PROPERTIES ImplementsHistory EveryoneAnswered
