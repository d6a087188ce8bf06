\* A revision lost to the unique constraint is still answered persisted: true.
SPECIFICATION Spec
CONSTANTS
  r1 = r1
  r2 = r2
  r3 = r3
  Requests <- ThreeRequests
  Supplied <- OneSupplied
INVARIANTS PersistedIsTrue
