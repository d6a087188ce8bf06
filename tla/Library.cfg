\* Three concurrent requests that share an id and section types, and one search.
SPECIFICATION LibrarySpec
CONSTANTS
  b1 = b1
  b2 = b2
  b3 = b3
  noId = noId
  shared = shared
  NoId = noId
  Batches <- ThreeBatches
  RecordsOf <- Records
  SourceOf <- Sources
  Unchecked <- NoIds
  Queries <- SomeQueries
INVARIANTS AllOrNothing ReingestSkipped ChunksOfOwnText FiltersTruthful
PROPERTIES EveryBatchEnds
CHECK_DEADLOCK FALSE
