SPECIFICATION FairSpec
CONSTANTS
  w1 = w1
  w2 = w2
  Workers = {w1, w2}
  Server = server
  Indexes <- MCIndexes
  AppNums <- MCAppNums
  MaxRequests = 2
INVARIANTS
  ReadsWithLearners
  PartitionsByIndex
PROPERTIES
  WorkersStart
