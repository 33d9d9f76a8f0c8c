CONSTANTS
  Tasks = {"t1", "t2"}
  MaxKeys = 3
SPECIFICATION FairSpec
INVARIANTS OneOperation ButtonsBack FailOpen ConfIsPeer
PROPERTIES OperationEnds
