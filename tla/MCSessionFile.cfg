SPECIFICATION FairSpec
CONSTANTS
  Null = Null
  None = None
  s1 = s1
  s2 = s2
  t1 = t1
  t2 = t2
  writer = writer
  stopper = stopper
  Procs <- Pair
  Operations <- MCOperations
  Detachers <- OnlyStopper
  Teardowns <- OnlyStopper
  MaxInode = 2
INVARIANTS ExclusiveUnlessOrphaned BaseIsCurrentUnlessOrphaned
PROPERTIES StoreSpec LockGranted
