SPECIFICATION FairSpec
CONSTANTS
  n1 = n1
  n2 = n2
  n3 = n3
  TNode <- MCTNode
  FirstFree <- MCFirstFree
  Arg = {1}
  MaxTime = 3
  Slack = 3
INVARIANT TypeOK PoolPartition Sorted NoLostTimer
PROPERTY ImplementsService EventuallyLeaves
CHECK_DEADLOCK FALSE
