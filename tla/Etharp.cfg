\* More addresses than entries, fewer queue elements than the queues may hold;
\* two re-requests fit between Unicast and MaxAge.
SPECIFICATION FairSpec
CONSTANTS
  IPs = {"a", "b", "c"}
  MACs = {"m", "n"}
  TableSize = 2
  PoolSize = 3
  QueueLen = 2
  MaxAge = 5
  Unicast = 1
  MaxPending = 2
  MaxQueries = 1
INVARIANTS TableInv StableIsCurrent SteadyUseAsks
PROPERTY QueueEmpties
