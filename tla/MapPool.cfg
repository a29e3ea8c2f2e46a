\* Five items, with a limit below, inside and above the pool's range; items
\* 2 and 4 may reject.
CONSTANTS
  NumItems = 5
  Limits = {0, 1, 3, 9}
  MayReject = {2, 4}
  Values = {v1, v2}
SPECIFICATION Spec
INVARIANT PoolIsSound
PROPERTIES NoDispatchAfterFailure PoolSettles
