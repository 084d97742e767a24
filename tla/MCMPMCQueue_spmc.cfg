CONSTANTS
  p1 = p1
  p2 = p2
  c1 = c1
  c2 = c2
  Producers = {p1}
  Consumers = {c1, c2}
  CHUNK_SIZE = 2
  MaxRefs = 1
  ItemsPerProducer <- ThreeItems
SPECIFICATION FairSpec
INVARIANTS ReadCountExact DeletedOnlyWhenDrained ReleaseSafe
PROPERTIES RefsGivenBack EventuallyAllPopped
CHECK_DEADLOCK FALSE
