CONSTANTS
  p1 = p1
  p2 = p2
  c1 = c1
  c2 = c2
  Producers = {p1, p2}
  Consumers = {c1, c2}
  CHUNK_SIZE = 1
  MaxRefs = 0
  ItemsPerProducer <- TwoAndOne
SPECIFICATION Spec
INVARIANTS SlotAccessSafe IInv
PROPERTIES ImplementsFifo
SYMMETRY Symmetry
CHECK_DEADLOCK FALSE
