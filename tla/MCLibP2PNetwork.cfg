SPECIFICATION Spec
CONSTANTS
  p1 = p1
  p2 = p2
  m1 = m1
  m2 = m2
  m3 = m3
  s1 = s1
  s2 = s2
  Peers = {p1, p2}
  Msgs = {m1, m2, m3}
  Streams = {s1, s2}
  Capacity = 1
  MaxBatch = 2
INVARIANT
  StreamsInOrder
PROPERTY
  ImplementsPool
CHECK_DEADLOCK FALSE
