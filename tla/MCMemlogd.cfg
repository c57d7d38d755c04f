SPECIFICATION SpecHandler
CONSTANTS
  c1 = c1
  c2 = c2
  s1 = s1
  QueryHandler = qh
  Conns = {c1, c2}
  Sources = {s1}
  RingSize = 2
  ChanSize = 2
  MaxLog = 3
INVARIANTS RingHoldsLatest InOrder DumpComplete NoSendOnClosed
PROPERTIES ProducerNotBlocked 
CHECK_DEADLOCK FALSE
