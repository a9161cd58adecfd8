SPECIFICATION FairSpec
CONSTANTS
  c1 = c1
  c2 = c2
  q1 = q1
  q2 = q2
  m1 = m1
  m2 = m2
  m3 = m3
  m4 = m4
  Nobody = Nobody
  Nil = Nil
  Isr = Isr
  SMP = TRUE
  Polite = TRUE
  Quiet = TRUE
  MaxEdges = 2
  Spare = 2
  Clients = {c1, c2}
  Calls <- ReaderAndBoth
  Fds <- AnyFd
  Queues = {q1}
  Msgs = {m1, m2, m3, m4}
INVARIANTS
  LockExcludes
  NoStrandedReader
PROPERTIES
  ReadReturns
  FifoSpec
CHECK_DEADLOCK FALSE
