SPECIFICATION Spec
CONSTANTS
  c1 = c1
  c2 = c2
  q1 = q1
  q2 = q2
  m1 = m1
  m2 = m2
  m3 = m3
  m4 = m4
  Nobody = Nobody
  Nil = Nil
  Isr = Isr
  SMP = FALSE
  Polite = TRUE
  Quiet = FALSE
  MaxEdges = 3
  Spare = 0
  Clients = {c1}
  Calls <- Solo
  Fds = {0}
  Queues = {q1, q2}
  Msgs = {m1, m2, m3}
INVARIANTS
  TypeOK
  NoUseAfterFree
  DeliveredInOrder
  SensorSettled
CHECK_DEADLOCK FALSE
