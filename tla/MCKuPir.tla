------------------------------ MODULE MCKuPir -------------------------------
(* KuPir with one or two clients, and what each of them does.              *)
EXTENDS KuPir, TLC

CONSTANTS c1, c2, q1, q2, m1, m2, m3, m4

\* one client that makes every call
Solo == (c1 :> LibCalls)
\* an owner, and a process that inserts messages and opens a queue itself
OwnerAndWriter == (c1 :> {"create", "read", "flush"} @@ c2 :> {"create", "write"})
\* two readers; one of them inserts, the other creates
ReaderAndBoth == (c1 :> {"create", "read"} @@ c2 :> {"read", "write"})
\* one process that reads
Reader == (c1 :> {"create", "read"})

\* the descriptors of the first two queues after loading: each is no queue's
\* until that is created and after it is closed
AnyFd == 0 .. 1
=============================================================================
