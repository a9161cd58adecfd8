----------------------------- MODULE WaitQueue ------------------------------
(***************************************************************************)
(* A Linux wait queue, as wait_event, wait_event_timeout and wake_up use   *)
(* it.  wait_event(wq, c) loops over                                       *)
(*     prepare_to_wait;  if c then break;  schedule()                      *)
(* and schedule() returns at once when a wake_up has taken the process off *)
(* the queue in between.  No waiter of these drivers is exclusive, so      *)
(* wake_up wakes every process on the queue.                               *)
(***************************************************************************)
EXTENDS Kernel

VARIABLE my_wq    \* the processes on the wait queue

PrepareToWait(p) == my_wq' = my_wq \cup {p}
FinishWait(p)    == my_wq' = my_wq \ {p}
WakeUp           == my_wq' = {}
=============================================================================
