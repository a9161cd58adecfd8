---------------------------- MODULE MessageQueue ----------------------------
(***************************************************************************)
(* What the queue drivers of this repository promise: a message put into a *)
(* queue is delivered at most once, and in the order of arrival.           *)
(***************************************************************************)
EXTENDS Sequences, Functions

CONSTANTS Queues, Msgs

VARIABLES
  waiting,    \* the messages in each queue
  delivered   \* the messages read from each queue so far

vars == <<waiting, delivered>>

Init ==
  /\ waiting   = [q \in Queues |-> <<>>]
  /\ delivered = [q \in Queues |-> <<>>]

Put(q, m) ==
  /\ \A r \in Queues : m \notin Range(waiting[r]) \cup Range(delivered[r])
  /\ waiting' = [waiting EXCEPT ![q] = Append(@, m)]
  /\ UNCHANGED delivered

Get(q) ==
  /\ waiting[q] # <<>>
  /\ waiting' = [waiting EXCEPT ![q] = Tail(@)]
  /\ delivered' = [delivered EXCEPT ![q] = Append(@, Head(waiting[q]))]

(* A flush drops the oldest message, one by one; a close all of them.      *)
Drop(q) ==
  /\ waiting[q] # <<>>
  /\ waiting' = [waiting EXCEPT ![q] = Tail(@)]
  /\ UNCHANGED delivered

Close(q) == waiting' = [waiting EXCEPT ![q] = <<>>] /\ UNCHANGED delivered

(* The driver is loaded anew: what was waiting is lost.                    *)
Restart == waiting' = [q \in Queues |-> <<>>] /\ UNCHANGED delivered

Next == Restart \/ \E q \in Queues :
  Get(q) \/ Drop(q) \/ Close(q) \/ \E m \in Msgs : Put(q, m)

Spec == Init /\ [][Next]_vars
=============================================================================
