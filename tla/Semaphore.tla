----------------------------- MODULE Semaphore ------------------------------
(***************************************************************************)
(* What a blocking producer/consumer device promises: a count of available *)
(* items that a read takes from only while there is one.                   *)
(***************************************************************************)
EXTENDS Naturals

VARIABLE count

Init == count = 0

Produce == count' = count + 1
Consume == count > 0 /\ count' = count - 1

Next == Produce \/ Consume

Spec == Init /\ [][Next]_count
=============================================================================
