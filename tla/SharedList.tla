----------------------------- MODULE SharedList -----------------------------
(***************************************************************************)
(* What a list under RCU promises its readers: a read returns the whole    *)
(* list as it was at one moment after the call, however entries are added  *)
(* at the front meanwhile.                                                 *)
(***************************************************************************)
EXTENDS Sequences, Functions

CONSTANTS Readers, Ids

VARIABLES
  entries,    \* the list, newest entry first
  answer      \* the set of the list a call of each reader returns; empty until it has looked

vars == <<entries, answer>>

Init == entries = <<>> /\ answer = [p \in Readers |-> {}]

Add(x) ==
  /\ x \notin Range(entries)
  /\ entries' = <<x>> \o entries /\ UNCHANGED answer

Remove == entries # <<>> /\ entries' = Tail(entries) /\ UNCHANGED answer

Call(p) == answer' = [answer EXCEPT ![p] = {}] /\ UNCHANGED entries

Look(p) ==
  /\ answer[p] = {}
  /\ answer' = [answer EXCEPT ![p] = {entries}] /\ UNCHANGED entries

Next == (\E x \in Ids : Add(x)) \/ Remove \/ \E p \in Readers : Call(p) \/ Look(p)

Spec == Init /\ [][Next]_vars
=============================================================================
