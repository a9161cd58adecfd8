------------------------------ MODULE RcuList -------------------------------
(***************************************************************************)
(* src/13/simple_rcu.c: a list that is built while the module is loaded    *)
(* and freed while it is removed.  Two ioctl commands walk it, one under   *)
(* my_lock and one under rcu_read_lock; building and freeing take neither. *)
(* The device is available from the first call of simple_rcu_init, and     *)
(* until the last one of simple_rcu_exit.                                  *)
(*                                                                         *)
(* Without SMP walking, INIT_LIST_HEAD and the loop that frees keep the    *)
(* processor; kmalloc and cdev_del may give it up.                         *)
(***************************************************************************)
EXTENDS Integers, Sequences, FiniteSets, Kernel

CONSTANTS
  Readers,    \* the processes that read
  Loader,     \* the process that runs insmod and rmmod
  Length,     \* entries of the list: 5 in the code
  Polite,     \* TRUE: nobody reads before INIT_LIST_HEAD or during removal
  MaxLoads    \* bound: how often the module is loaded

ASSUME RcuProcs == Loader \notin Readers /\ Nobody \notin Readers \cup {Loader}
ASSUME RcuBounds == Length \in Nat /\ MaxLoads \in Nat /\ Polite \in BOOLEAN

(* The entries are known by their id, the head of mylist as -1; -2 is NULL *)
(* or a poisoned pointer.                                                  *)
Ids  == 0 .. Length - 1
MyList == -1
Nil  == -2
Node == Ids \cup {MyList}

VARIABLES
  next, prev,  \* list_head of the entries and of mylist
  mem,         \* the entries that are allocated
  lpc,         \* where loading or removal is
  i,           \* loading: the entry to add next
  tmp, pos,    \* removal: the entry to delete, and the one behind it
  loads,       \* how often it was loaded
  rpc,         \* where the call of each reader is
  cursor,      \* the entry it looks at
  seen,        \* the ids it has printed
  listed,      \* history: entries on the list
  snapshot,    \* history: what listed was when each reader began to walk
  fault        \* freed memory or a null pointer was followed

loader == <<lpc, i, tmp, pos, loads>>
reader == <<rpc, cursor, seen, snapshot>>
vars == <<cpu, spinlock, next, prev, mem, loader, reader, listed, fault>>

Init ==
  /\ KernelInit
  /\ next = [x \in Node |-> Nil] /\ prev = [x \in Node |-> Nil] /\ mem = {}
  /\ lpc = "gone" /\ i = 0 /\ tmp = Nil /\ pos = Nil /\ loads = 0
  /\ rpc = [p \in Readers |-> "idle"] /\ cursor = [p \in Readers |-> Nil]
  /\ seen = [p \in Readers |-> <<>>] /\ snapshot = [p \in Readers |-> 0]
  /\ listed = 0 /\ fault = FALSE

Goes(from, to) == ~fault /\ Runs(Loader) /\ lpc = from /\ lpc' = to

-----------------------------------------------------------------------------
(* cdev_add; mylist is still all zeros.                                    *)
Load ==
  /\ Goes("gone", "added") /\ KeepCpu(Loader)
  /\ loads < MaxLoads /\ loads' = loads + 1
  /\ next' = [next EXCEPT ![MyList] = Nil] /\ prev' = [prev EXCEPT ![MyList] = Nil]
  /\ UNCHANGED <<spinlock, mem, i, tmp, pos, reader, listed, fault>>

InitHead ==
  /\ Goes("added", "alloc") /\ KeepCpu(Loader) /\ i' = 0
  /\ next' = [next EXCEPT ![MyList] = MyList] /\ prev' = [prev EXCEPT ![MyList] = MyList]
  /\ UNCHANGED <<spinlock, mem, tmp, pos, loads, reader, listed, fault>>

More == i < Length

Alloc ==
  /\ Goes("alloc", "fill") /\ More
  /\ (KeepCpu(Loader) \/ GiveUpCpu)
  /\ mem' = mem \cup {i}
  /\ UNCHANGED <<spinlock, next, prev, i, tmp, pos, loads, reader, listed, fault>>

(* list_add_rcu: the pointers of the new entry, ...                        *)
Bug_Linked == MyList
Linked == next[MyList]

Fill ==
  /\ Goes("fill", "publish") /\ KeepCpu(Loader)
  /\ next' = [next EXCEPT ![i] = Linked] /\ prev' = [prev EXCEPT ![i] = MyList]
  /\ UNCHANGED <<spinlock, mem, i, tmp, pos, loads, reader, listed, fault>>

(* ... rcu_assign_pointer of the one that readers follow, ...              *)
Publish ==
  /\ Goes("publish", "back") /\ KeepCpu(Loader)
  /\ next' = [next EXCEPT ![MyList] = i] /\ listed' = listed + 1
  /\ UNCHANGED <<spinlock, prev, mem, i, tmp, pos, loads, reader, fault>>

(* ... and the way back.                                                   *)
Back ==
  /\ Goes("back", "alloc") /\ KeepCpu(Loader)
  /\ prev' = [prev EXCEPT ![next[i]] = i] /\ i' = i + 1
  /\ UNCHANGED <<spinlock, next, mem, tmp, pos, loads, reader, listed, fault>>

Finish ==
  /\ Goes("alloc", "loaded") /\ ~More /\ GiveUpCpu
  /\ UNCHANGED <<spinlock, next, prev, mem, i, tmp, pos, loads, reader, listed, fault>>

-----------------------------------------------------------------------------
(* simple_rcu_exit: list_for_each_entry_safe has read the entry behind tmp *)
(* before it deletes and frees tmp.                                        *)
Exit ==
  /\ Goes("loaded", "loop") /\ KeepCpu(Loader)
  /\ Polite => \A p \in Readers : rpc[p] = "idle"
  /\ tmp' = next[MyList] /\ pos' = next[next[MyList]]
  /\ UNCHANGED <<spinlock, next, prev, mem, i, loads, reader, listed, fault>>

Delete ==
  /\ Goes("loop", "free") /\ tmp # MyList /\ KeepCpu(Loader)
  /\ next' = [next EXCEPT ![prev[tmp]] = next[tmp]]
  /\ prev' = [prev EXCEPT ![next[tmp]] = prev[tmp], ![tmp] = Nil]
  /\ listed' = listed - 1
  /\ UNCHANGED <<spinlock, mem, i, tmp, pos, loads, reader, fault>>

(* kfree, and the next turn; nothing is to be read from a freed entry.     *)
Bug_Freed == mem
Freed == mem \ {tmp}

Bug_Following == IF tmp \in Freed THEN next[tmp] ELSE Nil
Following == pos

Free ==
  /\ Goes("free", "loop") /\ KeepCpu(Loader)
  /\ mem' = Freed /\ tmp' = Following
  /\ IF tmp' \in Freed \cup {MyList}
     THEN pos' = next[tmp'] /\ UNCHANGED fault
     ELSE fault' = TRUE /\ UNCHANGED pos
  /\ UNCHANGED <<spinlock, next, prev, i, loads, reader, listed>>

(* cdev_del.  A call that outlives the module's code is left out.          *)
Gone ==
  /\ Goes("loop", "gone") /\ tmp = MyList
  /\ \A p \in Readers : rpc[p] = "idle"
  /\ GiveUpCpu
  /\ UNCHANGED <<spinlock, next, prev, mem, i, tmp, pos, loads, reader, listed, fault>>

-----------------------------------------------------------------------------
(* simple_ioctl: IOCTL_READ with the lock, IOCTL_READ_RCU without.         *)
Available == lpc # "gone" /\ (Polite => lpc \notin {"added", "loop", "free"})

Read(p, locks) ==
  /\ ~fault /\ Runs(p) /\ rpc[p] = "idle" /\ Available /\ KeepCpu(p)
  /\ IF locks THEN SpinLock(p) ELSE UNCHANGED spinlock
  /\ rpc' = [rpc EXCEPT ![p] = IF locks THEN "locked" ELSE "rcu"]
  /\ cursor' = [cursor EXCEPT ![p] = Nil] /\ seen' = [seen EXCEPT ![p] = <<>>]
  /\ UNCHANGED <<next, prev, mem, loader, snapshot, listed, fault>>

First(p) ==
  /\ ~fault /\ Runs(p) /\ rpc[p] \in {"locked", "rcu"} /\ KeepCpu(p)
  /\ rpc' = [rpc EXCEPT ![p] = IF rpc[p] = "locked" THEN "walk locked" ELSE "walk"]
  /\ cursor' = [cursor EXCEPT ![p] = next[MyList]]
  /\ snapshot' = [snapshot EXCEPT ![p] = listed]
  /\ UNCHANGED <<spinlock, next, prev, mem, loader, seen, listed, fault>>

Walking(p) == rpc[p] \in {"walk", "walk locked"}

ShowEntry(p) ==
  /\ ~fault /\ Runs(p) /\ Walking(p) /\ cursor[p] # MyList /\ KeepCpu(p)
  /\ IF cursor[p] \in mem
     THEN /\ seen' = [seen EXCEPT ![p] = Append(@, cursor[p])]
          /\ cursor' = [cursor EXCEPT ![p] = next[cursor[p]]]
          /\ UNCHANGED fault
     ELSE fault' = TRUE /\ UNCHANGED <<seen, cursor>>
  /\ UNCHANGED <<spinlock, next, prev, mem, loader, rpc, snapshot, listed>>

Return(p) ==
  /\ ~fault /\ Runs(p) /\ Walking(p) /\ cursor[p] = MyList /\ GiveUpCpu
  /\ IF rpc[p] = "walk locked" THEN SpinUnlock ELSE UNCHANGED spinlock
  /\ rpc' = [rpc EXCEPT ![p] = "idle"]
  /\ UNCHANGED <<next, prev, mem, loader, cursor, seen, snapshot, listed, fault>>

LoaderNext == Load \/ InitHead \/ Alloc \/ Fill \/ Publish \/ Back \/ Finish
                \/ Exit \/ Delete \/ Free \/ Gone

ReaderNext(p) == (\E locks \in BOOLEAN : Read(p, locks)) \/ First(p) \/ ShowEntry(p) \/ Return(p)

Next == LoaderNext \/ \E p \in Readers : ReaderNext(p)

Spec == Init /\ [][Next]_vars

-----------------------------------------------------------------------------
Ptr == Node \cup {Nil}

TypeOK ==
  /\ cpu \in Readers \cup {Loader, Nobody} /\ spinlock \in Readers \cup {Nobody}
  /\ next \in [Node -> Ptr] /\ prev \in [Node -> Ptr] /\ mem \subseteq Ids
  /\ lpc \in {"gone", "added", "alloc", "fill", "publish", "back", "loaded", "loop", "free"}
  /\ i \in 0 .. Length /\ tmp \in Ptr /\ pos \in Ptr /\ loads \in Nat
  /\ rpc \in [Readers -> {"idle", "locked", "rcu", "walk", "walk locked"}]
  /\ cursor \in [Readers -> Ptr] /\ seen \in [Readers -> Seq(Ids)]
  /\ listed \in Nat /\ snapshot \in [Readers -> Nat] /\ fault \in BOOLEAN

(* Neither a reader nor the loop that frees the list follows a pointer to  *)
(* nothing or to an entry that was freed (simple_rcu.c:42, 52, 107-110).   *)
NoFault == ~fault

(* Removal frees every entry (simple_rcu.c:107-110).                       *)
NothingLeft == lpc = "gone" => mem = {}

(* The entries that a walk along the pointers nx meets from x on.          *)
Walked(nx, x) ==
  LET at[n \in 1 .. Length + 1] ==
        IF n = 1 THEN x ELSE IF at[n - 1] \in Ids THEN nx[at[n - 1]] ELSE MyList
      len == Cardinality({n \in 1 .. Length + 1 : at[n] \in Ids})
  IN  [n \in 1 .. len |-> at[n]]

Entries == Walked(next, next[MyList])

(* What a call that has looked prints: what it has printed already, and    *)
(* then all that it will meet.                                             *)
Answer(p) == IF cursor[p] = Nil THEN {} ELSE {seen[p] \o Walked(next, cursor[p])}
Answers == [p \in Readers |-> Answer(p)]

(* A read, with or without the lock, is atomic: that it walks the list     *)
(* while list_add_rcu changes it, pointer by pointer, makes no difference  *)
(* to what it prints (simple_rcu.c:38-57, 92-96, 107-110).                 *)
Atomic == INSTANCE SharedList WITH entries <- Entries, answer <- Answers
ReadsAreAtomic == Atomic!Spec
=============================================================================
