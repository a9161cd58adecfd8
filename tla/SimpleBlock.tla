---------------------------- MODULE SimpleBlock -----------------------------
(***************************************************************************)
(* The blocking character device of src/11/simple_block.c (Timed = FALSE)  *)
(* and src/12/simple_block.c (Timed = TRUE).  A write produces one item,   *)
(* a read waits until there is one and consumes it.  The wait looks at     *)
(* my_data before the spin lock is taken; the lock only covers the update. *)
(***************************************************************************)
EXTENDS WaitQueue, Integers, FiniteSets

CONSTANTS
  Readers, Writers,  \* the processes that read and those that write
  Timed,             \* the read of src/12: wait_event_timeout
  MaxWrites          \* bound: writes in one behaviour

ASSUME ProcsAssumption ==
  /\ IsFiniteSet(Readers) /\ IsFiniteSet(Writers)
  /\ Readers \cap Writers = {}
  /\ Readers # {}
  /\ Nobody \notin Readers \cup Writers
ASSUME TimedType  == Timed \in BOOLEAN
ASSUME WritesType == MaxWrites \in Nat

VARIABLES
  my_data,   \* the number of items
  pc,        \* where each process is
  reg,       \* the register my_data is loaded into for ++ and --
  expired,   \* readers whose wait_event_timeout has run out
  produced, consumed   \* history: finished increments and decrements

vars == <<cpu, spinlock, my_wq, my_data, pc, reg, expired, produced, consumed>>

Procs == Readers \cup Writers

(* Asleep in schedule(): on the queue, and no timer has fired.             *)
Asleep(p) == pc[p] = "sched" /\ p \in my_wq /\ p \notin expired

Init ==
  /\ KernelInit
  /\ my_wq = {} /\ expired = {}
  /\ my_data = 0 /\ produced = 0 /\ consumed = 0
  /\ pc = [p \in Procs |-> "user"]
  /\ reg = [p \in Procs |-> 0]

-----------------------------------------------------------------------------
Goto(p, l) == pc' = [pc EXCEPT ![p] = l]

(* What the actions below are built from; each Bug_ operator is the same   *)
(* line with a plausible mistake, used only to show that a property        *)
(* notices it.                                                             *)
Bug_MayWait(p) == pc[p] = "user" \/ (pc[p] = "sched" /\ ~Asleep(p))
MayWait(p) == p \in Readers /\ (pc[p] = "user" \/ (pc[p] = "sched" /\ ~Asleep(p)))

Bug_ItemThere == my_data >= 0
ItemThere == my_data > 0

Bug_TimeLeft(p) == TRUE
TimeLeft(p) == p \notin expired

Bug_TakeLock(p) == UNCHANGED spinlock
TakeLock(p) == SpinLock(p)

Bug_Signal == UNCHANGED my_wq
Signal == WakeUp

(* read(): the call, or the next turn of the wait loop after a wake-up.    *)
WaitPrepare(p) ==
  /\ MayWait(p) /\ Runs(p)
  /\ PrepareToWait(p) /\ KeepCpu(p) /\ Goto(p, "check")
  /\ UNCHANGED <<spinlock, my_data, reg, expired, produced, consumed>>

(* The condition holds: leave the wait and go for the lock.                *)
WaitDone(p) ==
  /\ pc[p] = "check" /\ Runs(p)
  /\ ItemThere
  /\ FinishWait(p) /\ KeepCpu(p) /\ Goto(p, "lock")
  /\ expired' = expired \ {p}
  /\ UNCHANGED <<spinlock, my_data, reg, produced, consumed>>

(* It does not, and the timeout has run out: read returns -1.              *)
WaitTimedOut(p) ==
  /\ pc[p] = "check" /\ Runs(p)
  /\ ~ItemThere /\ ~TimeLeft(p)
  /\ FinishWait(p) /\ GiveUpCpu /\ Goto(p, "user")
  /\ expired' = expired \ {p}
  /\ UNCHANGED <<spinlock, my_data, reg, produced, consumed>>

(* It does not: schedule().                                                *)
WaitSchedule(p) ==
  /\ pc[p] = "check" /\ Runs(p)
  /\ ~ItemThere /\ TimeLeft(p)
  /\ GiveUpCpu /\ Goto(p, "sched")
  /\ UNCHANGED <<spinlock, my_wq, my_data, reg, expired, produced, consumed>>

(* The 2*HZ of wait_event_timeout have passed, whether or not a wake_up    *)
(* came first.                                                             *)
TimerFires(p) ==
  /\ Timed /\ pc[p] = "sched" /\ TimeLeft(p)
  /\ expired' = expired \cup {p}
  /\ UNCHANGED <<cpu, spinlock, my_wq, my_data, pc, reg, produced, consumed>>

(* spin_lock(&my_lock): the reader after its wait, the writer on its call. *)
Lock(p) ==
  /\ Runs(p)
  /\ \/ p \in Readers /\ pc[p] = "lock"
     \/ p \in Writers /\ pc[p] = "user" /\ produced < MaxWrites
  /\ TakeLock(p) /\ KeepCpu(p) /\ Goto(p, "load")
  /\ UNCHANGED <<my_wq, my_data, reg, expired, produced, consumed>>

(* my_data-- and my_data++ are a load, ...                                 *)
Load(p) ==
  /\ pc[p] = "load" /\ Runs(p)
  /\ reg' = [reg EXCEPT ![p] = my_data]
  /\ KeepCpu(p) /\ Goto(p, "store")
  /\ UNCHANGED <<spinlock, my_wq, my_data, expired, produced, consumed>>

(* ... and a store, followed by spin_unlock.                               *)
ReadStore(p) ==
  /\ p \in Readers /\ pc[p] = "store" /\ Runs(p)
  /\ my_data' = reg[p] - 1
  /\ consumed' = consumed + 1
  /\ SpinUnlock /\ KeepCpu(p) /\ Goto(p, "return")
  /\ UNCHANGED <<my_wq, reg, expired, produced>>

(* return my_data, read again without the lock.                            *)
ReadReturn(p) ==
  /\ pc[p] = "return" /\ Runs(p)
  /\ GiveUpCpu /\ Goto(p, "user")
  /\ UNCHANGED <<spinlock, my_wq, my_data, reg, expired, produced, consumed>>

WriteStore(p) ==
  /\ p \in Writers /\ pc[p] = "store" /\ Runs(p)
  /\ my_data' = reg[p] + 1
  /\ produced' = produced + 1
  /\ SpinUnlock /\ KeepCpu(p) /\ Goto(p, "wake")
  /\ UNCHANGED <<my_wq, reg, expired, consumed>>

(* wake_up(&my_wq), and the write returns.                                 *)
WriteWake(p) ==
  /\ pc[p] = "wake" /\ Runs(p)
  /\ Signal /\ GiveUpCpu /\ Goto(p, "user")
  /\ UNCHANGED <<spinlock, my_data, reg, expired, produced, consumed>>

-----------------------------------------------------------------------------
Next == \E p \in Procs :
  \/ WaitPrepare(p)  \/ WaitDone(p) \/ WaitTimedOut(p) \/ WaitSchedule(p)
  \/ TimerFires(p)   \/ Lock(p)     \/ Load(p)
  \/ ReadStore(p)    \/ ReadReturn(p) \/ WriteStore(p) \/ WriteWake(p)

Spec == Init /\ [][Next]_vars

(***************************************************************************)
(* Fairness.  A process inside a call goes on running: the scheduler is    *)
(* fair, the timer fires, and the ARM spin lock hands itself over in       *)
(* ticket order, hence strong fairness for taking it.  Nobody has to call. *)
(***************************************************************************)
InCall(p) ==
  \/ pc[p] # "user" /\ WaitPrepare(p)
  \/ WaitDone(p) \/ WaitTimedOut(p) \/ WaitSchedule(p)
  \/ Load(p) \/ ReadStore(p) \/ ReadReturn(p) \/ WriteStore(p) \/ WriteWake(p)

Fairness == \A p \in Procs :
  /\ SF_vars(InCall(p))
  /\ SF_vars(pc[p] = "lock" /\ Lock(p))
  /\ WF_vars(TimerFires(p))

FairSpec == Spec /\ Fairness

-----------------------------------------------------------------------------
TypeOK ==
  /\ cpu \in Procs \cup {Nobody} /\ spinlock \in Procs \cup {Nobody}
  /\ my_wq \subseteq Readers /\ expired \subseteq Readers
  /\ my_data \in Int /\ produced \in Nat /\ consumed \in Nat
  /\ reg \in [Procs -> Int]
  /\ pc \in [Procs -> {"user", "check", "sched", "lock", "load", "store", "return", "wake"}]
  /\ \A r \in Readers : pc[r] # "wake"
  /\ \A w \in Writers : pc[w] \in {"user", "load", "store", "wake"}

(* Every increment and decrement counts: no update of my_data by a read or *)
(* a write overwrites another one (src/11/simple_block.c:22-24, 30-32).    *)
Conserved == my_data = produced - consumed

(* The readers that have seen my_data > 0 and not yet taken their item.    *)
Committed == {r \in Readers : pc[r] \in {"lock", "load", "store"}}

(* The wait condition is checked outside the lock, so readers may take     *)
(* items that are not there; but they never overdraw by more than one item *)
(* for each other reader, and not at all on the kernel of the .ko files.   *)
OverdraftBounded ==
  my_data >= IF SMP THEN 1 - Cardinality(Readers) ELSE 0

(* With one reader, or without SMP, what a read returns is at least what   *)
(* it left behind, although it looks at my_data again after the unlock     *)
(* (src/11/simple_block.c:23-26): never a negative number, which in src/12 *)
(* means that there was no item.                                           *)
ReturnsWhatIsLeft == \A r \in Readers :
  pc[r] = "return" => my_data >= reg[r] - 1 /\ reg[r] > 0

(* No wake-up is lost: a reader sleeps beside an available item only while *)
(* a writer is on its way to wake_up.                                      *)
NoLostWakeup ==
  (\E r \in Readers : Asleep(r)) /\ my_data > 0
    => \E w \in Writers : pc[w] = "wake"

(* A reader that sleeps while there is an item gets to look again.         *)
SleeperLooksAgain == \A r \in Readers :
  (Asleep(r) /\ my_data > 0) ~> ~Asleep(r)

(* With wait_event_timeout every read returns, item or not (src/12).       *)
TimedReadReturns == \A r \in Readers : (pc[r] # "user") ~> (pc[r] = "user")

(* The device is a counting semaphore whenever one reader's check and      *)
(* decrement cannot be interrupted by another reader's.                    *)
Sem == INSTANCE Semaphore WITH count <- my_data
SemSpec == Sem!Spec
=============================================================================
