------------------------- MODULE SimpleBlockProofs --------------------------
(***************************************************************************)
(* Theorems about SimpleBlock for every set of readers and writers, every  *)
(* bound on the writes, with and without SMP, with and without a timeout.  *)
(***************************************************************************)
EXTENDS SimpleBlock, TLAPS, FiniteSetTheorems

(* Who is inside the update of my_data is alone there, by the spin lock or *)
(* because it keeps the processor; and what it has loaded is not stale.    *)
Updating(p) == pc[p] \in {"load", "store"}
Owner == \A p \in Procs : SMP /\ Updating(p) => spinlock = p
Keeps == \A p \in Procs :
  ~SMP /\ pc[p] \in {"check", "lock", "load", "store", "return", "wake"} => cpu = p
RegFresh == \A p \in Procs : pc[p] = "store" => reg[p] = my_data

Safe == TypeOK /\ Owner /\ Keeps /\ RegFresh /\ Conserved

LEMMA SafeInit == Init => Safe
BY ProcsAssumption DEF Init, KernelInit, Safe, TypeOK, Owner, Keeps, RegFresh,
  Conserved, Updating, Procs

LEMMA SafeStep == Safe /\ [Next]_vars => Safe'
<1> SUFFICES ASSUME Safe, [Next]_vars PROVE Safe'
  OBVIOUS
<1> USE ProcsAssumption, SMPType
<1> USE DEF Safe, TypeOK, Owner, Keeps, RegFresh, Conserved, Updating, Procs,
          Goto, KeepCpu, GiveUpCpu, Runs
<1>1. CASE UNCHANGED vars
  BY <1>1 DEF vars
<1>2. ASSUME NEW p \in Procs, WaitPrepare(p) PROVE Safe'
  BY <1>2 DEF WaitPrepare, MayWait, PrepareToWait, Asleep
<1>3. ASSUME NEW p \in Procs, WaitDone(p) PROVE Safe'
  BY <1>3 DEF WaitDone, FinishWait
<1>4. ASSUME NEW p \in Procs, WaitTimedOut(p) PROVE Safe'
  BY <1>4 DEF WaitTimedOut, FinishWait
<1>5. ASSUME NEW p \in Procs, WaitSchedule(p) PROVE Safe'
  BY <1>5 DEF WaitSchedule
<1>6. ASSUME NEW p \in Procs, TimerFires(p) PROVE Safe'
  BY <1>6 DEF TimerFires
<1>7. ASSUME NEW p \in Procs, Lock(p) PROVE Safe'
  BY <1>7 DEF Lock, TakeLock, SpinLock
<1>8. ASSUME NEW p \in Procs, Load(p) PROVE Safe'
  BY <1>8 DEF Load
<1>9. ASSUME NEW p \in Procs, ReadStore(p) PROVE Safe'
  BY <1>9 DEF ReadStore, SpinUnlock
<1>10. ASSUME NEW p \in Procs, WriteStore(p) PROVE Safe'
  BY <1>10 DEF WriteStore, SpinUnlock
<1>11. ASSUME NEW p \in Procs, WriteWake(p) PROVE Safe'
  BY <1>11 DEF WriteWake, Signal, WakeUp
<1>12. ASSUME NEW p \in Procs, ReadReturn(p) PROVE Safe'
  BY <1>12 DEF ReadReturn
<1>13. QED
  BY <1>1, <1>2, <1>3, <1>4, <1>5, <1>6, <1>7, <1>8, <1>9, <1>10, <1>11, <1>12
  DEF Next

LEMMA SafeAlways == Spec => []Safe
BY SafeInit, SafeStep, PTL DEF Spec

(* The type invariant of both devices.                                     *)
THEOREM TypeCorrect == Spec => []TypeOK
<1>1. Safe => TypeOK
  BY DEF Safe
<1>2. QED
  BY <1>1, SafeAlways, PTL

(* No increment or decrement of my_data overwrites another one.            *)
THEOREM UpdatesConserved == Spec => []Conserved
<1>1. Safe => Conserved
  BY DEF Safe
<1>2. QED
  BY <1>1, SafeAlways, PTL

-----------------------------------------------------------------------------
(* No wake-up is lost: the wait registers the reader before it looks, and  *)
(* a write wakes the queue after it has stored.                            *)
THEOREM WakeupNotLost == Spec => []NoLostWakeup
<1>1. Init => NoLostWakeup
  BY DEF Init, NoLostWakeup, Asleep, Procs
<1>2. Safe /\ NoLostWakeup /\ [Next]_vars => NoLostWakeup'
  <2> SUFFICES ASSUME Safe, NoLostWakeup, [Next]_vars,
                      NEW r \in Readers, Asleep(r)', my_data' > 0
               PROVE  \E w \in Writers : pc'[w] = "wake"
    BY DEF NoLostWakeup
  <2> USE ProcsAssumption
  <2> USE DEF Safe, TypeOK, RegFresh, NoLostWakeup, Asleep, Procs, Goto
  <2>1. CASE UNCHANGED vars
    BY <2>1 DEF vars
  <2>2. ASSUME NEW p \in Procs,
               WaitPrepare(p) \/ WaitDone(p) \/ WaitTimedOut(p)
        PROVE  \E w \in Writers : pc'[w] = "wake"
    BY <2>2 DEF WaitPrepare, WaitDone, WaitTimedOut, MayWait, PrepareToWait,
                FinishWait
  <2>3. ASSUME NEW p \in Procs, WaitSchedule(p)
        PROVE  \E w \in Writers : pc'[w] = "wake"
    BY <2>3 DEF WaitSchedule, ItemThere
  <2>4. ASSUME NEW p \in Procs, TimerFires(p) \/ Lock(p) \/ Load(p)
        PROVE  \E w \in Writers : pc'[w] = "wake"
    BY <2>4 DEF TimerFires, Lock, Load
  <2>5. ASSUME NEW p \in Procs, ReadStore(p)
        PROVE  \E w \in Writers : pc'[w] = "wake"
    BY <2>5 DEF ReadStore
  <2>6. ASSUME NEW p \in Procs, WriteStore(p)
        PROVE  \E w \in Writers : pc'[w] = "wake"
    BY <2>6 DEF WriteStore
  <2>7. ASSUME NEW p \in Procs, WriteWake(p)
        PROVE  \E w \in Writers : pc'[w] = "wake"
    BY <2>7 DEF WriteWake, Signal, WakeUp
  <2>8. ASSUME NEW p \in Procs, ReadReturn(p)
        PROVE  \E w \in Writers : pc'[w] = "wake"
    BY <2>8 DEF ReadReturn
  <2>9. QED
    BY <2>1, <2>2, <2>3, <2>4, <2>5, <2>6, <2>7, <2>8 DEF Next
<1>3. QED
  BY <1>1, <1>2, SafeAlways, PTL DEF Spec

-----------------------------------------------------------------------------
(* Each committed reader but the last one found an item of its own.        *)
Reserved ==
  /\ my_data >= Cardinality(Committed) - Cardinality(Readers) + 1
  /\ ~SMP => my_data >= 0 /\ (Committed # {} => my_data > 0)

LEMMA CommittedFinite ==
  ASSUME NEW S \in SUBSET Readers
  PROVE  /\ IsFiniteSet(S) /\ Cardinality(S) \in Nat
         /\ Cardinality(Readers) \in Nat
         /\ Cardinality(S) <= Cardinality(Readers)
BY ProcsAssumption, FS_Subset, FS_CardinalityType

LEMMA ReservedInit == Init => Reserved
<1> SUFFICES ASSUME Init PROVE Reserved
  OBVIOUS
<1>1. Committed = {} /\ my_data = 0
  BY DEF Init, Committed, Procs
<1>2. Cardinality(Readers) \in Nat /\ Cardinality(Readers) # 0
  BY ProcsAssumption, FS_EmptySet, FS_CardinalityType
<1>3. QED
  BY <1>1, <1>2, FS_EmptySet DEF Reserved

LEMMA ReservedStep == Safe /\ Reserved /\ [Next]_vars => Reserved'
<1> SUFFICES ASSUME Safe, Reserved, [Next]_vars PROVE Reserved'
  OBVIOUS
<1> USE ProcsAssumption, SMPType DEF Safe, TypeOK, Procs, Goto
<1>a. Committed \in SUBSET Readers /\ Committed' \in SUBSET Readers
  BY DEF Committed
<1>b. /\ IsFiniteSet(Committed) /\ Cardinality(Committed) \in Nat
      /\ Cardinality(Readers) \in Nat
      /\ Cardinality(Committed) <= Cardinality(Readers)
      /\ Cardinality(Committed') <= Cardinality(Readers)
      /\ Cardinality(Committed') \in Nat
  BY <1>a, CommittedFinite
<1>1. ASSUME Committed' = Committed, my_data' = my_data PROVE Reserved'
  BY <1>1 DEF Reserved
<1>2. CASE UNCHANGED vars
  BY <1>1, <1>2 DEF vars, Committed
<1>3. ASSUME NEW p \in Procs, WaitPrepare(p) \/ WaitTimedOut(p) \/ WaitSchedule(p)
      PROVE  Reserved'
  BY <1>1, <1>3 DEF WaitPrepare, WaitTimedOut, WaitSchedule, MayWait, Committed
<1>4. ASSUME NEW p \in Procs,
             TimerFires(p) \/ Lock(p) \/ Load(p) \/ ReadReturn(p) \/ WriteWake(p)
      PROVE  Reserved'
  BY <1>1, <1>4 DEF TimerFires, Lock, Load, ReadReturn, WriteWake, Committed
<1>5. ASSUME NEW p \in Procs, WaitDone(p) PROVE Reserved'
  <2>1. my_data' = my_data /\ my_data > 0
    BY <1>5 DEF WaitDone, ItemThere
  <2>2. QED
    BY <2>1, <1>b DEF Reserved
<1>6. ASSUME NEW p \in Procs, ReadStore(p) PROVE Reserved'
  <2>1. my_data' = my_data - 1
    BY <1>6 DEF ReadStore, RegFresh
  <2>2. p \in Committed /\ Committed' = Committed \ {p}
    BY <1>6 DEF ReadStore, Committed
  <2>3. Cardinality(Committed') = Cardinality(Committed) - 1
    BY <2>2, <1>b, FS_RemoveElement
  <2>4. ASSUME ~SMP PROVE Committed' = {}
    BY <2>4, <2>2, <1>6 DEF Keeps, Committed
  <2>5. my_data \in Int
    OBVIOUS
  <2>6. QED
    BY <2>1, <2>2, <2>3, <2>4, <2>5, <1>b DEF Reserved
<1>7. ASSUME NEW p \in Procs, WriteStore(p) PROVE Reserved'
  <2>1. my_data' = my_data + 1 /\ Committed' = Committed
    BY <1>7 DEF WriteStore, RegFresh, Committed
  <2>2. QED
    BY <2>1, <1>b DEF Reserved
<1>8. QED
  BY <1>2, <1>3, <1>4, <1>5, <1>6, <1>7 DEF Next

LEMMA ReservedAlways == Spec => []Reserved
BY ReservedInit, ReservedStep, SafeAlways, PTL DEF Spec

(* The check outside the lock overdraws by at most one item for each other *)
(* reader, and not at all without SMP.                                     *)
THEOREM OverdraftIsBounded == Spec => []OverdraftBounded
<1>1. Reserved /\ Safe => OverdraftBounded
  <2> SUFFICES ASSUME Reserved, Safe PROVE OverdraftBounded
    OBVIOUS
  <2>1. Cardinality(Committed) \in Nat /\ Cardinality(Readers) \in Nat
    BY CommittedFinite DEF Committed
  <2>2. QED
    BY <2>1 DEF Reserved, Safe, TypeOK, OverdraftBounded
<1>2. QED
  BY <1>1, ReservedAlways, SafeAlways, PTL

-----------------------------------------------------------------------------
(* A reader that takes an item without SMP, or alone, finds one.           *)
LEMMA ItemIsThere ==
  ASSUME ~SMP \/ Cardinality(Readers) = 1, Safe, Reserved,
         NEW r \in Readers, pc[r] = "store"
  PROVE  my_data > 0
<1> USE ProcsAssumption DEF Safe, TypeOK
<1>1. r \in Committed
  BY DEF Committed
<1>2. IsFiniteSet(Committed) /\ Cardinality(Committed) \in Nat
  BY CommittedFinite DEF Committed
<1>3. Cardinality(Committed) # 0
  BY <1>1, <1>2, FS_EmptySet
<1>4. CASE ~SMP
  BY <1>4, <1>1 DEF Reserved
<1>5. CASE Cardinality(Readers) = 1
  BY <1>5, <1>2, <1>3 DEF Reserved
<1>6. QED
  BY <1>4, <1>5

(* There is nobody else to take another item before the read returns.      *)
THEOREM ReturnsAreTrue ==
  ASSUME ~SMP \/ Cardinality(Readers) = 1
  PROVE  Spec => []ReturnsWhatIsLeft
<1>1. Init => ReturnsWhatIsLeft
  BY DEF Init, ReturnsWhatIsLeft, Procs
<1>2. Safe /\ Reserved /\ ReturnsWhatIsLeft /\ [Next]_vars => ReturnsWhatIsLeft'
  <2> SUFFICES ASSUME Safe, Reserved, ReturnsWhatIsLeft, [Next]_vars,
                      NEW r \in Readers, pc'[r] = "return"
               PROVE  my_data' >= reg'[r] - 1 /\ reg'[r] > 0
    BY DEF ReturnsWhatIsLeft
  <2> USE ProcsAssumption, SMPType DEF Safe, TypeOK, Procs, Goto, ReturnsWhatIsLeft
  <2>1. CASE UNCHANGED vars
    BY <2>1 DEF vars
  <2>2. ASSUME NEW p \in Procs,
               \/ WaitPrepare(p) \/ WaitDone(p) \/ WaitTimedOut(p) \/ WaitSchedule(p)
               \/ TimerFires(p) \/ Lock(p) \/ Load(p) \/ ReadReturn(p) \/ WriteWake(p)
        PROVE  my_data' >= reg'[r] - 1 /\ reg'[r] > 0
    BY <2>2 DEF WaitPrepare, WaitDone, WaitTimedOut, WaitSchedule, TimerFires,
                Lock, Load, ReadReturn, WriteWake
  <2>3. ASSUME NEW p \in Procs, ReadStore(p)
        PROVE  my_data' >= reg'[r] - 1 /\ reg'[r] > 0
    <3>1. my_data > 0 /\ reg[p] = my_data /\ my_data' = my_data - 1 /\ reg' = reg
      BY <2>3, ItemIsThere DEF ReadStore, RegFresh
    <3>2. CASE p = r
      BY <3>1, <3>2
    <3>3. CASE p # r
      <4>1. pc[r] = "return" /\ pc[p] = "store" /\ p \in Readers /\ Runs(p)
        BY <2>3, <3>3 DEF ReadStore
      <4>2. ~SMP => FALSE
        BY <4>1, <3>3 DEF Keeps
      <4>3. \E q \in Readers : Readers = {q}
        BY <4>2, FS_Singleton
      <4>4. QED
        BY <4>1, <4>3, <3>3
    <3>4. QED
      BY <3>2, <3>3
  <2>4. ASSUME NEW p \in Procs, WriteStore(p)
        PROVE  my_data' >= reg'[r] - 1 /\ reg'[r] > 0
    <3>1. my_data' = my_data + 1 /\ reg' = reg /\ pc[r] = "return"
      BY <2>4 DEF WriteStore, RegFresh
    <3>2. QED
      BY <3>1
  <2>5. QED
    BY <2>1, <2>2, <2>3, <2>4 DEF Next
<1>3. QED
  BY <1>1, <1>2, SafeAlways, ReservedAlways, PTL DEF Spec

-----------------------------------------------------------------------------
(* Without SMP, or with a single reader, the device is a counting          *)
(* semaphore: a read never takes an item that is not there.                *)
THEOREM ImplementsSemaphore ==
  ASSUME ~SMP \/ Cardinality(Readers) = 1
  PROVE  Spec => SemSpec
<1>1. Init => Sem!Init
  BY DEF Init, Sem!Init
<1>2. Safe /\ Reserved /\ [Next]_vars => [Sem!Next]_my_data
  <2> SUFFICES ASSUME Safe, Reserved, [Next]_vars PROVE [Sem!Next]_my_data
    OBVIOUS
  <2> USE ProcsAssumption DEF Safe, TypeOK, Procs
  <2>1. CASE UNCHANGED vars
    BY <2>1 DEF vars
  <2>2. ASSUME NEW p \in Procs,
               \/ WaitPrepare(p) \/ WaitDone(p) \/ WaitTimedOut(p) \/ WaitSchedule(p)
               \/ TimerFires(p) \/ Lock(p) \/ Load(p) \/ ReadReturn(p) \/ WriteWake(p)
        PROVE  [Sem!Next]_my_data
    BY <2>2 DEF WaitPrepare, WaitDone, WaitTimedOut, WaitSchedule, TimerFires,
                Lock, Load, ReadReturn, WriteWake
  <2>3. ASSUME NEW p \in Procs, ReadStore(p) PROVE [Sem!Next]_my_data
    <3>1. my_data' = my_data - 1
      BY <2>3 DEF ReadStore, RegFresh
    <3>2. my_data > 0
      BY <2>3, ItemIsThere DEF ReadStore
    <3>3. QED
      BY <3>1, <3>2 DEF Sem!Next, Sem!Consume
  <2>4. ASSUME NEW p \in Procs, WriteStore(p) PROVE [Sem!Next]_my_data
    BY <2>4 DEF WriteStore, RegFresh, Sem!Next, Sem!Produce
  <2>5. QED
    BY <2>1, <2>2, <2>3, <2>4 DEF Next
<1>3. QED
  BY <1>1, <1>2, SafeAlways, ReservedAlways, PTL DEF Spec, SemSpec, Sem!Spec
=============================================================================
