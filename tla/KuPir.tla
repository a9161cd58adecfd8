------------------------------- MODULE KuPir --------------------------------
(***************************************************************************)
(* The message queue driver of src/14/ku_pir.c.  Every interrupt of the    *)
(* PIR sensor appends a message to each queue; clients create, close and   *)
(* flush queues, read (and wait for) the oldest message, and insert        *)
(* messages of their own.                                                  *)
(*                                                                         *)
(* The list of messages of a queue is modelled pointer by pointer, one     *)
(* store per step, since the interrupt handler takes no lock.  A queue     *)
(* stands for its own list head.  A step that follows a pointer to nothing *)
(* or to freed memory is an oops; what the kernel does after one is not    *)
(* modelled.                                                               *)
(*                                                                         *)
(* Abstractions: kernel_msq.que_list is a sequence that is searched and    *)
(* changed in one step.  Without SMP no client is interrupted there; with  *)
(* it only one client may change the list (PirCalls), as nothing protects  *)
(* it, or q_fd, from a second one.  Freed memory is not allocated again;   *)
(* kmalloc succeeds; the time stamp is left out.                           *)
(***************************************************************************)
EXTENDS WaitQueue, Integers, Sequences, FiniteSets, Functions

CONSTANTS
  Clients,          \* the processes
  Calls,            \* the calls each of them makes
  Fds,              \* the descriptors they name; any number in the code
  Queues, Msgs,     \* bound: the queues and messages ever allocated
  Isr,              \* the interrupt handler
  Quiet,            \* TRUE: it only runs while no client is at work
  Polite,           \* TRUE: no call before the list head is set up
  MaxEdges,         \* bound: edges of the sensor in one behaviour
  Spare,            \* bound: messages that writes leave to the handler
  Nil               \* the null pointer

ASSUME PirNames ==
  /\ Isr \notin Clients /\ Nobody \notin Clients /\ Nobody # Isr
  /\ Queues \cap Msgs = {} /\ Nil \notin Queues \cup Msgs
  /\ IsFiniteSet(Clients) /\ IsFiniteSet(Queues) /\ IsFiniteSet(Msgs)
(* What ku_pir_lib.c offers: each call opens the device, and closes it.    *)
LibCalls == {"create", "close", "flush", "read", "write"}

ASSUME PirCalls ==
  /\ Calls \in [Clients -> SUBSET LibCalls] /\ Fds \subseteq Int
  /\ SMP => \A c, d \in Clients : c # d =>
       /\ "create" \notin Calls[c] \cap Calls[d]
       /\ "close" \in Calls[c] => Calls[d] = {}
ASSUME PirBounds ==
  Quiet \in BOOLEAN /\ Polite \in BOOLEAN /\ MaxEdges \in Nat /\ Spare \in Nat

VARIABLES
  q_fd,              \* the next descriptor
  que_list,          \* the queues, in order of creation
  qfd,               \* the descriptor of each queue
  size,              \* the counter of each queue
  next, prev,        \* the list pointers of queues and messages
  mem,               \* which of them are fresh, live and freed
  pc, reg,           \* where each client and the handler is, and its
                     \* locals; the handler is "gone" while the driver is
                     \* not loaded, "added" until the list is set up, "off"
                     \* until it has the line and "deaf" if it got none
  level, irq,        \* the sensor pin; a pending interrupt
  sensed,            \* the level that was last reported as an edge
  edges,             \* edges so far
  linked, taken,     \* history: messages put at the end of a queue, and read
  fault              \* the first oops: "none", "uaf", "null", or "badfd":
                     \* of a call that named a descriptor no queue had

queues  == <<q_fd, que_list, qfd>>
heap    == <<size, next, prev, mem>>
sensor  == <<level, irq, sensed, edges>>
history == <<linked, taken>>
vars == <<cpu, spinlock, my_wq, queues, heap, pc, reg, sensor, history, fault>>

Node     == Queues \cup Msgs
Contexts == Clients \cup {Isr}
(* named is history: what the descriptor named when the call was made.     *)
Blank    == [op |-> "none", fd |-> 0, named |-> "queue", q |-> Nil, m |-> Nil,
             n |-> Nil, nx |-> Nil, pv |-> Nil, k |-> 0]

Init ==
  /\ KernelInit /\ my_wq = {}
  /\ q_fd = 0 /\ que_list = <<>>
  /\ qfd = [q \in Queues |-> 0] /\ size = [q \in Queues |-> 0]
  /\ next = [x \in Node |-> Nil] /\ prev = [x \in Node |-> Nil]
  /\ mem = [x \in Node |-> "fresh"]
  /\ pc = [c \in Contexts |-> IF c = Isr THEN "gone" ELSE "idle"]
  /\ reg = [c \in Contexts |-> Blank]
  /\ level = 0 /\ irq = FALSE /\ sensed = 0 /\ edges = 0
  /\ linked = [q \in Queues |-> <<>>] /\ taken = [q \in Queues |-> <<>>]
  /\ fault = "none"

-----------------------------------------------------------------------------
(* What the next step of context c dereferences.  Nil also stands for the  *)
(* poisoned pointer the handler finds in a queue unlinked under it, and    *)
(* for those of que_list before INIT_LIST_HEAD.                            *)
Derefs(c) == LET r == reg[c] IN
  CASE pc[c] \in {"check", "first", "link", "linkHead", "size", "store"} -> {r.q}
    [] pc[c] \in {"copy", "linkNew", "del"} -> {r.m}
    [] pc[c] = "loop"     -> {r.q, r.n}
    [] pc[c] = "linkPrev" -> {r.pv}
    [] pc[c] = "delNext"  -> {r.nx}
    [] pc[c] = "delPrev"  -> {r.pv, r.m}
    [] pc[c] \in {"create", "get"} /\ pc[Isr] = "added" -> {Nil}
    [] pc[c] = "each"     -> IF r.q \in Range(que_list) \cup {Nil} THEN {} ELSE {Nil}
    [] OTHER -> {}

Sound(c) == \A x \in Derefs(c) : x # Nil /\ mem[x] = "live"

(* A client executes while it has a processor.  Without SMP the handler,   *)
(* once started, runs to its end before any client goes on, and loading    *)
(* sleeps for the first time when it asks for the line.                    *)
Unheard == {"gone", "added", "off", "deaf"}
MayRun(c) ==
  \/ c = Isr
  \/ /\ Runs(c) /\ pc[Isr] # "gone" /\ (pc[Isr] = "added" => SMP /\ ~Polite)
     /\ pc[Isr] \in Unheard \cup {"idle"} \/ (SMP /\ ~Quiet)

At(c, l) == pc[c] = l /\ MayRun(c) /\ Sound(c)

(* Where a step leaves c: it goes on, or it goes on after it may have      *)
(* slept, or it sleeps, or the call returns.                               *)
Goto(c, l)      == pc' = [pc EXCEPT ![c] = l]
Keep(c)         == IF c = Isr THEN UNCHANGED cpu ELSE KeepCpu(c)
GoOn(c, l)      == Goto(c, l) /\ Keep(c)
MaySleep(c, l)  == Goto(c, l) /\ (Keep(c) \/ GiveUpCpu)
Return(c) ==
  Goto(c, "idle") /\ reg' = [reg EXCEPT ![c] = Blank] /\ GiveUpCpu

(* kmalloc; which of the fresh objects it returns makes no difference.     *)
Fresh(S)   == {x \in S : mem[x] = "fresh"}
Kmalloc(S) == CHOOSE x \in Fresh(S) : TRUE

-----------------------------------------------------------------------------
(* Each Bug_ operator below is the definition that follows it with a       *)
(* plausible mistake; it only serves to show that a property notices.      *)

Bug_Made(c) == MaySleep(c, "create")
Made(c) == GoOn(c, "create")

(* PIR_IOCTL_CREATE: after kmalloc the queue gets the next descriptor, ... *)
CreateInit(c) == LET q == Kmalloc(Queues) IN
  /\ At(c, "idle") /\ "create" \in Calls[c]
  /\ Fresh(Queues) # {}
  /\ mem'  = [mem EXCEPT ![q] = "live"]
  /\ qfd'  = [qfd EXCEPT ![q] = q_fd]
  /\ size' = [size EXCEPT ![q] = 0]
  /\ next' = [next EXCEPT ![q] = q] /\ prev' = [prev EXCEPT ![q] = q]
  /\ reg'  = [reg EXCEPT ![c].q = q] /\ Made(c)
  /\ UNCHANGED <<spinlock, my_wq, q_fd, que_list, sensor, history, fault>>

Bug_Counted == q_fd - 1
Counted == q_fd + 1

(* ... q_fd is counted up, and the queue becomes visible.                  *)
CreateAdd(c) ==
  /\ At(c, "create")
  /\ q_fd' = Counted /\ que_list' = Append(que_list, reg[c].q)
  /\ Return(c)
  /\ UNCHANGED <<spinlock, my_wq, qfd, heap, sensor, history, fault>>

(* ku_pir_msq_get(fd) returns q: the first queue with the descriptor, Nil  *)
(* if there is none.                                                       *)
Gets(fd, q) ==
  \/ q = Nil /\ \A i \in DOMAIN que_list : qfd[que_list[i]] # fd
  \/ \E i \in DOMAIN que_list :
       /\ que_list[i] = q /\ qfd[q] = fd
       /\ \A j \in 1 .. i - 1 : qfd[que_list[j]] # fd

Named(fd) == IF Gets(fd, Nil) THEN "nothing" ELSE "queue"

(* Any other call names what descriptor it likes, that of a queue that is  *)
(* closed or never was as well; only read and write take the lock.         *)
Call(c) == \E op \in Calls[c] \ {"create"}, fd \in Fds :
  /\ At(c, "idle")
  /\ reg' = [reg EXCEPT ![c].op = op, ![c].fd = fd, ![c].named = Named(fd)]
  /\ GoOn(c, IF op \in {"read", "write"} THEN "lock" ELSE "get")
  /\ UNCHANGED <<spinlock, my_wq, queues, heap, sensor, history, fault>>

Bug_TakeLock(c) == UNCHANGED spinlock
TakeLock(c) == SpinLock(c)

Lock(c) ==
  /\ At(c, "lock") /\ TakeLock(c) /\ GoOn(c, "get")
  /\ UNCHANGED <<my_wq, queues, heap, reg, sensor, history, fault>>

(* wait_event may give up the processor before it looks.                   *)
GetToRead(c) == \E q \in Queues \cup {Nil} :
  /\ At(c, "get") /\ reg[c].op = "read" /\ Gets(reg[c].fd, q)
  /\ reg' = [reg EXCEPT ![c].q = q] /\ MaySleep(c, "wait")
  /\ UNCHANGED <<spinlock, my_wq, queues, heap, sensor, history, fault>>

(* The write allocates its message and copies it from the user.            *)
GetToWrite(c) == LET m == Kmalloc(Msgs) IN \E q \in Queues \cup {Nil} :
  /\ At(c, "get") /\ reg[c].op = "write" /\ Gets(reg[c].fd, q)
  /\ Fresh(Msgs) # {} /\ Cardinality(Fresh(Msgs)) > Spare
  /\ mem' = [mem EXCEPT ![m] = "live"]
  /\ reg' = [reg EXCEPT ![c].q = q, ![c].m = m]
  /\ MaySleep(c, "link")
  /\ UNCHANGED <<spinlock, my_wq, queues, size, next, prev, sensor, history, fault>>

Place(q) == CHOOSE j \in DOMAIN que_list : que_list[j] = q
Without(j) == [i \in 1 .. Len(que_list) - 1 |->
                 IF i < j THEN que_list[i] ELSE que_list[i + 1]]

(* Flush and close walk the list from its first message; close has         *)
(* unlinked the queue before.                                              *)
GetToClear(c) == \E q \in Queues :
  /\ At(c, "get") /\ reg[c].op \in {"flush", "close"} /\ Gets(reg[c].fd, q)
  /\ reg' = [reg EXCEPT ![c].q = q, ![c].n = next[q]] /\ GoOn(c, "loop")
  /\ que_list' = IF reg[c].op = "flush" THEN que_list ELSE Without(Place(q))
  /\ UNCHANGED <<spinlock, my_wq, q_fd, qfd, heap, sensor, history, fault>>

NullOops(c) == IF reg[c].named = "nothing" THEN "badfd" ELSE "null"

GetNothing(c) ==
  /\ At(c, "get") /\ reg[c].op \in {"flush", "close"} /\ Gets(reg[c].fd, Nil)
  /\ fault' = NullOops(c)
  /\ UNCHANGED <<cpu, spinlock, my_wq, queues, heap, pc, reg, sensor, history>>

-----------------------------------------------------------------------------
Bug_HasMessage(q) == size[q] >= 0
HasMessage(q) == size[q] > 0

(* wait_event(my_wq, msq->size > 0), under the lock                        *)
WaitPrepare(c) ==
  /\ At(c, "wait") \/ (At(c, "sched") /\ c \notin my_wq)
  /\ PrepareToWait(c) /\ GoOn(c, "check")
  /\ UNCHANGED <<spinlock, queues, heap, reg, sensor, history, fault>>

WaitDone(c) ==
  /\ At(c, "check") /\ HasMessage(reg[c].q)
  /\ FinishWait(c) /\ GoOn(c, "first")
  /\ UNCHANGED <<spinlock, queues, heap, reg, sensor, history, fault>>

WaitSchedule(c) ==
  /\ At(c, "check") /\ ~HasMessage(reg[c].q)
  /\ Goto(c, "sched") /\ GiveUpCpu
  /\ UNCHANGED <<spinlock, my_wq, queues, heap, reg, sensor, history, fault>>

(* The first message of the list, if there is one.                         *)
Bug_Newest(q) == IF prev[q] = q THEN Nil ELSE prev[q]
Oldest(q) == IF next[q] = q THEN Nil ELSE next[q]

First(c) ==
  /\ At(c, "first")
  /\ reg' = [reg EXCEPT ![c].m = Oldest(reg[c].q)]
  /\ MaySleep(c, "copy")
  /\ UNCHANGED <<spinlock, my_wq, queues, heap, sensor, history, fault>>

(* copy_to_user, which may have slept                                      *)
Copy(c) ==
  /\ At(c, "copy") /\ GoOn(c, "del")
  /\ taken' = [taken EXCEPT ![reg[c].q] = Append(@, reg[c].m)]
  /\ UNCHANGED <<spinlock, my_wq, queues, heap, reg, sensor, linked, fault>>

-----------------------------------------------------------------------------
Bug_Unlinked(before, after) == next
Unlinked(before, after) == [next EXCEPT ![before] = after]

(* list_del of message m: load both pointers, store next->prev, store      *)
(* prev->next; then the message is freed.                                  *)
Del(c) ==
  /\ At(c, "del") /\ GoOn(c, "delNext")
  /\ reg' = [reg EXCEPT ![c].nx = next[reg[c].m], ![c].pv = prev[reg[c].m]]
  /\ UNCHANGED <<spinlock, my_wq, queues, heap, sensor, history, fault>>

DelNext(c) ==
  /\ At(c, "delNext") /\ GoOn(c, "delPrev")
  /\ prev' = [prev EXCEPT ![reg[c].nx] = reg[c].pv]
  /\ UNCHANGED <<spinlock, my_wq, queues, size, next, mem, reg, sensor, history, fault>>

DelPrev(c) ==
  /\ At(c, "delPrev")
  /\ next' = Unlinked(reg[c].pv, reg[c].nx)
  /\ mem' = [mem EXCEPT ![reg[c].m] = "freed"]
  /\ GoOn(c, IF reg[c].op = "read" THEN "size" ELSE "loop")
  /\ UNCHANGED <<spinlock, my_wq, queues, size, prev, reg, sensor, history, fault>>

(* list_for_each_safe: the next pointer is loaded before the body runs.    *)
(* The body of flush is list_del and the free, that of close the free.     *)
LoopBody(c) == LET pos == reg[c].n IN
  /\ At(c, "loop") /\ pos # reg[c].q
  /\ reg' = [reg EXCEPT ![c].m = pos, ![c].n = next[pos]]
  /\ GoOn(c, IF reg[c].op = "flush" THEN "del" ELSE "loop")
  /\ mem' = IF reg[c].op = "flush" THEN mem ELSE [mem EXCEPT ![pos] = "freed"]
  /\ UNCHANGED <<spinlock, my_wq, queues, size, next, prev, sensor, history, fault>>

Bug_Emptied(q) == size
Emptied(q) == [size EXCEPT ![q] = 0]

LoopEnd(c) == LET q == reg[c].q IN
  /\ At(c, "loop") /\ reg[c].n = q
  /\ IF reg[c].op = "flush"
     THEN size' = Emptied(q) /\ UNCHANGED mem
     ELSE mem' = [mem EXCEPT ![q] = "freed"] /\ UNCHANGED size
  /\ Return(c)
  /\ UNCHANGED <<spinlock, my_wq, queues, next, prev, sensor, history, fault>>

-----------------------------------------------------------------------------
(* list_add_tail of message m: load head->prev, store it, set the two      *)
(* pointers of the new entry, store prev->next.                            *)
Link(c) ==
  /\ At(c, "link") /\ GoOn(c, "linkHead")
  /\ reg' = [reg EXCEPT ![c].pv = prev[reg[c].q]]
  /\ UNCHANGED <<spinlock, my_wq, queues, heap, sensor, history, fault>>

LinkHead(c) ==
  /\ At(c, "linkHead") /\ GoOn(c, "linkNew")
  /\ prev' = [prev EXCEPT ![reg[c].q] = reg[c].m]
  /\ linked' = [linked EXCEPT ![reg[c].q] = Append(@, reg[c].m)]
  /\ UNCHANGED <<spinlock, my_wq, queues, size, next, mem, reg, sensor, taken, fault>>

LinkNew(c) == LET r == reg[c] IN
  /\ At(c, "linkNew") /\ GoOn(c, "linkPrev")
  /\ next' = [next EXCEPT ![r.m] = r.q] /\ prev' = [prev EXCEPT ![r.m] = r.pv]
  /\ UNCHANGED <<spinlock, my_wq, queues, size, mem, reg, sensor, history, fault>>

LinkPrev(c) == LET r == reg[c] IN
  /\ At(c, "linkPrev") /\ GoOn(c, "size")
  /\ next' = [next EXCEPT ![r.pv] = r.m]
  /\ UNCHANGED <<spinlock, my_wq, queues, size, prev, mem, reg, sensor, history, fault>>

(* size++ and size-- are a load and a store; a read or write then unlocks. *)
SizeLoad(c) ==
  /\ At(c, "size") /\ GoOn(c, "store")
  /\ reg' = [reg EXCEPT ![c].k = size[reg[c].q]]
  /\ UNCHANGED <<spinlock, my_wq, queues, heap, sensor, history, fault>>

SizeStore(c) == LET r == reg[c] IN
  /\ At(c, "store")
  /\ size' = [size EXCEPT ![r.q] = IF r.op = "read" THEN r.k - 1 ELSE r.k + 1]
  /\ IF c = Isr THEN GoOn(c, "each") /\ UNCHANGED <<spinlock, reg>>
                ELSE Return(c) /\ SpinUnlock
  /\ UNCHANGED <<my_wq, queues, next, prev, mem, sensor, history, fault>>

-----------------------------------------------------------------------------
(* The pin changes, and both edges raise an interrupt (IRQF_TRIGGER_FALLING *)
(* | IRQF_TRIGGER_RISING); one that is pending already is not counted.     *)
Bug_Triggers == level = 0
Triggers == TRUE

Edge ==
  /\ edges < MaxEdges /\ edges' = edges + 1
  /\ level' = 1 - level
  /\ irq' = (irq \/ (Triggers /\ pc[Isr] \notin Unheard))
  /\ UNCHANGED <<cpu, spinlock, my_wq, queues, heap, pc, reg, sensed, history, fault>>

(* simple_sensor_isr: a rising edge if the pin is read as 1, ...           *)
IsrStart ==
  /\ At(Isr, "idle") /\ irq /\ irq' = FALSE
  /\ Quiet => \A c \in Clients : pc[c] \in {"idle", "lock", "sched"}
  /\ GoOn(Isr, IF level = 1 THEN "each" ELSE "again")
  /\ sensed' = IF level = 1 THEN 1 ELSE sensed
  /\ UNCHANGED <<spinlock, my_wq, queues, heap, reg, level, edges, history, fault>>

(* ... a falling one if the second reading is 0, and otherwise nothing.    *)
IsrAgain ==
  /\ At(Isr, "again")
  /\ GoOn(Isr, IF level = 0 THEN "each" ELSE "idle")
  /\ sensed' = IF level = 0 THEN 0 ELSE sensed
  /\ UNCHANGED <<spinlock, my_wq, queues, heap, reg, level, irq, edges, history, fault>>

(* A new message for the next queue of the list, or wake_up after the last.*)
Following(q) ==
  LET i == IF q = Nil THEN 0 ELSE Place(q)
  IN  IF i = Len(que_list) THEN Nil ELSE que_list[i + 1]

IsrEach == LET q == Following(reg[Isr].q)
               m == Kmalloc(Msgs) IN
  /\ At(Isr, "each") /\ q # Nil
  /\ Fresh(Msgs) # {} /\ mem' = [mem EXCEPT ![m] = "live"]
  /\ reg' = [reg EXCEPT ![Isr].op = "isr", ![Isr].q = q, ![Isr].m = m]
  /\ GoOn(Isr, "link")
  /\ UNCHANGED <<spinlock, my_wq, queues, size, next, prev, sensor, history, fault>>

Bug_Signal == UNCHANGED my_wq
Signal == WakeUp

IsrWake ==
  /\ At(Isr, "each") /\ Following(reg[Isr].q) = Nil
  /\ Signal /\ GoOn(Isr, "idle") /\ reg' = [reg EXCEPT ![Isr] = Blank]
  /\ UNCHANGED <<spinlock, queues, heap, sensor, history, fault>>

Oops(c) ==
  /\ pc[c] # "idle" /\ MayRun(c) /\ ~Sound(c)
  /\ fault' = IF Nil \in Derefs(c) THEN NullOops(c) ELSE "uaf"
  /\ UNCHANGED <<cpu, spinlock, my_wq, queues, heap, pc, reg, sensor, history>>

-----------------------------------------------------------------------------
(* Loading: once the device is added calls may begin, ...                  *)
Load ==
  /\ pc[Isr] = "gone" /\ \A c \in Clients : pc[c] = "idle"
  /\ pc' = [pc EXCEPT ![Isr] = "added"] /\ q_fd' = 0 /\ que_list' = <<>>
  /\ spinlock' = Nobody /\ my_wq' = {}
  /\ UNCHANGED <<cpu, qfd, heap, reg, sensor, history, fault>>

(* ... before the lock, the wait queue and the list head are initialised,  *)
(* whatever state they are in, ...                                         *)
Setup ==
  /\ pc[Isr] = "added" /\ pc' = [pc EXCEPT ![Isr] = "off"]
  /\ spinlock' = Nobody /\ my_wq' = {} /\ que_list' = <<>>
  /\ UNCHANGED <<cpu, q_fd, qfd, heap, reg, sensor, history, fault>>

(* ... and before the sensor's line is requested.                          *)
RequestIrq ==
  /\ pc[Isr] = "off" /\ (SMP \/ cpu = Nobody)
  /\ pc' = [pc EXCEPT ![Isr] = "idle"] /\ sensed' = level
  /\ UNCHANGED <<cpu, spinlock, my_wq, queues, heap, reg, level, irq, edges, history, fault>>

(* A line that is taken is given back for the driver that has it, and      *)
(* loading succeeds, without a handler.                                    *)
RequestFails ==
  /\ pc[Isr] = "off" /\ (SMP \/ cpu = Nobody)
  /\ pc' = [pc EXCEPT ![Isr] = "deaf"]
  /\ UNCHANGED <<cpu, spinlock, my_wq, queues, heap, reg, sensor, history, fault>>

(* Removal, while no file is open: the line is given back once the handler *)
(* has ended; the queues and their messages stay allocated.                *)
Exit ==
  /\ pc[Isr] \in {"idle", "deaf"} /\ \A c \in Clients : pc[c] = "idle"
  /\ pc' = [pc EXCEPT ![Isr] = "gone"] /\ irq' = FALSE
  /\ UNCHANGED <<cpu, spinlock, my_wq, queues, heap, reg, level, sensed, edges, history, fault>>

-----------------------------------------------------------------------------
ClientStep(c) ==
  \/ CreateInit(c) \/ CreateAdd(c) \/ Call(c) \/ Lock(c)
  \/ GetToRead(c) \/ GetToWrite(c) \/ GetToClear(c) \/ GetNothing(c)
  \/ WaitPrepare(c) \/ WaitDone(c) \/ WaitSchedule(c) \/ First(c) \/ Copy(c)
  \/ LoopBody(c) \/ LoopEnd(c)

SharedStep(c) ==
  \/ Del(c) \/ DelNext(c) \/ DelPrev(c)
  \/ Link(c) \/ LinkHead(c) \/ LinkNew(c) \/ LinkPrev(c)
  \/ SizeLoad(c) \/ SizeStore(c) \/ Oops(c)

Next == fault = "none" /\
  \/ \E c \in Clients : ClientStep(c)
  \/ \E c \in Contexts : SharedStep(c)
  \/ Edge \/ IsrStart \/ IsrAgain \/ IsrEach \/ IsrWake
  \/ Load \/ Setup \/ RequestIrq \/ RequestFails \/ Exit

Spec == Init /\ [][Next]_vars

(* Fairness.  A call goes on once it is made, the scheduler and the spin   *)
(* lock starve nobody, and a pending interrupt is served.  Nobody has to   *)
(* call, and the sensor does not have to move.                             *)
InCall(c)    == pc[c] # "idle" /\ (ClientStep(c) \/ SharedStep(c))
IsrStep      == IsrStart \/ IsrAgain \/ IsrEach \/ IsrWake \/ SharedStep(Isr)
FairSpec == Spec /\ WF_vars(IsrStep) /\ \A c \in Clients : SF_vars(InCall(c))

-----------------------------------------------------------------------------
Labels == {"idle", "create", "lock", "get", "wait", "check", "sched", "first",
  "copy", "del", "delNext", "delPrev", "loop", "link", "linkHead", "linkNew",
  "linkPrev", "size", "store", "again", "each", "gone", "added", "off", "deaf"}

Locals == [op : {"none", "isr", "close", "flush", "read", "write"}, fd : Int,
           named : {"queue", "nothing"}, q : Queues \cup {Nil}, m : Node \cup {Nil},
           n : Node \cup {Nil}, nx : Node \cup {Nil}, pv : Node \cup {Nil}, k : Int]

KernelType ==
  cpu \in Clients \cup {Nobody} /\ spinlock \in Clients \cup {Nobody} /\ my_wq \subseteq Clients
ContextType == pc \in [Contexts -> Labels] /\ reg \in [Contexts -> Locals]
QueueType   == q_fd \in Nat /\ que_list \in Seq(Queues) /\ qfd \in [Queues -> Nat]
HeapType ==
  /\ size \in [Queues -> Int] /\ mem \in [Node -> {"fresh", "live", "freed"}]
  /\ next \in [Node -> Node \cup {Nil}] /\ prev \in [Node -> Node \cup {Nil}]
SensorType  == level \in {0, 1} /\ sensed \in {0, 1} /\ irq \in BOOLEAN /\ edges \in Nat
HistoryType == linked \in [Queues -> Seq(Node)] /\ taken \in [Queues -> Seq(Node)]

TypeOK ==
  /\ KernelType /\ ContextType /\ QueueType /\ HeapType /\ SensorType /\ HistoryType
  /\ fault \in {"none", "null", "uaf", "badfd"}

(* The messages that a traversal of queue q along the pointers nx meets,   *)
(* in order.                                                               *)
Traversal(nx, q) ==
  LET walk[i \in 1 .. Cardinality(Msgs) + 1] ==
        LET x == IF i = 1 THEN q ELSE walk[i - 1]
        IN  IF x = Nil \/ (i > 1 /\ x = q) THEN q ELSE nx[x]
      len == Cardinality({i \in DOMAIN walk : walk[i] # q})
  IN  [i \in 1 .. len |-> walk[i]]

Chain(q) == Traversal(next, q)

(* A context that is between looking a queue up and leaving it.            *)
AtWork(c, q) == reg[c].q = q /\ pc[c] \notin {"idle", "wait", "check", "sched"}

(* The counter of a queue nobody works on is the number of its messages    *)
(* ("int size; // number of messages", ku_pir.c:36).                       *)
SizeIsMessageCount == \A q \in Range(que_list) :
  (\A c \in Contexts : ~AtWork(c, q)) => size[q] = Len(Chain(q))

(* No list operation touches memory that was freed.                        *)
NoUseAfterFree == fault # "uaf"

(* No call ends in an oops, of either kind, unless the descriptor that it  *)
(* named was no queue's when it was made (ku_pir.c:147-155, 175, 206).     *)
NoOops == fault \in {"none", "badfd"}

(* The reads of a queue return messages that were appended to it, each at  *)
(* most once and in the order in which they were appended.                 *)
DeliveredInOrder == \A q \in Queues :
  \E f \in [DOMAIN taken[q] -> DOMAIN linked[q]] :
    \A i, j \in DOMAIN taken[q] :
      taken[q][i] = linked[q][f[i]] /\ (i < j => f[i] < f[j])

(* Two queues never get the same descriptor (ku_pir.c:63, 67).             *)
FdUnique == \A q, r \in Range(que_list) : q # r => qfd[q] # qfd[r]

(* The spin lock covers a read or a write from the lookup to its end.      *)
Locked(c) == reg[c].op \in {"read", "write"} /\ pc[c] # "lock"
LockExcludes == SMP /\ Polite => \A c, d \in Clients : Locked(c) /\ Locked(d) => c = d

(* A reader asleep on a queue that has a message is about to be woken.     *)
NoStrandedReader == \A c \in Clients :
  pc[c] = "sched" /\ c \in my_wq /\ size[reg[c].q] > 0 => pc[Isr] \notin Unheard \cup {"idle"}

(* ... so that a read which sleeps beside a message returns.               *)
ReadReturns == \A c \in Clients :
  (pc[c] = "sched" /\ size[reg[c].q] > 0) ~> pc[c] = "idle"

(* Once the handler is done, the last edge reported is the pin's level,    *)
(* however the pin moved while it ran.                                     *)
SensorSettled == pc[Isr] = "idle" /\ ~irq => sensed = level

(* What the clients may rely on: each queue is a first-in first-out queue. *)
(* A message counts as taken when it is copied to the reader.              *)
Copied(q) == {reg[c].m : c \in {d \in Clients : reg[d].op = "read"
                 /\ reg[d].q = q /\ pc[d] \in {"del", "delNext", "delPrev"}}}
Left(q, s) == IF s # <<>> /\ Head(s) \in Copied(q) THEN Tail(s) ELSE s
Waiting == [q \in Queues |->
  IF q \in Range(que_list) THEN Left(q, Chain(q)) ELSE <<>>]
Fifo == INSTANCE MessageQueue WITH waiting <- Waiting, delivered <- taken
FifoSpec == Fifo!Spec
=============================================================================
