-------------------------- MODULE KuPirListProofs ---------------------------
(***************************************************************************)
(* Theorems about the message lists of KuPir: no freed memory is touched,  *)
(* and the reads of a queue return what was appended to it, once and in    *)
(* order, although the interrupt handler appends between any two           *)
(* instructions of a client.                                               *)
(*                                                                         *)
(* The inductive invariant is Typed /\ Orderly /\ ListInv.  Orderly says   *)
(* where clients and handler can be together.  ListInv gives each queue    *)
(* the set S[q] of the messages that a traversal of it meets, in the order *)
(* in which they were appended (Threads), linked backwards too (Doubly)    *)
(* but for the stores a client or the handler still owes (CutOk, JoinOk,   *)
(* HandlerOk).  One lemma per action shows that it is kept.                *)
(***************************************************************************)
EXTENDS KuPirProofs

(* The clients get along without a common lock: with SMP every call that   *)
(* is made takes the driver's lock, and the handler keeps to itself;       *)
(* without SMP one client, the owner, makes any call, and the others only  *)
(* insert, if the owner closes nothing, or create queues of their own.     *)
OneAtATime ==
  \/ SMP /\ Quiet /\ Polite /\ \A c \in Clients : Calls[c] \subseteq {"create", "read", "write"}
  \/ ~SMP /\ \E o \in Clients : \A c \in Clients \ {o} :
       Calls[c] \subseteq {"create"} \cup (IF "close" \in Calls[o] THEN {} ELSE {"write"})

-----------------------------------------------------------------------------
(* Which call a client is in, when it has the processor, and where the     *)
(* handler can be.                                                         *)
Phases == \A c \in Clients :
  /\ pc[c] \notin {"again", "each", "gone", "added", "off", "deaf"}
  /\ pc[c] = "loop" => reg[c].op \in {"flush", "close"}
  /\ pc[c] \in {"del", "delNext", "delPrev"} => reg[c].op \in {"read", "flush"}
  /\ pc[c] = "get" => reg[c].op \in {"close", "flush", "read", "write"}
  /\ reg[c].op = "close" => pc[c] \in {"get", "loop"}
  /\ reg[c].op # "none" => reg[c].op \in Calls[c]

Processor == ~SMP => \A c \in Clients :
  pc[c] \notin {"idle", "wait", "sched", "copy", "link"} => cpu = c

Handler ==
  /\ pc[Isr] \in {"gone", "added", "off", "deaf", "idle", "again", "each", "link", "linkHead",
                  "linkNew", "linkPrev", "size", "store"}
  /\ pc[Isr] \in {"link", "linkHead", "linkNew", "linkPrev", "size", "store"} =>
       reg[Isr].op = "isr"
  /\ pc[Isr] \in {"gone", "added", "off", "deaf", "idle", "again"} => reg[Isr] = Blank
  /\ Quiet /\ pc[Isr] \notin {"gone", "added", "off", "deaf", "idle"} =>
       \A c \in Clients : pc[c] \in {"idle", "lock", "sched"}

Orderly == LockInv /\ Phases /\ Processor /\ Handler

(* Every step keeps to these places, ...                                   *)
LEMMA OrderlyStep == Typed /\ Orderly /\ [Next]_vars => Orderly'
<1> SUFFICES ASSUME Typed, Orderly, [Next]_vars PROVE Orderly'
  OBVIOUS
<1>1. /\ pc \in [Contexts -> Labels] /\ reg \in [Contexts -> Locals]
      /\ Clients \subseteq Contexts /\ Isr \in Contexts \ Clients /\ Nobody \notin Clients
  BY PirNames DEF Typed, TypeOK, ContextType, Contexts
<1>2. LockInv'
  BY LockStep DEF Orderly
<1>3. SUFFICES Phases' /\ Processor' /\ Handler'
  BY <1>2 DEF Orderly
<1>4. LockInv /\ Ops /\ Phases /\ Processor /\ Handler
  BY DEF Orderly, LockInv
<1>5. CASE UNCHANGED vars
  BY <1>4, <1>5 DEF vars, Phases, Processor, Handler
<1>6. ASSUME NEW c \in Clients, ClientStep(c) \/ SharedStep(c), Phases',
             ~SMP => cpu' = c \/ (cpu' = Nobody /\ pc'[c] \in {"idle", "wait", "sched", "copy", "link"})
                     \/ (UNCHANGED <<cpu, pc>>)
      PROVE  Phases' /\ Processor' /\ Handler'
  <2>1. \A d \in Contexts \ {c} : pc'[d] = pc[d] /\ reg'[d] = reg[d]
    BY <1>1, <1>6, OwnStep
  <2>2. MayRun(c)
    BY <1>1, <1>6, StepRuns
  <2>3. Handler'
    BY <1>1, <1>4, <2>1, <2>2 DEF Handler, MayRun, Unheard
  <2>4. Processor'
    BY <1>1, <1>4, <1>6, <2>1, <2>2 DEF Processor, MayRun, Runs
  <2>5. QED
    BY <1>6, <2>3, <2>4
<1> USE DEF Goto, GoOn, MaySleep, KeepCpu, Keep, GiveUpCpu, At
<1>7. ASSUME NEW c \in Clients, CreateInit(c) \/ CreateAdd(c) \/ Call(c) \/ Lock(c)
      PROVE  Phases' /\ Processor' /\ Handler'
  <2>1. CASE CreateInit(c)
    <3>1. Phases'
      BY <1>1, <1>4, <2>1 DEF CreateInit, Made, Phases, Locals
    <3>2. QED
      BY <1>1, <1>6, <2>1, <3>1 DEF CreateInit, Made, ClientStep
  <2>2. CASE CreateAdd(c)
    <3>1. Phases'
      BY <1>1, <1>4, <2>2 DEF CreateAdd, Return, Blank, Phases
    <3>2. QED
      BY <1>1, <1>6, <2>2, <3>1 DEF CreateAdd, Return, ClientStep
  <2>3. CASE Call(c)
    <3>1. Phases'
      <4>1. PICK op \in Calls[c] \ {"create"}, fd \in Fds :
              /\ reg' = [reg EXCEPT ![c].op = op, ![c].fd = fd, ![c].named = Named(fd)]
              /\ pc' = [pc EXCEPT ![c] = IF op \in {"read", "write"} THEN "lock" ELSE "get"]
        BY <2>3 DEF Call
      <4>2. op \in {"close", "flush", "read", "write"} /\ op \in Calls[c]
        BY <4>1, PirCalls DEF LibCalls
      <4>3. reg'[c].op = op /\ \A d \in Clients \ {c} : reg'[d] = reg[d]
        BY <1>1, <4>1 DEF Locals
      <4>4. QED
        BY <1>1, <1>4, <4>1, <4>2, <4>3 DEF Phases
    <3>2. QED
      BY <1>1, <1>6, <2>3, <3>1 DEF Call, ClientStep
  <2>4. CASE Lock(c)
    <3>1. Phases'
      BY <1>1, <1>4, <2>4 DEF Lock, Phases, Ops
    <3>2. QED
      BY <1>1, <1>6, <2>4, <3>1 DEF Lock, ClientStep
  <2>5. QED
    BY <1>7, <2>1, <2>2, <2>3, <2>4
<1>8. ASSUME NEW c \in Clients, GetToRead(c) \/ GetToWrite(c) \/ GetToClear(c) \/ GetNothing(c)
      PROVE  Phases' /\ Processor' /\ Handler'
  <2>1. CASE GetToRead(c)
    <3>1. Phases'
      BY <1>1, <1>4, <2>1 DEF GetToRead, Phases, Locals
    <3>2. QED
      BY <1>1, <1>6, <2>1, <3>1 DEF GetToRead, ClientStep
  <2>2. CASE GetToWrite(c)
    <3>1. Phases'
      BY <1>1, <1>4, <2>2 DEF GetToWrite, Phases, Locals
    <3>2. QED
      BY <1>1, <1>6, <2>2, <3>1 DEF GetToWrite, ClientStep
  <2>3. CASE GetToClear(c)
    <3>1. Phases'
      BY <1>1, <1>4, <2>3 DEF GetToClear, Phases, Locals
    <3>2. QED
      BY <1>1, <1>6, <2>3, <3>1 DEF GetToClear, ClientStep
  <2>4. CASE GetNothing(c)
    BY <1>4, <2>4 DEF GetNothing, Phases, Processor, Handler
  <2>5. QED
    BY <1>8, <2>1, <2>2, <2>3, <2>4
<1>9. ASSUME NEW c \in Clients, WaitPrepare(c) \/ WaitDone(c) \/ WaitSchedule(c)
      PROVE  Phases' /\ Processor' /\ Handler'
  <2>1. Phases'
    BY <1>1, <1>4, <1>9 DEF WaitPrepare, WaitDone, WaitSchedule, Phases, Ops
  <2>2. QED
    BY <1>1, <1>6, <1>9, <2>1 DEF WaitPrepare, WaitDone, WaitSchedule, ClientStep
<1>10. ASSUME NEW c \in Clients, First(c) \/ Copy(c)
       PROVE  Phases' /\ Processor' /\ Handler'
  <2>1. Phases'
    <3>1. \E x : reg' = [reg EXCEPT ![c].m = x] \/ reg' = reg
      BY <1>10 DEF First, Copy
    <3>2. reg'[c].op = reg[c].op /\ \A d \in Clients \ {c} : reg'[d] = reg[d]
      BY <1>1, <3>1 DEF Locals
    <3>3. reg[c].op = "read" /\ \E l \in {"copy", "del"} : pc' = [pc EXCEPT ![c] = l]
      BY <1>4, <1>10 DEF First, Copy, Ops
    <3>4. QED
      BY <1>1, <1>4, <3>2, <3>3 DEF Phases
  <2>2. QED
    BY <1>1, <1>6, <1>10, <2>1 DEF First, Copy, ClientStep
<1>11. ASSUME NEW c \in Clients, LoopBody(c) PROVE Phases' /\ Processor' /\ Handler'
  <2>1. Phases'
    BY <1>1, <1>4, <1>11 DEF LoopBody, Phases, Locals
  <2>2. QED
    BY <1>1, <1>6, <1>11, <2>1 DEF LoopBody, ClientStep
<1>12. ASSUME NEW c \in Clients, LoopEnd(c) PROVE Phases' /\ Processor' /\ Handler'
  <2>1. Phases'
    BY <1>1, <1>4, <1>12 DEF LoopEnd, Return, Blank, Phases
  <2>2. QED
    BY <1>1, <1>6, <1>12, <2>1 DEF LoopEnd, Return, ClientStep
<1>13. ASSUME NEW c \in Clients, Del(c) \/ DelNext(c) \/ DelPrev(c)
       PROVE  Phases' /\ Processor' /\ Handler'
  <2>1. Phases'
    BY <1>1, <1>4, <1>13 DEF Del, DelNext, DelPrev, Phases, Locals
  <2>2. QED
    BY <1>1, <1>6, <1>13, <2>1 DEF Del, DelNext, DelPrev, SharedStep
<1>14. ASSUME NEW c \in Clients, Link(c) \/ LinkHead(c) \/ LinkNew(c) \/ LinkPrev(c)
       PROVE  Phases' /\ Processor' /\ Handler'
  <2>1. Phases'
    <3>1. CASE Link(c)
      BY <1>1, <1>4, <3>1 DEF Link, Phases, Ops, Locals
    <3>2. CASE LinkHead(c) \/ LinkNew(c) \/ LinkPrev(c)
      BY <1>1, <1>4, <3>2 DEF LinkHead, LinkNew, LinkPrev, Phases, Ops
    <3>3. QED
      BY <1>14, <3>1, <3>2
  <2>2. QED
    BY <1>1, <1>6, <1>14, <2>1 DEF Link, LinkHead, LinkNew, LinkPrev, SharedStep
<1>15. ASSUME NEW c \in Clients, SizeLoad(c) PROVE Phases' /\ Processor' /\ Handler'
  <2>1. Phases'
    BY <1>1, <1>4, <1>15 DEF SizeLoad, Phases, Ops, Locals
  <2>2. QED
    BY <1>1, <1>6, <1>15, <2>1 DEF SizeLoad, SharedStep
<1>16. ASSUME NEW c \in Clients, SizeStore(c) PROVE Phases' /\ Processor' /\ Handler'
  <2>1. Phases'
    BY <1>1, <1>4, <1>16 DEF SizeStore, Return, Blank, Phases
  <2>2. QED
    BY <1>1, <1>6, <1>16, <2>1 DEF SizeStore, Return, SharedStep
<1>17. ASSUME NEW c \in Contexts, Oops(c) PROVE Phases' /\ Processor' /\ Handler'
  BY <1>4, <1>17 DEF Oops, Phases, Processor, Handler
<1>18. CASE SharedStep(Isr) /\ ~Oops(Isr)
  <2>1. \A d \in Clients : pc'[d] = pc[d] /\ reg'[d] = reg[d]
    BY <1>1, <1>18, OwnStep DEF Contexts
  <2>2. UNCHANGED cpu
    BY <1>1, <1>18 DEF SharedStep, Del, DelNext, DelPrev, Link, LinkHead, LinkNew, LinkPrev,
      SizeLoad, SizeStore
  <2>3. Phases' /\ Processor'
    BY <1>4, <2>1, <2>2 DEF Phases, Processor
  <2>4. pc[Isr] \notin {"gone", "added", "off", "deaf", "idle"}
    BY <1>18 DEF SharedStep, Del, DelNext, DelPrev, Link, LinkHead, LinkNew, LinkPrev,
      SizeLoad, SizeStore
  <2>5. /\ pc'[Isr] \in {"linkHead", "linkNew", "linkPrev", "size", "store", "each"}
        /\ reg'[Isr].op = reg[Isr].op
        /\ pc[Isr] \in {"link", "linkHead", "linkNew", "linkPrev", "size", "store"}
    BY <1>1, <1>4, <1>18 DEF SharedStep, Del, DelNext, DelPrev, Link, LinkHead, LinkNew,
      LinkPrev, SizeLoad, SizeStore, Handler, Locals
  <2>6. Handler'
    BY <1>4, <2>1, <2>4, <2>5 DEF Handler
  <2>7. QED
    BY <2>3, <2>6
<1>19. CASE Edge \/ IsrStart \/ IsrAgain \/ IsrEach \/ IsrWake
  <2>1. \A d \in Clients : pc'[d] = pc[d] /\ reg'[d] = reg[d]
    BY <1>1, <1>19 DEF Edge, IsrStart, IsrAgain, IsrEach, IsrWake
  <2>2. UNCHANGED cpu
    BY <1>19 DEF Edge, IsrStart, IsrAgain, IsrEach, IsrWake
  <2>3. Phases' /\ Processor'
    BY <1>4, <2>1, <2>2 DEF Phases, Processor
  <2>4. Handler'
    BY <1>1, <1>4, <1>19, <2>1 DEF Edge, IsrStart, IsrAgain, IsrEach, IsrWake, Handler,
      Locals, Blank
  <2>5. QED
    BY <2>3, <2>4
<1>20. CASE Load \/ Setup \/ RequestIrq \/ RequestFails \/ Exit
  <2>1. \A d \in Clients : pc'[d] = pc[d] /\ reg'[d] = reg[d]
    BY <1>1, <1>20 DEF Load, Setup, RequestIrq, RequestFails, Exit
  <2>2. UNCHANGED cpu
    BY <1>20 DEF Load, Setup, RequestIrq, RequestFails, Exit
  <2>3. Phases' /\ Processor'
    BY <1>4, <2>1, <2>2 DEF Phases, Processor
  <2>4. Handler'
    BY <1>1, <1>4, <1>20, <2>1 DEF Load, Setup, RequestIrq, RequestFails, Exit, Handler
  <2>5. QED
    BY <2>3, <2>4
<1>21. QED
  BY <1>5, <1>7, <1>8, <1>9, <1>10, <1>11, <1>12, <1>13, <1>14, <1>15, <1>16, <1>17,
     <1>18, <1>19, <1>20 DEF Next, ClientStep, SharedStep, Contexts

(* ... so that every reachable state does.                                 *)
LEMMA OrderlyAlways == Spec => [](Typed /\ Orderly)
<1>1. Init => LockInv
  BY PirNames DEF Init, LockInv, Ops, NotYet, Holds, Locked, Blank, Contexts
<1>2. Init => Phases /\ Processor /\ Handler
  BY PirNames DEF Init, Phases, Processor, Handler, Blank, Contexts
<1>3. QED
  BY <1>1, <1>2, OrderlyStep, TypedAlways, PTL DEF Spec, Orderly

-----------------------------------------------------------------------------
(* A client between the steps that change a list and its counter.          *)
Midway == {"del", "delNext", "delPrev", "loop", "linkHead", "linkNew", "linkPrev", "size",
           "store"}

(* Nobody else is there when a client takes a step, and nobody else reads, *)
(* or flushes, the queue that it reads.                                    *)
LEMMA Alone ==
  ASSUME OneAtATime, Typed, Orderly, NEW c \in Clients, NEW d \in Clients, c # d
  PROVE  /\ ~(pc[c] \in Midway /\ pc[d] \in Midway)
         /\ MayRun(c) =>
              /\ pc[d] \in Midway => SMP /\ pc[c] \in {"idle", "lock", "create"}
              /\ pc[c] \in Midway => pc[d] \in {"idle", "lock", "create", "wait", "sched",
                                               "copy", "link"}
              /\ reg[c].op \in {"read", "flush", "close"} /\ pc[c] # "lock" =>
                   pc[d] \in {"idle", "lock", "create", "link"}
              /\ reg[c].op = "close" => pc[d] = "idle"
<1>1. /\ Clients \subseteq Contexts /\ Nobody \notin Clients /\ reg \in [Contexts -> Locals]
      /\ pc \in [Contexts -> Labels]
      /\ LockInv /\ Ops /\ Phases /\ Processor
  BY PirNames DEF Typed, TypeOK, ContextType, Contexts, Orderly, LockInv
<1>2. reg[c].op \in {"none", "isr", "close", "flush", "read", "write"}
      /\ reg[d].op \in {"none", "isr", "close", "flush", "read", "write"}
  BY <1>1, LocalsFields
<1>3. CASE SMP
  <2>1. Calls[c] \subseteq {"create", "read", "write"} /\ Calls[d] \subseteq {"create", "read", "write"}
    BY <1>3 DEF OneAtATime
  <2>2. \A e \in {c, d} : reg[e].op \in {"none", "create", "read", "write"}
    BY <1>1, <2>1 DEF Phases
  <2>3. \A e \in {c, d} : pc[e] \in {"idle", "lock", "create"} \/ Locked(e)
    BY <1>1, <1>2, <2>2 DEF Phases, Ops, Locked, Labels
  <2>4. ~Locked(c) \/ ~Locked(d)
    BY <1>1, <1>3 DEF OneAtATime, LockInv, Holds
  <2>5. pc[c] \in {"idle", "lock", "create"} \/ pc[d] \in {"idle", "lock", "create"}
    BY <2>3, <2>4
  <2>6. reg[c].op \in {"read", "flush", "close"} /\ pc[c] # "lock" =>
          pc[c] \notin {"idle", "lock", "create"}
    BY <1>1 DEF Ops
  <2>7. QED
    BY <1>3, <2>2, <2>5, <2>6 DEF Midway
<1>4. CASE ~SMP
  <2>1. PICK o \in Clients : \A e \in Clients \ {o} :
          Calls[e] \subseteq {"create"} \cup (IF "close" \in Calls[o] THEN {} ELSE {"write"})
    BY <1>4 DEF OneAtATime
  <2>2. \A e \in {c, d} : e # o => reg[e].op \in {"none", "create"} \cup
          (IF "close" \in Calls[o] THEN {} ELSE {"write"})
    BY <1>1, <2>1 DEF Phases
  <2>3. /\ reg[c].op \in {"read", "flush", "close"} => reg[d].op \in {"none", "write"}
        /\ reg[c].op = "close" => reg[d].op = "none"
    <3>1. CASE c = o
      BY <1>1, <1>2, <2>2, <3>1 DEF Phases
    <3>2. CASE c # o
      BY <1>2, <2>2, <3>2
    <3>3. QED
      BY <3>1, <3>2
  <2>4. MayRun(c) => pc[d] \in {"idle", "wait", "sched", "copy", "link"}
    BY <1>1, <1>4, PirNames DEF MayRun, Runs, Processor
  <2>5. pc[d] \in {"wait", "sched", "copy"} => reg[d].op = "read"
    BY <1>1 DEF Ops
  <2>6. pc[d] = "link" => reg[d].op = "write"
    BY <1>1 DEF Ops
  <2>7. ~(pc[c] \in Midway /\ pc[d] \in Midway)
    BY <1>1, <1>4 DEF Processor, Midway
  <2>8. MayRun(c) => pc[d] \notin Midway
    BY <2>4 DEF Midway
  <2>9. QED
    BY <1>4, <2>3, <2>4, <2>5, <2>6, <2>7, <2>8
<1>5. QED
  BY <1>3, <1>4

-----------------------------------------------------------------------------
(* Messages in the order in which they were appended to a queue.           *)
Before(l, x, y) == \E i, j \in DOMAIN l : i < j /\ l[i] = x /\ l[j] = y
Distinct(l)     == \A i, j \in DOMAIN l : l[i] = l[j] => i = j

(* The handler's list_add_tail counts from its last store on: until then   *)
(* the message is not known yet, and the rear of the list is what head.prev*)
(* was before.  No client runs in between.                                 *)
Appending(q) == pc[Isr] \in {"linkNew", "linkPrev"} /\ reg[Isr].q = q
Known(q)     == {x \in Range(linked[q]) : ~(Appending(q) /\ x = reg[Isr].m)}
Rear(q)      == IF Appending(q) THEN reg[Isr].pv ELSE prev[q]
Listed       == Range(que_list)
Cutting(q)   == \E c \in Clients : pc[c] = "delPrev" /\ reg[c].q = q

(* From hd on, the next pointers visit the messages of s in order.         *)
Threads(s, hd, q) ==
  /\ hd \in s \cup {q}
  /\ \A y \in s : hd \in s /\ (y = hd \/ Before(linked[q], hd, y))
  /\ \A x \in s : next[x] \in s \cup {q} /\ (next[x] \in s => Before(linked[q], x, next[x]))
  /\ \A x, y \in s : Before(linked[q], x, y) =>
       next[x] \in s /\ (y = next[x] \/ Before(linked[q], next[x], y))

Doubly(s) == \A x \in s : next[x] \in s => prev[next[x]] = x

(* s is what a traversal of the queue q finds.                             *)
QueueOk(s, q) ==
  /\ mem[q] = "live" /\ s \subseteq Known(q) /\ \A x \in s : mem[x] = "live"
  /\ Threads(s, next[q], q)
  /\ next[q] \in s => prev[next[q]] = q
  /\ Cutting(q) \/ Doubly(s)
  /\ Rear(q) \in Known(q) \cup {q} /\ mem[Rear(q)] = "live"
  /\ Rear(q) \in s => next[Rear(q)] = q
  /\ Cutting(q) \/ (Rear(q) = q => s = {})
  /\ \A x \in Range(taken[q]), y \in s :
       Before(linked[q], x, y) \/ (x = y /\ x \in Copied(q))

(* A client outside Midway.                                                *)
InQueue == {"wait", "check", "sched", "first", "copy", "link"} \cup Midway
Pending(c) == reg[c].m \in Msgs /\ mem[reg[c].m] = "live"
Unknown(c) == \A q \in Queues : reg[c].m \notin Range(linked[q])

(* A call that named no queue got a null pointer, and is about to oops.    *)
Astray(c) ==
  reg[c].q = Nil /\ reg[c].named = "nothing" /\ pc[c] \in {"wait", "check", "link"}

RestOk(S, c) == LET q == reg[c].q  m == reg[c].m IN
  /\ pc[c] \in {"lock", "get"} /\ reg[c].named = "queue" =>
       \E r \in Listed : qfd[r] = reg[c].fd
  /\ pc[c] \in InQueue /\ reg[c].op # "close" =>
       q \in Listed \/ Astray(c)
  /\ pc[c] = "copy" => m = Nil \/ (m \in S[q] /\ next[q] = m)
  /\ pc[c] = "create" => /\ q \in Queues \ Listed /\ mem[q] = "live"
                         /\ next[q] = q /\ prev[q] = q /\ linked[q] = <<>>
  /\ pc[c] = "link" => Pending(c) /\ Unknown(c)

(* A client that removes a message; the handler may append behind it.      *)
CutOk(S, c) == LET q == reg[c].q  m == reg[c].m  n == reg[c].n  nx == reg[c].nx IN
  /\ pc[c] = "del" => /\ m \in S[q] /\ next[q] = m
                      /\ reg[c].op = "flush" => n \in {q, next[m]}
  /\ pc[c] = "delNext" => /\ m \in S[q] /\ next[q] = m /\ reg[c].pv = q
                          /\ nx \in {q, next[m]}
                          /\ reg[c].op = "flush" => n \in {q, nx}
  /\ pc[c] = "delPrev" =>
       /\ reg[c].pv = q /\ m \in Known(q) /\ mem[m] = "live" /\ Rear(q) # m
       /\ \/ nx = q
          \/ /\ m \in S[q] /\ next[q] = m /\ nx = next[m] /\ nx \in S[q]
             /\ prev[nx] = q /\ Rear(q) # q
             /\ \A x \in S[q] \ {m} : next[x] \in S[q] => prev[next[x]] = x
       /\ reg[c].op = "flush" => n \in {q, nx}
  /\ pc[c] = "loop" /\ reg[c].op = "flush" => n = q \/ (n \in S[q] /\ next[q] = n)
  /\ pc[c] = "loop" /\ reg[c].op = "close" =>
       /\ q \in Queues \ Listed /\ mem[q] = "live"
       /\ S[q] \subseteq Known(q) /\ \A x \in S[q] : mem[x] = "live"
       /\ Threads(S[q], n, q)

(* A client that appends its message; u is what hangs on it before it is   *)
(* reached from the head.                                                  *)
JoinOk(S, u, c) == LET q == reg[c].q  m == reg[c].m  pv == reg[c].pv IN
  /\ pc[c] = "linkHead" => Pending(c) /\ Unknown(c)
  /\ pc[c] \in {"linkHead", "linkNew", "linkPrev"} =>
       /\ pv \in Known(q) \cup {q} /\ mem[pv] = "live"
       /\ pv = q => \A d \in Clients : pc[d] = "copy" /\ reg[d].q = q => reg[d].m = Nil
  /\ pc[c] \in {"linkNew", "linkPrev"} =>
       /\ Pending(c) /\ m \in Known(q) \ S[q] /\ (pv = q \/ Before(linked[q], pv, m))
       /\ Rear(q) \notin S[q] \cup {q}
       /\ \A y \in S[q] \cup Range(taken[q]) : Before(linked[q], y, m)
  /\ pc[c] = "linkPrev" =>
       /\ m \in u /\ u \subseteq Known(q) \ S[q] /\ \A x \in u : mem[x] = "live"
       /\ Threads(u, m, q) /\ prev[m] = pv /\ Doubly(u)
       /\ Rear(q) \in u => next[Rear(q)] = q

HandlerOk == LET q == reg[Isr].q  m == reg[Isr].m IN
  /\ pc[Isr] = "each" => q \in Listed \cup {Nil}
  /\ pc[Isr] \in {"link", "linkHead", "linkNew", "linkPrev", "size", "store"} => q \in Listed
  /\ pc[Isr] \in {"link", "linkHead"} => Pending(Isr) /\ Unknown(Isr)
  /\ pc[Isr] = "linkHead" => reg[Isr].pv = prev[q]
  /\ pc[Isr] \in {"linkNew", "linkPrev"} =>
       /\ Pending(Isr) /\ prev[q] = m /\ m \in Range(linked[q]) \ Range(taken[q])
       /\ \A x \in Known(q) : Before(linked[q], x, m)
  /\ pc[Isr] = "linkPrev" => next[m] = q /\ prev[m] = reg[Isr].pv

(* Who allocated what, and what the histories record.                      *)
Apart ==
  /\ \A c, d \in Contexts : c # d /\ pc[c] \in {"link", "linkHead"} /\ pc[d] \in {"link", "linkHead"}
       => reg[c].m # reg[d].m
  /\ \A c, d \in Clients : c # d /\ pc[c] = "create" /\ pc[d] \in {"create", "loop"}
       => reg[c].q # reg[d].q
  /\ \A i, j \in DOMAIN que_list : que_list[i] = que_list[j] => i = j

HistoryOk ==
  /\ \A q, r \in Queues : q # r => Range(linked[q]) \cap Range(linked[r]) = {}
  /\ \A q \in Queues :
       /\ Distinct(linked[q]) /\ \A x \in Range(linked[q]) : x \in Msgs /\ mem[x] # "fresh"
       /\ mem[q] = "fresh" => linked[q] = <<>>
       /\ Range(taken[q]) \subseteq Range(linked[q])
       /\ \A i, j \in DOMAIN taken[q] : i < j => Before(linked[q], taken[q][i], taken[q][j])

Lists(S, u) ==
  /\ \A q \in Listed : QueueOk(S[q], q)
  /\ \A c \in Clients : RestOk(S, c) /\ CutOk(S, c) /\ JoinOk(S, u, c)
  /\ HandlerOk /\ Apart /\ HistoryOk

ListInv == \E S \in [Queues -> SUBSET Msgs], u \in SUBSET Msgs : Lists(S, u)

(* Before is a strict order on the elements of a list, ...                 *)
LEMMA BeforeOrder ==
  ASSUME NEW l \in Seq(Node), Distinct(l)
  PROVE  /\ \A x, y : Before(l, x, y) => x \in Range(l) /\ y \in Range(l) /\ x # y
         /\ \A x, y : ~(Before(l, x, y) /\ Before(l, y, x))
         /\ \A x, y, z : Before(l, x, y) /\ Before(l, y, z) => Before(l, x, z)
         /\ \A x, y \in Range(l) : x = y \/ Before(l, x, y) \/ Before(l, y, x)
<1>1. DOMAIN l = 1 .. Len(l) /\ Len(l) \in Nat
  OBVIOUS
<1>2. \A x, y : Before(l, x, y) => x \in Range(l) /\ y \in Range(l) /\ x # y
  BY <1>1 DEF Before, Distinct, Range
<1>3. \A x, y : ~(Before(l, x, y) /\ Before(l, y, x))
  BY <1>1 DEF Before, Distinct
<1>4. \A x, y, z : Before(l, x, y) /\ Before(l, y, z) => Before(l, x, z)
  BY <1>1 DEF Before, Distinct
<1>5. \A x, y \in Range(l) : x = y \/ Before(l, x, y) \/ Before(l, y, x)
  BY <1>1 DEF Before, Range
<1>6. QED
  BY <1>2, <1>3, <1>4, <1>5

(* ... and an element appended comes after all of them.                    *)
LEMMA BeforeAppend ==
  ASSUME NEW l \in Seq(Node), Distinct(l), NEW m \in Node, m \notin Range(l),
         NEW k, k = Append(l, m)
  PROVE  /\ k \in Seq(Node) /\ Distinct(k) /\ Range(k) = Range(l) \cup {m}
         /\ \A x \in Range(l) : Before(k, x, m)
         /\ \A x, y \in Range(l) : Before(k, x, y) <=> Before(l, x, y)
<1>1. /\ DOMAIN l = 1 .. Len(l) /\ Len(l) \in Nat
      /\ k \in Seq(Node) /\ DOMAIN k = 1 .. Len(l) + 1
      /\ \A i \in 1 .. Len(l) : k[i] = l[i] /\ k[Len(l) + 1] = m
  BY AppendProperties
<1>1a. k[Len(l) + 1] = m
  BY AppendProperties
<1>2. \A i \in 1 .. Len(l) : l[i] # m
  BY <1>1 DEF Range
<1>3. \A i \in DOMAIN k : i \in 1 .. Len(l) \/ i = Len(l) + 1
  BY <1>1
<1>4. Distinct(k)
  BY <1>1, <1>1a, <1>2, <1>3 DEF Distinct
<1>5. Range(k) = Range(l) \cup {m}
  BY <1>1, <1>1a, <1>3 DEF Range
<1>6. \A x \in Range(l) : Before(k, x, m)
  BY <1>1, <1>1a DEF Before, Range
<1>7. ASSUME NEW x \in Range(l), NEW y \in Range(l)
      PROVE  Before(k, x, y) <=> Before(l, x, y)
  BY <1>1, <1>1a, <1>3 DEF Before, Range
<1>8. QED
  BY <1>1, <1>4, <1>5, <1>6, <1>7

(* The history is what the property asks for, ...                          *)
LEMMA InOrder == Typed /\ HistoryOk => DeliveredInOrder
<1> SUFFICES ASSUME Typed, HistoryOk, NEW q \in Queues
             PROVE  \E f \in [DOMAIN taken[q] -> DOMAIN linked[q]] :
                      \A i, j \in DOMAIN taken[q] :
                        taken[q][i] = linked[q][f[i]] /\ (i < j => f[i] < f[j])
  BY DEF DeliveredInOrder
<1> DEFINE l == linked[q]
           t == taken[q]
           f == [i \in DOMAIN t |-> CHOOSE j \in DOMAIN l : l[j] = t[i]]
<1>1. /\ Range(t) \subseteq Range(l) /\ Distinct(l)
      /\ \A i, j \in DOMAIN t : i < j => Before(l, t[i], t[j])
  BY DEF HistoryOk
<1> HIDE DEF l, t
<1>2. \A i \in DOMAIN t : \E j \in DOMAIN l : l[j] = t[i]
  BY <1>1 DEF Range
<1>3. \A i \in DOMAIN t : f[i] \in DOMAIN l /\ l[f[i]] = t[i]
  BY <1>2
<1> HIDE DEF f
<1>4. ASSUME NEW i \in DOMAIN t, NEW j \in DOMAIN t, i < j PROVE f[i] < f[j]
  <2>1. PICK a, b \in DOMAIN l : a < b /\ l[a] = t[i] /\ l[b] = t[j]
    BY <1>1, <1>4 DEF Before
  <2>2. f[i] = a /\ f[j] = b
    BY <1>1, <1>3, <2>1 DEF Distinct
  <2>3. QED
    BY <2>1, <2>2
<1>5. f \in [DOMAIN t -> DOMAIN l]
  BY <1>3 DEF f
<1>6. QED
  BY <1>3, <1>4, <1>5 DEF l, t

(* ... and what a step dereferences is not freed.                          *)
LEMMA DerefsLive ==
  ASSUME Typed, Orderly, NEW S \in [Queues -> SUBSET Msgs], NEW u \in SUBSET Msgs,
         Lists(S, u), NEW c \in Contexts
  PROVE  Sound(c) \/ Nil \in Derefs(c)
<1>1. /\ pc \in [Contexts -> Labels] /\ reg \in [Contexts -> Locals]
      /\ LockInv /\ Ops /\ Phases /\ Handler /\ Isr \notin Clients
  BY PirNames DEF Typed, TypeOK, ContextType, Orderly, LockInv
<1>2. \A r \in Listed : /\ mem[r] = "live" /\ \A x \in S[r] : mem[x] = "live"
                        /\ mem[Rear(r)] = "live" /\ Threads(S[r], next[r], r)
  BY DEF Lists, QueueOk
<1> SUFFICES ASSUME NEW x, x \in Derefs(c), x # Nil PROVE mem[x] = "live"
  BY DEF Sound
<1>3. CASE c \in Clients
  <2>1. RestOk(S, c) /\ CutOk(S, c) /\ JoinOk(S, u, c)
    BY <1>3 DEF Lists
  <2>2. CASE pc[c] \in {"check", "first", "link", "linkHead", "size", "store"}
    BY <1>1, <1>2, <1>3, <2>1, <2>2 DEF Derefs, RestOk, Astray, InQueue, Midway, Ops
  <2>3. CASE pc[c] \in {"copy", "linkNew", "del"}
    BY <1>1, <1>2, <1>3, <2>1, <2>3 DEF Derefs, RestOk, Astray, CutOk, JoinOk, Pending, InQueue,
      Midway, Ops, Phases
  <2>4. CASE pc[c] = "loop"
    BY <1>1, <1>2, <1>3, <2>1, <2>4 DEF Derefs, RestOk, Astray, CutOk, InQueue, Midway, Phases,
      Threads
  <2>5. CASE pc[c] \in {"linkPrev", "delNext", "delPrev"}
    BY <1>1, <1>2, <1>3, <2>1, <2>5 DEF Derefs, RestOk, Astray, CutOk, JoinOk, InQueue, Midway,
      Phases, Ops, Threads
  <2>6. CASE pc[c] \notin {"check", "first", "link", "linkHead", "size", "store", "copy",
                          "linkNew", "del", "loop", "linkPrev", "delNext", "delPrev", "each"}
    BY <2>6 DEF Derefs
  <2>7. QED
    BY <1>1, <1>3, <2>2, <2>3, <2>4, <2>5, <2>6 DEF Phases
<1>4. CASE c = Isr
  <2>1. HandlerOk
    BY DEF Lists
  <2>2. CASE pc[Isr] \in {"link", "linkHead", "linkNew", "size", "store"}
    BY <1>2, <1>4, <2>1, <2>2 DEF Derefs, HandlerOk, Pending
  <2>3. CASE pc[Isr] = "linkPrev"
    BY <1>2, <1>4, <2>1, <2>3 DEF Derefs, HandlerOk, Rear, Appending
  <2>4. CASE pc[Isr] \in {"each", "again", "idle", "off", "deaf", "gone", "added"}
    BY <1>4, <2>1, <2>4 DEF Derefs, HandlerOk, Listed
  <2>5. QED
    BY <1>1, <2>2, <2>3, <2>4 DEF Handler
<1>5. QED
  BY <1>3, <1>4 DEF Contexts

-----------------------------------------------------------------------------
(* A queue whose list a step leaves alone, ...                              *)
LEMMA QueueFrame ==
  ASSUME NEW r, NEW s, QueueOk(s, r),
         Known(r) \subseteq Known(r)', Rear(r)' = Rear(r), mem'[Rear(r)] = mem[Rear(r)],
         \A x \in s : next'[x] = next[x] /\ prev'[x] = prev[x] /\ mem'[x] = mem[x],
         next'[r] = next[r], mem'[r] = mem[r],
         \A x, y \in Known(r) : Before(linked'[r], x, y) <=> Before(linked[r], x, y),
         taken'[r] = taken[r], Range(taken[r]) \subseteq Known(r),
         Cutting(r) => Cutting(r)', Copied(r) \subseteq Copied(r)'
  PROVE  QueueOk(s, r)'
<1>1. /\ mem'[r] = "live" /\ s \subseteq Known(r)' /\ \A x \in s : mem'[x] = "live"
      /\ next'[r] \in s => prev'[next'[r]] = r
      /\ (Rear(r) \in Known(r) \cup {r})' /\ mem'[Rear(r)'] = "live"
      /\ Rear(r)' \in s => next'[Rear(r)'] = r
  BY DEF QueueOk
<1>2. Threads(s, next[r], r)'
  BY DEF QueueOk, Threads
<1>3. (Cutting(r) \/ Doubly(s))' /\ (Cutting(r) \/ (Rear(r) = r => s = {}))'
  BY DEF QueueOk, Doubly
<1>4. \A x \in Range(taken'[r]), y \in s :
        Before(linked'[r], x, y) \/ (x = y /\ x \in Copied(r)')
  BY DEF QueueOk
<1>5. QED
  BY <1>1, <1>2, <1>3, <1>4 DEF QueueOk

(* ... or whose messages it leaves alone altogether.                       *)
LEMMA QueueKept ==
  ASSUME NEW r, NEW s, QueueOk(s, r),
         Known(r)' = Known(r), Rear(r)' = Rear(r),
         \A x \in Known(r) : next'[x] = next[x] /\ prev'[x] = prev[x] /\ mem'[x] = mem[x],
         next'[r] = next[r], mem'[r] = mem[r],
         \A x, y \in Known(r) : Before(linked'[r], x, y) <=> Before(linked[r], x, y),
         taken'[r] = taken[r], Range(taken[r]) \subseteq Known(r),
         Cutting(r) => Cutting(r)', Copied(r) \subseteq Copied(r)'
  PROVE  QueueOk(s, r)'
<1>1. s \subseteq Known(r) /\ Rear(r) \in Known(r) \cup {r}
  BY DEF QueueOk
<1>2. QED
  BY <1>1, QueueFrame

(* What the messages a queue has had are.                                  *)
LEMMA TakenKnown ==
  ASSUME HistoryOk, HandlerOk, NEW r \in Queues
  PROVE  /\ Range(taken[r]) \subseteq Known(r)
         /\ \A x \in Known(r) : x \in Msgs /\ mem[x] # "fresh" /\ x \in Range(linked[r])
BY DEF HistoryOk, HandlerOk, Known, Appending

(* A step of context c that touches no node of a list and no history: only *)
(* what is said of c itself is to be shown.                                *)
Untouched(c) ==
  /\ \A x \in Node : mem[x] # "fresh" =>
       next'[x] = next[x] /\ prev'[x] = prev[x] /\ mem'[x] = mem[x]
  /\ UNCHANGED <<que_list, linked, taken>> /\ \A r \in Listed : qfd'[r] = qfd[r]
  /\ \A d \in Contexts \ {c} : pc'[d] = pc[d] /\ reg'[d] = reg[d]

Untouching(c) ==
  /\ c \in Clients =>
       /\ pc[c] # "delPrev" /\ pc'[c] # "delPrev"
       /\ pc[c] \in {"del", "delNext"} => /\ pc'[c] \in {"del", "delNext"}
            /\ reg'[c].op = reg[c].op /\ reg'[c].q = reg[c].q /\ reg'[c].m = reg[c].m
       /\ pc'[c] = "create" => mem[reg'[c].q] = "fresh"
       /\ pc'[c] = "loop" => reg'[c].q \in Listed
       /\ pc'[c] = "copy" => \A d \in Clients \ {c} : pc[d] \notin Midway
  /\ c = Isr => pc[c] \notin {"linkNew", "linkPrev"} /\ pc'[c] \notin {"linkNew", "linkPrev"}
  /\ pc'[c] \in {"link", "linkHead"} =>
       mem[reg'[c].m] = "fresh" \/ (pc[c] \in {"link", "linkHead"} /\ reg'[c].m = reg[c].m)

(* Such a step leaves alone what a queue has had and where it ends, ...    *)
LEMMA UntouchedKnown ==
  ASSUME NEW c \in Contexts, Untouched(c), Untouching(c), NEW r, r \in Node, mem[r] # "fresh"
  PROVE  /\ Appending(r)' = Appending(r) /\ Known(r)' = Known(r) /\ Rear(r)' = Rear(r)
         /\ Appending(r) => reg'[Isr] = reg[Isr]
<1>1. Isr \in Contexts
  BY DEF Contexts
<1>2. Appending(r)' = Appending(r) /\ (Appending(r) => reg'[Isr] = reg[Isr])
  BY <1>1 DEF Untouched, Untouching, Appending
<1>3. Known(r)' = Known(r)
  BY <1>2 DEF Untouched, Known
<1>4. Rear(r)' = Rear(r)
  BY <1>2 DEF Untouched, Rear
<1>5. QED
  BY <1>2, <1>3, <1>4

(* ... so that the lists are as they were.                                 *)
LEMMA UntouchedStep ==
  ASSUME Typed, Orderly, NEW S \in [Queues -> SUBSET Msgs], NEW u \in SUBSET Msgs, Lists(S, u),
         NEW c \in Contexts, Untouched(c), Untouching(c),
         c \in Clients => (RestOk(S, c) /\ CutOk(S, c) /\ JoinOk(S, u, c))',
         c = Isr => HandlerOk'
  PROVE  Lists(S, u)'
<1>1. /\ pc \in [Contexts -> Labels] /\ reg \in [Contexts -> Locals]
      /\ Isr \in Contexts \ Clients /\ Clients \subseteq Contexts
      /\ Phases /\ Ops /\ HandlerOk /\ HistoryOk /\ Apart
      /\ Msgs \subseteq Node /\ Queues \subseteq Node /\ Queues \cap Msgs = {}
  BY PirNames DEF Typed, TypeOK, ContextType, Contexts, Orderly, LockInv, Lists, Node
<1>2. Listed' = Listed /\ Listed \subseteq Queues
  BY DEF Untouched, Listed, Range, Typed, TypeOK, QueueType
<1>3. \A x \in Node : mem[x] = "live" =>
        next'[x] = next[x] /\ prev'[x] = prev[x] /\ mem'[x] = "live"
  BY DEF Untouched
<1>4. ASSUME NEW r \in Listed PROVE QueueOk(S[r], r)'
  <2>1. QueueOk(S[r], r) /\ r \in Queues /\ mem[r] = "live" /\ r \in Node
    BY <1>1, <1>2 DEF Lists, QueueOk
  <2>2. Known(r)' = Known(r) /\ Rear(r)' = Rear(r)
    BY <2>1, UntouchedKnown
  <2>3. \A x \in Known(r) : next'[x] = next[x] /\ prev'[x] = prev[x] /\ mem'[x] = mem[x]
    BY <1>1, <2>1, TakenKnown DEF Untouched
  <2>4. Cutting(r) => Cutting(r)'
    BY <1>1 DEF Cutting, Untouched, Untouching
  <2>5. Copied(r) \subseteq Copied(r)'
    BY <1>1 DEF Copied, Untouched, Untouching
  <2>6. next'[r] = next[r] /\ mem'[r] = mem[r]
    BY <1>3, <2>1
  <2>7. linked'[r] = linked[r] /\ taken'[r] = taken[r] /\ Range(taken[r]) \subseteq Known(r)
    BY <1>1, <2>1, TakenKnown DEF Untouched
  <2>8. QED
    BY <2>1, <2>2, <2>3, <2>4, <2>5, <2>6, <2>7, QueueKept
<1>5. ASSUME NEW d \in Clients, d # c
      PROVE  (RestOk(S, d) /\ CutOk(S, d) /\ JoinOk(S, u, d))'
  <2>0. PICK q : q = reg[d].q
    OBVIOUS
  <2> DEFINE m == reg[d].m
  <2>1. /\ pc'[d] = pc[d] /\ reg'[d] = reg[d] /\ RestOk(S, d) /\ CutOk(S, d) /\ JoinOk(S, u, d)
        /\ UNCHANGED <<linked, taken>> /\ \A r \in Listed : qfd'[r] = qfd[r]
    BY <1>1, <1>5 DEF Untouched, Lists
  <2>2. \A r \in Queues : mem[r] = "live" => Known(r)' = Known(r) /\ Rear(r)' = Rear(r)
    BY <1>1, UntouchedKnown
  <2>3. \A r \in Listed : mem[r] = "live" /\ \A x \in S[r] : x \in Node /\ mem[x] = "live"
    BY <1>1, <1>2 DEF Lists, QueueOk
  <2>3a. \A r \in Listed : /\ r \in Queues /\ next'[r] = next[r] /\ prev'[r] = prev[r]
                           /\ \A x \in S[r] : next'[x] = next[x] /\ prev'[x] = prev[x]
    BY <1>1, <1>2, <1>3, <2>3
  <2>4. RestOk(S, d)'
    <3>1. pc[d] = "create" => (/\ q \in Queues \ Listed /\ mem[q] = "live"
                               /\ next[q] = q /\ prev[q] = q /\ linked[q] = <<>>)'
      BY <2>0, <1>1, <1>2, <1>3, <2>1 DEF RestOk
    <3>2. pc[d] = "link" => Pending(d)' /\ Unknown(d)'
      BY <2>0, <1>1, <1>3, <2>1 DEF RestOk, Pending, Unknown
    <3>3. pc[d] \in {"lock", "get"} /\ reg[d].named = "queue" =>
            \E r \in Listed : qfd'[r] = reg[d].fd
      BY <2>0, <2>1 DEF RestOk
    <3>4. /\ pc[d] \in InQueue /\ reg[d].op # "close" => q \in Listed \/ Astray(d)
          /\ Astray(d)' = Astray(d)
      BY <2>0, <2>1 DEF RestOk, Astray
    <3>5. pc[d] = "copy" => m = Nil \/ (m \in S[q] /\ next'[q] = m)
      <4>1. SUFFICES ASSUME pc[d] = "copy", m # Nil PROVE m \in S[q] /\ next'[q] = m
        OBVIOUS
      <4>2. m \in S[q] /\ next[q] = m /\ q \in Listed
        BY <2>0, <1>1, <2>1, <3>4, <4>1 DEF RestOk, Astray, InQueue, Ops
      <4>3. QED
        BY <2>3a, <4>2
    <3>6. QED
      BY <2>0, <1>2, <2>1, <3>1, <3>2, <3>3, <3>4, <3>5 DEF RestOk
  <2>5. CASE pc[d] \in {"del", "delNext", "delPrev"}
    <3>1. q \in Listed
      BY <2>0, <1>1, <2>1, <2>5 DEF RestOk, Astray, InQueue, Midway, Phases
    <3>2. CutOk(S, d)'
      <4>1. mem[q] = "live" /\ q \in Queues /\ Known(q)' = Known(q) /\ Rear(q)' = Rear(q)
        BY <2>2, <2>3, <2>3a, <3>1
      <4>2. \A x \in Msgs : mem[x] = "live" => mem'[x] = "live"
        BY <1>1, <1>3
      <4>3. \A x \in Known(q) : x \in Msgs
        BY <1>1, <4>1, TakenKnown
      <4>4. CASE pc[d] = "del"
        BY <2>0, <2>1, <2>3a, <3>1, <4>4 DEF CutOk
      <4>5. CASE pc[d] = "delNext"
        BY <2>0, <2>1, <2>3a, <3>1, <4>5 DEF CutOk
      <4>6. CASE pc[d] = "delPrev"
        BY <2>0, <2>1, <2>3a, <3>1, <4>1, <4>2, <4>3, <4>6 DEF CutOk
      <4>7. QED
        BY <2>5, <4>4, <4>5, <4>6
    <3>3. JoinOk(S, u, d)'
      BY <2>0, <2>1, <2>5 DEF JoinOk
    <3>4. QED
      BY <2>4, <3>2, <3>3
  <2>6. CASE pc[d] = "loop"
    <3>1. CutOk(S, d)'
      <4>1. CASE reg[d].op = "flush"
        BY <2>0, <1>1, <1>2, <1>3, <2>1, <2>2, <2>3, <2>6, <4>1 DEF CutOk, RestOk, Astray, InQueue,
          Midway
      <4>2. CASE reg[d].op = "close"
        <5>1. /\ q \in Queues \ Listed /\ mem[q] = "live" /\ S[q] \subseteq Known(q)
              /\ \A x \in S[q] : x \in Node /\ mem[x] = "live"
              /\ Threads(S[q], reg[d].n, q)
          BY <2>0, <1>1, <2>1, <2>6, <4>2 DEF CutOk
        <5>2. Threads(S[q], reg[d].n, q)'
          <6>1. \A x \in S[q] : next'[x] = next[x]
            BY <1>3, <5>1
          <6>2. QED
            BY <2>0, <2>1, <5>1, <6>1 DEF Threads
        <5>3. mem'[q] = "live" /\ Known(q)' = Known(q) /\ \A x \in S[q] : mem'[x] = "live"
          BY <1>1, <1>3, <2>2, <5>1
        <5>4. QED
          BY <2>0, <1>2, <2>1, <2>6, <4>2, <5>1, <5>2, <5>3 DEF CutOk
      <4>3. QED
        BY <1>1, <2>6, <4>1, <4>2 DEF Phases
    <3>2. JoinOk(S, u, d)'
      BY <2>0, <2>1, <2>6 DEF JoinOk
    <3>3. QED
      BY <2>4, <3>1, <3>2
  <2>7. CASE pc[d] \in {"linkHead", "linkNew", "linkPrev"}
    <3>1. q \in Listed /\ q \in Queues /\ mem[q] = "live"
      BY <2>0, <1>1, <1>2, <2>1, <2>3, <2>7 DEF RestOk, Astray, InQueue, Midway, Ops
    <3>2. Known(q)' = Known(q) /\ Rear(q)' = Rear(q) /\ mem[Rear(q)] = "live"
          /\ Rear(q) \in Known(q) \cup {q} /\ Known(q) \subseteq Node
      <4>1. QueueOk(S[q], q)
        BY <3>1 DEF Lists
      <4>2. QED
        <5>1. Rear(q) \in Known(q) \cup {q} /\ mem[Rear(q)] = "live"
          BY <4>1 DEF QueueOk
        <5>2. Known(q) \subseteq Msgs
          BY <1>1, <3>1, TakenKnown
        <5>3. QED
          BY <1>1, <2>2, <3>1, <5>1, <5>2
    <3>3. \A e \in Clients : pc'[e] = "copy" => pc[e] = "copy" /\ reg'[e] = reg[e]
      BY <1>1, <1>5, <2>7 DEF Untouched, Untouching, Midway
    <3>4. pc[d] = "linkHead" => Pending(d)' /\ Unknown(d)'
      BY <2>0, <1>1, <1>3, <2>1 DEF JoinOk, Pending, Unknown
    <3>5. LET pv == reg[d].pv IN
          /\ pv \in Known(q) \cup {q} /\ mem'[pv] = "live"
          /\ pv = q => \A e \in Clients : pc'[e] = "copy" /\ reg'[e].q = q => reg'[e].m = Nil
      BY <2>0, <1>1, <1>3, <2>1, <2>7, <3>1, <3>2, <3>3 DEF JoinOk
    <3>6. pc[d] \in {"linkNew", "linkPrev"} =>
            /\ Pending(d)' /\ m \in Known(q) \ S[q]
            /\ (reg[d].pv = q \/ Before(linked[q], reg[d].pv, m))
            /\ Rear(q) \notin S[q] \cup {q}
            /\ \A y \in S[q] \cup Range(taken[q]) : Before(linked[q], y, m)
      BY <2>0, <1>1, <1>3, <2>1 DEF JoinOk, Pending
    <3>7. pc[d] = "linkPrev" =>
            /\ m \in u /\ u \subseteq Known(q) \ S[q] /\ \A x \in u : mem'[x] = "live"
            /\ Threads(u, m, q)' /\ prev'[m] = reg[d].pv /\ Doubly(u)'
            /\ Rear(q) \in u => next'[Rear(q)] = q
      <4>1. SUFFICES ASSUME pc[d] = "linkPrev"
                     PROVE  /\ m \in u /\ u \subseteq Known(q) \ S[q] /\ \A x \in u : mem'[x] = "live"
                            /\ Threads(u, m, q)' /\ prev'[m] = reg[d].pv /\ Doubly(u)'
                            /\ Rear(q) \in u => next'[Rear(q)] = q
        OBVIOUS
      <4>2. /\ m \in u /\ u \subseteq Known(q) \ S[q] /\ \A x \in u : mem[x] = "live"
            /\ Threads(u, m, q) /\ prev[m] = reg[d].pv /\ Doubly(u)
            /\ Rear(q) \in u => next[Rear(q)] = q
        BY <2>0, <2>1, <4>1 DEF JoinOk
      <4>3. \A x \in u : next'[x] = next[x] /\ prev'[x] = prev[x] /\ mem'[x] = "live"
        BY <1>1, <1>3, <4>2
      <4>4. Threads(u, reg[d].m, q)' /\ Doubly(u)'
        BY <2>0, <2>1, <4>2, <4>3 DEF Threads, Doubly
      <4>5. QED
        BY <2>0, <2>1, <4>2, <4>3, <4>4
    <3>8. JoinOk(S, u, d)'
      BY <2>0, <2>1, <3>2, <3>4, <3>5, <3>6, <3>7 DEF JoinOk
    <3>9. CutOk(S, d)'
      BY <2>0, <2>1, <2>7 DEF CutOk
    <3>10. QED
      BY <2>4, <3>8, <3>9
  <2>8. CASE pc[d] \notin {"del", "delNext", "delPrev", "loop", "linkHead", "linkNew", "linkPrev"}
    BY <2>0, <2>1, <2>4, <2>8 DEF CutOk, JoinOk
  <2>9. QED
    BY <2>5, <2>6, <2>7, <2>8
<1>6. ASSUME c # Isr PROVE HandlerOk'
  <2>0. PICK q : q = reg[Isr].q
    OBVIOUS
  <2> DEFINE m == reg[Isr].m
  <2>1. /\ pc'[Isr] = pc[Isr] /\ reg'[Isr] = reg[Isr] /\ UNCHANGED <<linked, taken>>
    BY <1>1, <1>6 DEF Untouched
  <2>2. pc[Isr] \in {"link", "linkHead", "linkNew", "linkPrev", "size", "store"} =>
          q \in Listed /\ q \in Queues /\ mem[q] = "live" /\ Known(q)' = Known(q)
    <3>1. \A r \in Listed : mem[r] = "live" /\ r \in Node /\ r \in Queues
      BY <1>1, <1>2 DEF Lists, QueueOk
    <3>2. \A r \in Listed : Known(r)' = Known(r)
      BY <3>1, UntouchedKnown
    <3>3. QED
      BY <1>1, <2>0, <3>1, <3>2 DEF HandlerOk
  <2>3. pc[Isr] \in {"link", "linkHead", "linkNew", "linkPrev"} => Pending(Isr) /\ Pending(Isr)'
    BY <1>1, <1>3, <2>1 DEF HandlerOk, Pending
  <2>4. pc[Isr] \in {"link", "linkHead"} => Unknown(Isr)'
    BY <1>1, <2>1 DEF HandlerOk, Unknown
  <2>5. QED
    BY <1>1, <1>2, <1>3, <2>0, <2>1, <2>2, <2>3, <2>4 DEF HandlerOk, Pending
<1>7. Apart'
  <2>1. \A d \in Contexts : pc[d] \in {"link", "linkHead"} => mem[reg[d].m] = "live"
    BY <1>1 DEF Lists, HandlerOk, RestOk, JoinOk, Pending, Contexts
  <2>2. \A d \in Clients : /\ pc[d] = "create" => mem[reg[d].q] = "live" /\ reg[d].q \notin Listed
                           /\ pc[d] = "loop" => mem[reg[d].q] = "live"
    BY <1>1 DEF Lists, QueueOk, RestOk, Astray, CutOk, InQueue, Midway, Phases
  <2>3. ASSUME NEW d \in Contexts, NEW e \in Contexts, d # e,
               pc'[d] \in {"link", "linkHead"}, pc'[e] \in {"link", "linkHead"}
        PROVE  reg'[d].m # reg'[e].m
    BY <1>1, <2>1, <2>3 DEF Apart, Untouched, Untouching
  <2>4. ASSUME NEW d \in Clients, NEW e \in Clients, d # e,
               pc'[d] = "create", pc'[e] \in {"create", "loop"}
        PROVE  reg'[d].q # reg'[e].q
    <3>1. \A r \in Listed : mem[r] = "live"
      BY DEF Lists, QueueOk
    <3>2. QED
      BY <1>1, <2>2, <2>4, <3>1 DEF Apart, Untouched, Untouching
  <2>5. QED
    BY <1>1, <2>3, <2>4 DEF Apart, Untouched
<1>8. HistoryOk'
  <2>1. \A x \in Node : mem[x] # "fresh" => mem'[x] = mem[x]
    BY DEF Untouched
  <2>2. UNCHANGED <<linked, taken>>
    BY DEF Untouched
  <2>3. \A q \in Queues : mem'[q] = "fresh" => linked[q] = <<>>
    BY <1>1, <2>1 DEF HistoryOk
  <2>4. QED
    BY <1>1, <2>1, <2>2, <2>3 DEF HistoryOk
<1>9. \A d \in Clients : (RestOk(S, d) /\ CutOk(S, d) /\ JoinOk(S, u, d))'
  BY <1>1, <1>5
<1>10. QED
  BY <1>1, <1>2, <1>4, <1>6, <1>7, <1>8, <1>9 DEF Lists

-----------------------------------------------------------------------------
(* The facts about types and places that the steps below need.             *)
LEMMA Basics ==
  ASSUME Typed, Orderly, NEW S \in [Queues -> SUBSET Msgs], NEW u \in SUBSET Msgs, Lists(S, u)
  PROVE  /\ pc \in [Contexts -> Labels] /\ reg \in [Contexts -> Locals]
         /\ Clients \subseteq Contexts /\ Isr \in Contexts \ Clients
         /\ Msgs \subseteq Node /\ Queues \subseteq Node /\ Queues \cap Msgs = {}
         /\ Nil \notin Node /\ Node = Queues \cup Msgs
         /\ LockInv /\ Ops /\ Phases /\ Processor /\ Handler
         /\ HandlerOk /\ HistoryOk /\ Apart
         /\ next \in [Node -> Node \cup {Nil}] /\ prev \in [Node -> Node \cup {Nil}]
         /\ mem \in [Node -> {"fresh", "live", "freed"}]
         /\ linked \in [Queues -> Seq(Node)] /\ taken \in [Queues -> Seq(Node)]
         /\ que_list \in Seq(Queues) /\ Listed \subseteq Queues
         /\ \A r \in Listed : mem[r] = "live" /\ r \in Queues /\ QueueOk(S[r], r)
         /\ \A d \in Clients : RestOk(S, d) /\ CutOk(S, d) /\ JoinOk(S, u, d)
<1>1. pc \in [Contexts -> Labels] /\ reg \in [Contexts -> Locals]
  BY DEF Typed, TypeOK, ContextType
<1>2. /\ next \in [Node -> Node \cup {Nil}] /\ prev \in [Node -> Node \cup {Nil}]
      /\ mem \in [Node -> {"fresh", "live", "freed"}]
      /\ linked \in [Queues -> Seq(Node)] /\ taken \in [Queues -> Seq(Node)]
      /\ que_list \in Seq(Queues)
  BY DEF Typed, TypeOK, HeapType, HistoryType, QueueType
<1>3. Listed \subseteq Queues
  BY <1>2 DEF Listed, Range
<1>4. QED
  BY <1>1, <1>2, <1>3, PirNames DEF Lists, QueueOk, Orderly, LockInv, Node, Contexts

(* A call that goes on has found its queue.                                *)
LEMMA Placed ==
  ASSUME Typed, Orderly, NEW S \in [Queues -> SUBSET Msgs], NEW u \in SUBSET Msgs, Lists(S, u),
         NEW c \in Clients, pc[c] \in InQueue \ {"wait"}, reg[c].op # "close",
         pc[c] \in {"check", "link"} => Sound(c)
  PROVE  reg[c].q \in Listed
<1>1. reg[c].q \in Listed \/ Astray(c)
  BY DEF Lists, RestOk
<1>2. ~Astray(c)
  BY DEF Astray, Sound, Derefs
<1>3. QED
  BY <1>1, <1>2

(* Steps of a client that write no pointer.                                *)
LEMMA CreateInitStep ==
  ASSUME Typed, Orderly, NEW S \in [Queues -> SUBSET Msgs], NEW u \in SUBSET Msgs, Lists(S, u),
         NEW c \in Clients, CreateInit(c)
  PROVE  Lists(S, u)'
<1>1. PICK q \in Queues :
        /\ mem[q] = "fresh" /\ mem' = [mem EXCEPT ![q] = "live"]
        /\ qfd' = [qfd EXCEPT ![q] = q_fd]
        /\ next' = [next EXCEPT ![q] = q] /\ prev' = [prev EXCEPT ![q] = q]
        /\ reg' = [reg EXCEPT ![c].q = q]
  BY KmallocType DEF CreateInit
<1>2. /\ pc[c] = "idle" /\ pc' = [pc EXCEPT ![c] = "create"]
      /\ UNCHANGED <<que_list, linked, taken>>
  BY DEF CreateInit, At, Made, GoOn, Goto, history
<1>3. reg'[c].q = q /\ \A d \in Contexts \ {c} : pc'[d] = pc[d] /\ reg'[d] = reg[d]
  BY <1>1, <1>2, Basics DEF Locals
<1>4. q \notin Listed /\ linked[q] = <<>> /\ Listed' = Listed
  BY <1>1, <1>2, Basics DEF HistoryOk, Listed
<1>5. Untouched(c)
  <2>1. \A r \in Listed : qfd'[r] = qfd[r]
    BY <1>1, <1>4, Basics
  <2>2. \A x \in Node : mem[x] # "fresh" =>
          next'[x] = next[x] /\ prev'[x] = prev[x] /\ mem'[x] = mem[x]
    BY <1>1, Basics
  <2>3. QED
    BY <1>2, <1>3, <2>1, <2>2 DEF Untouched
<1>6. pc'[c] = "create"
  BY <1>2, Basics
<1>7. Untouching(c)
  BY <1>1, <1>2, <1>3, <1>6, Basics DEF Untouching
<1>8. mem'[q] = "live" /\ next'[q] = q /\ prev'[q] = q
  BY <1>1, Basics
<1>9. (RestOk(S, c) /\ CutOk(S, c) /\ JoinOk(S, u, c))'
  BY <1>2, <1>3, <1>4, <1>6, <1>8 DEF RestOk, CutOk, JoinOk, InQueue, Midway
<1>10. QED
  BY <1>5, <1>7, <1>9, Basics, UntouchedStep

(* A step that only moves the client, or changes its locals.               *)
LEMMA PlainStep ==
  ASSUME OneAtATime, Typed, Orderly, NEW S \in [Queues -> SUBSET Msgs], NEW u \in SUBSET Msgs,
         Lists(S, u), NEW c \in Clients, ClientStep(c) \/ SharedStep(c),
         UNCHANGED <<next, prev, mem, que_list, qfd, linked, taken>>,
         pc[c] \notin {"link", "delNext", "delPrev"},
         pc[c] = "del" => pc'[c] = "delNext" /\ reg'[c].op = reg[c].op
                          /\ reg'[c].q = reg[c].q /\ reg'[c].m = reg[c].m,
         pc'[c] \notin {"create", "link", "linkHead", "delPrev"},
         pc'[c] = "loop" => reg'[c].q \in Listed,
         pc'[c] = "copy" => reg[c].op = "read" /\ pc[c] # "lock",
         (RestOk(S, c) /\ CutOk(S, c) /\ JoinOk(S, u, c))'
  PROVE  Lists(S, u)'
<1>1. \A d \in Contexts \ {c} : pc'[d] = pc[d] /\ reg'[d] = reg[d]
  BY Basics, OwnStep
<1>2. Untouched(c)
  BY <1>1 DEF Untouched
<1>3. MayRun(c)
  BY Basics, StepRuns
<1>4. pc'[c] = "copy" => \A d \in Clients \ {c} : pc[d] \notin Midway
  BY <1>3, Alone DEF Midway
<1>5. Untouching(c)
  BY <1>4, Basics DEF Untouching
<1>6. QED
  BY <1>2, <1>5, Basics, UntouchedStep

(* ku_pir_msq_get finds a queue that exists, and what it finds is one.     *)
LEMMA GetsFound ==
  ASSUME Typed, NEW fd, NEW q, Gets(fd, q), q # Nil \/ \E r \in Listed : qfd[r] = fd
  PROVE  q \in Listed /\ qfd[q] = fd
<1>1. q # Nil \/ \E i \in DOMAIN que_list : qfd[que_list[i]] = fd
  BY DEF Listed, Range
<1>2. PICK j \in DOMAIN que_list : que_list[j] = q /\ qfd[q] = fd
  BY <1>1 DEF Gets
<1>3. QED
  BY <1>2 DEF Listed, Range

(* A client that calls, locks, waits, or counts.                           *)
LEMMA RestingSteps ==
  ASSUME OneAtATime, Typed, Orderly, NEW S \in [Queues -> SUBSET Msgs], NEW u \in SUBSET Msgs,
         Lists(S, u), NEW c \in Clients,
         \/ Call(c) \/ Lock(c) \/ GetToRead(c) \/ WaitPrepare(c) \/ WaitDone(c) \/ WaitSchedule(c)
         \/ SizeLoad(c) \/ SizeStore(c)
  PROVE  Lists(S, u)'
<1>1. /\ UNCHANGED <<next, prev, mem, que_list, qfd, linked, taken>>
      /\ ClientStep(c) \/ SharedStep(c)
  <2>1. ClientStep(c) \/ SharedStep(c)
    BY DEF ClientStep, SharedStep
  <2>2. CASE Call(c)
    BY <2>1, <2>2 DEF Call, heap, queues, history
  <2>3. CASE ~Call(c)
    BY <2>1, <2>3 DEF Lock, GetToRead, WaitPrepare, WaitDone, WaitSchedule, SizeLoad, SizeStore,
      heap, queues, history
  <2>4. QED
    BY <2>2, <2>3
<1>2. /\ pc[c] \in {"idle", "lock", "get", "wait", "check", "sched", "size", "store"}
      /\ pc'[c] \in {"idle", "lock", "get", "wait", "check", "sched", "first", "size", "store"}
  <2>1. CASE Call(c)
    BY <2>1, Basics DEF Call, At, GoOn, Goto
  <2>2. CASE ~Call(c)
    BY <2>2, Basics DEF Lock, GetToRead, WaitPrepare, WaitDone, WaitSchedule, SizeLoad, SizeStore,
      At, Return, GoOn, MaySleep, Goto
  <2>3. QED
    BY <2>1, <2>2
<1>3. Listed' = Listed
  BY <1>1 DEF Listed
<1>4. pc'[c] \in {"lock", "get"} /\ reg'[c].named = "queue" =>
        \E r \in Listed : qfd[r] = reg'[c].fd
  <2>1. CASE Call(c)
    <3>1. PICK op \in Calls[c] \ {"create"}, fd \in Fds :
            reg' = [reg EXCEPT ![c].op = op, ![c].fd = fd, ![c].named = Named(fd)]
      BY <2>1 DEF Call
    <3>2. reg'[c].fd = fd /\ (reg'[c].named = "queue" => ~Gets(fd, Nil))
      BY <3>1, Basics DEF Locals, Named
    <3>3. ~Gets(fd, Nil) => \E r \in Listed : qfd[r] = fd
      BY DEF Gets, Listed, Range
    <3>4. QED
      BY <3>2, <3>3
  <2>2. CASE Lock(c)
    <3>1. reg' = reg /\ pc[c] = "lock"
      BY <2>2 DEF Lock, At
    <3>2. QED
      BY <3>1, Basics DEF RestOk
  <2>3. CASE ~Call(c) /\ ~Lock(c)
    BY <2>3, Basics DEF GetToRead, WaitPrepare, WaitDone, WaitSchedule, SizeLoad,
      SizeStore, Return, GoOn, MaySleep, Goto
  <2>4. QED
    BY <2>1, <2>2, <2>3
<1>5. pc'[c] \in {"wait", "check", "sched", "first", "size", "store"} =>
        reg'[c].q \in Listed \/ Astray(c)'
  <2>1. CASE GetToRead(c)
    <3>1. PICK q \in Queues \cup {Nil} : Gets(reg[c].fd, q) /\ reg' = [reg EXCEPT ![c].q = q]
      BY <2>1 DEF GetToRead
    <3>2. /\ reg'[c].q = q /\ reg'[c].named = reg[c].named /\ pc[c] = "get" /\ pc'[c] = "wait"
          /\ reg[c].named \in {"queue", "nothing"}
      BY <2>1, <3>1, Basics DEF Locals, GetToRead, At, MaySleep, Goto
    <3>3. CASE q # Nil \/ reg[c].named = "queue"
      <4>1. q # Nil \/ \E r \in Listed : qfd[r] = reg[c].fd
        BY <3>2, <3>3, Basics DEF RestOk
      <4>2. QED
        BY <3>1, <3>2, <4>1, GetsFound
    <3>4. CASE q = Nil /\ reg[c].named = "nothing"
      BY <3>2, <3>4 DEF Astray
    <3>5. QED
      BY <3>2, <3>3, <3>4
  <2>2. CASE WaitPrepare(c)
    <3>1. reg' = reg /\ pc[c] \in {"wait", "sched"} /\ pc'[c] = "check"
      BY <2>2, Basics DEF WaitPrepare, At, GoOn, Goto
    <3>2. reg[c].q \in Listed \/ Astray(c)
      BY <3>1, Basics DEF RestOk, InQueue, Ops
    <3>3. QED
      BY <3>1, <3>2 DEF Astray
  <2>3. CASE WaitDone(c) \/ WaitSchedule(c)
    <3>1. reg' = reg /\ pc[c] = "check" /\ Sound(c)
      BY <2>3 DEF WaitDone, WaitSchedule, At
    <3>2. QED
      BY <3>1, Basics, Placed DEF InQueue, Ops
  <2>4. CASE SizeLoad(c)
    <3>1. reg' = [reg EXCEPT ![c].k = size[reg[c].q]] /\ pc[c] = "size"
      BY <2>4 DEF SizeLoad, At
    <3>2. reg'[c].q = reg[c].q
      BY <3>1, Basics DEF Locals
    <3>3. QED
      BY <3>1, <3>2, Basics, Placed DEF InQueue, Midway, Ops
  <2>5. CASE Call(c) \/ Lock(c) \/ SizeStore(c)
    <3>1. \/ pc' = [pc EXCEPT ![c] = "lock"] \/ pc' = [pc EXCEPT ![c] = "get"]
          \/ pc' = [pc EXCEPT ![c] = "idle"]
      <4>1. CASE Call(c)
        BY <4>1 DEF Call, GoOn, Goto
      <4>2. CASE Lock(c)
        BY <4>2 DEF Lock, GoOn, Goto
      <4>3. CASE SizeStore(c)
        BY <4>3, Basics DEF SizeStore, Return, Goto
      <4>4. QED
        BY <2>5, <4>1, <4>2, <4>3
    <3>2. pc'[c] \in {"lock", "get", "idle"}
      BY <3>1, Basics
    <3>3. QED
      BY <3>2
  <2>6. QED
    BY <2>1, <2>2, <2>3, <2>4, <2>5
<1>6. (RestOk(S, c) /\ CutOk(S, c) /\ JoinOk(S, u, c))'
  BY <1>1, <1>2, <1>3, <1>4, <1>5 DEF RestOk, CutOk, JoinOk, InQueue, Midway
<1>7. QED
  BY <1>1, <1>2, <1>6, PlainStep

(* While a client runs the handler does not, and nobody else is midway.    *)
LEMMA Running ==
  ASSUME OneAtATime, Typed, Orderly, NEW c \in Clients, MayRun(c)
  PROVE  /\ pc[Isr] \in {"idle", "off", "deaf"}
         /\ \A q : ~Appending(q) /\ Known(q) = Range(linked[q]) /\ Rear(q) = prev[q]
         /\ pc[c] \notin {"idle", "lock", "create"} =>
              \A d \in Clients \ {c} : pc[d] \notin Midway
         /\ pc[c] \notin {"idle", "lock", "create", "delPrev"} => \A q : ~Cutting(q)
<1>1. pc[Isr] \in {"idle", "off", "deaf"}
  <2>1. pc[Isr] \notin {"gone", "added"}
    BY PirNames DEF MayRun, OneAtATime
  <2>2. pc[Isr] \in {"gone", "added", "off", "deaf", "idle"}
    BY PirNames DEF MayRun, Unheard, OneAtATime, Orderly, Handler
  <2>3. QED
    BY <2>1, <2>2
<1>2. \A q : ~Appending(q)
  BY <1>1 DEF Appending
<1>3. pc[c] \notin {"idle", "lock", "create"} => \A d \in Clients \ {c} : pc[d] \notin Midway
  BY Alone
<1>4. QED
  BY <1>1, <1>2, <1>3 DEF Known, Rear, Cutting, Midway

(* A write allocates a message that nobody knows.                          *)
LEMMA GetToWriteStep ==
  ASSUME OneAtATime, Typed, Orderly, NEW S \in [Queues -> SUBSET Msgs], NEW u \in SUBSET Msgs,
         Lists(S, u), NEW c \in Clients, GetToWrite(c)
  PROVE  Lists(S, u)'
<1>1. PICK m \in Msgs, q \in Queues \cup {Nil} :
        /\ mem[m] = "fresh" /\ mem' = [mem EXCEPT ![m] = "live"]
        /\ reg' = [reg EXCEPT ![c].q = q, ![c].m = m] /\ Gets(reg[c].fd, q)
  BY KmallocType DEF GetToWrite
<1>2. /\ UNCHANGED <<next, prev, que_list, qfd, linked, taken>>
      /\ pc[c] = "get" /\ pc' = [pc EXCEPT ![c] = "link"]
  BY DEF GetToWrite, At, MaySleep, Goto, queues, history
<1>3. pc'[c] = "link" /\ reg'[c].q = q /\ reg'[c].m = m
      /\ \A d \in Contexts \ {c} : pc'[d] = pc[d] /\ reg'[d] = reg[d]
  BY <1>1, <1>2, Basics DEF Locals
<1>4. q \in Listed \/ Astray(c)'
  <2>1. reg'[c].named = reg[c].named /\ reg[c].named \in {"queue", "nothing"}
    BY <1>1, Basics DEF Locals
  <2>2. CASE q # Nil \/ reg[c].named = "queue"
    <3>1. q # Nil \/ \E r \in Listed : qfd[r] = reg[c].fd
      BY <1>2, <2>2, Basics DEF RestOk
    <3>2. QED
      BY <1>1, <3>1, GetsFound
  <2>3. CASE q = Nil /\ reg[c].named = "nothing"
    BY <1>3, <2>1, <2>3 DEF Astray
  <2>4. QED
    BY <2>1, <2>2, <2>3
<1>4a. Listed' = Listed
  BY <1>2 DEF Listed
<1>5. Untouched(c)
  BY <1>1, <1>2, <1>3, Basics DEF Untouched
<1>6. Untouching(c)
  BY <1>1, <1>2, <1>3, Basics DEF Untouching
<1>7. (Pending(c) /\ Unknown(c))'
  BY <1>1, <1>2, <1>3, Basics DEF Pending, Unknown, HistoryOk
<1>8. (RestOk(S, c) /\ CutOk(S, c) /\ JoinOk(S, u, c))'
  BY <1>3, <1>4, <1>4a, <1>7 DEF RestOk, CutOk, JoinOk
<1>9. QED
  BY <1>5, <1>6, <1>8, Basics, UntouchedStep

(* A reader looks at the first message, ...                                *)
LEMMA FirstStep ==
  ASSUME OneAtATime, Typed, Orderly, NEW S \in [Queues -> SUBSET Msgs], NEW u \in SUBSET Msgs,
         Lists(S, u), NEW c \in Clients, First(c)
  PROVE  Lists(S, u)'
<1>1. PICK q : q = reg[c].q
  OBVIOUS
<1>2. /\ UNCHANGED <<next, prev, mem, que_list, qfd, linked, taken>>
      /\ pc[c] = "first" /\ pc' = [pc EXCEPT ![c] = "copy"]
      /\ reg' = [reg EXCEPT ![c].m = Oldest(q)]
  BY <1>1 DEF First, At, MaySleep, Goto, heap, queues, history
<1>3. pc'[c] = "copy" /\ reg'[c].q = q /\ reg'[c].m = Oldest(q) /\ Listed' = Listed
  BY <1>1, <1>2, Basics DEF Locals, Listed
<1>4. reg[c].op = "read" /\ q \in Listed
  BY <1>1, <1>2, Basics, Placed DEF Ops, InQueue
<1>5. Oldest(q) = Nil \/ (Oldest(q) \in S[q] /\ next[q] = Oldest(q))
  BY <1>4, Basics DEF QueueOk, Threads, Oldest
<1>6. (RestOk(S, c) /\ CutOk(S, c) /\ JoinOk(S, u, c))'
  BY <1>2, <1>3, <1>4, <1>5 DEF RestOk, CutOk, JoinOk
<1>7. QED
  BY <1>2, <1>3, <1>4, <1>6, PlainStep DEF ClientStep

(* ... and loads its pointers to remove it.                                *)
LEMMA DelStep ==
  ASSUME OneAtATime, Typed, Orderly, NEW S \in [Queues -> SUBSET Msgs], NEW u \in SUBSET Msgs,
         Lists(S, u), NEW c \in Clients, Del(c)
  PROVE  Lists(S, u)'
<1>1. PICK q, m : q = reg[c].q /\ m = reg[c].m
  OBVIOUS
<1>2. /\ UNCHANGED <<next, prev, mem, que_list, qfd, linked, taken>>
      /\ pc[c] = "del" /\ pc' = [pc EXCEPT ![c] = "delNext"]
      /\ reg' = [reg EXCEPT ![c].nx = next[m], ![c].pv = prev[m]]
  BY <1>1 DEF Del, At, GoOn, Goto, heap, queues, history
<1>3. /\ pc'[c] = "delNext" /\ Listed' = Listed
      /\ reg'[c].q = q /\ reg'[c].m = m /\ reg'[c].nx = next[m] /\ reg'[c].pv = prev[m]
      /\ reg'[c].op = reg[c].op /\ reg'[c].n = reg[c].n
  BY <1>1, <1>2, Basics DEF Locals, Listed
<1>4. q \in Listed
  BY <1>1, <1>2, Basics, Placed DEF InQueue, Midway, Phases
<1>5. m \in S[q] /\ next[q] = m /\ (reg[c].op = "flush" => reg[c].n \in {q, next[m]})
  BY <1>1, <1>2, Basics DEF CutOk
<1>6. prev[m] = q
  BY <1>4, <1>5, Basics DEF QueueOk
<1>7. (RestOk(S, c) /\ CutOk(S, c) /\ JoinOk(S, u, c))'
  <2>1. RestOk(S, c)'
    BY <1>2, <1>3, <1>4 DEF RestOk
  <2>2. CutOk(S, c)'
    BY <1>2, <1>3, <1>5, <1>6 DEF CutOk
  <2>3. JoinOk(S, u, c)'
    BY <1>3 DEF JoinOk
  <2>4. QED
    BY <2>1, <2>2, <2>3
<1>8. QED
  BY <1>1, <1>2, <1>3, <1>7, PlainStep DEF SharedStep

(* A flush walks the list, and removes what it finds.                      *)
LEMMA FlushSteps ==
  ASSUME OneAtATime, Typed, Orderly, NEW S \in [Queues -> SUBSET Msgs], NEW u \in SUBSET Msgs,
         Lists(S, u), NEW c \in Clients, 
         reg[c].op = "flush", GetToClear(c) \/ LoopBody(c) \/ LoopEnd(c)
  PROVE  Lists(S, u)'
<1>0. /\ UNCHANGED <<next, prev, mem, que_list, qfd, linked, taken>> /\ Listed' = Listed
      /\ ClientStep(c)
  BY DEF GetToClear, LoopBody, LoopEnd, heap, queues, history, ClientStep, Listed
<1>1. CASE GetToClear(c)
  <2>1. PICK q \in Queues : Gets(reg[c].fd, q) /\ reg' = [reg EXCEPT ![c].q = q, ![c].n = next[q]]
    BY <1>1 DEF GetToClear
  <2>2. pc[c] = "get" /\ pc' = [pc EXCEPT ![c] = "loop"]
    BY <1>1 DEF GetToClear, At, GoOn, Goto
  <2>3. /\ pc'[c] = "loop" /\ reg'[c].q = q /\ reg'[c].n = next[q] /\ reg'[c].op = "flush"
    BY <2>1, <2>2, Basics DEF Locals
  <2>4. q \in Listed
    BY <2>1, Basics, GetsFound
  <2>5. next[q] \in S[q] \cup {q}
    BY <2>4, Basics DEF QueueOk, Threads
  <2>6. (RestOk(S, c) /\ CutOk(S, c) /\ JoinOk(S, u, c))'
    BY <1>0, <2>3, <2>4, <2>5 DEF RestOk, CutOk, JoinOk
  <2>7. QED
    BY <1>0, <2>2, <2>3, <2>4, <2>6, PlainStep
<1>2. CASE LoopBody(c)
  <2>1. PICK q, p : q = reg[c].q /\ p = reg[c].n
    OBVIOUS
  <2>2. /\ pc[c] = "loop" /\ pc' = [pc EXCEPT ![c] = "del"] /\ p # q
        /\ reg' = [reg EXCEPT ![c].m = p, ![c].n = next[p]]
    BY <1>2, <2>1 DEF LoopBody, At, GoOn, Goto
  <2>3. /\ pc'[c] = "del" /\ reg'[c].q = q /\ reg'[c].n = next[p] /\ reg'[c].m = p
        /\ reg'[c].op = "flush"
    BY <2>1, <2>2, Basics DEF Locals
  <2>4. q \in Listed /\ p \in S[q] /\ next[q] = p
    BY <2>1, <2>2, Basics, Placed DEF InQueue, Midway, CutOk
  <2>5. (RestOk(S, c) /\ CutOk(S, c) /\ JoinOk(S, u, c))'
    BY <1>0, <2>3, <2>4 DEF RestOk, CutOk, JoinOk
  <2>6. QED
    BY <1>0, <2>2, <2>3, <2>5, PlainStep
<1>3. CASE LoopEnd(c)
  <2>1. pc[c] = "loop" /\ pc'[c] = "idle"
    BY <1>3, Basics DEF LoopEnd, At, Return, Goto
  <2>2. (RestOk(S, c) /\ CutOk(S, c) /\ JoinOk(S, u, c))'
    BY <2>1 DEF RestOk, CutOk, JoinOk, InQueue, Midway
  <2>3. QED
    BY <1>0, <2>1, <2>2, PlainStep
<1>4. QED
  BY <1>1, <1>2, <1>3

(* A write loads where the list ends.                                      *)
LEMMA ClientLinkStep ==
  ASSUME OneAtATime, Typed, Orderly, NEW S \in [Queues -> SUBSET Msgs], NEW u \in SUBSET Msgs,
         Lists(S, u), NEW c \in Clients, Link(c)
  PROVE  Lists(S, u)'
<1>1. PICK q : q = reg[c].q
  OBVIOUS
<1>2. /\ UNCHANGED <<next, prev, mem, que_list, qfd, linked, taken>>
      /\ pc[c] = "link" /\ pc' = [pc EXCEPT ![c] = "linkHead"]
      /\ reg' = [reg EXCEPT ![c].pv = prev[q]]
  BY <1>1 DEF Link, At, GoOn, Goto, heap, queues, history
<1>3. /\ pc'[c] = "linkHead" /\ Listed' = Listed
      /\ reg'[c].q = q /\ reg'[c].m = reg[c].m /\ reg'[c].pv = prev[q]
      /\ \A d \in Contexts \ {c} : pc'[d] = pc[d] /\ reg'[d] = reg[d]
  BY <1>1, <1>2, Basics DEF Locals, Listed
<1>4. q \in Listed /\ q \in Node
  <2>1. Sound(c) /\ reg[c].op = "write"
    BY <1>2, Basics DEF Link, At, Ops
  <2>2. QED
    BY <1>1, <1>2, <2>1, Basics, Placed DEF InQueue
<1>5. MayRun(c) /\ ~Cutting(q) /\ Rear(q) = prev[q] /\ ~Appending(q)
  BY <1>2, Running DEF Link, At
<1>6. Untouched(c)
  BY <1>2, <1>3 DEF Untouched
<1>7. Untouching(c)
  BY <1>2, <1>3, Basics DEF Untouching
<1>8. Known(q)' = Known(q)
  BY <1>4, <1>6, <1>7, Basics, UntouchedKnown
<1>9. (Pending(c) /\ Unknown(c))'
  BY <1>2, <1>3, Basics DEF Pending, Unknown, RestOk
<1>10. prev[q] \in Known(q) \cup {q} /\ mem[prev[q]] = "live" /\ (prev[q] = q => S[q] = {})
  BY <1>4, <1>5, Basics DEF QueueOk
<1>11. ASSUME NEW d \in Clients, pc'[d] = "copy", reg'[d].q = q, prev[q] = q
       PROVE  reg'[d].m = Nil
  <2>1. pc[d] = "copy" /\ reg[d].q = q /\ reg'[d] = reg[d]
    BY <1>3, <1>11, Basics
  <2>2. QED
    BY SMTT(30), <1>10, <1>11, <2>1, Basics DEF RestOk
<1>12. (RestOk(S, c) /\ CutOk(S, c) /\ JoinOk(S, u, c))'
  BY <1>2, <1>3, <1>4, <1>8, <1>9, <1>10, <1>11 DEF RestOk, CutOk, JoinOk
<1>13. QED
  BY <1>6, <1>7, <1>12, Basics, UntouchedStep

-----------------------------------------------------------------------------
(* A list without its first message.                                       *)
LEMMA ThreadsTail ==
  ASSUME NEW q, NEW s, NEW hd \in s, Threads(s, hd, q), linked[q] \in Seq(Node),
         Distinct(linked[q]), q \notin s
  PROVE  Threads(s \ {hd}, next[hd], q) /\ next[hd] # hd
<1>1. /\ \A x, y : Before(linked[q], x, y) => x # y
      /\ \A x, y : ~(Before(linked[q], x, y) /\ Before(linked[q], y, x))
  BY BeforeOrder
<1>2. /\ \A y \in s : y = hd \/ Before(linked[q], hd, y)
      /\ \A x \in s : next[x] \in s \cup {q} /\ (next[x] \in s => Before(linked[q], x, next[x]))
      /\ \A x, y \in s : Before(linked[q], x, y) =>
           next[x] \in s /\ (y = next[x] \/ Before(linked[q], next[x], y))
  BY DEF Threads
<1>3. \A x \in s \ {hd} : next[x] # hd
  BY <1>1, <1>2
<1>4. next[hd] # hd
  BY <1>1, <1>2
<1>5. QED
  BY <1>2, <1>3, <1>4 DEF Threads

(* The list of queues without one of them.                                 *)
LEMMA WithoutListed ==
  ASSUME que_list \in Seq(Queues), NEW q, q \in Listed,
         \A i, j \in DOMAIN que_list : que_list[i] = que_list[j] => i = j
  PROVE  /\ Range(Without(Place(q))) = Listed \ {q}
         /\ \A i, j \in DOMAIN Without(Place(q)) :
              Without(Place(q))[i] = Without(Place(q))[j] => i = j
<1> DEFINE p == Place(q)
           w == Without(p)
<1>1. p \in DOMAIN que_list /\ que_list[p] = q
  BY DEF Place, Listed, Range
<1>2. DOMAIN que_list = 1 .. Len(que_list) /\ Len(que_list) \in Nat
  OBVIOUS
<1> HIDE DEF p
<1>3. /\ DOMAIN w = 1 .. Len(que_list) - 1
      /\ \A i \in 1 .. Len(que_list) - 1 :
           w[i] = IF i < p THEN que_list[i] ELSE que_list[i + 1]
  BY DEF Without
<1> HIDE DEF w
<1>4. ASSUME NEW i \in DOMAIN w, NEW j \in DOMAIN w, w[i] = w[j] PROVE i = j
  <2> DEFINE f(k) == IF k < p THEN k ELSE k + 1
  <2>1. \A k \in DOMAIN w : f(k) \in DOMAIN que_list /\ w[k] = que_list[f(k)]
    BY <1>1, <1>2, <1>3
  <2>2. f(i) \in DOMAIN que_list /\ f(j) \in DOMAIN que_list /\ que_list[f(i)] = que_list[f(j)]
    BY <1>4, <2>1
  <2> HIDE DEF f
  <2>3. f(i) = f(j)
    BY <2>2
  <2>4. QED
    BY <1>1, <1>2, <1>3, <2>3 DEF f
<1>5. \A i \in DOMAIN w : \E j \in DOMAIN que_list : j # p /\ w[i] = que_list[j]
  BY <1>1, <1>2, <1>3
<1>6. \A j \in DOMAIN que_list : j # p => \E i \in DOMAIN w : w[i] = que_list[j]
  <2>1. ASSUME NEW j \in DOMAIN que_list, j < p PROVE j \in DOMAIN w /\ w[j] = que_list[j]
    BY <1>1, <1>2, <1>3, <2>1
  <2>2. ASSUME NEW j \in DOMAIN que_list, j > p
        PROVE  j - 1 \in DOMAIN w /\ w[j - 1] = que_list[j]
    BY <1>1, <1>2, <1>3, <2>2
  <2>3. QED
    BY <1>1, <1>2, <2>1, <2>2
<1>7. Range(w) = Listed \ {q}
  BY <1>1, <1>5, <1>6 DEF Range, Listed
<1>8. QED
  BY <1>4, <1>7 DEF w, p

(* A queue becomes visible; its list is empty.                             *)
LEMMA CreateAddStep ==
  ASSUME OneAtATime, Typed, Orderly, NEW S \in [Queues -> SUBSET Msgs], NEW u \in SUBSET Msgs,
         Lists(S, u), NEW c \in Clients, CreateAdd(c)
  PROVE  \E T \in [Queues -> SUBSET Msgs] : Lists(T, u)'
<1>1. PICK q : q = reg[c].q
  OBVIOUS
<1>2. /\ UNCHANGED <<next, prev, mem, qfd, linked, taken>> /\ que_list' = Append(que_list, q)
      /\ pc[c] = "create" /\ MayRun(c)
      /\ pc' = [pc EXCEPT ![c] = "idle"] /\ reg' = [reg EXCEPT ![c] = Blank]
  BY <1>1 DEF CreateAdd, At, Return, Goto, heap, history
<1>3. /\ pc'[c] = "idle" /\ \A d \in Contexts \ {c} : pc'[d] = pc[d] /\ reg'[d] = reg[d]
      /\ pc[Isr] \in {"idle", "off", "deaf"} /\ pc'[Isr] \in {"idle", "off", "deaf"}
  BY <1>2, Basics, Running
<1>4. /\ q \in Queues \ Listed /\ mem[q] = "live" /\ next[q] = q /\ prev[q] = q
      /\ linked[q] = <<>>
  BY <1>1, <1>2, Basics DEF RestOk
<1>4a. /\ DOMAIN que_list = 1 .. Len(que_list) /\ Len(que_list) \in Nat
       /\ DOMAIN que_list' = 1 .. Len(que_list) + 1
       /\ \A i \in 1 .. Len(que_list) : que_list'[i] = que_list[i]
       /\ que_list'[Len(que_list) + 1] = q
  BY <1>2, <1>4, Basics, AppendProperties
<1>5. Listed' = Listed \cup {q}
  BY <1>4a DEF Listed, Range
<1>6. \A i, j \in DOMAIN que_list' : que_list'[i] = que_list'[j] => i = j
  <2>1. \A i \in DOMAIN que_list : que_list[i] # q
    BY <1>4 DEF Listed, Range
  <2>2. QED
    BY <1>4a, <2>1, Basics DEF Apart
<1>7. PICK T \in [Queues -> SUBSET Msgs] : T = [S EXCEPT ![q] = {}]
  BY <1>4
<1>8. T[q] = {} /\ \A r \in Queues : r # q => T[r] = S[r]
  BY <1>4, <1>7
<1>9. \A r : /\ Known(r)' = Known(r) /\ Rear(r)' = Rear(r)
             /\ Known(r) = Range(linked[r]) /\ Rear(r) = prev[r]
  BY <1>2, <1>3, Running DEF Known, Rear, Appending
<1>10. ASSUME NEW r \in Listed PROVE QueueOk(T[r], r)'
  <2>1. T[r] = S[r] /\ QueueOk(S[r], r) /\ r \in Queues
    BY <1>4, <1>8, Basics
  <2>2. (Cutting(r) => Cutting(r)') /\ Copied(r) \subseteq Copied(r)'
    BY <1>2, <1>3, Basics DEF Cutting, Copied
  <2>3. Range(taken[r]) \subseteq Known(r)
    BY <2>1, Basics, TakenKnown
  <2>4. QueueOk(S[r], r)'
    BY <1>2, <1>9, <2>1, <2>2, <2>3, QueueKept
  <2>5. QED
    BY <2>1, <2>4
<1>11. QueueOk(T[q], q)'
  <2>1. Range(linked[q]) = {} /\ Range(taken[q]) = {}
    <3>1. Range(linked[q]) = {}
      BY <1>4 DEF Range
    <3>2. QED
      BY <1>4, <3>1, Basics DEF HistoryOk
  <2>2. Threads({}, next[q], q)' /\ Doubly({})'
    BY <1>2, <1>4 DEF Threads, Doubly
  <2>3. QED
    BY <1>2, <1>4, <1>8, <1>9, <2>1, <2>2 DEF QueueOk
<1>12. ASSUME NEW d \in Clients, d # c
       PROVE  (RestOk(T, d) /\ CutOk(T, d) /\ JoinOk(T, u, d))'
  <2>1. PICK p : p = reg[d].q
    OBVIOUS
  <2>2. pc'[d] = pc[d] /\ reg'[d] = reg[d] /\ RestOk(S, d) /\ CutOk(S, d) /\ JoinOk(S, u, d)
    BY <1>3, <1>12, Basics
  <2>3. pc[d] \in {"create", "loop"} => p # q
    BY <1>1, <1>2, <1>12, <2>1, Basics DEF Apart
  <2>4. pc[d] \in InQueue /\ reg[d].op # "close" =>
          (p \in Listed /\ p # q /\ T[p] = S[p]) \/ Astray(d)
    BY <1>4, <1>8, <2>1, <2>2, Basics DEF RestOk
  <2>5. pc[d] = "create" => p \notin Listed'
    BY <1>5, <2>1, <2>2, <2>3 DEF RestOk
  <2>6. RestOk(T, d)'
    <3>1. pc[d] \in {"lock", "get"} /\ reg[d].named = "queue" =>
            \E r \in Listed' : qfd'[r] = reg[d].fd
      BY <1>2, <1>5, <2>2 DEF RestOk
    <3>2. pc[d] = "link" => (Pending(d) /\ Unknown(d))'
      BY <1>2, <2>2 DEF RestOk, Pending, Unknown
    <3>3. pc[d] = "copy" => reg[d].m = Nil \/ (reg[d].m \in T[p] /\ next'[p] = reg[d].m)
      BY <1>2, <2>1, <2>2, <2>4, Basics DEF RestOk, Astray, Ops, InQueue
    <3>4. Astray(d)' = Astray(d)
      BY <2>2 DEF Astray
    <3>5. QED
      BY <1>2, <1>5, <2>1, <2>2, <2>4, <2>5, <3>1, <3>2, <3>3, <3>4 DEF RestOk
  <2>7. pc[d] = "loop" /\ reg[d].op = "close" => p \notin Listed' /\ T[p] = S[p] /\ p \in Queues
    BY <1>5, <1>8, <2>1, <2>2, <2>3 DEF CutOk
  <2>8. pc[d] \in {"del", "delNext", "delPrev"} => T[p] = S[p]
    BY <2>4, Basics DEF InQueue, Astray, Midway, Phases
  <2>9. CutOk(T, d)'
    <3>1. CASE pc[d] \in {"del", "delNext", "delPrev"}
      BY <1>2, <1>9, <2>1, <2>2, <2>8, <3>1 DEF CutOk
    <3>2. CASE pc[d] = "loop" /\ reg[d].op = "flush"
      BY <1>2, <1>9, <2>1, <2>2, <2>4, <3>2 DEF CutOk, Astray, InQueue, Midway
    <3>3. CASE pc[d] = "loop" /\ reg[d].op = "close"
      <4>1. /\ p \in Queues /\ mem[p] = "live"
            /\ S[p] \subseteq Known(p) /\ \A x \in S[p] : mem[x] = "live"
            /\ Threads(S[p], reg[d].n, p)
        BY <2>1, <2>2, <3>3 DEF CutOk
      <4>2. Threads(T[p], reg[d].n, p)'
        BY <1>2, <2>2, <2>7, <3>3, <4>1 DEF Threads
      <4>3. QED
        BY <1>2, <1>9, <2>1, <2>2, <2>7, <3>3, <4>1, <4>2 DEF CutOk
    <3>4. CASE pc[d] \notin {"del", "delNext", "delPrev", "loop"}
      BY <2>2, <3>4 DEF CutOk
    <3>5. QED
      BY <3>1, <3>2, <3>3, <3>4, Basics DEF Phases
  <2>10. JoinOk(T, u, d)'
    <3>1. CASE pc[d] \in {"linkHead", "linkNew", "linkPrev"}
      <4>1. T[p] = S[p]
        BY <2>4, <3>1, Basics DEF InQueue, Astray, Midway, Ops
      <4>2. \A e \in Clients : pc'[e] = "copy" => pc[e] = "copy" /\ reg'[e] = reg[e]
        BY <1>3, Basics
      <4>3. pc[d] = "linkHead" => (Pending(d) /\ Unknown(d))'
        BY <1>2, <2>2 DEF JoinOk, Pending, Unknown
      <4>4. pc[d] \in {"linkNew", "linkPrev"} => Pending(d)'
        BY <1>2, <2>2 DEF JoinOk, Pending
      <4>5. pc[d] = "linkPrev" => Threads(u, reg[d].m, p)' /\ Doubly(u)'
        BY <1>2, <2>1, <2>2 DEF JoinOk, Threads, Doubly
      <4>6. QED
        BY <1>2, <1>9, <2>1, <2>2, <3>1, <4>1, <4>2, <4>3, <4>4, <4>5 DEF JoinOk
    <3>2. CASE pc[d] \notin {"linkHead", "linkNew", "linkPrev"}
      BY <2>2, <3>2 DEF JoinOk
    <3>3. QED
      BY <3>1, <3>2
  <2>11. QED
    BY <2>6, <2>9, <2>10
<1>13. (RestOk(T, c) /\ CutOk(T, c) /\ JoinOk(T, u, c))'
  BY <1>3 DEF RestOk, CutOk, JoinOk, InQueue, Midway
<1>14. Apart'
  <2>1. \A d \in Contexts : pc'[d] \in {"link", "linkHead", "create", "loop"} =>
          pc'[d] = pc[d] /\ reg'[d] = reg[d]
    BY <1>3
  <2>2. QED
    BY <1>6, <2>1, Basics DEF Apart
<1>15. HandlerOk' /\ HistoryOk'
  BY ZenonT(40), <1>2, <1>3, Basics DEF HandlerOk, HistoryOk
<1>16. Lists(T, u)'
  BY <1>5, <1>10, <1>11, <1>12, <1>13, <1>14, <1>15 DEF Lists
<1>17. QED
  BY <1>16

(* A close takes the queue from the list of queues, and then frees one     *)
(* message after the other, and the queue.                                 *)
LEMMA CloseSteps ==
  ASSUME OneAtATime, Typed, Orderly, NEW S \in [Queues -> SUBSET Msgs], NEW u \in SUBSET Msgs,
         Lists(S, u), NEW c \in Clients, 
         reg[c].op = "close", GetToClear(c) \/ LoopBody(c) \/ LoopEnd(c)
  PROVE  \E T \in [Queues -> SUBSET Msgs] : Lists(T, u)'
<1>1. /\ UNCHANGED <<next, prev, linked, taken>> /\ MayRun(c)
  BY DEF GetToClear, LoopBody, LoopEnd, At, heap, history
<1>2. /\ \A d \in Contexts \ {c} : pc'[d] = pc[d] /\ reg'[d] = reg[d]
      /\ \A d \in Clients \ {c} : pc'[d] = "idle"
  <2>1. \A d \in Contexts \ {c} : pc'[d] = pc[d] /\ reg'[d] = reg[d]
    BY Basics, OwnStep DEF ClientStep
  <2>2. QED
    BY <1>1, <2>1, Alone, Basics
<1>3. /\ pc[Isr] \in {"idle", "off", "deaf"} /\ pc'[Isr] \in {"idle", "off", "deaf"}
      /\ \A r : /\ Known(r)' = Known(r) /\ Rear(r)' = Rear(r)
               /\ Known(r) = Range(linked[r]) /\ Rear(r) = prev[r]
  <2>1. pc[Isr] \in {"idle", "off", "deaf"} /\ pc'[Isr] \in {"idle", "off", "deaf"}
    BY <1>1, <1>2, Running, Basics
  <2>2. QED
    BY <1>1, <2>1, Running DEF Known, Rear, Appending
<1>4. /\ pc[c] \in {"get", "loop"} /\ pc'[c] \in {"loop", "idle"}
  BY Basics DEF GetToClear, LoopBody, LoopEnd, At, GoOn, Goto, Return
<1>5. ASSUME NEW r \in Listed, NEW s \in SUBSET Msgs, QueueOk(s, r),
             \A x \in Known(r) : mem'[x] = mem[x], mem'[r] = mem[r]
      PROVE  QueueOk(s, r)'
  <2>1. (Cutting(r) => Cutting(r)') /\ Copied(r) \subseteq Copied(r)'
    BY ZenonT(40), <1>2, <1>4, Basics DEF Cutting, Copied
  <2>2. Range(taken[r]) \subseteq Known(r)
    BY Basics, TakenKnown
  <2>3. QED
    BY <1>1, <1>3, <1>5, <2>1, <2>2, QueueKept
<1>6. \A T : \A d \in Clients \ {c} : (RestOk(T, d) /\ CutOk(T, d) /\ JoinOk(T, u, d))'
  BY <1>2 DEF RestOk, CutOk, JoinOk, InQueue, Midway
<1>7. HandlerOk'
  BY <1>3 DEF HandlerOk
<1>8. ASSUME \A i, j \in DOMAIN que_list' : que_list'[i] = que_list'[j] => i = j PROVE Apart'
  <2>1. \A d \in Contexts : pc'[d] \notin {"link", "linkHead", "create"}
    BY <1>2, <1>3, <1>4, Basics DEF Contexts
  <2>2. QED
    BY <1>8, <2>1 DEF Apart, Contexts
<1>9. ASSUME \A x \in Node : mem'[x] = "fresh" <=> mem[x] = "fresh" PROVE HistoryOk'
  BY <1>1, <1>9, Basics DEF HistoryOk
<1>10. CASE GetToClear(c)
  <2>1. PICK q \in Queues :
          /\ Gets(reg[c].fd, q) /\ reg' = [reg EXCEPT ![c].q = q, ![c].n = next[q]]
          /\ que_list' = Without(Place(q))
    BY <1>10 DEF GetToClear
  <2>2. pc[c] = "get" /\ pc' = [pc EXCEPT ![c] = "loop"] /\ UNCHANGED mem
    BY <1>10 DEF GetToClear, At, GoOn, Goto, heap
  <2>3. /\ pc'[c] = "loop" /\ reg'[c].q = q /\ reg'[c].n = next[q] /\ reg'[c].op = "close"
    BY <2>1, <2>2, Basics DEF Locals
  <2>4. q \in Listed
    BY <2>1, Basics, GetsFound
  <2>5. /\ Listed' = Listed \ {q}
        /\ \A i, j \in DOMAIN que_list' : que_list'[i] = que_list'[j] => i = j
    BY <2>1, <2>4, Basics, WithoutListed DEF Listed, Apart
  <2>6. \A r \in Listed' : QueueOk(S[r], r)'
    BY <1>5, <2>2, <2>5, Basics
  <2>7. (RestOk(S, c) /\ CutOk(S, c) /\ JoinOk(S, u, c))'
    <3>1. /\ mem[q] = "live" /\ S[q] \subseteq Known(q) /\ \A x \in S[q] : mem[x] = "live"
          /\ Threads(S[q], next[q], q)
      BY <2>4, Basics DEF QueueOk
    <3>2. Threads(S[q], next[q], q)'
      BY <1>1, <3>1 DEF Threads
    <3>3. CutOk(S, c)'
      BY <1>1, <1>3, <2>2, <2>3, <2>5, <3>1, <3>2 DEF CutOk
    <3>4. QED
      BY <2>3, <3>3 DEF RestOk, JoinOk
  <2>8. HistoryOk' /\ Apart'
    BY <1>8, <1>9, <2>2, <2>5
  <2>9. Lists(S, u)'
    BY <1>6, <1>7, <2>6, <2>7, <2>8 DEF Lists
  <2>10. QED
    BY <2>9
<1>11. CASE LoopBody(c)
  <2>1. PICK q, p : q = reg[c].q /\ p = reg[c].n
    OBVIOUS
  <2>2. /\ pc[c] = "loop" /\ pc' = [pc EXCEPT ![c] = "loop"] /\ p # q
        /\ reg' = [reg EXCEPT ![c].m = p, ![c].n = next[p]]
        /\ mem' = [mem EXCEPT ![p] = "freed"] /\ UNCHANGED que_list
    BY <1>11, <2>1 DEF LoopBody, At, GoOn, Goto, queues
  <2>3. /\ pc'[c] = "loop" /\ reg'[c].q = q /\ reg'[c].n = next[p] /\ reg'[c].op = "close"
        /\ Listed' = Listed
    BY <2>1, <2>2, Basics DEF Locals, Listed
  <2>4. /\ q \in Queues \ Listed /\ mem[q] = "live" /\ p \in S[q]
        /\ S[q] \subseteq Known(q) /\ \A x \in S[q] : mem[x] = "live"
        /\ Threads(S[q], p, q)
    BY <2>1, <2>2, Basics DEF CutOk, Threads
  <2>5. PICK T \in [Queues -> SUBSET Msgs] : T = [S EXCEPT ![q] = @ \ {p}]
    BY <2>4
  <2>6. T[q] = S[q] \ {p} /\ \A r \in Queues : r # q => T[r] = S[r]
    BY <2>4, <2>5
  <2>7. p \in Msgs /\ p \in Range(linked[q]) /\ mem'[p] = "freed"
        /\ \A x \in Node : x # p => mem'[x] = mem[x]
    BY <1>3, <2>2, <2>4, Basics
  <2>8. ASSUME NEW r \in Listed PROVE QueueOk(T[r], r)'
    <3>1. r # q /\ r \in Queues /\ T[r] = S[r] /\ QueueOk(S[r], r) /\ r # p /\ r \in Node
      BY <2>4, <2>6, <2>7, Basics
    <3>2. p \notin Known(r) /\ Known(r) \subseteq Node
      BY <1>3, <2>4, <2>7, <3>1, Basics, TakenKnown DEF HistoryOk
    <3>3. (\A x \in Known(r) : mem'[x] = mem[x]) /\ mem'[r] = mem[r]
      BY <2>7, <3>1, <3>2
    <3>4. QED
      BY <1>5, <3>1, <3>3
  <2>9. (RestOk(T, c) /\ CutOk(T, c) /\ JoinOk(T, u, c))'
    <3>1. linked[q] \in Seq(Node) /\ Distinct(linked[q]) /\ q \notin S[q]
      BY <2>4, Basics DEF HistoryOk
    <3>2. Threads(S[q] \ {p}, next[p], q)
      BY <2>4, <3>1, ThreadsTail
    <3>3. Threads(T[q], reg[c].n, q)'
      BY <1>1, <2>3, <2>6, <3>2 DEF Threads
    <3>4. mem'[q] = "live" /\ \A x \in T[q] : mem'[x] = "live"
      <4>1. q \in Node /\ q # p /\ \A x \in T[q] : x \in Node /\ x # p /\ mem[x] = "live"
        BY <2>4, <2>6, <2>7, Basics
      <4>2. QED
        BY <2>4, <2>7, <4>1
    <3>5. CutOk(T, c)'
      BY <1>3, <2>3, <2>4, <2>6, <3>3, <3>4 DEF CutOk
    <3>6. QED
      BY <2>3, <3>5 DEF RestOk, JoinOk
  <2>10. HistoryOk' /\ Apart'
    <3>1. \A x \in Node : mem'[x] = "fresh" <=> mem[x] = "fresh"
      BY <2>4, <2>7
    <3>2. QED
      BY <1>8, <1>9, <2>2, <3>1, Basics DEF Apart
  <2>11. Lists(T, u)'
    BY <1>6, <1>7, <2>3, <2>8, <2>9, <2>10 DEF Lists
  <2>12. QED
    BY <2>11
<1>12. CASE LoopEnd(c)
  <2>1. PICK q : q = reg[c].q
    OBVIOUS
  <2>2. /\ pc[c] = "loop" /\ pc' = [pc EXCEPT ![c] = "idle"]
        /\ mem' = [mem EXCEPT ![q] = "freed"] /\ UNCHANGED que_list
    BY <1>12, <2>1 DEF LoopEnd, At, Return, Goto, queues
  <2>3. pc'[c] = "idle" /\ Listed' = Listed /\ q \in Queues \ Listed /\ mem[q] = "live"
    BY <2>1, <2>2, Basics DEF Listed, CutOk
  <2>4. mem'[q] = "freed" /\ \A x \in Node : x # q => mem'[x] = mem[x]
    BY <2>2, <2>3, Basics
  <2>5. ASSUME NEW r \in Listed PROVE QueueOk(S[r], r)'
    <3>1. r # q /\ r \in Queues /\ QueueOk(S[r], r) /\ r \in Node
      BY <2>3, Basics
    <3>2. q \notin Known(r) /\ Known(r) \subseteq Node
      BY <2>3, <3>1, Basics, TakenKnown
    <3>3. QED
      BY <1>5, <2>4, <3>1, <3>2, Basics
  <2>6. (RestOk(S, c) /\ CutOk(S, c) /\ JoinOk(S, u, c))'
    BY <2>3 DEF RestOk, CutOk, JoinOk, InQueue, Midway
  <2>7. HistoryOk' /\ Apart'
    <3>1. \A x \in Node : mem'[x] = "fresh" <=> mem[x] = "fresh"
      BY <2>3, <2>4
    <3>2. QED
      BY <1>8, <1>9, <2>2, <3>1, Basics DEF Apart
  <2>8. Lists(S, u)'
    BY <1>6, <1>7, <2>3, <2>5, <2>6, <2>7 DEF Lists
  <2>9. QED
    BY <2>8
<1>13. QED
  BY <1>10, <1>11, <1>12

(* A reader has copied the first message.                                  *)
LEMMA CopyStep ==
  ASSUME OneAtATime, Typed, Orderly, NEW S \in [Queues -> SUBSET Msgs], NEW u \in SUBSET Msgs,
         Lists(S, u), NEW c \in Clients, Copy(c)
  PROVE  Lists(S, u)'
<1>1. PICK q, m : q = reg[c].q /\ m = reg[c].m
  OBVIOUS
<1>2. /\ UNCHANGED <<next, prev, mem, que_list, qfd, reg, linked>> /\ MayRun(c)
      /\ taken' = [taken EXCEPT ![q] = Append(@, m)] /\ m # Nil
      /\ pc[c] = "copy" /\ pc' = [pc EXCEPT ![c] = "del"]
  BY <1>1 DEF Copy, At, Sound, Derefs, GoOn, Goto, heap, queues
<1>3. /\ pc'[c] = "del" /\ \A d \in Contexts \ {c} : pc'[d] = pc[d]
      /\ Listed' = Listed /\ reg[c].op = "read"
  BY <1>2, Basics DEF Listed, Ops
<1>4. /\ q \in Listed /\ q \in Queues /\ m \in S[q] /\ next[q] = m /\ QueueOk(S[q], q)
  <2>1. q \in Listed
    BY <1>1, <1>2, <1>3, Basics, Placed DEF InQueue
  <2>2. QED
    BY <1>1, <1>2, <2>1, Basics DEF RestOk
<1>5. /\ pc[Isr] \in {"idle", "off", "deaf"} /\ pc'[Isr] = pc[Isr]
      /\ \A r : /\ Known(r)' = Known(r) /\ Rear(r)' = Rear(r) /\ ~Cutting(r)
               /\ Known(r) = Range(linked[r]) /\ Rear(r) = prev[r]
      /\ \A d \in Clients \ {c} : pc[d] \notin Midway
  <2>1. pc[Isr] \in {"idle", "off", "deaf"} /\ pc'[Isr] = pc[Isr]
    BY <1>2, <1>3, Running, Basics
  <2>2. QED
    BY <1>2, <2>1, Running DEF Known, Rear, Appending
<1>6. Copied(q) = {} /\ \A r : Copied(r) \subseteq Copied(r)'
  BY <1>2, <1>3, <1>5, Basics DEF Copied, Midway
<1>7. m \in Copied(q)'
  BY <1>1, <1>2, <1>3 DEF Copied
<1>8. m \in Range(linked[q]) /\ \A x \in Range(taken[q]) : Before(linked[q], x, m)
  BY <1>4, <1>5, <1>6 DEF QueueOk
<1>9. /\ DOMAIN taken[q] = 1 .. Len(taken[q]) /\ Len(taken[q]) \in Nat
      /\ DOMAIN taken'[q] = 1 .. Len(taken[q]) + 1
      /\ \A i \in 1 .. Len(taken[q]) : taken'[q][i] = taken[q][i]
      /\ taken'[q][Len(taken[q]) + 1] = m
      /\ \A r \in Queues : r # q => taken'[r] = taken[r]
  <2>1. taken[q] \in Seq(Node) /\ m \in Node /\ taken'[q] = Append(taken[q], m)
        /\ \A r \in Queues : r # q => taken'[r] = taken[r]
    BY <1>2, <1>4, <1>8, Basics
  <2>2. QED
    BY <2>1, AppendProperties
<1>10. Range(taken'[q]) = Range(taken[q]) \cup {m}
  <2>1. ASSUME NEW i \in DOMAIN taken'[q]
        PROVE  taken'[q][i] \in Range(taken[q]) \cup {m}
    <3>1. i = Len(taken[q]) + 1 \/ i \in DOMAIN taken[q]
      BY <1>9, <2>1
    <3>2. QED
      BY <1>9, <3>1 DEF Range
  <2>2. ASSUME NEW i \in DOMAIN taken[q]
        PROVE  taken[q][i] \in Range(taken'[q])
    <3>1. i \in DOMAIN taken'[q] /\ taken'[q][i] = taken[q][i]
      BY <1>9, <2>2
    <3>2. QED
      BY <3>1 DEF Range
  <2>3. m \in Range(taken'[q])
    <3>1. Len(taken[q]) + 1 \in DOMAIN taken'[q]
      BY <1>9
    <3>2. QED
      BY <1>9, <3>1 DEF Range
  <2>4. QED
    BY <2>1, <2>2, <2>3 DEF Range
<1>11. HistoryOk'
  <2>1. \A i, j \in DOMAIN taken'[q] : i < j => Before(linked[q], taken'[q][i], taken'[q][j])
    <3>1. ASSUME NEW i \in DOMAIN taken'[q], NEW j \in DOMAIN taken'[q], i < j
          PROVE  Before(linked[q], taken'[q][i], taken'[q][j])
      <4>1. i \in DOMAIN taken[q] /\ taken'[q][i] = taken[q][i]
        BY <1>9, <3>1
      <4>2. CASE j \in DOMAIN taken[q]
        BY <1>4, <1>9, <3>1, <4>1, <4>2, Basics DEF HistoryOk
      <4>3. CASE j = Len(taken[q]) + 1
        BY <1>8, <1>9, <4>1, <4>3 DEF Range
      <4>4. QED
        BY <1>9, <4>2, <4>3
    <3>2. QED
      BY <3>1
  <2>2. QED
    BY ZenonT(40), <1>2, <1>4, <1>8, <1>9, <1>10, <2>1, Basics DEF HistoryOk
<1>12. ASSUME NEW r \in Listed, r # q PROVE QueueOk(S[r], r)'
  <2>1. QueueOk(S[r], r) /\ r \in Queues /\ taken'[r] = taken[r] /\ Range(taken[r]) \subseteq Known(r)
    BY <1>9, <1>12, Basics, TakenKnown
  <2>2. ~Cutting(r) /\ Copied(r) \subseteq Copied(r)' /\ Known(r)' = Known(r) /\ Rear(r)' = Rear(r)
    BY <1>5, <1>6
  <2>3. QED
    BY <1>2, <2>1, <2>2, QueueKept
<1>13. QueueOk(S[q], q)'
  <2>1. \A x \in Range(taken'[q]), y \in S[q] :
          Before(linked[q], x, y) \/ (x = y /\ x \in Copied(q)')
    <3>1. \A y \in S[q] : y = m \/ Before(linked[q], m, y)
      BY <1>4 DEF QueueOk, Threads
    <3>2. \A x \in Range(taken[q]), y \in S[q] : Before(linked[q], x, y)
      BY <1>4, <1>6 DEF QueueOk
    <3>3. QED
      BY <1>7, <1>10, <3>1, <3>2
  <2>2. Threads(S[q], next[q], q)' /\ Doubly(S[q])'
    BY <1>2, <1>4, <1>5 DEF QueueOk, Threads, Doubly
  <2>3. QED
    BY <1>2, <1>4, <1>5, <2>1, <2>2 DEF QueueOk
<1>14. ASSUME NEW d \in Clients, d # c PROVE (RestOk(S, d) /\ CutOk(S, d) /\ JoinOk(S, u, d))'
  <2>1. pc'[d] = pc[d] /\ RestOk(S, d) /\ pc[d] \notin Midway
    BY <1>3, <1>5, <1>14, Basics
  <2>2. RestOk(S, d)'
    BY <1>2, <1>3, <2>1 DEF RestOk, Astray, Pending, Unknown
  <2>3. QED
    BY <2>1, <2>2 DEF CutOk, JoinOk, Midway
<1>15. (RestOk(S, c) /\ CutOk(S, c) /\ JoinOk(S, u, c))'
  BY <1>1, <1>2, <1>3, <1>4 DEF RestOk, Astray, CutOk, JoinOk
<1>16. HandlerOk' /\ Apart'
  BY <1>2, <1>3, <1>5, Basics DEF HandlerOk, Apart
<1>17. QED
  BY <1>3, <1>11, <1>12, <1>13, <1>14, <1>15, <1>16 DEF Lists

-----------------------------------------------------------------------------
(* Two lists: the first as far as pv, with the second hung on behind it.   *)
LEMMA Joined ==
  ASSUME NEW q, NEW s, NEW v, NEW hd, NEW m \in v, NEW pv \in s, NEW t,
         Threads(s, hd, q), Threads(v, m, q), s \cap v = {}, q \notin s \cup v,
         linked[q] \in Seq(Node), Distinct(linked[q]), s \cup v \subseteq Range(linked[q]),
         \A y \in s : Before(linked[q], y, m),
         t = {y \in s : y = pv \/ Before(linked[q], y, pv)} \cup v,
         next'[pv] = m, \A x \in s \cup v : x # pv => next'[x] = next[x],
         linked'[q] = linked[q]
  PROVE  Threads(t, hd, q)'
<1> DEFINE B(x, y) == Before(linked[q], x, y)
           h == {y \in s : y = pv \/ B(y, pv)}
<1>1. /\ \A x, y : B(x, y) => x # y
      /\ \A x, y : ~(B(x, y) /\ B(y, x))
      /\ \A x, y, z : B(x, y) /\ B(y, z) => B(x, z)
  BY BeforeOrder
<1>2. /\ hd \in s /\ \A y \in s : y = hd \/ B(hd, y)
      /\ \A x \in s : next[x] \in s \cup {q} /\ (next[x] \in s => B(x, next[x]))
      /\ \A x, y \in s : B(x, y) => next[x] \in s /\ (y = next[x] \/ B(next[x], y))
  BY DEF Threads
<1>3. /\ \A y \in v : y = m \/ B(m, y)
      /\ \A x \in v : next[x] \in v \cup {q} /\ (next[x] \in v => B(x, next[x]))
      /\ \A x, y \in v : B(x, y) => next[x] \in v /\ (y = next[x] \/ B(next[x], y))
  BY DEF Threads
<1>4. \A y \in s : B(y, m)
  OBVIOUS
<1>5. /\ t = h \cup v /\ h \subseteq s /\ pv \in h /\ pv \notin v
      /\ next'[pv] = m /\ \A x \in s \cup v : x # pv => next'[x] = next[x]
      /\ \A y \in h : y = pv \/ B(y, pv)
      /\ \A x, y : Before(linked'[q], x, y) = B(x, y)
      /\ q \notin s /\ q \notin v
      /\ \A y \in s : B(y, pv) => y \in h
  OBVIOUS
<1> HIDE DEF B, h
<1>6. \A x \in s, y \in v : B(x, y) /\ ~B(y, x)
  BY <1>1, <1>3, <1>4
<1>7. hd \in h /\ \A y \in t : y = hd \/ B(hd, y)
  BY <1>2, <1>5, <1>6
<1>8. \A x \in h : x # pv => next[x] \in h /\ B(x, next[x])
  BY <1>2, <1>5
<1>9. \A x \in t : (next'[x] \in t /\ B(x, next'[x])) \/ next'[x] = q
  BY <1>3, <1>4, <1>5, <1>8
<1>10. ASSUME NEW x \in t, NEW y \in t, B(x, y)
       PROVE  next'[x] \in t /\ (y = next'[x] \/ B(next'[x], y))
  <2>1. CASE x \in v
    <3>1. y \in v
      BY <1>5, <1>6, <1>10, <2>1
    <3>2. QED
      BY <1>3, <1>5, <1>10, <2>1, <3>1
  <2>2. CASE x = pv
    <3>1. y \in v
      BY <1>1, <1>5, <1>10, <2>2
    <3>2. QED
      BY <1>3, <1>5, <2>2, <3>1
  <2>3. CASE x \in h /\ x # pv
    <3>1. next'[x] = next[x] /\ next[x] \in h
      BY <1>5, <1>8, <2>3
    <3>2. CASE y \in h
      BY <1>2, <1>5, <1>10, <2>3, <3>1, <3>2
    <3>3. CASE y \in v
      BY <1>5, <1>6, <3>1, <3>3
    <3>4. QED
      BY <1>5, <3>2, <3>3
  <2>4. QED
    BY <1>5, <2>1, <2>2, <2>3
<1>11. q \notin t
  BY <1>5
<1>12. QED
  BY <1>5, <1>7, <1>9, <1>10, <1>11 DEF Threads

(* A client changes a list: what has to be shown of the others.            *)
LEMMA OthersRest ==
  ASSUME OneAtATime, Typed, Orderly, NEW S \in [Queues -> SUBSET Msgs], NEW u \in SUBSET Msgs,
         Lists(S, u), NEW c \in Clients, MayRun(c), pc[c] \in Midway,
         NEW T, NEW v,
         \A d \in Contexts \ {c} : pc'[d] = pc[d] /\ reg'[d] = reg[d],
         UNCHANGED <<que_list, qfd>>,
         \A r \in Queues \ Listed : /\ next'[r] = next[r] /\ prev'[r] = prev[r]
                                   /\ mem'[r] = mem[r] /\ linked'[r] = linked[r],
         \A d \in Clients \ {c} : pc[d] = "link" => Pending(d)' /\ Unknown(d)',
         \A d \in Clients \ {c} : pc[d] = "copy" =>
           reg[d].m = Nil \/ (reg[d].m \in T[reg[d].q] /\ next'[reg[d].q] = reg[d].m)
  PROVE  \A d \in Clients \ {c} : (RestOk(T, d) /\ CutOk(T, d) /\ JoinOk(T, v, d))'
<1> SUFFICES ASSUME NEW d \in Clients \ {c}
             PROVE  (RestOk(T, d) /\ CutOk(T, d) /\ JoinOk(T, v, d))'
  OBVIOUS
<1>1. pc'[d] = pc[d] /\ reg'[d] = reg[d] /\ pc[d] \notin Midway /\ RestOk(S, d) /\ Listed' = Listed
  BY Basics, Running DEF Midway, Listed
<1>2. pc[d] \in {"lock", "get"} /\ reg[d].named = "queue" =>
        \E r \in Listed : qfd'[r] = reg[d].fd
  BY <1>1 DEF RestOk
<1>3. pc[d] = "create" => (/\ reg[d].q \in Queues \ Listed /\ mem[reg[d].q] = "live"
                           /\ next[reg[d].q] = reg[d].q /\ prev[reg[d].q] = reg[d].q
                           /\ linked[reg[d].q] = <<>>)'
  BY <1>1 DEF RestOk, Astray
<1>4. RestOk(T, d)'
  BY <1>1, <1>2, <1>3 DEF RestOk, Astray
<1>5. QED
  BY <1>1, <1>4 DEF CutOk, JoinOk, Midway

(* A client that changes the list of q: what stays as it is.               *)
LEMMA OtherLists ==
  ASSUME OneAtATime, Typed, Orderly, NEW S \in [Queues -> SUBSET Msgs], NEW u \in SUBSET Msgs,
         Lists(S, u), NEW c \in Clients, MayRun(c), pc[c] \in Midway,
         NEW q \in Listed, q = reg[c].q, reg'[c].q = q,
         \A d \in Contexts \ {c} : pc'[d] = pc[d] /\ reg'[d] = reg[d],
         pc'[c] \notin {"create", "link", "linkHead"}, UNCHANGED que_list,
         \A x \in Node \ (Range(linked[q]) \cup {q}) :
           next'[x] = next[x] /\ prev'[x] = prev[x] /\ mem'[x] = mem[x],
         \A r \in Queues \ {q} : linked'[r] = linked[r] /\ taken'[r] = taken[r]
  PROVE  /\ \A r : /\ Known(r) = Range(linked[r]) /\ Rear(r) = prev[r]
                   /\ Known(r)' = Range(linked'[r]) /\ Rear(r)' = prev'[r]
         /\ \A r \in Listed \ {q} : QueueOk(S[r], r)'
         /\ \A r \in Queues \ {q} : next'[r] = next[r] /\ prev'[r] = prev[r] /\ mem'[r] = mem[r]
         /\ HandlerOk' /\ Apart' /\ Listed' = Listed
         /\ \A d \in Clients \ {c} : pc[d] \notin Midway
<1>1. pc[Isr] \in {"idle", "off", "deaf"} /\ pc'[Isr] = pc[Isr]
  BY Basics, Running
<1>2. \A r : /\ Known(r) = Range(linked[r]) /\ Rear(r) = prev[r]
             /\ Known(r)' = Range(linked'[r]) /\ Rear(r)' = prev'[r]
  BY <1>1 DEF Known, Rear, Appending
<1>3. \A d \in Clients \ {c} : pc[d] \notin Midway
  BY Running DEF Midway
<1>4. q \in Queues /\ Range(linked[q]) \subseteq Msgs
  BY Basics DEF HistoryOk
<1>5. \A r \in Queues \ {q} : next'[r] = next[r] /\ prev'[r] = prev[r] /\ mem'[r] = mem[r]
  BY <1>4, Basics
<1>6. ASSUME NEW r \in Listed, r # q PROVE QueueOk(S[r], r)'
  <2>1. QueueOk(S[r], r) /\ r \in Queues
    BY Basics
  <2>2. ~Cutting(r) /\ Copied(r) = {}
    BY <1>3, <1>6 DEF Cutting, Copied, Midway
  <2>3. \A x \in Known(r) : next'[x] = next[x] /\ prev'[x] = prev[x] /\ mem'[x] = mem[x]
    <3>1. \A x \in Range(linked[r]) : x \in Msgs /\ x \notin Range(linked[q])
      BY <1>4, <1>6, <2>1, Basics DEF HistoryOk
    <3>2. QED
      BY <1>2, <1>4, <3>1, Basics
  <2>4. Known(r)' = Known(r) /\ Rear(r)' = Rear(r)
    BY <1>2, <1>5, <1>6, <2>1
  <2>5. Range(taken[r]) \subseteq Known(r)
    BY <2>1, Basics, TakenKnown
  <2>6. QED
    BY <1>5, <1>6, <2>1, <2>2, <2>3, <2>4, <2>5, QueueKept
<1>7. HandlerOk'
  BY <1>1 DEF HandlerOk
<1>8. Apart'
  <2>1. \A d \in Contexts : pc'[d] \in {"link", "linkHead", "create"} =>
          d # c /\ pc'[d] = pc[d] /\ reg'[d] = reg[d]
    OBVIOUS
  <2>2. \A d \in Clients : pc[d] = "create" => reg[d].q # q
    BY Basics DEF RestOk, Astray
  <2>3. ASSUME NEW d \in Clients, NEW e \in Clients, d # e,
               pc'[d] = "create", pc'[e] \in {"create", "loop"}
        PROVE  reg'[d].q # reg'[e].q
    <3>1. CASE e = c
      BY <2>1, <2>2, <2>3, <3>1, Basics
    <3>2. CASE e # c
      BY <2>1, <2>3, <3>2, Basics DEF Apart
    <3>3. QED
      BY <3>1, <3>2
  <2>4. QED
    BY <2>1, <2>3, Basics DEF Apart
<1>9. QED
  BY <1>2, <1>3, <1>5, <1>6, <1>7, <1>8 DEF Listed

(* list_del, first store.                                                  *)
LEMMA DelNextStep ==
  ASSUME OneAtATime, Typed, Orderly, NEW S \in [Queues -> SUBSET Msgs], NEW u \in SUBSET Msgs,
         Lists(S, u), NEW c \in Clients, DelNext(c)
  PROVE  Lists(S, u)'
<1>1. PICK q, m, nx : q = reg[c].q /\ m = reg[c].m /\ nx = reg[c].nx
  OBVIOUS
<1>2. pc[c] = "delNext" /\ reg[c].pv = q /\ m \in S[q] /\ next[q] = m /\ nx \in {q, next[m]}
      /\ (reg[c].op = "flush" => reg[c].n \in {q, nx})
  BY <1>1, Basics DEF DelNext, At, CutOk
<1>3. /\ UNCHANGED <<next, mem, que_list, qfd, reg, linked, taken>> /\ MayRun(c)
      /\ prev' = [prev EXCEPT ![nx] = q]
      /\ pc' = [pc EXCEPT ![c] = "delPrev"]
  BY <1>1, <1>2 DEF DelNext, At, GoOn, Goto, heap, queues, history
<1>4. pc'[c] = "delPrev" /\ \A d \in Contexts \ {c} : pc'[d] = pc[d] /\ reg'[d] = reg[d]
  BY <1>3, Basics
<1>5. q \in Listed /\ q \in Queues /\ QueueOk(S[q], q) /\ q \notin S[q]
  <2>1. reg[c].op # "close"
    BY <1>2, Basics DEF Phases
  <2>2. q \in Listed
    BY <1>1, <1>2, <2>1, Placed DEF InQueue, Midway
  <2>3. QED
    BY <2>2, Basics
<1>6. ~Cutting(q) /\ Known(q) = Range(linked[q]) /\ Rear(q) = prev[q]
  BY <1>2, <1>3, Running
<1>7. /\ nx = q \/ (nx = next[m] /\ nx \in S[q])
      /\ nx \in Range(linked[q]) \cup {q} /\ nx \in Node
      /\ m \in Range(linked[q]) /\ mem[m] = "live"
  BY <1>2, <1>5, <1>6, Basics DEF QueueOk, Threads
<1>8. prev'[nx] = q /\ \A x \in Node : x # nx => prev'[x] = prev[x]
  BY <1>3, <1>7, Basics
<1>9. pc[c] \in Midway
  BY <1>2 DEF Midway
<1>10. /\ Known(q)' = Known(q) /\ Rear(q)' = prev'[q]
       /\ \A r \in Listed \ {q} : QueueOk(S[r], r)'
       /\ \A r \in Queues \ {q} : next'[r] = next[r] /\ prev'[r] = prev[r] /\ mem'[r] = mem[r]
       /\ HandlerOk' /\ Apart' /\ Listed' = Listed
  BY <1>1, <1>3, <1>4, <1>5, <1>7, <1>8, <1>9, OtherLists
<1>11. (nx = q => Rear(q)' = q) /\ (nx # q => Rear(q)' = Rear(q))
  BY <1>5, <1>6, <1>8, <1>10, Basics
<1>12. QueueOk(S[q], q)'
  <2>1. Threads(S[q], next[q], q)'
    BY <1>3, <1>5 DEF QueueOk, Threads
  <2>2. next'[q] \in S[q] => prev'[next'[q]] = q
    BY <1>2, <1>3, <1>5, <1>7, <1>8, Basics DEF QueueOk
  <2>3. Cutting(q)'
    BY <1>1, <1>3, <1>4 DEF Cutting
  <2>4. Copied(q) \subseteq Copied(q)'
    BY <1>3, <1>4, Basics DEF Copied
  <2>5. QED
    BY <1>3, <1>5, <1>10, <1>11, <2>1, <2>2, <2>3, <2>4 DEF QueueOk
<1>13. CutOk(S, c)'
  <2>1. Rear(q)' # m
    BY <1>2, <1>5, <1>7, <1>11 DEF QueueOk
  <2>2. ASSUME nx # q
        PROVE  Rear(q)' # q /\ \A x \in S[q] \ {m} : next[x] \in S[q] => prev'[next[x]] = x
    <3>1. Rear(q)' # q
      BY <1>2, <1>5, <1>6, <1>11, <2>2 DEF QueueOk
    <3>2. Doubly(S[q])
      BY <1>5, <1>6 DEF QueueOk
    <3>3. ASSUME NEW x \in S[q] \ {m}, next[x] \in S[q] PROVE prev'[next[x]] = x
      <4>1. prev[next[x]] = x /\ prev[nx] = m
        BY <1>2, <1>7, <2>2, <3>2, <3>3 DEF Doubly
      <4>2. next[x] \in Node /\ next[x] # nx
        BY <1>5, <3>3, <4>1, Basics
      <4>3. QED
        BY <1>8, <4>1, <4>2
    <3>4. QED
      BY <3>1, <3>3
  <2>3. m \in Known(q)' /\ mem'[m] = "live"
    BY <1>3, <1>6, <1>7, <1>10
  <2>4. QED
    BY <1>1, <1>2, <1>3, <1>4, <1>7, <1>8, <2>1, <2>2, <2>3 DEF CutOk
<1>14. RestOk(S, c)' /\ JoinOk(S, u, c)'
  BY <1>1, <1>3, <1>4, <1>5, <1>10 DEF RestOk, Astray, JoinOk
<1>15. \A d \in Clients \ {c} : (RestOk(S, d) /\ CutOk(S, d) /\ JoinOk(S, u, d))'
  <2>1. ASSUME NEW d \in Clients \ {c}, pc[d] = "link" PROVE Pending(d)' /\ Unknown(d)'
    BY <1>3, <1>4, <2>1, Basics DEF RestOk, Astray, Pending, Unknown
  <2>2. ASSUME NEW d \in Clients \ {c}, pc[d] = "copy"
        PROVE  reg[d].m = Nil \/ (reg[d].m \in S[reg[d].q] /\ next'[reg[d].q] = reg[d].m)
    BY <1>3, <2>2, Basics DEF RestOk, Astray
  <2>3. \A r \in Queues \ Listed : /\ next'[r] = next[r] /\ prev'[r] = prev[r]
                                   /\ mem'[r] = mem[r] /\ linked'[r] = linked[r]
    BY <1>3, <1>5, <1>10
  <2>4. QED
    BY <1>3, <1>4, <1>9, <2>1, <2>2, <2>3, OthersRest
<1>16. HistoryOk'
  BY <1>3, Basics DEF HistoryOk
<1>17. QED
  BY <1>10, <1>12, <1>13, <1>14, <1>15, <1>16 DEF Lists

(* list_del, second store, and the free.                                   *)
LEMMA DelPrevStep ==
  ASSUME OneAtATime, Typed, Orderly, NEW S \in [Queues -> SUBSET Msgs], NEW u \in SUBSET Msgs,
         Lists(S, u), NEW c \in Clients, DelPrev(c)
  PROVE  \E T \in [Queues -> SUBSET Msgs] : Lists(T, u)'
<1>1. PICK q, m, nx : q = reg[c].q /\ m = reg[c].m /\ nx = reg[c].nx
  OBVIOUS
<1>2. /\ pc[c] = "delPrev" /\ reg[c].pv = q /\ m \in Known(q) /\ mem[m] = "live" /\ Rear(q) # m
      /\ \/ nx = q
         \/ /\ m \in S[q] /\ next[q] = m /\ nx = next[m] /\ nx \in S[q]
            /\ prev[nx] = q /\ Rear(q) # q
            /\ \A x \in S[q] \ {m} : next[x] \in S[q] => prev[next[x]] = x
      /\ reg[c].op = "flush" => reg[c].n \in {q, nx}
  BY <1>1, Basics DEF DelPrev, At, CutOk
<1>3. /\ UNCHANGED <<prev, que_list, qfd, reg, linked, taken>> /\ MayRun(c)
      /\ next' = [next EXCEPT ![q] = nx] /\ mem' = [mem EXCEPT ![m] = "freed"]
      /\ pc' = [pc EXCEPT ![c] = IF reg[c].op = "read" THEN "size" ELSE "loop"]
  BY <1>1, <1>2 DEF DelPrev, Unlinked, At, GoOn, Goto, queues, history
<1>4. /\ pc'[c] = IF reg[c].op = "read" THEN "size" ELSE "loop"
      /\ \A d \in Contexts \ {c} : pc'[d] = pc[d] /\ reg'[d] = reg[d]
      /\ reg[c].op \in {"read", "flush"}
  BY <1>2, <1>3, Basics DEF Phases
<1>5. q \in Listed /\ q \in Queues /\ QueueOk(S[q], q) /\ q \notin S[q]
  <2>1. q \in Listed
    BY <1>1, <1>2, <1>4, Placed DEF InQueue, Midway
  <2>2. QED
    BY <2>1, Basics
<1>6. pc[c] \in Midway
  BY <1>2 DEF Midway
<1>7. Known(q) \subseteq Range(linked[q]) /\ Known(q) \subseteq Msgs
  BY <1>5, Basics, TakenKnown
<1>8. /\ next'[q] = nx /\ \A x \in Node : x # q => next'[x] = next[x]
      /\ mem'[m] = "freed" /\ \A x \in Node : x # m => mem'[x] = mem[x]
  BY <1>2, <1>3, <1>5, <1>7, Basics
<1>9. /\ Known(q)' = Known(q) /\ Rear(q)' = Rear(q)
      /\ \A r \in Listed \ {q} : QueueOk(S[r], r)'
      /\ \A r \in Queues \ {q} : next'[r] = next[r] /\ prev'[r] = prev[r] /\ mem'[r] = mem[r]
      /\ HandlerOk' /\ Apart' /\ Listed' = Listed
      /\ \A d \in Clients \ {c} : pc[d] \notin Midway
  <2>1. \A x \in Node \ (Range(linked[q]) \cup {q}) :
          next'[x] = next[x] /\ prev'[x] = prev[x] /\ mem'[x] = mem[x]
    BY <1>2, <1>3, <1>7, <1>8
  <2>2. pc'[c] \notin {"create", "link", "linkHead"}
    BY <1>4
  <2>3. \A r \in Queues \ {q} : linked'[r] = linked[r] /\ taken'[r] = taken[r]
    BY <1>3
  <2>4. QED
    BY <1>1, <1>3, <1>4, <1>5, <1>6, <2>1, <2>2, <2>3, OtherLists
<1>10. PICK T \in [Queues -> SUBSET Msgs] :
         T = [S EXCEPT ![q] = IF nx = q THEN {} ELSE @ \ {m}]
  <2>1. [S EXCEPT ![q] = IF nx = q THEN {} ELSE @ \ {m}] \in [Queues -> SUBSET Msgs]
    BY <1>5
  <2>2. QED
    BY <2>1
<1>11. /\ nx = q => T[q] = {}
       /\ nx # q => T[q] = S[q] \ {m}
       /\ \A r \in Queues : r # q => T[r] = S[r]
  BY <1>5, <1>10
<1>12. /\ nx # q => Threads(T[q], nx, q) /\ nx \in T[q]
       /\ Threads(T[q], nx, q)'
  <2>1. ASSUME nx # q PROVE Threads(T[q], nx, q) /\ nx \in T[q]
    <3>1. Threads(S[q], m, q) /\ m \in S[q]
      BY <1>2, <1>5, <2>1 DEF QueueOk
    <3>2. linked[q] \in Seq(Node) /\ Distinct(linked[q])
      BY <1>5, Basics DEF HistoryOk
    <3>3. Threads(S[q] \ {m}, next[m], q) /\ next[m] # m
      BY <1>5, <3>1, <3>2, ThreadsTail
    <3>4. QED
      BY <1>2, <1>11, <2>1, <3>3
  <2>2. CASE nx = q
    BY <1>11, <2>2 DEF Threads
  <2>3. CASE nx # q
    <3>1. \A x \in T[q] : next'[x] = next[x]
      BY <1>5, <1>8, <1>11, <2>3, Basics
    <3>2. QED
      BY <1>3, <2>1, <2>3, <3>1 DEF Threads
  <2>4. QED
    BY <2>1, <2>2, <2>3
<1>13. QueueOk(T[q], q)'
  <2>1. mem'[q] = "live" /\ T[q] \subseteq Known(q)' /\ \A x \in T[q] : mem'[x] = "live"
    <3>1. mem'[q] = "live"
      BY <1>2, <1>5, <1>7, <1>8, Basics
    <3>2. \A x \in T[q] : x \in S[q] /\ x # m /\ x \in Node
      BY <1>5, <1>11, Basics
    <3>3. QED
      BY <1>5, <1>8, <1>9, <3>1, <3>2 DEF QueueOk
  <2>2. nx \in T[q] => prev'[nx] = q
    BY <1>2, <1>3, <1>11
  <2>3. Doubly(T[q])'
    BY <1>2, <1>3, <1>5, <1>8, <1>11, Basics DEF Doubly
  <2>4. Rear(q) = q => T[q] = {}
    BY <1>2, <1>11
  <2>5. (Rear(q) \in Known(q) \cup {q})' /\ mem'[Rear(q)'] = "live"
    <3>1. Rear(q) \in Known(q) \cup {q} /\ mem[Rear(q)] = "live" /\ Rear(q) \in Node
      BY <1>5, <1>7, Basics DEF QueueOk
    <3>2. QED
      BY <1>2, <1>8, <1>9, <3>1
  <2>6. Rear(q)' \in T[q] => next'[Rear(q)'] = q
    <3>1. Rear(q) \in S[q] => next[Rear(q)] = q
      BY <1>5 DEF QueueOk
    <3>2. QED
      BY <1>5, <1>8, <1>9, <1>11, <3>1, Basics
  <2>7. \A x \in Range(taken[q]), y \in T[q] : Before(linked[q], x, y)
    <3>1. Copied(q) \subseteq {m}
      BY <1>1, <1>9 DEF Copied, Midway
    <3>2. QED
      BY <1>5, <1>11, <3>1 DEF QueueOk
  <2>8. QED
    BY <1>3, <1>8, <1>9, <1>12, <2>1, <2>2, <2>3, <2>4, <2>5, <2>6, <2>7 DEF QueueOk
<1>14. (RestOk(T, c) /\ CutOk(T, c) /\ JoinOk(T, u, c))'
  <2>1. CutOk(T, c)'
    BY SMTT(30), <1>1, <1>2, <1>3, <1>4, <1>8, <1>12 DEF CutOk
  <2>2. QED
    BY <1>1, <1>3, <1>4, <1>5, <1>9, <2>1 DEF RestOk, Astray, JoinOk
<1>15. \A d \in Clients \ {c} : (RestOk(T, d) /\ CutOk(T, d) /\ JoinOk(T, u, d))'
  <2>1. ASSUME NEW d \in Clients \ {c}, pc[d] = "link" PROVE Pending(d)' /\ Unknown(d)'
    <3>1. Pending(d) /\ Unknown(d) /\ reg'[d] = reg[d]
      BY <1>4, <2>1, Basics DEF RestOk, Astray
    <3>2. reg[d].m # m
      BY <1>2, <1>5, <1>7, <3>1 DEF Unknown
    <3>3. QED
      BY <1>3, <1>8, <3>1, <3>2, Basics DEF Pending, Unknown
  <2>2. ASSUME NEW d \in Clients \ {c} PROVE pc[d] # "copy"
    BY <1>2, <1>3, <1>4, Alone
  <2>3. \A r \in Queues \ Listed : /\ next'[r] = next[r] /\ prev'[r] = prev[r]
                                   /\ mem'[r] = mem[r] /\ linked'[r] = linked[r]
    BY <1>3, <1>5, <1>9
  <2>4. QED
    BY <1>3, <1>4, <1>6, <2>1, <2>2, <2>3, OthersRest
<1>16. HistoryOk'
  <2>1. \A x \in Node : mem'[x] = "fresh" <=> mem[x] = "fresh"
    BY <1>2, <1>8
  <2>2. QED
    BY <1>3, <2>1, Basics DEF HistoryOk
<1>17. Lists(T, u)'
  BY <1>9, <1>11, <1>13, <1>14, <1>15, <1>16, Basics DEF Lists
<1>18. QED
  BY <1>17

(* What is appended to a queue is new to all of them.                      *)
LEMMA HistoryAppend ==
  ASSUME HistoryOk, NEW q \in Queues, NEW m \in Msgs, Msgs \subseteq Node, Queues \subseteq Node,
         \A r \in Queues : m \notin Range(linked[r]),
         linked \in [Queues -> Seq(Node)], mem[m] = "live", mem[q] = "live",
         linked' = [linked EXCEPT ![q] = Append(@, m)], UNCHANGED <<mem, taken>>
  PROVE  /\ HistoryOk'
         /\ Range(linked'[q]) = Range(linked[q]) \cup {m}
         /\ \A r \in Queues : r # q => linked'[r] = linked[r]
         /\ \A x \in Range(linked[q]) : Before(linked'[q], x, m)
         /\ \A x, y \in Range(linked[q]) : Before(linked'[q], x, y) <=> Before(linked[q], x, y)
<1>1. linked'[q] = Append(linked[q], m) /\ \A r \in Queues : r # q => linked'[r] = linked[r]
  OBVIOUS
<1>2. /\ Distinct(linked'[q]) /\ Range(linked'[q]) = Range(linked[q]) \cup {m}
      /\ \A x \in Range(linked[q]) : Before(linked'[q], x, m)
      /\ \A x, y \in Range(linked[q]) : Before(linked'[q], x, y) <=> Before(linked[q], x, y)
  <2>1. linked[q] \in Seq(Node) /\ Distinct(linked[q])
    BY DEF HistoryOk
  <2>2. QED
    BY <1>1, <2>1, BeforeAppend
<1>3. \A r \in Queues : \A i \in DOMAIN taken[r] : taken[r][i] \in Range(linked[r])
  BY ZenonT(40) DEF HistoryOk, Range
<1>4. \A r \in Queues : /\ Distinct(linked'[r])
                        /\ \A x \in Range(linked'[r]) : x \in Msgs /\ mem[x] # "fresh"
                        /\ mem[r] = "fresh" => linked'[r] = <<>>
                        /\ Range(taken[r]) \subseteq Range(linked'[r])
                        /\ \A i, j \in DOMAIN taken[r] :
                             i < j => Before(linked'[r], taken[r][i], taken[r][j])
  BY <1>1, <1>2, <1>3 DEF HistoryOk
<1>5. \A r, t \in Queues : r # t => Range(linked'[r]) \cap Range(linked'[t]) = {}
  BY <1>1, <1>2 DEF HistoryOk
<1>6. QED
  BY <1>1, <1>2, <1>4, <1>5 DEF HistoryOk

(* list_add_tail, first store.                                             *)
LEMMA ClientLinkHeadStep ==
  ASSUME OneAtATime, Typed, Orderly, NEW S \in [Queues -> SUBSET Msgs], NEW u \in SUBSET Msgs,
         Lists(S, u), NEW c \in Clients, LinkHead(c)
  PROVE  Lists(S, u)'
<1>1. PICK q, m, pv : q = reg[c].q /\ m = reg[c].m /\ pv = reg[c].pv
  OBVIOUS
<1>2. /\ pc[c] = "linkHead" /\ Pending(c) /\ m \in Msgs /\ mem[m] = "live"
      /\ \A r \in Queues : m \notin Range(linked[r])
      /\ pv \in Known(q) \cup {q} /\ mem[pv] = "live"
      /\ pv = q => \A d \in Clients : pc[d] = "copy" /\ reg[d].q = q => reg[d].m = Nil
  BY <1>1, Basics DEF LinkHead, At, JoinOk, Pending, Unknown
<1>3. /\ UNCHANGED <<next, mem, que_list, qfd, reg, taken>> /\ MayRun(c)
      /\ prev' = [prev EXCEPT ![q] = m] /\ linked' = [linked EXCEPT ![q] = Append(@, m)]
      /\ pc' = [pc EXCEPT ![c] = "linkNew"]
  BY <1>1 DEF LinkHead, At, GoOn, Goto, queues
<1>4. pc'[c] = "linkNew" /\ \A d \in Contexts \ {c} : pc'[d] = pc[d] /\ reg'[d] = reg[d]
  BY <1>3, Basics
<1>5. q \in Listed /\ q \in Queues /\ mem[q] = "live" /\ QueueOk(S[q], q)
  BY <1>1, <1>2, Basics, Placed DEF InQueue, Midway, Ops
<1>6. pc[c] \in Midway /\ ~Cutting(q)
  BY <1>2, <1>3, Running DEF Midway
<1>7. prev'[q] = m /\ \A x \in Node : x # q => prev'[x] = prev[x]
  BY <1>3, <1>5, Basics
<1>8. /\ HistoryOk'
      /\ Range(linked'[q]) = Range(linked[q]) \cup {m}
      /\ \A r \in Queues : r # q => linked'[r] = linked[r]
      /\ \A x \in Range(linked[q]) : Before(linked'[q], x, m)
      /\ \A x, y \in Range(linked[q]) : Before(linked'[q], x, y) <=> Before(linked[q], x, y)
  BY <1>2, <1>3, <1>5, Basics, HistoryAppend
<1>9. /\ Known(q) = Range(linked[q]) /\ Known(q)' = Range(linked[q]) \cup {m} /\ Rear(q)' = m
      /\ \A r \in Listed \ {q} : QueueOk(S[r], r)'
      /\ \A r \in Queues \ {q} : next'[r] = next[r] /\ prev'[r] = prev[r] /\ mem'[r] = mem[r]
      /\ HandlerOk' /\ Apart' /\ Listed' = Listed
  <2>1. \A x \in Node \ (Range(linked[q]) \cup {q}) :
          next'[x] = next[x] /\ prev'[x] = prev[x] /\ mem'[x] = mem[x]
    BY <1>3, <1>7
  <2>2. \A r \in Queues \ {q} : linked'[r] = linked[r] /\ taken'[r] = taken[r]
    BY <1>3, <1>8
  <2>3. /\ Known(q) = Range(linked[q]) /\ Known(q)' = Range(linked'[q]) /\ Rear(q)' = prev'[q]
        /\ \A r \in Listed \ {q} : QueueOk(S[r], r)'
        /\ \A r \in Queues \ {q} : next'[r] = next[r] /\ prev'[r] = prev[r] /\ mem'[r] = mem[r]
        /\ HandlerOk' /\ Apart' /\ Listed' = Listed
    BY <1>1, <1>3, <1>4, <1>5, <1>6, <2>1, <2>2, OtherLists
  <2>4. QED
    BY <1>7, <1>8, <2>3
<1>10. /\ S[q] \subseteq Range(linked[q]) /\ m \notin S[q] /\ m # q
       /\ Range(taken[q]) \subseteq Range(linked[q])
       /\ \A x \in S[q] : x # q /\ x \in Node
  <2>1. S[q] \subseteq Range(linked[q])
    BY <1>5, <1>9 DEF QueueOk
  <2>2. Range(taken[q]) \subseteq Range(linked[q])
    BY <1>5, Basics DEF HistoryOk
  <2>3. S[q] \subseteq Msgs
    BY <1>5
  <2>4. QED
    BY <1>2, <1>5, <2>1, <2>2, <2>3, Basics
<1>11. QueueOk(S[q], q)'
  <2>1. Threads(S[q], next[q], q)'
    BY <1>3, <1>5, <1>8, <1>10 DEF QueueOk, Threads
  <2>2. Doubly(S[q])' /\ (next'[q] \in S[q] => prev'[next'[q]] = q)
    BY <1>3, <1>5, <1>6, <1>7, <1>10 DEF QueueOk, Doubly
  <2>3. \A x \in Range(taken'[q]), y \in S[q] :
          Before(linked'[q], x, y) \/ (x = y /\ x \in Copied(q)')
    <3>1. Copied(q)' = Copied(q)
      BY <1>2, <1>3, <1>4, Basics DEF Copied
    <3>2. QED
      BY <1>3, <1>5, <1>8, <1>10, <3>1 DEF QueueOk
  <2>4. QED
    BY <1>2, <1>3, <1>5, <1>9, <1>10, <2>1, <2>2, <2>3 DEF QueueOk
<1>12. (RestOk(S, c) /\ CutOk(S, c) /\ JoinOk(S, u, c))'
  <2>1. \A d \in Clients : pc'[d] = "copy" => pc[d] = "copy" /\ reg'[d] = reg[d]
    BY <1>3, <1>4, Basics
  <2>2. JoinOk(S, u, c)'
    BY <1>1, <1>2, <1>3, <1>4, <1>8, <1>9, <1>10, <2>1 DEF JoinOk, Pending
  <2>3. QED
    BY <1>1, <1>3, <1>4, <1>5, <1>9, <2>2 DEF RestOk, Astray, CutOk
<1>13. \A d \in Clients \ {c} : (RestOk(S, d) /\ CutOk(S, d) /\ JoinOk(S, u, d))'
  <2>1. ASSUME NEW d \in Clients \ {c}, pc[d] = "link" PROVE Pending(d)' /\ Unknown(d)'
    <3>1. Pending(d) /\ Unknown(d) /\ reg'[d] = reg[d] /\ reg[d].m # m
      BY <1>1, <1>2, <1>4, <2>1, Basics DEF RestOk, Apart
    <3>2. \A r \in Queues : Range(linked'[r]) \subseteq Range(linked[r]) \cup {m}
      BY <1>8
    <3>3. QED
      BY <1>3, <3>1, <3>2 DEF Pending, Unknown
  <2>2. ASSUME NEW d \in Clients \ {c}, pc[d] = "copy"
        PROVE  reg[d].m = Nil \/ (reg[d].m \in S[reg[d].q] /\ next'[reg[d].q] = reg[d].m)
    BY <1>3, <2>2, Basics DEF RestOk, Astray
  <2>3. \A r \in Queues \ Listed : /\ next'[r] = next[r] /\ prev'[r] = prev[r]
                                   /\ mem'[r] = mem[r] /\ linked'[r] = linked[r]
    BY <1>5, <1>8, <1>9
  <2>4. QED
    BY <1>3, <1>4, <1>6, <2>1, <2>2, <2>3, OthersRest
<1>14. QED
  BY <1>8, <1>9, <1>11, <1>12, <1>13 DEF Lists

(* ... the pointers of the new message ...                                 *)
LEMMA ClientLinkNewStep ==
  ASSUME OneAtATime, Typed, Orderly, NEW S \in [Queues -> SUBSET Msgs], NEW u \in SUBSET Msgs,
         Lists(S, u), NEW c \in Clients, LinkNew(c)
  PROVE  \E v \in SUBSET Msgs : Lists(S, v)'
<1>1. PICK q, m, pv : q = reg[c].q /\ m = reg[c].m /\ pv = reg[c].pv
  OBVIOUS
<1>2. /\ pc[c] = "linkNew" /\ m \in Msgs /\ mem[m] = "live"
      /\ pv \in Known(q) \cup {q} /\ mem[pv] = "live"
      /\ pv = q => \A d \in Clients : pc[d] = "copy" /\ reg[d].q = q => reg[d].m = Nil
      /\ m \in Known(q) \ S[q] /\ (pv = q \/ Before(linked[q], pv, m))
      /\ Rear(q) \notin S[q] \cup {q}
      /\ \A y \in S[q] \cup Range(taken[q]) : Before(linked[q], y, m)
  <2>1. pc[c] = "linkNew" /\ JoinOk(S, u, c)
    BY Basics DEF LinkNew, At
  <2>2. QED
    BY <1>1, <2>1 DEF JoinOk, Pending
<1>3. /\ UNCHANGED <<mem, que_list, qfd, reg, linked, taken>> /\ MayRun(c)
      /\ next' = [next EXCEPT ![m] = q] /\ prev' = [prev EXCEPT ![m] = pv]
      /\ pc' = [pc EXCEPT ![c] = "linkPrev"]
  BY <1>1 DEF LinkNew, At, GoOn, Goto, queues, history
<1>4. pc'[c] = "linkPrev" /\ \A d \in Contexts \ {c} : pc'[d] = pc[d] /\ reg'[d] = reg[d]
  BY <1>3, Basics
<1>5. q \in Listed /\ q \in Queues /\ mem[q] = "live" /\ QueueOk(S[q], q) /\ m # q
  BY <1>1, <1>2, Basics, Placed DEF InQueue, Midway, Ops
<1>6. pc[c] \in Midway /\ ~Cutting(q)
  BY <1>2, <1>3, Running DEF Midway
<1>7. /\ next'[m] = q /\ prev'[m] = pv
      /\ \A x \in Node : x # m => next'[x] = next[x] /\ prev'[x] = prev[x]
  BY <1>2, <1>3, Basics
<1>8. Known(q) \subseteq Range(linked[q])
  BY DEF Known
<1>9. /\ Known(q)' = Known(q) /\ Rear(q)' = Rear(q)
      /\ \A r \in Listed \ {q} : QueueOk(S[r], r)'
      /\ \A r \in Queues \ {q} : next'[r] = next[r] /\ prev'[r] = prev[r] /\ mem'[r] = mem[r]
      /\ HandlerOk' /\ Apart' /\ Listed' = Listed
  <2>1. \A x \in Node \ (Range(linked[q]) \cup {q}) :
          next'[x] = next[x] /\ prev'[x] = prev[x] /\ mem'[x] = mem[x]
    BY <1>2, <1>3, <1>7, <1>8
  <2>2. /\ Known(q) = Range(linked[q]) /\ Known(q)' = Range(linked'[q])
        /\ Rear(q) = prev[q] /\ Rear(q)' = prev'[q]
        /\ \A r \in Listed \ {q} : QueueOk(S[r], r)'
        /\ \A r \in Queues \ {q} : next'[r] = next[r] /\ prev'[r] = prev[r] /\ mem'[r] = mem[r]
        /\ HandlerOk' /\ Apart' /\ Listed' = Listed
    BY <1>1, <1>3, <1>4, <1>5, <1>6, <2>1, OtherLists
  <2>3. QED
    BY <1>3, <1>5, <1>7, <2>2, Basics
<1>10. \A x \in S[q] : x # m /\ x \in Node
  BY <1>2, <1>5, Basics
<1>11. QueueOk(S[q], q)'
  <2>1. \A x \in S[q] : next'[x] = next[x] /\ prev'[x] = prev[x] /\ mem'[x] = mem[x]
    BY <1>3, <1>7, <1>10
  <2>2. next'[q] = next[q] /\ mem'[q] = mem[q]
    BY <1>3, <1>5, <1>7, Basics
  <2>3. Copied(q) \subseteq Copied(q)'
    BY <1>2, <1>3, <1>4, Basics DEF Copied
  <2>4. Range(taken[q]) \subseteq Known(q)
    BY <1>5, Basics, TakenKnown
  <2>5. QED
    BY <1>3, <1>5, <1>6, <1>9, <2>1, <2>2, <2>3, <2>4, QueueFrame
<1>12. (RestOk(S, c) /\ CutOk(S, c) /\ JoinOk(S, {m}, c))'
  <2>1. \A d \in Clients : pc'[d] = "copy" => pc[d] = "copy" /\ reg'[d] = reg[d]
    BY <1>3, <1>4, Basics
  <2>2. ~Before(linked[q], m, m)
    BY <1>5, Basics, BeforeOrder DEF HistoryOk
  <2>3. Threads({m}, m, q)' /\ Doubly({m})'
    BY <1>3, <1>5, <1>7, <2>2 DEF Threads, Doubly
  <2>4. JoinOk(S, {m}, c)'
    BY <1>1, <1>2, <1>3, <1>4, <1>7, <1>9, <2>1, <2>3 DEF JoinOk, Pending
  <2>5. QED
    BY <1>1, <1>3, <1>4, <1>5, <1>9, <2>4 DEF RestOk, Astray, CutOk
<1>13. \A d \in Clients \ {c} : (RestOk(S, d) /\ CutOk(S, d) /\ JoinOk(S, {m}, d))'
  <2>1. ASSUME NEW d \in Clients \ {c}, pc[d] = "link" PROVE Pending(d)' /\ Unknown(d)'
    BY <1>3, <1>4, <2>1, Basics DEF RestOk, Astray, Pending, Unknown
  <2>2. ASSUME NEW d \in Clients \ {c}, pc[d] = "copy"
        PROVE  reg[d].m = Nil \/ (reg[d].m \in S[reg[d].q] /\ next'[reg[d].q] = reg[d].m)
    <3>1. /\ reg[d].m = Nil \/ (reg[d].m \in S[reg[d].q] /\ next[reg[d].q] = reg[d].m)
          /\ reg[d].q \in Queues
      BY <2>2, Basics DEF RestOk, Astray, InQueue, Ops
    <3>2. QED
      BY <1>2, <1>7, <3>1, Basics
  <2>3. \A r \in Queues \ Listed : /\ next'[r] = next[r] /\ prev'[r] = prev[r]
                                   /\ mem'[r] = mem[r] /\ linked'[r] = linked[r]
    BY <1>3, <1>5, <1>9
  <2>4. QED
    BY <1>3, <1>4, <1>6, <2>1, <2>2, <2>3, OthersRest
<1>14. HistoryOk'
  BY <1>3, Basics DEF HistoryOk
<1>15. Lists(S, {m})' /\ {m} \in SUBSET Msgs
  BY <1>2, <1>9, <1>11, <1>12, <1>13, <1>14 DEF Lists
<1>16. QED
  BY <1>15

(* ... and the pointer of its predecessor: if that is in the list, the new *)
(* messages are in the list, too; if it has been removed, they are not.    *)
LEMMA ClientLinkPrevStep ==
  ASSUME OneAtATime, Typed, Orderly, NEW S \in [Queues -> SUBSET Msgs], NEW u \in SUBSET Msgs,
         Lists(S, u), NEW c \in Clients, LinkPrev(c)
  PROVE  \E T \in [Queues -> SUBSET Msgs] : Lists(T, u)'
<1>1. PICK q, m, pv : q = reg[c].q /\ m = reg[c].m /\ pv = reg[c].pv
  OBVIOUS
<1>2. /\ pc[c] = "linkPrev" /\ m \in Msgs /\ mem[m] = "live"
      /\ pv \in Known(q) \cup {q} /\ mem[pv] = "live"
      /\ pv = q => \A d \in Clients : pc[d] = "copy" /\ reg[d].q = q => reg[d].m = Nil
      /\ Rear(q) \notin S[q] \cup {q}
      /\ \A y \in S[q] \cup Range(taken[q]) : Before(linked[q], y, m)
      /\ m \in u /\ u \subseteq Known(q) \ S[q] /\ \A x \in u : mem[x] = "live"
      /\ Threads(u, m, q) /\ prev[m] = pv /\ Doubly(u)
      /\ Rear(q) \in u => next[Rear(q)] = q
  <2>1. pc[c] = "linkPrev" /\ JoinOk(S, u, c)
    BY Basics DEF LinkPrev, At
  <2>2. QED
    BY <1>1, <2>1 DEF JoinOk, Pending
<1>3. /\ UNCHANGED <<prev, mem, que_list, qfd, reg, linked, taken>> /\ MayRun(c)
      /\ next' = [next EXCEPT ![pv] = m]
      /\ pc' = [pc EXCEPT ![c] = "size"]
  BY <1>1 DEF LinkPrev, At, GoOn, Goto, queues, history
<1>4. pc'[c] = "size" /\ \A d \in Contexts \ {c} : pc'[d] = pc[d] /\ reg'[d] = reg[d]
  BY <1>3, Basics
<1>5. /\ q \in Listed /\ q \in Queues /\ q \in Node /\ mem[q] = "live" /\ QueueOk(S[q], q)
      /\ q \notin S[q] /\ q \notin u
  BY <1>1, <1>2, Basics, Placed DEF InQueue, Midway, Ops
<1>6. pc[c] \in Midway /\ ~Cutting(q)
  BY <1>2, <1>3, Running DEF Midway
<1>7. Known(q) \subseteq Range(linked[q]) /\ Known(q) \subseteq Msgs
  BY <1>5, Basics, TakenKnown
<1>8. next'[pv] = m /\ \A x \in Node : x # pv => next'[x] = next[x]
  BY <1>2, <1>3, <1>5, <1>7, Basics
<1>9. /\ Known(q)' = Known(q) /\ Rear(q)' = Rear(q)
      /\ \A r \in Listed \ {q} : QueueOk(S[r], r)'
      /\ \A r \in Queues \ {q} : next'[r] = next[r] /\ prev'[r] = prev[r] /\ mem'[r] = mem[r]
      /\ HandlerOk' /\ Apart' /\ Listed' = Listed
  <2>1. \A x \in Node \ (Range(linked[q]) \cup {q}) :
          next'[x] = next[x] /\ prev'[x] = prev[x] /\ mem'[x] = mem[x]
    BY <1>2, <1>3, <1>7, <1>8
  <2>2. /\ Known(q) = Range(linked[q]) /\ Known(q)' = Range(linked'[q])
        /\ Rear(q) = prev[q] /\ Rear(q)' = prev'[q]
        /\ \A r \in Listed \ {q} : QueueOk(S[r], r)'
        /\ \A r \in Queues \ {q} : next'[r] = next[r] /\ prev'[r] = prev[r] /\ mem'[r] = mem[r]
        /\ HandlerOk' /\ Apart' /\ Listed' = Listed
    BY <1>1, <1>3, <1>4, <1>5, <1>6, <2>1, OtherLists
  <2>3. QED
    BY <1>3, <2>2
<1>10. PICK t \in SUBSET Msgs :
         t = IF pv = q THEN u
             ELSE IF pv \in S[q] THEN {y \in S[q] : y = pv \/ Before(linked[q], y, pv)} \cup u
             ELSE S[q]
  BY <1>5
<1>11. PICK T \in [Queues -> SUBSET Msgs] : T = [S EXCEPT ![q] = t]
  BY <1>5
<1>12. T[q] = t /\ \A r \in Queues : r # q => T[r] = S[r]
  BY <1>5, <1>11
<1>13. /\ t \subseteq S[q] \cup u
       /\ pv \notin u
       /\ S[q] \subseteq Known(q) /\ \A x \in S[q] : mem[x] = "live"
       /\ Threads(S[q], next[q], q) /\ Doubly(S[q])
       /\ (next[q] \in S[q] => prev[next[q]] = q)
       /\ \A y \in u : y = m \/ Before(linked[q], m, y)
       /\ \A x \in S[q] \cup u : x \in Node
  <2>1. /\ S[q] \subseteq Known(q) /\ (\A x \in S[q] : mem[x] = "live")
        /\ Threads(S[q], next[q], q) /\ Doubly(S[q])
        /\ (next[q] \in S[q] => prev[next[q]] = q)
    BY <1>5, <1>6 DEF QueueOk
  <2>2. /\ linked[q] \in Seq(Node) /\ Distinct(linked[q]) 
        /\ \A x, y : ~(Before(linked[q], x, y) /\ Before(linked[q], y, x))
        /\ \A x, y : Before(linked[q], x, y) => x # y
    BY <1>5, Basics, BeforeOrder DEF HistoryOk
  <2>3. \A y \in u : y = m \/ Before(linked[q], m, y)
    BY <1>2 DEF Threads
  <2>4. pv \notin u
    <3>1. pv = q \/ Before(linked[q], pv, m)
      BY <1>1, <1>2, Basics DEF JoinOk
    <3>2. QED
      BY <1>5, <2>2, <2>3, <3>1
  <2>5. QED
    BY <1>5, <1>10, <2>1, <2>3, <2>4, Basics
<1>14. Threads(t, next[q], q)' \/ pv = q
  <2>1. CASE pv \in S[q]
    <3>1. /\ linked[q] \in Seq(Node) /\ Distinct(linked[q]) /\ S[q] \cup u \subseteq Range(linked[q])
          /\ S[q] \cap u = {} /\ q \notin S[q] \cup u
      BY <1>2, <1>5, <1>7, <1>13, Basics DEF HistoryOk
    <3>2. /\ \A y \in S[q] : Before(linked[q], y, m)
          /\ t = {y \in S[q] : y = pv \/ Before(linked[q], y, pv)} \cup u
          /\ next'[pv] = m /\ \A x \in S[q] \cup u : x # pv => next'[x] = next[x]
          /\ linked'[q] = linked[q]
      BY <1>2, <1>3, <1>5, <1>8, <1>10, <1>13, <2>1
    <3>3. m \in u /\ Threads(u, m, q) /\ Threads(S[q], next[q], q)
      BY <1>2, <1>13
    <3>4. \A hd : hd = next[q] => Threads(t, hd, q)'
      BY <2>1, <3>1, <3>2, <3>3, Joined
    <3>5. next'[q] = next[q]
      BY <1>5, <1>8, <2>1
    <3>6. QED
      BY <3>4, <3>5
  <2>2. CASE pv \notin S[q] /\ pv # q
    <3>1. t = S[q] /\ next'[q] = next[q] /\ \A x \in S[q] : next'[x] = next[x]
      BY <1>5, <1>8, <1>10, <1>13, <2>2
    <3>2. QED
      BY <1>3, <1>13, <3>1 DEF Threads
  <2>3. QED
    BY <2>1, <2>2
<1>15. pv = q => Threads(t, next[q], q)'
  <2>1. ASSUME pv = q PROVE Threads(t, next[q], q)'
    <3>1. t = u /\ next'[q] = m /\ \A x \in u : next'[x] = next[x]
      BY <1>8, <1>10, <1>13, <2>1
    <3>2. QED
      BY <1>2, <1>3, <3>1 DEF Threads
  <2>2. QED
    BY <2>1
<1>16. QueueOk(T[q], q)'
  <2>1. /\ mem'[q] = "live" /\ t \subseteq Known(q)' /\ \A x \in t : mem'[x] = "live"
    BY <1>2, <1>3, <1>5, <1>9, <1>13
  <2>2. next'[q] \in t => prev'[next'[q]] = q
    <3>1. CASE pv = q
      BY <1>2, <1>3, <1>8, <3>1
    <3>2. CASE pv # q
      <4>1. next'[q] = next[q] /\ next[q] \in S[q] \cup {q}
        BY <1>5, <1>8, <1>13, <3>2 DEF Threads
      <4>2. QED
        BY <1>3, <1>5, <1>13, <4>1
    <3>3. QED
      BY <3>1, <3>2
  <2>3. Doubly(t)'
    <3>1. ASSUME NEW x \in t, next'[x] \in t PROVE prev'[next'[x]] = x
      <4>1. CASE x = pv
        BY <1>2, <1>3, <1>8, <4>1
      <4>2. CASE x \in S[q] /\ x # pv
        <5>1. next'[x] = next[x] /\ next[x] \in S[q]
          BY <1>5, <1>8, <1>13, <3>1, <4>2 DEF Threads
        <5>2. QED
          BY <1>3, <1>13, <4>2, <5>1 DEF Doubly
      <4>3. CASE x \in u /\ x # pv
        <5>1. next'[x] = next[x] /\ next[x] \in u
          BY <1>2, <1>5, <1>8, <1>13, <3>1, <4>3 DEF Threads
        <5>2. QED
          BY <1>2, <1>3, <4>3, <5>1 DEF Doubly
      <4>4. QED
        BY <1>13, <4>1, <4>2, <4>3
    <3>2. QED
      BY <3>1 DEF Doubly
  <2>4. Rear(q)' \in t => next'[Rear(q)'] = q
    BY <1>2, <1>8, <1>9, <1>13
  <2>5. \A x \in Range(taken[q]), y \in t :
          Before(linked[q], x, y) \/ (x = y /\ x \in Copied(q)')
    <3>1. Copied(q) \subseteq Copied(q)'
      BY <1>2, <1>3, <1>4, Basics DEF Copied
    <3>2. \A x \in Range(taken[q]), y \in S[q] :
            Before(linked[q], x, y) \/ (x = y /\ x \in Copied(q)')
      BY <1>5, <3>1 DEF QueueOk
    <3>3. \A x \in Range(taken[q]), y \in u : Before(linked[q], x, y)
      <4>1. \A x, y, z : Before(linked[q], x, y) /\ Before(linked[q], y, z) => Before(linked[q], x, z)
        BY <1>5, Basics, BeforeOrder DEF HistoryOk
      <4>2. QED
        BY <1>2, <1>13, <4>1
    <3>4. QED
      BY <1>13, <3>2, <3>3
  <2>6. (Rear(q) \in Known(q) \cup {q})' /\ mem'[Rear(q)'] = "live" /\ Rear(q)' # q
    BY <1>2, <1>3, <1>5, <1>9 DEF QueueOk
  <2>7. QED
    BY <1>3, <1>12, <1>14, <1>15, <2>1, <2>2, <2>3, <2>4, <2>5, <2>6 DEF QueueOk
<1>17. (RestOk(T, c) /\ CutOk(T, c) /\ JoinOk(T, u, c))'
  BY <1>1, <1>3, <1>4, <1>5, <1>9 DEF RestOk, Astray, CutOk, JoinOk
<1>18. \A d \in Clients \ {c} : (RestOk(T, d) /\ CutOk(T, d) /\ JoinOk(T, u, d))'
  <2>1. ASSUME NEW d \in Clients \ {c}, pc[d] = "link" PROVE Pending(d)' /\ Unknown(d)'
    BY <1>3, <1>4, <2>1, Basics DEF RestOk, Astray, Pending, Unknown
  <2>2. ASSUME NEW d \in Clients \ {c}, pc[d] = "copy"
        PROVE  reg[d].m = Nil \/ (reg[d].m \in T[reg[d].q] /\ next'[reg[d].q] = reg[d].m)
    <3>1. /\ reg[d].m = Nil \/ (reg[d].m \in S[reg[d].q] /\ next[reg[d].q] = reg[d].m)
          /\ reg[d].q \in Queues
      BY <2>2, Basics DEF RestOk, Astray, InQueue, Ops
    <3>2. CASE reg[d].q # q
      BY <1>9, <1>12, <3>1, <3>2
    <3>3. CASE reg[d].q = q /\ reg[d].m # Nil
      <4>1. reg[d].m \in S[q] /\ next[q] = reg[d].m /\ pv # q
        BY <1>2, <2>2, <3>1, <3>3
      <4>2. next'[q] = next[q]
        BY <1>5, <1>8, <4>1
      <4>3. reg[d].m \in t
        BY <1>10, <1>13, <4>1 DEF Threads
      <4>4. QED
        BY <1>12, <3>3, <4>1, <4>2, <4>3
    <3>4. QED
      BY <3>2, <3>3
  <2>3. \A r \in Queues \ Listed : /\ next'[r] = next[r] /\ prev'[r] = prev[r]
                                   /\ mem'[r] = mem[r] /\ linked'[r] = linked[r]
    BY <1>3, <1>5, <1>9
  <2>4. QED
    BY <1>3, <1>4, <1>6, <2>1, <2>2, <2>3, OthersRest
<1>19. HistoryOk'
  BY <1>3, Basics DEF HistoryOk
<1>20. Lists(T, u)'
  BY <1>9, <1>12, <1>16, <1>17, <1>18, <1>19, Basics DEF Lists
<1>21. QED
  BY <1>20

-----------------------------------------------------------------------------
(* A step that changes nothing the lists are about.                        *)
LEMMA UnmovedStep ==
  ASSUME NEW S, NEW u, Lists(S, u),
         UNCHANGED <<pc, reg, next, prev, mem, que_list, qfd, linked, taken>>
  PROVE  Lists(S, u)'
<1>1. Listed' = Listed /\ \A r : QueueOk(S[r], r) => QueueOk(S[r], r)'
  BY DEF Listed, QueueOk, Threads, Doubly, Known, Rear, Appending, Cutting, Copied
<1>2. \A c \in Clients : RestOk(S, c) => RestOk(S, c)'
  BY DEF RestOk, Astray, Listed, Pending, Unknown
<1>3. \A c \in Clients : CutOk(S, c) => CutOk(S, c)'
  BY DEF CutOk, Listed, Known, Rear, Appending, Threads
<1>4. \A c \in Clients : JoinOk(S, u, c) => JoinOk(S, u, c)'
  BY DEF JoinOk, Listed, Known, Rear, Appending, Threads, Pending, Unknown, Doubly
<1>5. HandlerOk' /\ Apart' /\ HistoryOk'
  <2>1. HandlerOk /\ Apart /\ HistoryOk
    BY DEF Lists
  <2>2. HandlerOk'
    BY <2>1 DEF HandlerOk, Listed, Known, Appending, Pending, Unknown
  <2>3. Apart'
    BY <2>1 DEF Apart
  <2>4. HistoryOk'
    BY <2>1 DEF HistoryOk
  <2>5. QED
    BY <2>2, <2>3, <2>4
<1>6. QED
  BY <1>1, <1>2, <1>3, <1>4, <1>5 DEF Lists

(* The next queue of the list.                                             *)
LEMMA FollowingListed ==
  ASSUME que_list \in Seq(Queues), NEW q \in Listed \cup {Nil}, Following(q) # Nil
  PROVE  Following(q) \in Listed
<1> DEFINE i == IF q = Nil THEN 0 ELSE Place(q)
<1>1. i \in 0 .. Len(que_list)
  <2>1. q # Nil => Place(q) \in DOMAIN que_list
    BY DEF Place, Listed, Range
  <2>2. QED
    BY <2>1
<1>2. Following(q) = IF i = Len(que_list) THEN Nil ELSE que_list[i + 1]
  BY DEF Following
<1> HIDE DEF i
<1>3. i # Len(que_list) /\ i + 1 \in DOMAIN que_list
  BY <1>1, <1>2
<1>4. QED
  BY <1>2, <1>3 DEF Listed, Range

(* Steps of the handler, and of the sensor, that write no pointer.         *)
LEMMA HandlerSteps ==
  ASSUME Typed, Orderly, NEW S \in [Queues -> SUBSET Msgs], NEW u \in SUBSET Msgs, Lists(S, u),
         \/ IsrStart \/ IsrAgain \/ IsrEach \/ IsrWake \/ RequestIrq \/ RequestFails \/ Exit
         \/ Link(Isr) \/ SizeLoad(Isr) \/ SizeStore(Isr)
  PROVE  Lists(S, u)'
<1> USE DEF At, GoOn, Goto, heap, queues, history
<1>1. Isr \in Contexts /\ (reg[Isr].q \in Listed => reg[Isr].q \in Queues)
  BY Basics
<1>2. CASE IsrStart \/ IsrAgain \/ IsrWake \/ RequestIrq \/ RequestFails \/ Exit
  <2>1. /\ UNCHANGED <<next, prev, mem, que_list, qfd, linked, taken>>
        /\ \A d \in Contexts \ {Isr} : pc'[d] = pc[d] /\ reg'[d] = reg[d]
        /\ pc[Isr] \in {"idle", "again", "each", "off", "deaf"}
        /\ pc'[Isr] \in {"idle", "again", "each", "gone", "deaf"}
    BY <1>2, Basics DEF IsrStart, IsrAgain, IsrWake, RequestIrq, RequestFails, Exit
  <2>2. pc'[Isr] = "each" => reg'[Isr].q = Nil
    BY <1>2, Basics DEF IsrStart, IsrAgain, IsrWake, RequestIrq, RequestFails, Exit, Handler, Blank
  <2>3. HandlerOk'
    BY <2>1, <2>2 DEF HandlerOk
  <2>4. QED
    BY <2>1, <2>3, Basics, UntouchedStep DEF Untouched, Untouching
<1>3. CASE IsrEach
  <2>1. PICK q, m : q = Following(reg[Isr].q) /\ m = Kmalloc(Msgs)
    OBVIOUS
  <2>2. /\ m \in Msgs /\ mem[m] = "fresh" /\ q # Nil
        /\ mem' = [mem EXCEPT ![m] = "live"]
        /\ reg' = [reg EXCEPT ![Isr].op = "isr", ![Isr].q = q, ![Isr].m = m]
        /\ pc[Isr] = "each" /\ pc' = [pc EXCEPT ![Isr] = "link"]
        /\ UNCHANGED <<next, prev, que_list, qfd, linked, taken>>
    BY <1>3, <2>1, KmallocType DEF IsrEach
  <2>3. /\ reg'[Isr].q = q /\ reg'[Isr].m = m /\ pc'[Isr] = "link" /\ Listed' = Listed
        /\ \A d \in Contexts \ {Isr} : pc'[d] = pc[d] /\ reg'[d] = reg[d]
    BY <2>2, Basics DEF Locals, Listed
  <2>4. q \in Listed
    BY <2>1, <2>2, Basics, FollowingListed DEF HandlerOk
  <2>5. Untouched(Isr) /\ Untouching(Isr)
    BY <2>2, <2>3, Basics DEF Untouched, Untouching
  <2>6. (Pending(Isr) /\ Unknown(Isr))'
    BY <2>2, <2>3, Basics DEF Pending, Unknown, HistoryOk
  <2>7. HandlerOk'
    BY <2>3, <2>4, <2>6 DEF HandlerOk
  <2>8. QED
    BY <2>5, <2>7, Basics, UntouchedStep
<1>4. CASE Link(Isr) \/ SizeLoad(Isr) \/ SizeStore(Isr)
  <2>1. /\ UNCHANGED <<next, prev, mem, que_list, qfd, linked, taken>>
        /\ \A d \in Contexts \ {Isr} : pc'[d] = pc[d] /\ reg'[d] = reg[d]
        /\ pc[Isr] \in {"link", "size", "store"}
        /\ pc'[Isr] \in {"linkHead", "store", "each"}
        /\ pc'[Isr] = "linkHead" => pc[Isr] = "link"
    <3>1. CASE Link(Isr)
      BY <3>1, Basics DEF Link
    <3>2. CASE SizeLoad(Isr) \/ SizeStore(Isr)
      BY <3>2, Basics DEF SizeLoad, SizeStore
    <3>3. QED
      BY <1>4, <3>1, <3>2
  <2>2. /\ reg'[Isr].q = reg[Isr].q /\ reg'[Isr].m = reg[Isr].m
        /\ pc'[Isr] = "linkHead" => reg'[Isr].pv = prev[reg[Isr].q]
    <3>1. CASE Link(Isr)
      BY <3>1, Basics DEF Link, Locals
    <3>2. CASE SizeLoad(Isr)
      BY <3>2, Basics DEF SizeLoad, Locals
    <3>3. CASE SizeStore(Isr)
      BY <3>3, Basics DEF SizeStore
    <3>4. QED
      BY <1>4, <3>1, <3>2, <3>3
  <2>3. Untouched(Isr) /\ Untouching(Isr)
    BY <2>1, <2>2, Basics DEF Untouched, Untouching
  <2>4. HandlerOk'
    BY <2>1, <2>2, Basics DEF HandlerOk, Listed, Pending, Unknown
  <2>5. QED
    BY <2>3, <2>4, Basics, UntouchedStep
<1>5. QED
  BY <1>2, <1>3, <1>4

(* Loading: no queue is listed, and nobody is at work.                     *)
LEMMA LoadStep ==
  ASSUME OneAtATime, Typed, Orderly, NEW S \in [Queues -> SUBSET Msgs], NEW u \in SUBSET Msgs,
         Lists(S, u), Load \/ Setup
  PROVE  Lists(S, u)'
<1>1. /\ UNCHANGED <<mem, linked, taken, reg>> /\ que_list' = <<>>
      /\ \A c \in Clients : pc'[c] = "idle"
      /\ pc'[Isr] \in {"added", "off"}
  <2>1. Setup => pc[Isr] = "added" /\ \A c \in Clients : pc[c] = "idle"
    BY Basics DEF Setup, OneAtATime, LockInv, NotYet
  <2>2. QED
    BY <2>1, Basics DEF Load, Setup, heap, history
<1>2. Listed' = {}
  BY <1>1 DEF Listed, Range
<1>3. \A c \in Clients : (RestOk(S, c) /\ CutOk(S, c) /\ JoinOk(S, u, c))'
  BY <1>1 DEF RestOk, Astray, CutOk, JoinOk, InQueue, Midway
<1>4. HandlerOk'
  BY <1>1 DEF HandlerOk
<1>5. Apart'
  BY <1>1 DEF Apart, Contexts
<1>6. HistoryOk'
  BY <1>1, Basics DEF HistoryOk
<1>7. QED
  BY <1>2, <1>3, <1>4, <1>5, <1>6 DEF Lists

(* A client whose queue a step of the handler leaves alone.                *)
LEMMA ClientKept ==
  ASSUME Typed, Orderly, NEW S \in [Queues -> SUBSET Msgs], NEW u \in SUBSET Msgs, Lists(S, u),
         UNCHANGED <<que_list, qfd, mem, taken>>,
         \A d \in Clients : pc'[d] = pc[d] /\ reg'[d] = reg[d],
         NEW c \in Clients, NEW q, q = reg[c].q,
         q \in Queues =>
           /\ next'[q] = next[q] /\ Known(q)' = Known(q) /\ Rear(q)' = Rear(q)
           /\ \A x \in Known(q) : next'[x] = next[x] /\ prev'[x] = prev[x]
           /\ \A x, y \in Known(q) : Before(linked'[q], x, y) <=> Before(linked[q], x, y)
           /\ q \notin Listed => prev'[q] = prev[q] /\ linked'[q] = linked[q],
         pc[c] \in {"link", "linkHead"} => Unknown(c)',
         NEW T, T[q] = S[q], NEW v, pc[c] = "linkPrev" => v = u
  PROVE  (RestOk(T, c) /\ CutOk(T, c) /\ JoinOk(T, v, c))'
<1>0. Listed' = Listed /\ Listed \subseteq Queues
  BY Basics DEF Listed
<1>1. PICK m : q = reg[c].q /\ m = reg[c].m
  OBVIOUS
<1>2. /\ pc'[c] = pc[c] /\ reg'[c] = reg[c]
      /\ RestOk(S, c) /\ CutOk(S, c) /\ JoinOk(S, u, c)
  BY Basics
<1>3. pc[c] \in InQueue /\ reg[c].op # "close" => (q \in Listed /\ q \in Queues) \/ Astray(c)
  BY <1>0, <1>1, <1>2 DEF RestOk
<1>4. q \in Listed => S[q] \subseteq Known(q)
  BY Basics DEF QueueOk
<1>5. RestOk(T, c)'
  <2>1. pc[c] = "link" => (Pending(c) /\ Unknown(c))'
    BY <1>2 DEF RestOk, Astray, Pending
  <2>2. pc[c] = "copy" => m = Nil \/ (m \in S[q] /\ next'[q] = m)
    BY <1>1, <1>2, <1>3, Basics DEF RestOk, Astray, InQueue, Ops
  <2>3. pc[c] = "create" => (/\ q \in Queues \ Listed /\ mem[q] = "live"
                             /\ next[q] = q /\ prev[q] = q /\ linked[q] = <<>>)'
    BY <1>0, <1>1, <1>2 DEF RestOk, Astray
  <2>4. QED
    BY <1>0, <1>1, <1>2, <2>1, <2>2, <2>3 DEF RestOk, Astray
<1>6. CutOk(T, c)'
  <2>1. CASE pc[c] \in {"del", "delNext", "delPrev"}
    <3>1. q \in Listed /\ q \in Queues /\ S[q] \subseteq Known(q)
      BY <1>3, <1>4, <2>1, Basics DEF InQueue, Midway, Phases, Astray
    <3>2. \A x \in S[q] : next'[x] = next[x] /\ prev'[x] = prev[x]
      BY <3>1
    <3>3. next'[q] = next[q] /\ Known(q)' = Known(q) /\ Rear(q)' = Rear(q) /\ mem' = mem
      BY <3>1
    <3>4. QED
      BY <1>1, <1>2, <2>1, <3>2, <3>3 DEF CutOk
  <2>2. CASE pc[c] = "loop" /\ reg[c].op = "flush"
    BY <1>1, <1>2, <1>3, <2>2 DEF CutOk, InQueue, Midway, Astray
  <2>3. CASE pc[c] = "loop" /\ reg[c].op = "close"
    <3>1. /\ q \in Queues \ Listed /\ mem[q] = "live"
          /\ S[q] \subseteq Known(q) /\ \A x \in S[q] : mem[x] = "live"
          /\ Threads(S[q], reg[c].n, q)
      BY <1>1, <1>2, <2>3 DEF CutOk
    <3>2. Threads(S[q], reg[c].n, q)'
      BY <1>2, <3>1 DEF Threads
    <3>3. QED
      BY <1>0, <1>1, <1>2, <2>3, <3>1, <3>2 DEF CutOk
  <2>4. QED
    BY <1>2, <2>1, <2>2, <2>3, Basics DEF CutOk, Phases
<1>7. CASE pc[c] \in {"linkHead", "linkNew", "linkPrev"}
  <2>1. q \in Listed /\ q \in Queues /\ S[q] \subseteq Known(q)
    BY <1>3, <1>4, <1>7, Basics DEF InQueue, Midway, Ops, Astray
  <2>2. Known(q)' = Known(q) /\ Rear(q)' = Rear(q) /\ Range(taken[q]) \subseteq Known(q)
    BY <2>1, Basics, TakenKnown
  <2>3. pc[c] = "linkHead" => (Pending(c) /\ Unknown(c))'
    BY <1>2 DEF JoinOk, Pending
  <2>4. pc[c] \in {"linkNew", "linkPrev"} => Pending(c)'
    BY <1>2 DEF JoinOk, Pending
  <2>5. /\ reg[c].pv \in Known(q) \cup {q} /\ mem[reg[c].pv] = "live"
        /\ reg[c].pv = q => \A d \in Clients : pc'[d] = "copy" /\ reg'[d].q = q => reg'[d].m = Nil
    BY <1>1, <1>2, <1>7 DEF JoinOk
  <2>6. pc[c] \in {"linkNew", "linkPrev"} =>
          /\ m \in Known(q) \ S[q] /\ (reg[c].pv = q \/ Before(linked'[q], reg[c].pv, m))
          /\ Rear(q) \notin S[q] \cup {q}
          /\ \A y \in S[q] \cup Range(taken[q]) : Before(linked'[q], y, m)
    <3>1. SUFFICES ASSUME pc[c] \in {"linkNew", "linkPrev"}
                   PROVE  /\ m \in Known(q) \ S[q]
                          /\ (reg[c].pv = q \/ Before(linked'[q], reg[c].pv, m))
                          /\ Rear(q) \notin S[q] \cup {q}
                          /\ \A y \in S[q] \cup Range(taken[q]) : Before(linked'[q], y, m)
      OBVIOUS
    <3>2. /\ m \in Known(q) \ S[q] /\ (reg[c].pv = q \/ Before(linked[q], reg[c].pv, m))
          /\ Rear(q) \notin S[q] \cup {q}
          /\ \A y \in S[q] \cup Range(taken[q]) : Before(linked[q], y, m)
      BY <1>1, <1>2, <3>1 DEF JoinOk
    <3>3. QED
      BY <2>1, <2>2, <2>5, <3>2
  <2>7. pc[c] = "linkPrev" =>
          /\ m \in u /\ u \subseteq Known(q) \ S[q] /\ \A x \in u : mem[x] = "live"
          /\ Threads(u, m, q)' /\ prev'[m] = reg[c].pv /\ Doubly(u)'
          /\ Rear(q) \in u => next'[Rear(q)] = q
    <3>1. SUFFICES ASSUME pc[c] = "linkPrev"
                   PROVE  /\ m \in u /\ u \subseteq Known(q) \ S[q] /\ \A x \in u : mem[x] = "live"
                          /\ Threads(u, m, q)' /\ prev'[m] = reg[c].pv /\ Doubly(u)'
                          /\ Rear(q) \in u => next'[Rear(q)] = q
      OBVIOUS
    <3>2. /\ m \in u /\ u \subseteq Known(q) \ S[q] /\ \A x \in u : mem[x] = "live"
          /\ Threads(u, m, q) /\ prev[m] = reg[c].pv /\ Doubly(u)
          /\ Rear(q) \in u => next[Rear(q)] = q
      BY <1>1, <1>2, <3>1 DEF JoinOk
    <3>3. \A x \in u : next'[x] = next[x] /\ prev'[x] = prev[x]
      BY <2>1, <3>2
    <3>4. Threads(u, m, q)'
      <4>1. \A x, y \in u : Before(linked'[q], x, y) <=> Before(linked[q], x, y)
        BY <2>1, <3>2
      <4>2. Threads(u, reg[c].m, q)'
        BY <1>1, <1>2, <3>2, <3>3, <4>1 DEF Threads
      <4>3. QED
        BY <1>1, <1>2, <4>2 DEF Threads
    <3>5. Doubly(u)'
      BY <3>2, <3>3 DEF Doubly
    <3>6. QED
      BY <3>2, <3>3, <3>4, <3>5
  <2>8. JoinOk(T, v, c)'
    <3>1. pc[c] = "linkPrev" => Threads(u, reg[c].m, q)'
      BY <1>1, <1>2, <2>7 DEF Threads
    <3>2. QED
      BY <1>1, <1>2, <1>7, <2>2, <2>3, <2>4, <2>5, <2>6, <2>7, <3>1 DEF JoinOk
  <2>9. QED
    BY <1>5, <1>6, <2>8
<1>8. CASE pc[c] \notin {"linkHead", "linkNew", "linkPrev"}
  BY <1>2, <1>5, <1>6, <1>8 DEF JoinOk
<1>9. QED
  BY <1>7, <1>8

(* The first stores of the handler's list_add_tail touch nothing that is   *)
(* known to be in a list, wherever the clients are.                        *)
LEMMA HandlerFrame ==
  ASSUME Typed, Orderly, NEW S \in [Queues -> SUBSET Msgs], NEW u \in SUBSET Msgs, Lists(S, u),
         UNCHANGED <<que_list, qfd, mem, taken>>,
         \A d \in Clients : pc'[d] = pc[d] /\ reg'[d] = reg[d],
         \A r \in Queues :
           /\ next'[r] = next[r] /\ Known(r)' = Known(r) /\ Rear(r)' = Rear(r)
           /\ \A x \in Known(r) : next'[x] = next[x] /\ prev'[x] = prev[x]
           /\ \A x, y \in Known(r) : Before(linked'[r], x, y) <=> Before(linked[r], x, y),
         \A r \in Queues \ Listed : prev'[r] = prev[r] /\ linked'[r] = linked[r],
         \A d \in Clients : pc[d] \in {"link", "linkHead"} => Unknown(d)'
  PROVE  /\ Listed' = Listed /\ \A q \in Listed : QueueOk(S[q], q)'
         /\ \A c \in Clients : (RestOk(S, c) /\ CutOk(S, c) /\ JoinOk(S, u, c))'
<1>1. Listed' = Listed /\ Listed \subseteq Queues
  BY Basics DEF Listed
<1>2. ASSUME NEW q \in Listed PROVE QueueOk(S[q], q)'
  <2>1. QueueOk(S[q], q) /\ q \in Queues /\ Range(taken[q]) \subseteq Known(q)
    BY Basics, TakenKnown
  <2>2. Cutting(q)' = Cutting(q) /\ Copied(q)' = Copied(q)
    BY DEF Cutting, Copied
  <2>3. QED
    BY <2>1, <2>2, QueueKept
<1>3. ASSUME NEW c \in Clients PROVE (RestOk(S, c) /\ CutOk(S, c) /\ JoinOk(S, u, c))'
  <2>1. PICK q : q = reg[c].q
    OBVIOUS
  <2>2. q \in Queues =>
          /\ next'[q] = next[q] /\ Known(q)' = Known(q) /\ Rear(q)' = Rear(q)
          /\ \A x \in Known(q) : next'[x] = next[x] /\ prev'[x] = prev[x]
          /\ \A x, y \in Known(q) : Before(linked'[q], x, y) <=> Before(linked[q], x, y)
          /\ q \notin Listed => prev'[q] = prev[q] /\ linked'[q] = linked[q]
    OBVIOUS
  <2>3. QED
    BY <2>1, <2>2, ClientKept
<1>4. QED
  BY <1>1, <1>2, <1>3

(* The handler's first store: the queue ends in a message that is not in it.*)
LEMMA HandlerLinkHeadStep ==
  ASSUME Typed, Orderly, NEW S \in [Queues -> SUBSET Msgs], NEW u \in SUBSET Msgs, Lists(S, u),
         LinkHead(Isr)
  PROVE  Lists(S, u)'
<1>1. PICK q, m : q = reg[Isr].q /\ m = reg[Isr].m
  OBVIOUS
<1>2. /\ pc[Isr] = "linkHead" /\ pc' = [pc EXCEPT ![Isr] = "linkNew"]
      /\ UNCHANGED <<next, mem, que_list, qfd, reg, taken>>
      /\ prev' = [prev EXCEPT ![q] = m] /\ linked' = [linked EXCEPT ![q] = Append(@, m)]
  BY <1>1 DEF LinkHead, At, GoOn, Goto, queues
<1>3. /\ pc'[Isr] = "linkNew" /\ \A d \in Clients : pc'[d] = pc[d] /\ reg'[d] = reg[d]
  BY <1>2, Basics
<1>4. /\ q \in Listed /\ q \in Queues /\ mem[q] = "live" /\ m \in Msgs /\ mem[m] = "live"
      /\ \A r \in Queues : m \notin Range(linked[r])
      /\ reg[Isr].pv = prev[q]
  BY <1>1, <1>2, Basics DEF HandlerOk, Pending, Unknown
<1>5. prev'[q] = m /\ \A x \in Node : x # q => prev'[x] = prev[x]
  BY <1>2, <1>4, Basics
<1>6. /\ HistoryOk'
      /\ Range(linked'[q]) = Range(linked[q]) \cup {m}
      /\ \A r \in Queues : r # q => linked'[r] = linked[r]
      /\ \A x \in Range(linked[q]) : Before(linked'[q], x, m)
      /\ \A x, y \in Range(linked[q]) : Before(linked'[q], x, y) <=> Before(linked[q], x, y)
  BY <1>2, <1>4, Basics, HistoryAppend
<1>7. /\ \A r : ~Appending(r) /\ Known(r) = Range(linked[r]) /\ Rear(r) = prev[r]
      /\ \A r \in Queues : Appending(r)' <=> r = q
  BY <1>1, <1>2, <1>3 DEF Appending, Known, Rear
<1>8. Known(q)' = Known(q) /\ Rear(q)' = Rear(q)
  BY <1>1, <1>2, <1>4, <1>6, <1>7 DEF Known, Rear
<1>9. \A r \in Queues \ {q} : Known(r)' = Known(r) /\ Rear(r)' = Rear(r)
  BY <1>5, <1>6, <1>7, Basics DEF Known, Rear
<1>10. \A d \in Clients : pc[d] \in {"link", "linkHead"} => Unknown(d)'
  <2>1. ASSUME NEW d \in Clients, pc[d] \in {"link", "linkHead"} PROVE Unknown(d)'
    <3>1. Unknown(d)
      BY <2>1, Basics DEF RestOk, Astray, JoinOk
    <3>2. reg[d].m # m
      BY <1>1, <1>2, <2>1, Basics DEF Apart
    <3>3. \A r \in Queues : Range(linked'[r]) \subseteq Range(linked[r]) \cup {m}
      BY <1>6
    <3>4. QED
      BY <1>2, <3>1, <3>2, <3>3 DEF Unknown
  <2>2. QED
    BY <2>1
<1>11. \A r \in Queues :
         /\ next'[r] = next[r] /\ Known(r)' = Known(r) /\ Rear(r)' = Rear(r)
         /\ \A x \in Known(r) : next'[x] = next[x] /\ prev'[x] = prev[x]
         /\ \A x, y \in Known(r) : Before(linked'[r], x, y) <=> Before(linked[r], x, y)
  <2>1. \A r \in Queues : \A x \in Known(r) : x \in Node /\ x # q
    BY <1>4, <1>7, Basics DEF HistoryOk
  <2>2. QED
    BY <1>2, <1>5, <1>6, <1>7, <1>8, <1>9, <2>1
<1>12. \A r \in Queues \ Listed : prev'[r] = prev[r] /\ linked'[r] = linked[r]
  BY <1>4, <1>5, <1>6, Basics
<1>13. /\ Listed' = Listed /\ \A r \in Listed : QueueOk(S[r], r)'
       /\ \A c \in Clients : (RestOk(S, c) /\ CutOk(S, c) /\ JoinOk(S, u, c))'
  BY <1>2, <1>3, <1>10, <1>11, <1>12, HandlerFrame
<1>14. HandlerOk'
  <2>1. m \notin Range(taken[q])
    BY <1>4, Basics DEF HistoryOk
  <2>2. QED
    BY <1>1, <1>2, <1>3, <1>4, <1>5, <1>6, <1>7, <1>8, <1>13, <2>1 DEF HandlerOk, Pending
<1>15. Apart'
  BY <1>2, Basics DEF Apart
<1>16. QED
  BY <1>6, <1>13, <1>14, <1>15 DEF Lists

(* Its second store gives that message its pointers.                       *)
LEMMA HandlerLinkNewStep ==
  ASSUME Typed, Orderly, NEW S \in [Queues -> SUBSET Msgs], NEW u \in SUBSET Msgs, Lists(S, u),
         LinkNew(Isr)
  PROVE  Lists(S, u)'
<1>1. PICK q, m, pv : q = reg[Isr].q /\ m = reg[Isr].m /\ pv = reg[Isr].pv
  OBVIOUS
<1>2. /\ pc[Isr] = "linkNew" /\ pc' = [pc EXCEPT ![Isr] = "linkPrev"]
      /\ UNCHANGED <<mem, que_list, qfd, reg, linked, taken>>
      /\ next' = [next EXCEPT ![m] = q] /\ prev' = [prev EXCEPT ![m] = pv]
  BY <1>1 DEF LinkNew, At, GoOn, Goto, queues, history
<1>3. /\ pc'[Isr] = "linkPrev" /\ \A d \in Clients : pc'[d] = pc[d] /\ reg'[d] = reg[d]
  BY <1>2, Basics
<1>4. /\ q \in Listed /\ q \in Queues /\ m \in Msgs /\ mem[m] = "live"
      /\ prev[q] = m /\ m \in Range(linked[q]) \ Range(taken[q])
      /\ \A x \in Known(q) : Before(linked[q], x, m)
  BY <1>1, <1>2, Basics DEF HandlerOk, Pending
<1>5. /\ next'[m] = q /\ prev'[m] = pv
      /\ \A x \in Node : x # m => next'[x] = next[x] /\ prev'[x] = prev[x]
  BY <1>2, <1>4, Basics
<1>6. \A r \in Queues : r # m /\ r \in Node
  BY <1>4, Basics
<1>7. \A r \in Queues : (Appending(r) <=> r = q) /\ (Appending(r)' <=> r = q)
  BY <1>1, <1>2, <1>3 DEF Appending
<1>8. \A r \in Queues : Known(r)' = Known(r) /\ Rear(r)' = Rear(r)
  BY <1>2, <1>5, <1>6, <1>7 DEF Known, Rear
<1>9. \A r \in Queues : m \notin Known(r) /\ Known(r) \subseteq Node
  <2>1. m \notin Known(q)
    BY <1>1, <1>4, <1>7 DEF Known
  <2>2. \A r \in Queues : Known(r) \subseteq Range(linked[r])
    BY DEF Known
  <2>3. QED
    BY <1>4, <2>1, <2>2, Basics DEF HistoryOk
<1>10. \A r \in Queues :
         /\ next'[r] = next[r] /\ Known(r)' = Known(r) /\ Rear(r)' = Rear(r)
         /\ \A x \in Known(r) : next'[x] = next[x] /\ prev'[x] = prev[x]
         /\ \A x, y \in Known(r) : Before(linked'[r], x, y) <=> Before(linked[r], x, y)
  BY <1>2, <1>5, <1>6, <1>8, <1>9
<1>11. \A r \in Queues \ Listed : prev'[r] = prev[r] /\ linked'[r] = linked[r]
  BY <1>2, <1>5, <1>6
<1>12. \A d \in Clients : pc[d] \in {"link", "linkHead"} => Unknown(d)'
  BY <1>2, <1>3, Basics DEF RestOk, Astray, JoinOk, Unknown
<1>13. /\ Listed' = Listed /\ \A r \in Listed : QueueOk(S[r], r)'
       /\ \A c \in Clients : (RestOk(S, c) /\ CutOk(S, c) /\ JoinOk(S, u, c))'
  BY <1>2, <1>3, <1>10, <1>11, <1>12, HandlerFrame
<1>14. HandlerOk'
  BY <1>1, <1>2, <1>3, <1>4, <1>5, <1>6, <1>8, <1>13, Basics DEF HandlerOk, Pending
<1>15. Apart'
  BY <1>2, Basics DEF Apart
<1>16. HistoryOk'
  BY <1>2, Basics DEF HistoryOk
<1>17. QED
  BY <1>13, <1>14, <1>15, <1>16 DEF Lists

(* A list with one more message behind its last.                           *)
LEMMA Extended ==
  ASSUME NEW q, NEW s, NEW hd, NEW m, NEW last \in s, Threads(s, hd, q), next[last] = q,
         q \notin s, m # q, m \notin s, next[m] = q,
         linked[q] \in Seq(Node), Distinct(linked[q]), s \cup {m} \subseteq Range(linked[q]),
         \A y \in s : Before(linked[q], y, m),
         next'[last] = m, \A x \in s \cup {m} : x # last => next'[x] = next[x],
         linked'[q] = linked[q]
  PROVE  Threads(s \cup {m}, hd, q)'
<1>1. /\ \A x, y : Before(linked[q], x, y) => x # y
      /\ \A x, y \in Range(linked[q]) :
           x = y \/ Before(linked[q], x, y) \/ Before(linked[q], y, x)
  BY BeforeOrder
<1>2. \A y \in s : y = last \/ Before(linked[q], y, last)
  BY <1>1 DEF Threads
<1>3. PICK t : t = {y \in s : y = last \/ Before(linked[q], y, last)} \cup {m}
  OBVIOUS
<1>4. t = s \cup {m}
  BY <1>2, <1>3
<1>5. Threads({m}, m, q)
  BY <1>1 DEF Threads
<1>6. Threads(t, hd, q)'
  <2>1. PICK v : v = {m}
    OBVIOUS
  <2>2. m \in v /\ Threads(v, m, q) /\ s \cap v = {} /\ q \notin s \cup v
        /\ s \cup v \subseteq Range(linked[q])
        /\ t = {y \in s : y = last \/ Before(linked[q], y, last)} \cup v
        /\ \A x \in s \cup v : x # last => next'[x] = next[x]
    BY <1>3, <1>5, <2>1
  <2>3. QED
    BY <2>2, Joined
<1>7. QED
  BY <1>4, <1>6

(* While the handler runs.                                                 *)
LEMMA WhileHandling ==
  ASSUME OneAtATime, Typed, Orderly, pc[Isr] \notin {"gone", "added", "off", "deaf", "idle"},
         NEW c \in Clients, NEW d \in Clients, c # d, pc[c] \in Midway
  PROVE  /\ pc[d] \notin Midway
         /\ pc[c] \in {"del", "delNext", "delPrev"} => pc[d] # "copy"
<1>1. /\ reg \in [Contexts -> Locals] /\ Clients \subseteq Contexts
      /\ Ops /\ Phases /\ Processor /\ Handler
  BY DEF Typed, TypeOK, ContextType, Contexts, Orderly, LockInv
<1>2. ~SMP
  BY <1>1 DEF OneAtATime, Handler, Midway
<1>3. pc[d] \notin Midway
  BY <1>1, <1>2, PirNames DEF Processor, Midway
<1>4. ASSUME pc[c] \in {"del", "delNext", "delPrev"}, pc[d] = "copy" PROVE FALSE
  <2>1. PICK o \in Clients : \A e \in Clients \ {o} :
          Calls[e] \subseteq {"create"} \cup (IF "close" \in Calls[o] THEN {} ELSE {"write"})
    BY <1>2 DEF OneAtATime
  <2>2. reg[c].op \in {"read", "flush"} /\ reg[d].op = "read"
    BY <1>1, <1>4 DEF Phases, Ops
  <2>3. reg[c].op \in Calls[c] /\ reg[d].op \in Calls[d]
    BY <1>1, <2>2 DEF Phases
  <2>4. c = o \/ d = o
    BY <2>1, <2>2, <2>3
  <2>5. QED
    BY <2>1, <2>2, <2>3, <2>4
<1>5. QED
  BY <1>3, <1>4

(* The last store of the handler's list_add_tail: the message hangs on     *)
(* whatever was the rear when the handler looked, on the list, on what     *)
(* another client has yet to append, or on a message that was removed.     *)
LEMMA HandlerLinkPrevStep ==
  ASSUME OneAtATime, Typed, Orderly, NEW S \in [Queues -> SUBSET Msgs], NEW u \in SUBSET Msgs,
         Lists(S, u), LinkPrev(Isr)
  PROVE  \E T \in [Queues -> SUBSET Msgs], v \in SUBSET Msgs : Lists(T, v)'
<1>1. PICK q, m, pv : q = reg[Isr].q /\ m = reg[Isr].m /\ pv = reg[Isr].pv
  OBVIOUS
<1>2. /\ pc[Isr] = "linkPrev" /\ pc' = [pc EXCEPT ![Isr] = "size"]
      /\ UNCHANGED <<prev, mem, que_list, qfd, reg, linked, taken>>
      /\ next' = [next EXCEPT ![pv] = m]
  BY <1>1 DEF LinkPrev, At, GoOn, Goto, queues, history
<1>3. /\ pc'[Isr] = "size" /\ \A d \in Clients : pc'[d] = pc[d] /\ reg'[d] = reg[d]
      /\ Listed' = Listed
  BY <1>2, Basics DEF Listed
<1>4. /\ q \in Listed /\ q \in Queues /\ m \in Msgs /\ mem[m] = "live" /\ m # q /\ q \in Node
      /\ prev[q] = m /\ m \in Range(linked[q]) \ Range(taken[q])
      /\ \A x \in Known(q) : Before(linked[q], x, m)
      /\ next[m] = q /\ prev[m] = pv
  BY <1>1, <1>2, Basics DEF HandlerOk, Pending
<1>5. \A r \in Queues : (Appending(r) <=> r = q) /\ ~Appending(r)'
  BY <1>1, <1>2, <1>3 DEF Appending
<1>6. /\ Rear(q) = pv /\ Rear(q)' = m
      /\ Known(q)' = Known(q) \cup {m} /\ m \notin Known(q)
      /\ \A r \in Queues \ {q} : Known(r)' = Known(r) /\ Rear(r)' = Rear(r)
  BY <1>1, <1>2, <1>4, <1>5 DEF Known, Rear
<1>7. /\ QueueOk(S[q], q) /\ pv \in Known(q) \cup {q} /\ mem[pv] = "live"
      /\ pv \in S[q] => next[pv] = q
  <2>1. QueueOk(S[q], q)
    BY <1>4, Basics
  <2>2. QED
    BY <1>6, <2>1 DEF QueueOk
<1>8. /\ \A r \in Queues : Known(r) \subseteq Msgs /\ Range(taken[r]) \subseteq Known(r)
      /\ \A r \in Queues \ {q} : Known(r) \cap Known(q) = {}
  <2>1. \A r \in Queues : Known(r) \subseteq Msgs /\ Range(taken[r]) \subseteq Known(r)
    BY Basics, TakenKnown
  <2>2. \A r \in Queues : Known(r) \subseteq Range(linked[r])
    BY DEF Known
  <2>3. QED
    BY <1>4, <2>1, <2>2, Basics DEF HistoryOk
<1>9. pv # m /\ next'[pv] = m /\ \A x \in Node : x # pv => next'[x] = next[x]
  BY <1>2, <1>4, <1>6, <1>7, <1>8, Basics
<1>10. \A r \in Queues \ {q} :
         next'[r] = next[r] /\ \A x \in Known(r) : next'[x] = next[x] /\ prev'[x] = prev[x]
  BY <1>2, <1>4, <1>7, <1>8, <1>9, Basics
<1>11. PICK t \in SUBSET Msgs :
         t = IF pv = q THEN {m} ELSE IF pv \in S[q] THEN S[q] \cup {m} ELSE S[q]
  BY <1>4
<1>12. PICK T \in [Queues -> SUBSET Msgs] : T = [S EXCEPT ![q] = t]
  BY <1>4
<1>13. T[q] = t /\ \A r \in Queues : r # q => T[r] = S[r]
  BY <1>4, <1>12
<1>14. PICK v \in SUBSET Msgs : v = IF pv \in u THEN u \cup {m} ELSE u
  BY <1>4
<1>15. /\ S[q] \subseteq Known(q) /\ \A x \in S[q] : mem[x] = "live" /\ x \in Node
       /\ q \notin S[q] /\ m \notin S[q] /\ Threads(S[q], next[q], q)
       /\ (next[q] \in S[q] => prev[next[q]] = q)
       /\ (Cutting(q) \/ Doubly(S[q])) /\ (Cutting(q) \/ (pv = q => S[q] = {}))
       /\ linked[q] \in Seq(Node) /\ Distinct(linked[q]) /\ Known(q) \subseteq Range(linked[q])
  <2>1. /\ S[q] \subseteq Known(q) /\ (\A x \in S[q] : mem[x] = "live")
        /\ Threads(S[q], next[q], q)
        /\ (next[q] \in S[q] => prev[next[q]] = q)
        /\ (Cutting(q) \/ Doubly(S[q])) /\ (Cutting(q) \/ (pv = q => S[q] = {}))
    BY <1>6, <1>7 DEF QueueOk
  <2>2. linked[q] \in Seq(Node) /\ Distinct(linked[q])
    BY <1>4, Basics DEF HistoryOk
  <2>3. Known(q) \subseteq Range(linked[q])
    BY DEF Known
  <2>4. S[q] \subseteq Msgs
    BY <1>4
  <2>5. QED
    BY <1>4, <1>6, <2>1, <2>2, <2>3, <2>4, Basics
<1>16. ASSUME NEW s \in SUBSET Known(q), NEW hd, Threads(s, hd, q), pv \in s, next[pv] = q
       PROVE  Threads(s \cup {m}, hd, q)'
  <2>1. /\ q \notin s /\ m \notin s /\ s \cup {m} \subseteq Range(linked[q])
        /\ \A y \in s : Before(linked[q], y, m)
    BY <1>4, <1>6, <1>8, <1>15, Basics
  <2>2. next'[pv] = m /\ (\A x \in s \cup {m} : x # pv => next'[x] = next[x])
        /\ linked'[q] = linked[q]
    BY <1>2, <1>4, <1>8, <1>9, Basics
  <2>3. QED
    BY <1>4, <1>15, <1>16, <2>1, <2>2, Extended
<1>17. ASSUME NEW s \in SUBSET Known(q), NEW hd, Threads(s, hd, q), pv \notin s
       PROVE  Threads(s, hd, q)'
  <2>1. \A x \in s : next'[x] = next[x]
    BY <1>4, <1>8, <1>9, <1>17, Basics
  <2>2. QED
    BY <1>2, <1>17, <2>1 DEF Threads
<1>18. ASSUME NEW r \in Listed, r # q PROVE QueueOk(T[r], r)'
  <2>1. QueueOk(S[r], r) /\ r \in Queues /\ T[r] = S[r]
    BY <1>13, <1>18, Basics
  <2>2. Cutting(r)' = Cutting(r) /\ Copied(r)' = Copied(r)
    BY <1>3 DEF Cutting, Copied
  <2>3. QueueOk(S[r], r)'
    BY <1>2, <1>6, <1>8, <1>10, <1>18, <2>1, <2>2, QueueKept
  <2>4. QED
    BY <2>1, <2>3
<1>19. QueueOk(t, q)'
  <2>1. Threads(t, next[q], q)'
    <3>1. CASE pv = q
      <4>1. ~Before(linked[q], m, m)
        BY <1>15, BeforeOrder
      <4>2. t = {m} /\ next'[q] = m /\ next'[m] = q
        BY <1>4, <1>9, <1>11, <3>1, Basics
      <4>3. QED
        BY <1>2, <1>4, <4>1, <4>2 DEF Threads
    <3>2. CASE pv # q /\ pv \in S[q]
      <4>1. next'[q] = next[q]
        BY <1>4, <1>9, <3>2
      <4>2. \A hd : hd = next[q] => Threads(S[q] \cup {m}, hd, q)'
        BY <1>7, <1>15, <1>16, <3>2
      <4>3. QED
        BY <1>11, <3>2, <4>1, <4>2
    <3>3. CASE pv # q /\ pv \notin S[q]
      <4>1. next'[q] = next[q]
        BY <1>4, <1>9, <3>3
      <4>2. \A hd : hd = next[q] => Threads(S[q], hd, q)'
        BY <1>15, <1>17, <3>3
      <4>3. QED
        BY <1>11, <3>3, <4>1, <4>2
    <3>4. QED
      BY <3>1, <3>2, <3>3
  <2>2. /\ mem'[q] = "live" /\ t \subseteq Known(q)' /\ \A x \in t : mem'[x] = "live"
    BY <1>2, <1>4, <1>6, <1>7, <1>11, <1>15 DEF QueueOk
  <2>3. next'[q] \in t => prev'[next'[q]] = q
    <3>1. CASE pv = q
      BY <1>2, <1>4, <1>9, <3>1
    <3>2. CASE pv # q
      <4>1. next'[q] = next[q] /\ next[q] \in S[q] \cup {q}
        BY <1>4, <1>9, <1>15, <3>2 DEF Threads
      <4>2. QED
        BY <1>2, <1>4, <1>11, <1>15, <3>2, <4>1
    <3>3. QED
      BY <3>1, <3>2
  <2>4. (Cutting(q) \/ Doubly(t))'
    <3>1. Cutting(q)' = Cutting(q)
      BY <1>3 DEF Cutting
    <3>2. ASSUME Doubly(S[q]), NEW x \in t, next'[x] \in t PROVE prev'[next'[x]] = x
      <4>1. CASE x = pv
        BY <1>2, <1>4, <1>9, <4>1
      <4>2. CASE x = m
        <5>1. next'[x] = q /\ q \notin t
          BY <1>4, <1>9, <1>11, <1>15, <4>2, Basics
        <5>2. QED
          BY <3>2, <5>1
      <4>3. CASE x # pv /\ x # m
        <5>1. x \in S[q] /\ next'[x] = next[x]
          BY <1>9, <1>11, <1>15, <3>2, <4>3
        <5>2. next[x] \in S[q]
          BY <1>4, <1>11, <1>15, <3>2, <5>1 DEF Threads
        <5>3. QED
          BY <1>2, <3>2, <5>1, <5>2 DEF Doubly
      <4>4. QED
        BY <4>1, <4>2, <4>3
    <3>3. QED
      BY <1>15, <3>1, <3>2 DEF Doubly
  <2>5. Rear(q)' \in Known(q)' /\ mem'[Rear(q)'] = "live" /\ Rear(q)' # q /\ next'[Rear(q)'] = q
    BY <1>2, <1>4, <1>6, <1>9, Basics
  <2>6. \A x \in Range(taken[q]), y \in t :
          Before(linked[q], x, y) \/ (x = y /\ x \in Copied(q)')
    <3>1. Copied(q)' = Copied(q)
      BY <1>3 DEF Copied
    <3>2. \A x \in Range(taken[q]), y \in S[q] :
            Before(linked[q], x, y) \/ (x = y /\ x \in Copied(q)')
      BY <1>7, <3>1 DEF QueueOk
    <3>3. \A x \in Range(taken[q]) : Before(linked[q], x, m)
      BY <1>4, <1>8
    <3>4. QED
      BY <1>11, <3>2, <3>3
  <2>7. QED
    BY <1>2, <2>1, <2>2, <2>3, <2>4, <2>5, <2>6 DEF QueueOk
<1>20. ASSUME NEW c \in Clients PROVE (RestOk(T, c) /\ CutOk(T, c) /\ JoinOk(T, v, c))'
  <2>1. PICK p, k : p = reg[c].q /\ k = reg[c].m
    OBVIOUS
  <2>2. /\ pc'[c] = pc[c] /\ reg'[c] = reg[c]
        /\ RestOk(S, c) /\ CutOk(S, c) /\ JoinOk(S, u, c)
    BY <1>3, Basics
  <2>3. pc[c] \in {"link", "linkHead"} => (Pending(c) /\ Unknown(c))'
    BY <1>2, <2>2 DEF RestOk, Astray, JoinOk, Pending, Unknown
  <2>4. CASE p # q
    <3>1. pc[c] = "linkPrev" => v = u
      <4>1. SUFFICES ASSUME pc[c] = "linkPrev" PROVE pv \notin u
        BY <1>14
      <4>2. u \subseteq Known(p) /\ p \in Queues
        <5>1. reg[c].op = "write"
          BY <4>1, Basics DEF Ops
        <5>2. p \in Listed
          BY <2>1, <4>1, <5>1, Placed DEF InQueue, Midway
        <5>3. QED
          BY <2>1, <2>2, <4>1, <5>2, Basics DEF JoinOk
      <4>3. QED
        BY <1>4, <1>7, <1>8, <2>4, <4>2, Basics
    <3>2. p \in Queues =>
                 /\ next'[p] = next[p] /\ Known(p)' = Known(p) /\ Rear(p)' = Rear(p)
                 /\ \A x \in Known(p) : next'[x] = next[x] /\ prev'[x] = prev[x]
                 /\ \A x, y \in Known(p) : Before(linked'[p], x, y) <=> Before(linked[p], x, y)
                 /\ p \notin Listed => prev'[p] = prev[p] /\ linked'[p] = linked[p]
      BY <1>2, <1>6, <1>10, <2>4
    <3>3. CASE p \in Queues
      <4>1. T[p] = S[p] /\ (pc[c] \in {"link", "linkHead"} => Unknown(c)')
            /\ UNCHANGED <<que_list, qfd, mem, taken>>
            /\ \A d \in Clients : pc'[d] = pc[d] /\ reg'[d] = reg[d]
        BY <1>2, <1>3, <1>13, <2>3, <2>4, <3>3
      <4>2. QED
        BY <2>1, <3>1, <3>2, <4>1, ClientKept
    <3>4. CASE p \notin Queues
      <4>1. (pc[c] \in InQueue => Astray(c)) /\ pc[c] # "create"
        <5>1. reg[c].op = "close" => pc[c] \notin InQueue \ {"loop"}
          BY Basics DEF Phases, InQueue, Midway
        <5>2. QED
          BY <2>1, <2>2, <3>4, <5>1, Basics DEF RestOk, CutOk
      <4>2. pc[c] \in {"lock", "get"} /\ reg[c].named = "queue" =>
              \E r \in Listed : qfd[r] = reg[c].fd
        BY <2>2 DEF RestOk
      <4>3. Astray(c)' = Astray(c) /\ (Astray(c) => pc[c] \in {"wait", "check", "link"})
        BY <2>2 DEF Astray
      <4>4. pc[c] \notin Midway \cup {"copy", "create"}
        BY <4>1, <4>3 DEF InQueue, Midway
      <4>5. QED
        BY <1>2, <1>3, <2>2, <2>3, <4>1, <4>2, <4>3, <4>4 DEF RestOk, CutOk, JoinOk, Midway
    <3>5. QED
      BY <3>3, <3>4
  <2>5. CASE p = q
    <3>1. RestOk(T, c)'
      <4>1. ASSUME pc[c] = "copy", k # Nil PROVE k \in t /\ next'[q] = k
        <5>1. k \in S[q] /\ next[q] = k
          BY <2>1, <2>2, <2>5, <4>1 DEF RestOk, Astray
        <5>2. ~Cutting(q)
          BY <1>2, <4>1, WhileHandling DEF Cutting, Midway
        <5>3. pv # q
          BY <1>15, <5>1, <5>2
        <5>4. next'[q] = next[q] /\ k \in t
          BY <1>4, <1>9, <1>11, <5>1, <5>3
        <5>5. QED
          BY <5>1, <5>4
      <4>2. pc[c] # "create"
        BY <1>4, <2>1, <2>2, <2>5 DEF RestOk
      <4>3. pc[c] \in {"lock", "get"} /\ reg[c].named = "queue" =>
              \E r \in Listed' : qfd'[r] = reg[c].fd
        BY <1>2, <1>3, <2>2 DEF RestOk
      <4>4. QED
        BY <1>3, <1>4, <1>13, <2>1, <2>2, <2>3, <2>5, <4>1, <4>2, <4>3 DEF RestOk
    <3>2. CutOk(T, c)'
      <4>0. pc[c] \in {"del", "delNext", "loop"} => ~Cutting(q)
        BY <1>2, WhileHandling DEF Cutting, Midway
      <4>1. CASE pc[c] \in {"del", "delNext"}
        <5>1. k \in S[q] /\ next[q] = k
          BY <2>1, <2>2, <2>5, <4>1 DEF CutOk
        <5>2. pv # q
          BY <1>15, <4>0, <4>1, <5>1
        <5>3. next'[q] = next[q] /\ k \in t
          BY <1>4, <1>9, <1>11, <5>1, <5>2
        <5>4. next'[k] = next[k] \/ next[k] = q
          BY <1>7, <1>9, <1>15, <5>1
        <5>5. QED
          BY <1>13, <2>1, <2>2, <2>5, <4>1, <5>1, <5>3, <5>4 DEF CutOk
      <4>2. CASE pc[c] = "delPrev"
        <5>1. PICK nx : nx = reg[c].nx
          OBVIOUS
        <5>2. /\ reg[c].pv = q /\ k \in Known(q) /\ mem[k] = "live" /\ pv # k
              /\ \/ nx = q
                 \/ /\ k \in S[q] /\ next[q] = k /\ nx = next[k] /\ nx \in S[q]
                    /\ prev[nx] = q /\ pv # q
                    /\ \A x \in S[q] \ {k} : next[x] \in S[q] => prev[next[x]] = x
              /\ reg[c].op = "flush" => reg[c].n \in {q, nx}
          BY <1>6, <2>1, <2>2, <2>5, <4>2, <5>1 DEF CutOk
        <5>3. ASSUME nx # q
              PROVE  /\ k \in t /\ next'[q] = k /\ nx = next'[k] /\ nx \in t
                     /\ prev'[nx] = q
                     /\ \A x \in t \ {k} : next'[x] \in t => prev'[next'[x]] = x
          <6>1. k \in t /\ next'[q] = k /\ nx = next'[k] /\ nx \in t /\ prev'[nx] = q
            BY <1>2, <1>4, <1>9, <1>11, <1>15, <5>2, <5>3
          <6>2. ASSUME NEW x \in t \ {k}, next'[x] \in t PROVE prev'[next'[x]] = x
            <7>1. CASE x = pv
              BY <1>2, <1>4, <1>9, <7>1
            <7>2. CASE x = m
              <8>1. next'[x] = q /\ q \notin t
                BY <1>4, <1>9, <1>11, <1>15, <7>2, Basics
              <8>2. QED
                BY <6>2, <8>1
            <7>3. CASE x # pv /\ x # m
              <8>1. x \in S[q] \ {k} /\ next'[x] = next[x]
                BY <1>9, <1>11, <1>15, <6>2, <7>3
              <8>2. next[x] \in S[q]
                BY <1>4, <1>11, <1>15, <6>2, <8>1 DEF Threads
              <8>3. QED
                BY <1>2, <5>2, <5>3, <8>1, <8>2
            <7>4. QED
              BY <7>1, <7>2, <7>3
          <6>3. QED
            BY <6>1, <6>2
        <5>4. Rear(q)' # k /\ Rear(q)' # q /\ k \in Known(q)' /\ mem'[k] = "live"
          BY <1>2, <1>4, <1>6, <5>2
        <5>5. QED
          BY <1>13, <2>1, <2>2, <2>5, <4>2, <5>1, <5>2, <5>3, <5>4 DEF CutOk
      <4>3. CASE pc[c] = "loop" /\ reg[c].op = "flush"
        <5>1. reg[c].n = q \/ (reg[c].n \in S[q] /\ next[q] = reg[c].n)
          BY <2>1, <2>2, <2>5, <4>3 DEF CutOk
        <5>2. reg[c].n # q => pv # q
          BY <1>15, <4>0, <4>3, <5>1
        <5>3. reg[c].n # q => reg[c].n \in t /\ next'[q] = reg[c].n
          BY <1>4, <1>9, <1>11, <5>1, <5>2
        <5>4. QED
          BY <1>13, <2>1, <2>2, <2>5, <4>3, <5>3 DEF CutOk
      <4>4. CASE pc[c] = "loop" /\ reg[c].op = "close"
        BY <1>4, <2>1, <2>2, <2>5, <4>4 DEF CutOk
      <4>5. QED
        BY <2>2, <4>1, <4>2, <4>3, <4>4, Basics DEF CutOk, Phases
    <3>3. JoinOk(T, v, c)'
      <4>1. CASE pc[c] = "linkHead"
        BY <1>2, <1>3, <1>6, <2>1, <2>2, <2>3, <2>5, <4>1 DEF JoinOk
      <4>2. CASE pc[c] \in {"linkNew", "linkPrev"}
        <5>1. PICK pw : pw = reg[c].pv
          OBVIOUS
        <5>2. /\ pw \in Known(q) \cup {q} /\ mem[pw] = "live"
              /\ pw = q => \A d \in Clients : pc[d] = "copy" /\ reg[d].q = q => reg[d].m = Nil
              /\ k \in Msgs /\ mem[k] = "live"
              /\ k \in Known(q) \ S[q] /\ (pw = q \/ Before(linked[q], pw, k))
              /\ pv \notin S[q] \cup {q}
              /\ \A y \in S[q] \cup Range(taken[q]) : Before(linked[q], y, k)
          BY <1>6, <2>1, <2>2, <2>5, <4>2, <5>1 DEF JoinOk, Pending
        <5>3. t = S[q]
          BY <1>11, <5>2
        <5>4. /\ pw \in Known(q)' \cup {q} /\ k \in Known(q)' \ t
              /\ Rear(q)' \notin t \cup {q}
          BY <1>4, <1>6, <1>15, <5>2, <5>3
        <5>5. Pending(c)'
          BY <1>2, <2>1, <2>2, <5>2 DEF Pending
        <5>6. ASSUME pc[c] = "linkPrev"
              PROVE  /\ k \in v /\ v \subseteq Known(q)' \ t /\ \A x \in v : mem'[x] = "live"
                     /\ Threads(v, k, q)' /\ prev'[k] = pw /\ Doubly(v)'
                     /\ next'[m] = q
          <6>1. /\ k \in u /\ u \subseteq Known(q) \ S[q] /\ \A x \in u : mem[x] = "live"
                /\ Threads(u, k, q) /\ prev[k] = pw /\ Doubly(u)
                /\ pv \in u => next[pv] = q
            BY <1>6, <2>1, <2>2, <2>5, <5>1, <5>6 DEF JoinOk
          <6>2. /\ k \in v /\ v \subseteq Known(q)' \ t /\ \A x \in v : mem'[x] = "live"
                /\ prev'[k] = pw /\ next'[m] = q
            BY <1>2, <1>4, <1>6, <1>9, <1>14, <1>15, <5>3, <6>1, Basics
          <6>3. Threads(v, k, q)'
            <7>1. CASE pv \in u
              BY <1>14, <1>16, <6>1, <7>1
            <7>2. CASE pv \notin u
              BY <1>14, <1>17, <6>1, <7>2
            <7>3. QED
              BY <7>1, <7>2
          <6>4. ASSUME NEW x \in v, next'[x] \in v PROVE prev'[next'[x]] = x
            <7>1. CASE x = pv
              BY <1>2, <1>4, <1>9, <7>1
            <7>2. CASE x = m
              <8>1. next'[x] = q /\ q \notin v
                BY <1>4, <6>2, <7>2, Basics
              <8>2. QED
                BY <6>4, <8>1
            <7>3. CASE x # pv /\ x # m
              <8>1. x \in u /\ x \in Node /\ next'[x] = next[x]
                BY <1>9, <1>14, <6>4, <7>3, Basics
              <8>2. next[x] \in u
                BY <1>4, <1>14, <6>1, <6>2, <6>4, <8>1, Basics DEF Threads
              <8>3. QED
                BY <1>2, <6>1, <8>1, <8>2 DEF Doubly
            <7>4. QED
              BY <7>1, <7>2, <7>3
          <6>5. QED
            BY <6>2, <6>3, <6>4 DEF Doubly
        <5>7. pc[c] = "linkPrev" => Threads(v, reg[c].m, q)'
          <6>1. ASSUME pc[c] = "linkPrev" PROVE Threads(v, reg[c].m, q)'
            BY <2>1, <2>2, <5>6, <6>1 DEF Threads
          <6>2. QED
            BY <6>1
        <5>8. QED
          BY <1>2, <1>3, <1>6, <1>13, <2>1, <2>2, <2>5, <4>2, <5>1, <5>2, <5>3, <5>4, <5>5,
             <5>6, <5>7 DEF JoinOk
      <4>3. CASE pc[c] \notin {"linkHead", "linkNew", "linkPrev"}
        BY <2>2, <4>3 DEF JoinOk
      <4>4. QED
        BY <4>1, <4>2, <4>3
    <3>4. QED
      BY <3>1, <3>2, <3>3
  <2>6. QED
    BY <2>4, <2>5
<1>21. HandlerOk' /\ Apart' /\ HistoryOk'
  <2>1. HandlerOk'
    BY <1>1, <1>2, <1>3, <1>4 DEF HandlerOk
  <2>2. Apart'
    BY <1>2, Basics DEF Apart
  <2>3. HistoryOk'
    BY <1>2, Basics DEF HistoryOk
  <2>4. QED
    BY <2>1, <2>2, <2>3
<1>22. Lists(T, v)'
  BY <1>3, <1>13, <1>18, <1>19, <1>20, <1>21 DEF Lists
<1>23. QED
  BY <1>22

-----------------------------------------------------------------------------
(* Every step keeps the lists in order.                                    *)
LEMMA ListStep == OneAtATime /\ Typed /\ Orderly /\ ListInv /\ [Next]_vars => ListInv'
<1> SUFFICES ASSUME OneAtATime, Typed, Orderly, [Next]_vars,
                    NEW S \in [Queues -> SUBSET Msgs], NEW u \in SUBSET Msgs, Lists(S, u)
             PROVE  \E T \in [Queues -> SUBSET Msgs], v \in SUBSET Msgs : Lists(T, v)'
  BY DEF ListInv
<1>1. SUFFICES ASSUME ~Lists(S, u)'
               PROVE  \E T \in [Queues -> SUBSET Msgs], v \in SUBSET Msgs : Lists(T, v)'
  OBVIOUS
<1>2. CASE UNCHANGED vars
  BY <1>2, UnmovedStep DEF vars, heap, queues, history
<1>3. ASSUME NEW c \in Clients, ClientStep(c)
      PROVE  \E T \in [Queues -> SUBSET Msgs], v \in SUBSET Msgs : Lists(T, v)'
  <2>1. CASE CreateInit(c) \/ GetToWrite(c) \/ First(c) \/ Copy(c)
    BY <1>1, <2>1, CreateInitStep, GetToWriteStep, FirstStep, CopyStep
  <2>2. CASE Call(c) \/ Lock(c) \/ GetToRead(c) \/ WaitPrepare(c) \/ WaitDone(c) \/ WaitSchedule(c)
    BY <1>1, <2>2, RestingSteps
  <2>3. CASE CreateAdd(c)
    BY <2>3, CreateAddStep
  <2>4. CASE GetToClear(c) \/ LoopBody(c) \/ LoopEnd(c)
    <3>1. reg[c].op \in {"flush", "close"}
      BY <2>4, Basics DEF GetToClear, LoopBody, LoopEnd, At, Phases
    <3>2. CASE reg[c].op = "flush"
      BY <1>1, <2>4, <3>2, FlushSteps
    <3>3. CASE reg[c].op = "close"
      BY <2>4, <3>3, CloseSteps
    <3>4. QED
      BY <3>1, <3>2, <3>3
  <2>5. CASE GetNothing(c)
    BY <1>1, <2>5, UnmovedStep DEF GetNothing, heap, queues, history
  <2>6. QED
    BY <1>3, <2>1, <2>2, <2>3, <2>4, <2>5 DEF ClientStep
<1>4. ASSUME NEW c \in Clients, SharedStep(c)
      PROVE  \E T \in [Queues -> SUBSET Msgs], v \in SUBSET Msgs : Lists(T, v)'
  <2>1. CASE Del(c) \/ DelNext(c) \/ Link(c) \/ LinkHead(c) \/ SizeLoad(c) \/ SizeStore(c)
    BY <1>1, <2>1, DelStep, DelNextStep, ClientLinkStep, ClientLinkHeadStep, RestingSteps
  <2>2. CASE DelPrev(c)
    BY <2>2, DelPrevStep
  <2>3. CASE LinkNew(c)
    BY <2>3, ClientLinkNewStep
  <2>4. CASE LinkPrev(c)
    BY <2>4, ClientLinkPrevStep
  <2>5. CASE Oops(c)
    BY <1>1, <2>5, UnmovedStep DEF Oops, heap, queues, history
  <2>6. QED
    BY <1>4, <2>1, <2>2, <2>3, <2>4, <2>5 DEF SharedStep
<1>5. CASE SharedStep(Isr)
  <2>1. CASE Del(Isr) \/ DelNext(Isr) \/ DelPrev(Isr)
    BY <2>1, Basics DEF Del, DelNext, DelPrev, At, Handler
  <2>2. CASE Link(Isr) \/ SizeLoad(Isr) \/ SizeStore(Isr)
    BY <1>1, <2>2, HandlerSteps
  <2>3. CASE LinkHead(Isr) \/ LinkNew(Isr)
    BY <1>1, <2>3, HandlerLinkHeadStep, HandlerLinkNewStep
  <2>4. CASE LinkPrev(Isr)
    BY <2>4, HandlerLinkPrevStep
  <2>5. CASE Oops(Isr)
    BY <1>1, <2>5, UnmovedStep DEF Oops, heap, queues, history
  <2>6. QED
    BY <1>5, <2>1, <2>2, <2>3, <2>4, <2>5 DEF SharedStep
<1>6. CASE Edge
  BY <1>1, <1>6, UnmovedStep DEF Edge, heap, queues, history
<1>7. CASE IsrStart \/ IsrAgain \/ IsrEach \/ IsrWake \/ RequestIrq \/ RequestFails \/ Exit
  BY <1>1, <1>7, HandlerSteps
<1>8. CASE Load \/ Setup
  BY <1>1, <1>8, LoadStep
<1>9. QED
  BY <1>2, <1>3, <1>4, <1>5, <1>6, <1>7, <1>8 DEF Next, Contexts

(* At first there is no queue and no message.                              *)
LEMMA ListInit == Init => ListInv
<1> SUFFICES ASSUME Init PROVE ListInv
  OBVIOUS
<1>1. PICK S \in [Queues -> SUBSET Msgs] : S = [q \in Queues |-> {}]
  OBVIOUS
<1>2. Listed = {} /\ que_list = <<>>
  BY DEF Init, Listed, Range
<1>3. \A c \in Clients : pc[c] = "idle" /\ pc[Isr] = "gone"
  BY PirNames DEF Init, Contexts
<1>4. \A c \in Clients : RestOk(S, c) /\ CutOk(S, c) /\ JoinOk(S, {}, c)
  BY <1>3 DEF RestOk, Astray, CutOk, JoinOk, InQueue, Midway
<1>5. \A c \in Contexts : pc[c] \in {"idle", "gone"}
  BY DEF Init
<1>6. HandlerOk /\ Apart
  BY <1>2, <1>5 DEF HandlerOk, Apart, Contexts
<1>7. HistoryOk
  <2>1. \A q \in Queues : linked[q] = <<>> /\ taken[q] = <<>>
    BY DEF Init
  <2>2. \A q \in Queues : Range(linked[q]) = {} /\ Range(taken[q]) = {}
    BY <2>1 DEF Range
  <2>3. \A q \in Queues : DOMAIN linked[q] = {} /\ DOMAIN taken[q] = {}
    BY <2>1
  <2>4. QED
    BY <2>1, <2>2, <2>3 DEF HistoryOk, Distinct
<1>8. Lists(S, {})
  BY <1>2, <1>4, <1>6, <1>7 DEF Lists
<1>9. QED
  BY <1>1, <1>8 DEF ListInv

(* The lists of the queues are in order in every reachable state.          *)
LEMMA ListAlways ==
  ASSUME OneAtATime
  PROVE  Spec => [](Typed /\ Orderly /\ ListInv)
<1>1. Typed /\ Orderly /\ ListInv /\ [Next]_vars => ListInv'
  BY ListStep
<1>2. QED
  BY <1>1, ListInit, OrderlyAlways, PTL DEF Spec

(* No list operation touches memory that was freed: with one client at a   *)
(* time on a queue, the handler's unlocked appends do no such harm.        *)
THEOREM NothingFreedIsUsed ==
  ASSUME OneAtATime
  PROVE  Spec => []NoUseAfterFree
<1>1. Init => NoUseAfterFree
  BY DEF Init, NoUseAfterFree
<1>2. Typed /\ Orderly /\ ListInv /\ NoUseAfterFree /\ [Next]_vars => NoUseAfterFree'
  <2> SUFFICES ASSUME Typed, Orderly, NoUseAfterFree, [Next]_vars,
                      NEW S \in [Queues -> SUBSET Msgs], NEW u \in SUBSET Msgs, Lists(S, u)
               PROVE  NoUseAfterFree'
    BY DEF ListInv
  <2>1. ASSUME NEW c \in Contexts, Oops(c) PROVE NoUseAfterFree'
    BY <2>1, DerefsLive DEF Oops, NullOops, NoUseAfterFree
  <2>2. ASSUME NEW c \in Clients, GetNothing(c) PROVE NoUseAfterFree'
    BY <2>2 DEF GetNothing, NullOops, NoUseAfterFree
  <2>3. ASSUME NEW c \in Contexts, SharedStep(c) PROVE NoUseAfterFree'
    BY <2>1, <2>3 DEF SharedStep, Del, DelNext, DelPrev, Link, LinkHead, LinkNew, LinkPrev,
      SizeLoad, SizeStore, NoUseAfterFree
  <2>4. ASSUME NEW c \in Clients, ClientStep(c) PROVE NoUseAfterFree'
    BY <2>2, <2>4 DEF ClientStep, CreateInit, CreateAdd, Call, Lock, GetToRead, GetToWrite,
      GetToClear, WaitPrepare, WaitDone, WaitSchedule, First, Copy, LoopBody, LoopEnd,
      NoUseAfterFree
  <2>5. QED
    BY <2>3, <2>4 DEF Next, vars, NoUseAfterFree, Edge, IsrStart, IsrAgain, IsrEach, IsrWake,
      Load, Setup, RequestIrq, RequestFails, Exit
<1>3. QED
  BY <1>1, <1>2, ListAlways, PTL DEF Spec

(* The reads of a queue return what was appended to it, once and in order. *)
THEOREM ReadsAreInOrder ==
  ASSUME OneAtATime
  PROVE  Spec => []DeliveredInOrder
<1>1. Typed /\ ListInv => DeliveredInOrder
  BY InOrder DEF ListInv, Lists
<1>2. QED
  BY <1>1, ListAlways, PTL
=============================================================================
