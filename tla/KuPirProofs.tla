---------------------------- MODULE KuPirProofs -----------------------------
(***************************************************************************)
(* Theorems about KuPir for every set of clients, whatever they call, for  *)
(* every number of queues, messages and edges, and whenever the interrupt  *)
(* handler runs.                                                           *)
(***************************************************************************)
EXTENDS KuPir, TLAPS, SequenceTheorems

LEMMA KmallocType ==
  ASSUME NEW S, Fresh(S) # {}
  PROVE  Kmalloc(S) \in S /\ mem[Kmalloc(S)] = "fresh"
BY DEF Fresh, Kmalloc

(* The locals of a context, and what an assignment to one of them keeps.   *)
LEMMA LocalsFields ==
  ASSUME NEW r \in Locals
  PROVE  /\ r.op \in {"none", "isr", "close", "flush", "read", "write"}
         /\ r.fd \in Int /\ r.named \in {"queue", "nothing"} /\ r.q \in Queues \cup {Nil}
         /\ r.m \in Node \cup {Nil} /\ r.n \in Node \cup {Nil}
         /\ r.nx \in Node \cup {Nil} /\ r.pv \in Node \cup {Nil} /\ r.k \in Int
BY DEF Locals

LEMMA LocalsUpdate ==
  ASSUME NEW r \in Locals
  PROVE  /\ \A q \in Queues \cup {Nil} : [r EXCEPT !.q = q] \in Locals
         /\ \A q \in Queues \cup {Nil}, x \in Node \cup {Nil} :
              /\ [r EXCEPT !.q = q, !.m = x] \in Locals
              /\ [r EXCEPT !.op = "isr", !.q = q, !.m = x] \in Locals
              /\ [r EXCEPT !.q = q, !.n = x] \in Locals
         /\ \A x, y \in Node \cup {Nil} :
              /\ [r EXCEPT !.m = x] \in Locals
              /\ [r EXCEPT !.pv = x] \in Locals
              /\ [r EXCEPT !.m = x, !.n = y] \in Locals
              /\ [r EXCEPT !.nx = x, !.pv = y] \in Locals
         /\ \A op \in {"close", "flush", "read", "write"}, fd \in Int,
               named \in {"queue", "nothing"} :
              [r EXCEPT !.op = op, !.fd = fd, !.named = named] \in Locals
         /\ \A k \in Int : [r EXCEPT !.k = k] \in Locals
<1>1. \A q \in Queues \cup {Nil} : [r EXCEPT !.q = q] \in Locals
  BY DEF Locals
<1>2. ASSUME NEW q \in Queues \cup {Nil}, NEW x \in Node \cup {Nil}
      PROVE  /\ [r EXCEPT !.q = q, !.m = x] \in Locals
             /\ [r EXCEPT !.op = "isr", !.q = q, !.m = x] \in Locals
             /\ [r EXCEPT !.q = q, !.n = x] \in Locals
  BY DEF Locals
<1>3. ASSUME NEW x \in Node \cup {Nil}, NEW y \in Node \cup {Nil}
      PROVE  /\ [r EXCEPT !.m = x] \in Locals
             /\ [r EXCEPT !.pv = x] \in Locals
             /\ [r EXCEPT !.m = x, !.n = y] \in Locals
             /\ [r EXCEPT !.nx = x, !.pv = y] \in Locals
  BY ZenonT(40) DEF Locals
<1>4. \A op \in {"close", "flush", "read", "write"}, fd \in Int,
         named \in {"queue", "nothing"} :
        [r EXCEPT !.op = op, !.fd = fd, !.named = named] \in Locals
  BY DEF Locals
<1>5. \A k \in Int : [r EXCEPT !.k = k] \in Locals
  BY DEF Locals
<1>6. QED
  BY <1>1, <1>2, <1>3, <1>4, <1>5

LEMMA BlankType == Blank \in Locals
BY DEF Locals, Blank

(* The queue that is being created, or the message that is being appended, *)
(* has been allocated.                                                     *)
Allocated == \A c \in Contexts :
  /\ pc[c] = "create" => reg[c].q \in Queues
  /\ pc[c] \in {"link", "linkHead"} => reg[c].m \in Msgs

Typed == TypeOK /\ Allocated

LEMMA TypedInit == Init => Typed
<1> SUFFICES ASSUME Init PROVE Typed
  OBVIOUS
<1>1. KernelType /\ QueueType /\ HeapType
  BY DEF Init, KernelInit, KernelType, QueueType, HeapType
<1>2. ContextType
  BY BlankType DEF Init, ContextType, Labels
<1>3. HistoryType
  BY DEF Init, HistoryType
<1>4. SensorType
  <2>1. level \in {0, 1} /\ sensed \in {0, 1} /\ edges \in Nat
    BY DEF Init
  <2>2. irq \in BOOLEAN
    BY DEF Init
  <2>3. QED
    BY <2>1, <2>2 DEF SensorType
<1>5. fault = "none"
  BY DEF Init
<1>6. Allocated
  BY DEF Init, Allocated, Contexts
<1>7. QED
  BY <1>1, <1>2, <1>3, <1>4, <1>5, <1>6 DEF Typed, TypeOK


(* What a step that leaves some of the state alone keeps.                  *)
LEMMA Frame ==
  ASSUME Typed
  PROVE  /\ UNCHANGED queues => QueueType'
         /\ UNCHANGED heap => HeapType'
         /\ UNCHANGED sensor => SensorType'
         /\ UNCHANGED history => HistoryType'
BY DEF Typed, TypeOK, QueueType, HeapType, SensorType, HistoryType,
       queues, heap, sensor, history

(* A step of context c that goes to another label.                         *)
LEMMA GoOnType ==
  ASSUME Typed, NEW c \in Contexts, NEW l \in Labels,
         l = "create" => reg'[c].q \in Queues,
         l \in {"link", "linkHead"} => reg'[c].m \in Msgs,
         GoOn(c, l) \/ MaySleep(c, l) \/ (Goto(c, l) /\ GiveUpCpu),
         spinlock' \in Clients \cup {Nobody}, my_wq' \subseteq Clients,
         reg' \in [Contexts -> Locals],
         \A d \in Contexts \ {c} : reg'[d] = reg[d]
  PROVE  KernelType' /\ ContextType' /\ Allocated'
<1> USE DEF Typed, TypeOK, KernelType, ContextType, Allocated
<1>1. pc' = [pc EXCEPT ![c] = l]
  BY DEF GoOn, MaySleep, Goto
<1>2. cpu' \in Clients \cup {Nobody}
  BY SMPType DEF GoOn, MaySleep, Keep, KeepCpu, GiveUpCpu, Contexts
<1>3. ContextType'
  BY <1>1
<1>4. Allocated'
  BY <1>1 DEF Contexts
<1>5. QED
  BY <1>2, <1>3, <1>4

LEMMA ReturnType ==
  ASSUME Typed, NEW c \in Clients, Return(c),
         spinlock' \in Clients \cup {Nobody}, UNCHANGED my_wq
  PROVE  KernelType' /\ ContextType' /\ Allocated'
<1>1. reg' \in [Contexts -> Locals] /\ \A d \in Contexts \ {c} : reg'[d] = reg[d]
  BY BlankType DEF Return, Typed, TypeOK, ContextType
<1>2. QED
  BY <1>1, GoOnType DEF Return, Typed, TypeOK, KernelType, Contexts, Labels

(* A list without the element at one of its places.                        *)
LEMMA WithoutType ==
  ASSUME que_list \in Seq(Queues), NEW q, \E i \in DOMAIN que_list : que_list[i] = q
  PROVE  /\ Without(Place(q)) \in Seq(Queues)
         /\ \A i \in DOMAIN Without(Place(q)) :
              \E j \in DOMAIN que_list : Without(Place(q))[i] = que_list[j]
<1>1. Place(q) \in DOMAIN que_list
  BY DEF Place
<1>2. Len(que_list) \in Nat \ {0} /\ DOMAIN que_list = 1 .. Len(que_list)
  BY <1>1
<1>3. \A i \in 1 .. Len(que_list) - 1 :
        \E j \in DOMAIN que_list : Without(Place(q))[i] = que_list[j]
  BY <1>1, <1>2 DEF Without
<1>4. DOMAIN Without(Place(q)) = 1 .. Len(que_list) - 1 /\ Len(que_list) - 1 \in Nat
  BY <1>2 DEF Without
<1>5. \A i \in 1 .. Len(que_list) - 1 : Without(Place(q))[i] \in Queues
  BY <1>2, <1>3
<1>6. Without(Place(q)) \in Seq(Queues)
  BY <1>4, <1>5 DEF Without
<1>7. QED
  BY <1>3, <1>4, <1>6

(* The queue after a queue of the list.                                    *)
LEMMA FollowingType ==
  ASSUME que_list \in Seq(Queues), NEW q \in Range(que_list) \cup {Nil},
         Following(q) # Nil
  PROVE  Following(q) \in Queues
<1> DEFINE i == IF q = Nil THEN 0 ELSE Place(q)
<1>1. i \in 0 .. Len(que_list)
  <2>1. CASE q = Nil
    BY <2>1
  <2>2. CASE q # Nil
    <3>1. \E j \in DOMAIN que_list : que_list[j] = q
      BY <2>2 DEF Range
    <3>2. QED
      BY <3>1, <2>2 DEF Place
  <2>3. QED
    BY <2>1, <2>2
<1>2. Following(q) = IF i = Len(que_list) THEN Nil ELSE que_list[i + 1]
  BY DEF Following
<1> HIDE DEF i
<1>3. QED
  BY <1>1, <1>2

LEMMA HistoryStep ==
  ASSUME NEW f \in [Queues -> Seq(Node)], NEW m \in Node, NEW q
  PROVE  [f EXCEPT ![q] = Append(@, m)] \in [Queues -> Seq(Node)]
<1>1. ASSUME NEW x \in Queues PROVE Append(f[x], m) \in Seq(Node)
  BY AppendProperties
<1>2. QED
  BY <1>1

LEMMA TypedStep == Typed /\ [Next]_vars => Typed'
<1> SUFFICES ASSUME Typed, [Next]_vars PROVE Typed'
  OBVIOUS
<1>a. /\ TypeOK /\ KernelType /\ ContextType /\ QueueType /\ HeapType /\ SensorType
      /\ HistoryType /\ fault \in {"none", "null", "uaf", "badfd"} /\ Allocated
  BY DEF Typed, TypeOK
<1>b. reg \in [Contexts -> Locals] /\ Clients \subseteq Contexts /\ Isr \in Contexts
  BY <1>a DEF ContextType, Contexts
<1>1. CASE UNCHANGED vars
  BY <1>1, <1>a, Frame DEF vars, Typed, TypeOK, KernelType, ContextType, Allocated
<1>2. ASSUME NEW c \in Clients, CreateInit(c) PROVE Typed'
  <2> DEFINE q == Kmalloc(Queues)
  <2>1. q \in Queues
    BY <1>2, KmallocType DEF CreateInit
  <2>2. /\ mem'  = [mem EXCEPT ![q] = "live"] /\ qfd'  = [qfd EXCEPT ![q] = q_fd]
        /\ size' = [size EXCEPT ![q] = 0]
        /\ next' = [next EXCEPT ![q] = q] /\ prev' = [prev EXCEPT ![q] = q]
        /\ reg'  = [reg EXCEPT ![c].q = q] /\ GoOn(c, "create")
        /\ UNCHANGED <<spinlock, my_wq, q_fd, que_list, sensor, history, fault>>
    BY <1>2 DEF CreateInit, Made
  <2> HIDE DEF q
  <2>3. HeapType' /\ QueueType'
    BY <1>a, <2>1, <2>2 DEF HeapType, QueueType, Node
  <2>4. /\ reg' \in [Contexts -> Locals] /\ \A d \in Contexts \ {c} : reg'[d] = reg[d]
        /\ reg'[c].q = q
    <3>1. reg' \in [Contexts -> Locals] /\ \A d \in Contexts \ {c} : reg'[d] = reg[d]
      BY <1>b, <2>1, <2>2, LocalsUpdate
    <3>2. reg'[c].q = q
      BY <1>b, <2>2 DEF Locals
    <3>3. QED
      BY <3>1, <3>2
  <2>5. KernelType' /\ ContextType' /\ Allocated'
    <3>1. spinlock' \in Clients \cup {Nobody} /\ my_wq' \subseteq Clients
      BY <1>a, <2>2 DEF KernelType
    <3>2. GoOn(c, "create") /\ "create" \in Labels /\ reg'[c].q \in Queues
      BY <2>1, <2>2, <2>4 DEF Labels
    <3>3. QED
      BY <1>b, <2>4, <3>1, <3>2, GoOnType
  <2>6. QED
    BY <1>a, <2>2, <2>3, <2>5, Frame DEF Typed, TypeOK
<1>3. ASSUME NEW c \in Clients, CreateAdd(c) PROVE Typed'
  <2>1. KernelType' /\ ContextType' /\ Allocated'
    BY <1>3, <1>a, ReturnType DEF CreateAdd, KernelType
  <2>2. QueueType'
    BY <1>3, <1>a, <1>b DEF CreateAdd, At, Counted, QueueType, Allocated
  <2>3. QED
    BY <1>3, <1>a, <2>1, <2>2, Frame DEF CreateAdd, Typed, TypeOK
<1>4. ASSUME NEW c \in Clients, Call(c) PROVE Typed'
  <2>1. PICK op \in Calls[c] \ {"create"}, fd \in Fds, named \in {"queue", "nothing"} :
          reg' = [reg EXCEPT ![c].op = op, ![c].fd = fd, ![c].named = named]
    BY <1>4 DEF Call, Named
  <2>2. op \in {"close", "flush", "read", "write"} /\ fd \in Int
    BY PirCalls DEF LibCalls
  <2>3. reg' \in [Contexts -> Locals] /\ \A d \in Contexts \ {c} : reg'[d] = reg[d]
    BY <1>b, <2>1, <2>2, LocalsUpdate
  <2>4. KernelType' /\ ContextType' /\ Allocated'
    BY ZenonT(40), <1>4, <1>a, <1>b, <2>3, GoOnType DEF Call, KernelType, Labels
  <2>5. QED
    BY <1>4, <1>a, <2>4, Frame DEF Call, Typed, TypeOK
<1>5. ASSUME NEW c \in Clients, Lock(c) PROVE Typed'
  <2>1. spinlock' \in Clients \cup {Nobody}
    BY <1>5, <1>a DEF Lock, TakeLock, SpinLock, KernelType
  <2>2. KernelType' /\ ContextType' /\ Allocated'
    BY <1>5, <1>a, <1>b, <2>1, GoOnType DEF Lock, KernelType, Labels
  <2>3. QED
    BY <1>5, <1>a, <2>2, Frame DEF Lock, Typed, TypeOK
<1>6. ASSUME NEW c \in Clients, GetToRead(c) PROVE Typed'
  <2>1. reg' \in [Contexts -> Locals] /\ \A d \in Contexts \ {c} : reg'[d] = reg[d]
    <3>1. PICK q \in Queues \cup {Nil} : reg' = [reg EXCEPT ![c].q = q]
      BY <1>6 DEF GetToRead
    <3>2. QED
      BY <1>b, <3>1, LocalsUpdate
  <2>2. KernelType' /\ ContextType' /\ Allocated'
    BY <1>6, <1>a, <1>b, <2>1, GoOnType DEF GetToRead, KernelType, Labels
  <2>3. QED
    BY <1>6, <1>a, <2>2, Frame DEF GetToRead, Typed, TypeOK
<1>7. ASSUME NEW c \in Clients, GetToWrite(c) PROVE Typed'
  <2> DEFINE m == Kmalloc(Msgs)
  <2>1. m \in Msgs
    BY <1>7, KmallocType DEF GetToWrite
  <2>2. PICK q \in Queues \cup {Nil} :
          /\ mem' = [mem EXCEPT ![m] = "live"]
          /\ reg' = [reg EXCEPT ![c].q = q, ![c].m = m]
          /\ MaySleep(c, "link")
          /\ UNCHANGED <<spinlock, my_wq, queues, size, next, prev, sensor, history, fault>>
    BY <1>7 DEF GetToWrite
  <2> HIDE DEF m
  <2>3. reg' \in [Contexts -> Locals] /\ \A d \in Contexts \ {c} : reg'[d] = reg[d]
    BY <1>b, <2>1, <2>2, LocalsUpdate DEF Node
  <2>4. KernelType' /\ ContextType' /\ Allocated'
    <3>1. reg'[c].m = m
      BY <1>b, <2>2 DEF Locals
    <3>2. "link" \in Labels /\ c \in Contexts /\ MaySleep(c, "link")
      BY <1>b, <2>2 DEF Labels
    <3>3. spinlock' \in Clients \cup {Nobody} /\ my_wq' \subseteq Clients
      BY <1>a, <2>2 DEF KernelType
    <3>4. QED
      BY <2>1, <2>3, <3>1, <3>2, <3>3, GoOnType
  <2>5. HeapType'
    BY <1>a, <2>1, <2>2 DEF HeapType, Node
  <2>6. QED
    BY <1>a, <2>2, <2>4, <2>5, Frame DEF Typed, TypeOK
<1>8. ASSUME NEW c \in Clients, GetToClear(c) PROVE Typed'
  <2>1. PICK q \in Queues :
          /\ Gets(reg[c].fd, q)
          /\ reg' = [reg EXCEPT ![c].q = q, ![c].n = next[q]] /\ GoOn(c, "loop")
          /\ que_list' = IF reg[c].op = "flush" THEN que_list ELSE Without(Place(q))
          /\ UNCHANGED <<spinlock, my_wq, q_fd, qfd, heap, sensor, history, fault>>
    BY <1>8 DEF GetToClear
  <2>2. reg' \in [Contexts -> Locals] /\ \A d \in Contexts \ {c} : reg'[d] = reg[d]
    BY <1>a, <1>b, <2>1, LocalsUpdate DEF HeapType, Node
  <2>3. KernelType' /\ ContextType' /\ Allocated'
    BY <1>a, <1>b, <2>1, <2>2, GoOnType DEF KernelType, Labels
  <2>4. \E i \in DOMAIN que_list : que_list[i] = q
    BY <2>1, PirNames DEF Gets
  <2>5. QueueType'
    BY <1>a, <2>1, <2>4, WithoutType DEF QueueType
  <2>6. QED
    BY <1>a, <2>1, <2>3, <2>5, Frame DEF Typed, TypeOK
<1>9. ASSUME NEW c \in Clients, GetNothing(c) PROVE Typed'
  BY <1>9, <1>a, Frame DEF GetNothing, NullOops, Typed, TypeOK, KernelType, ContextType, Allocated
<1>10. ASSUME NEW c \in Clients, WaitPrepare(c) PROVE Typed'
  <2>1. KernelType' /\ ContextType' /\ Allocated'
    BY <1>10, <1>a, <1>b, GoOnType DEF WaitPrepare, PrepareToWait, KernelType, Labels
  <2>2. QED
    BY <1>10, <1>a, <2>1, Frame DEF WaitPrepare, Typed, TypeOK
<1>11. ASSUME NEW c \in Clients, WaitDone(c) PROVE Typed'
  <2>1. KernelType' /\ ContextType' /\ Allocated'
    BY <1>11, <1>a, <1>b, GoOnType DEF WaitDone, FinishWait, KernelType, Labels
  <2>2. QED
    BY <1>11, <1>a, <2>1, Frame DEF WaitDone, Typed, TypeOK
<1>12. ASSUME NEW c \in Clients, WaitSchedule(c) PROVE Typed'
  <2>1. KernelType' /\ ContextType' /\ Allocated'
    BY <1>12, <1>a, <1>b, GoOnType DEF WaitSchedule, KernelType, Labels
  <2>2. QED
    BY <1>12, <1>a, <2>1, Frame DEF WaitSchedule, Typed, TypeOK
<1>13. ASSUME NEW c \in Clients, First(c) PROVE Typed'
  <2>1. reg[c].q \in Queues
    BY <1>13, <1>b, LocalsFields DEF First, At, Sound, Derefs
  <2>2. Oldest(reg[c].q) \in Node \cup {Nil}
    BY <1>a, <2>1 DEF Oldest, HeapType, Node
  <2>3. reg' \in [Contexts -> Locals] /\ \A d \in Contexts \ {c} : reg'[d] = reg[d]
    BY <1>13, <1>b, <2>2, LocalsUpdate DEF First
  <2>4. KernelType' /\ ContextType' /\ Allocated'
    BY <1>13, <1>a, <1>b, <2>3, GoOnType DEF First, KernelType, Labels
  <2>5. QED
    BY <1>13, <1>a, <2>4, Frame DEF First, Typed, TypeOK
<1>14. ASSUME NEW c \in Clients, Copy(c) PROVE Typed'
  <2>1. reg[c].m \in Node
    BY <1>14, <1>b, LocalsFields DEF Copy, At, Sound, Derefs
  <2>2. HistoryType'
    BY <1>14, <1>a, <2>1, HistoryStep DEF Copy, HistoryType
  <2>3. KernelType' /\ ContextType' /\ Allocated'
    BY <1>14, <1>a, <1>b, GoOnType DEF Copy, KernelType, Labels
  <2>4. QED
    BY <1>14, <1>a, <2>2, <2>3, Frame DEF Copy, Typed, TypeOK
<1>15. ASSUME NEW c \in Clients, LoopBody(c) PROVE Typed'
  <2>1. reg[c].n \in Node
    BY <1>15, <1>b, LocalsFields DEF LoopBody, At, Sound, Derefs
  <2>2. next[reg[c].n] \in Node \cup {Nil}
    BY <1>a, <2>1 DEF HeapType
  <2>3. reg' \in [Contexts -> Locals] /\ \A d \in Contexts \ {c} : reg'[d] = reg[d]
    BY <1>15, <1>b, <2>1, <2>2, LocalsUpdate DEF LoopBody
  <2>4. KernelType' /\ ContextType' /\ Allocated'
    <3>1. PICK l \in {"del", "loop"} : GoOn(c, l)
      BY <1>15 DEF LoopBody
    <3>2. QED
      BY <1>15, <1>a, <1>b, <2>3, <3>1, GoOnType DEF LoopBody, KernelType, Labels
  <2>5. HeapType'
    BY <1>15, <1>a DEF LoopBody, HeapType
  <2>6. QED
    BY <1>15, <1>a, <2>4, <2>5, Frame DEF LoopBody, Typed, TypeOK
<1>16. ASSUME NEW c \in Clients, LoopEnd(c) PROVE Typed'
  <2>1. KernelType' /\ ContextType' /\ Allocated'
    BY <1>16, <1>a, ReturnType DEF LoopEnd, KernelType
  <2>2. HeapType'
    BY <1>16, <1>a DEF LoopEnd, Emptied, HeapType
  <2>3. QED
    BY <1>16, <1>a, <2>1, <2>2, Frame DEF LoopEnd, Typed, TypeOK
<1>17. ASSUME NEW c \in Contexts, Del(c) PROVE Typed'
  <2>1. reg[c].m \in Node
    <3>1. Sound(c) /\ pc[c] = "del"
      BY <1>17 DEF Del, At
    <3>2. Derefs(c) = {reg[c].m}
      BY <3>1 DEF Derefs
    <3>3. reg[c].m # Nil
      BY <3>1, <3>2 DEF Sound
    <3>4. QED
      BY <1>b, <3>3, LocalsFields
  <2>2. reg' \in [Contexts -> Locals] /\ \A d \in Contexts \ {c} : reg'[d] = reg[d]
    BY <1>17, <1>a, <1>b, <2>1, LocalsUpdate DEF Del, HeapType
  <2>3. KernelType' /\ ContextType' /\ Allocated'
    BY <1>17, <1>a, <2>2, GoOnType DEF Del, KernelType, Labels
  <2>4. QED
    BY <1>17, <1>a, <2>3, Frame DEF Del, Typed, TypeOK
<1>18. ASSUME NEW c \in Contexts, DelNext(c) PROVE Typed'
  <2>1. KernelType' /\ ContextType' /\ Allocated'
    BY <1>18, <1>a, <1>b, GoOnType DEF DelNext, KernelType, Labels
  <2>2. HeapType'
    BY <1>18, <1>a, <1>b, LocalsFields DEF DelNext, HeapType
  <2>3. QED
    BY <1>18, <1>a, <2>1, <2>2, Frame DEF DelNext, Typed, TypeOK
<1>19. ASSUME NEW c \in Contexts, DelPrev(c) PROVE Typed'
  <2>1. KernelType' /\ ContextType' /\ Allocated'
    <3>1. PICK l \in {"size", "loop"} : GoOn(c, l)
      BY <1>19 DEF DelPrev
    <3>2. QED
      BY <1>19, <1>a, <1>b, <3>1, GoOnType DEF DelPrev, KernelType, Labels
  <2>2. HeapType'
    BY <1>19, <1>a, <1>b, LocalsFields DEF DelPrev, Unlinked, HeapType
  <2>3. QED
    BY <1>19, <1>a, <2>1, <2>2, Frame DEF DelPrev, Typed, TypeOK
<1>20. ASSUME NEW c \in Contexts, Link(c) PROVE Typed'
  <2>1. reg[c].q \in Queues
    BY <1>20, <1>b, LocalsFields DEF Link, At, Sound, Derefs
  <2>2. reg' \in [Contexts -> Locals] /\ \A d \in Contexts \ {c} : reg'[d] = reg[d]
    BY <1>20, <1>a, <1>b, <2>1, LocalsUpdate DEF Link, HeapType, Node
  <2>3. KernelType' /\ ContextType' /\ Allocated'
    <3>1. reg'[c].m = reg[c].m /\ reg[c].m \in Msgs
      BY <1>20, <1>a, <1>b DEF Link, At, Allocated, Locals
    <3>2. QED
      BY <1>20, <1>a, <2>2, <3>1, GoOnType DEF Link, KernelType, Labels
  <2>4. QED
    BY <1>20, <1>a, <2>3, Frame DEF Link, Typed, TypeOK
<1>21. ASSUME NEW c \in Contexts, LinkHead(c) PROVE Typed'
  <2>1. reg[c].m \in Node /\ reg[c].q \in Queues
    BY <1>21, <1>a, <1>b, LocalsFields
    DEF LinkHead, At, Sound, Derefs, Allocated, Node
  <2>2. KernelType' /\ ContextType' /\ Allocated'
    BY <1>21, <1>a, <1>b, GoOnType DEF LinkHead, KernelType, Labels
  <2>3. HeapType'
    BY <1>21, <1>a, <2>1 DEF LinkHead, HeapType
  <2>4. HistoryType'
    BY <1>21, <1>a, <2>1, HistoryStep DEF LinkHead, HistoryType
  <2>5. QED
    BY <1>21, <1>a, <2>2, <2>3, <2>4, Frame DEF LinkHead, Typed, TypeOK
<1>22. ASSUME NEW c \in Contexts, LinkNew(c) PROVE Typed'
  <2>1. KernelType' /\ ContextType' /\ Allocated'
    BY <1>22, <1>a, <1>b, GoOnType DEF LinkNew, KernelType, Labels
  <2>2. reg[c].q \in Node \cup {Nil} /\ reg[c].pv \in Node \cup {Nil}
    BY <1>b, LocalsFields DEF Node
  <2>3. HeapType'
    BY <1>22, <1>a, <2>2 DEF LinkNew, HeapType
  <2>4. QED
    BY <1>22, <1>a, <2>1, <2>3, Frame DEF LinkNew, Typed, TypeOK
<1>23. ASSUME NEW c \in Contexts, LinkPrev(c) PROVE Typed'
  <2>1. KernelType' /\ ContextType' /\ Allocated'
    BY <1>23, <1>a, <1>b, GoOnType DEF LinkPrev, KernelType, Labels
  <2>2. HeapType'
    BY <1>23, <1>a, <1>b, LocalsFields DEF LinkPrev, HeapType
  <2>3. QED
    BY <1>23, <1>a, <2>1, <2>2, Frame DEF LinkPrev, Typed, TypeOK
<1>24. ASSUME NEW c \in Contexts, SizeLoad(c) PROVE Typed'
  <2>1. reg[c].q \in Queues
    BY <1>24, <1>b, LocalsFields DEF SizeLoad, At, Sound, Derefs
  <2>2. reg' \in [Contexts -> Locals] /\ \A d \in Contexts \ {c} : reg'[d] = reg[d]
    BY <1>24, <1>a, <1>b, <2>1, LocalsUpdate DEF SizeLoad, HeapType
  <2>3. KernelType' /\ ContextType' /\ Allocated'
    BY <1>24, <1>a, <2>2, GoOnType DEF SizeLoad, KernelType, Labels
  <2>4. QED
    BY <1>24, <1>a, <2>3, Frame DEF SizeLoad, Typed, TypeOK
<1>25. ASSUME NEW c \in Contexts, SizeStore(c) PROVE Typed'
  <2>1. KernelType' /\ ContextType' /\ Allocated'
    <3>1. CASE c = Isr
      BY <1>25, <1>a, <1>b, <3>1, GoOnType DEF SizeStore, KernelType, Labels
    <3>2. CASE c # Isr
      <4>1. c \in Clients /\ Return(c) /\ spinlock' = Nobody /\ UNCHANGED my_wq
        BY <1>25, <3>2 DEF SizeStore, SpinUnlock, Contexts
      <4>2. QED
        BY <4>1, ReturnType
    <3>3. QED
      BY <3>1, <3>2
  <2>2. reg[c].k \in Int
    BY <1>b, LocalsFields
  <2>3. HeapType'
    <3>1. (IF reg[c].op = "read" THEN reg[c].k - 1 ELSE reg[c].k + 1) \in Int
      BY <2>2
    <3>2. QED
      BY <1>25, <1>a, <3>1 DEF SizeStore, HeapType
  <2>4. QED
    BY <1>25, <1>a, <2>1, <2>3, Frame DEF SizeStore, Typed, TypeOK
<1>26. ASSUME NEW c \in Contexts, Oops(c) PROVE Typed'
  BY <1>26, <1>a, Frame DEF Oops, NullOops, Typed, TypeOK, KernelType, ContextType, Allocated
<1>27. CASE Edge
  <2>1. SensorType'
    <3>1. level' \in {0, 1} /\ sensed' \in {0, 1} /\ edges' \in Nat
      BY <1>27, <1>a DEF Edge, SensorType
    <3>2. irq' \in BOOLEAN
      BY <1>27 DEF Edge
    <3>3. QED
      BY <3>1, <3>2 DEF SensorType
  <2>2. QED
    BY <1>27, <1>a, <2>1, Frame
    DEF Edge, Typed, TypeOK, KernelType, ContextType, Allocated
<1>28. CASE IsrStart
  <2>1. PICK l \in {"each", "again"} : GoOn(Isr, l)
    BY <1>28 DEF IsrStart
  <2>2. KernelType' /\ ContextType' /\ Allocated'
    BY <1>28, <1>a, <1>b, <2>1, GoOnType DEF IsrStart, KernelType, Labels
  <2>3. SensorType'
    <3>1. level' \in {0, 1} /\ sensed' \in {0, 1} /\ edges' \in Nat
      BY <1>28, <1>a DEF IsrStart, SensorType
    <3>2. irq' \in BOOLEAN
      BY <1>28 DEF IsrStart
    <3>3. QED
      BY <3>1, <3>2 DEF SensorType
  <2>4. QED
    BY <1>28, <1>a, <2>2, <2>3, Frame DEF IsrStart, Typed, TypeOK
<1>29. CASE IsrAgain
  <2>1. PICK l \in {"each", "idle"} : GoOn(Isr, l)
    BY <1>29 DEF IsrAgain
  <2>2. KernelType' /\ ContextType' /\ Allocated'
    BY <1>29, <1>a, <1>b, <2>1, GoOnType DEF IsrAgain, KernelType, Labels
  <2>3. SensorType'
    <3>1. level' \in {0, 1} /\ sensed' \in {0, 1} /\ edges' \in Nat
      BY <1>29, <1>a DEF IsrAgain, SensorType
    <3>2. irq' \in BOOLEAN
      BY <1>29, <1>a DEF IsrAgain, SensorType
    <3>3. QED
      BY <3>1, <3>2 DEF SensorType
  <2>4. QED
    BY <1>29, <1>a, <2>2, <2>3, Frame DEF IsrAgain, Typed, TypeOK
<1>30. CASE IsrEach
  <2> DEFINE m == Kmalloc(Msgs)
             q == Following(reg[Isr].q)
  <2>1. m \in Msgs
    BY <1>30, KmallocType DEF IsrEach
  <2>2. q \in Queues
    BY <1>30, <1>a, FollowingType DEF IsrEach, At, Sound, Derefs, QueueType
  <2>3. /\ mem' = [mem EXCEPT ![m] = "live"]
        /\ reg' = [reg EXCEPT ![Isr].op = "isr", ![Isr].q = q, ![Isr].m = m]
        /\ GoOn(Isr, "link")
        /\ UNCHANGED <<spinlock, my_wq, queues, size, next, prev, sensor, history, fault>>
    BY <1>30 DEF IsrEach
  <2> HIDE DEF m, q
  <2>4. reg' \in [Contexts -> Locals] /\ \A d \in Contexts \ {Isr} : reg'[d] = reg[d]
    BY <1>b, <2>1, <2>2, <2>3, LocalsUpdate DEF Node
  <2>5. KernelType' /\ ContextType' /\ Allocated'
    <3>1. reg'[Isr].m = m
      BY <1>b, <2>3 DEF Locals
    <3>2. spinlock' \in Clients \cup {Nobody} /\ my_wq' \subseteq Clients /\ GoOn(Isr, "link")
      BY <1>a, <2>3 DEF KernelType
    <3>3. "link" \in Labels
      BY DEF Labels
    <3>4. QED
      BY <1>a, <1>b, <2>1, <2>4, <3>1, <3>2, <3>3, GoOnType
  <2>6. HeapType'
    BY <1>a, <2>1, <2>3 DEF HeapType, Node
  <2>7. QED
    BY <1>a, <2>3, <2>5, <2>6, Frame DEF Typed, TypeOK
<1>31. CASE IsrWake
  <2>1. reg' \in [Contexts -> Locals] /\ \A d \in Contexts \ {Isr} : reg'[d] = reg[d]
    BY <1>31, <1>b, BlankType DEF IsrWake
  <2>2. KernelType' /\ ContextType' /\ Allocated'
    BY <1>31, <1>a, <1>b, <2>1, GoOnType DEF IsrWake, Signal, WakeUp, KernelType, Labels
  <2>3. QED
    BY <1>31, <1>a, <2>2, Frame DEF IsrWake, Typed, TypeOK
<1>32. CASE Load \/ Setup \/ RequestIrq \/ RequestFails \/ Exit
  <2>1. PICK l \in {"added", "off", "idle", "deaf", "gone"} : pc' = [pc EXCEPT ![Isr] = l]
    BY <1>32 DEF Load, Setup, RequestIrq, RequestFails, Exit
  <2>2. ContextType' /\ Allocated'
    BY <1>32, <1>a, <1>b, <2>1 DEF ContextType, Allocated, Labels, Load, Setup, RequestIrq, RequestFails, Exit
  <2>3. KernelType'
    BY <1>32, <1>a DEF KernelType, Load, Setup, RequestIrq, RequestFails, Exit
  <2>4. QueueType'
    <3>1. qfd' = qfd /\ (q_fd' = q_fd \/ q_fd' = 0) /\ (que_list' = que_list \/ que_list' = <<>>)
      BY <1>32 DEF queues, Load, Setup, RequestIrq, RequestFails, Exit
    <3>2. <<>> \in Seq(Queues) /\ 0 \in Nat
      OBVIOUS
    <3>3. QED
      BY <1>a, <3>1, <3>2 DEF QueueType
  <2>5. SensorType'
    BY <1>32, <1>a DEF SensorType, Load, Setup, RequestIrq, RequestFails, Exit, sensor
  <2>6. QED
    BY <1>32, <1>a, <2>2, <2>3, <2>4, <2>5, Frame
    DEF Load, Setup, RequestIrq, RequestFails, Exit, Typed, TypeOK
<1>33. QED
  BY <1>1, <1>2, <1>3, <1>4, <1>5, <1>6, <1>7, <1>8, <1>9, <1>10, <1>11, <1>12,
     <1>13, <1>14, <1>15, <1>16, <1>17, <1>18, <1>19, <1>20, <1>21, <1>22, <1>23,
     <1>24, <1>25, <1>26, <1>27, <1>28, <1>29, <1>30, <1>31, <1>32
  DEF Next, ClientStep, SharedStep

LEMMA TypedAlways == Spec => []Typed
BY TypedInit, TypedStep, PTL DEF Spec

(* The type invariant.                                                     *)
THEOREM TypeCorrect == Spec => []TypeOK
<1>1. Typed => TypeOK
  BY DEF Typed
<1>2. QED
  BY <1>1, TypedAlways, PTL

-----------------------------------------------------------------------------
(* A step of one context moves no other, and does not touch the sensor.    *)
LEMMA OwnStep ==
  ASSUME Typed, NEW c \in Contexts, ClientStep(c) \/ SharedStep(c)
  PROVE  /\ UNCHANGED sensor
         /\ \A d \in Contexts \ {c} : pc'[d] = pc[d] /\ reg'[d] = reg[d]
         /\ pc'[c] \in Labels
         /\ pc'[c] # pc[c] => pc'[c] \notin Unheard \cup {"again"}
<1>1. pc \in [Contexts -> Labels] /\ reg \in [Contexts -> Locals]
  BY DEF Typed, TypeOK, ContextType
<1> USE <1>1 DEF Goto, GoOn, MaySleep, Return, Labels, Unheard
<1>2. CASE CreateInit(c) \/ CreateAdd(c) \/ Call(c) \/ Lock(c)
  BY <1>2 DEF CreateInit, Made, CreateAdd, Call, Lock
<1>3. CASE GetToRead(c) \/ GetToWrite(c) \/ GetToClear(c) \/ GetNothing(c)
  BY <1>3 DEF GetToRead, GetToWrite, GetToClear, GetNothing
<1>4. CASE WaitPrepare(c) \/ WaitDone(c) \/ WaitSchedule(c) \/ First(c) \/ Copy(c)
  BY <1>4 DEF WaitPrepare, WaitDone, WaitSchedule, First, Copy
<1>5. CASE LoopBody(c) \/ LoopEnd(c) \/ Del(c) \/ DelNext(c) \/ DelPrev(c)
  BY <1>5 DEF LoopBody, LoopEnd, Del, DelNext, DelPrev
<1>6. CASE Link(c) \/ LinkHead(c) \/ LinkNew(c) \/ LinkPrev(c)
  BY <1>6 DEF Link, LinkHead, LinkNew, LinkPrev
<1>7. CASE SizeLoad(c) \/ SizeStore(c) \/ Oops(c)
  BY <1>7 DEF SizeLoad, SizeStore, Oops
<1>8. QED
  BY <1>2, <1>3, <1>4, <1>5, <1>6, <1>7 DEF ClientStep, SharedStep

-----------------------------------------------------------------------------
(* Between its two readings of the pin the handler has seen it low, and a  *)
(* later edge is pending; at any other place the level was reported, if    *)
(* the driver has the line.                                                *)
SensorInv == ~irq /\ pc[Isr] \notin Unheard =>
  IF pc[Isr] = "again" THEN level = 0 ELSE sensed = level

LEMMA SensorStep == Typed /\ SensorInv /\ [Next]_vars => SensorInv'
<1> SUFFICES ASSUME Typed, SensorInv, [Next]_vars PROVE SensorInv'
  OBVIOUS
<1>1. pc \in [Contexts -> Labels] /\ Isr \in Contexts /\ level \in {0, 1}
  BY DEF Typed, TypeOK, ContextType, SensorType, Contexts
<1>2. CASE UNCHANGED vars
  BY <1>2 DEF vars, sensor, SensorInv
<1>3. ASSUME NEW c \in Contexts, ClientStep(c) \/ SharedStep(c), c # Isr PROVE SensorInv'
  BY <1>1, <1>3, OwnStep DEF SensorInv, sensor
<1>4. CASE SharedStep(Isr)
  <2>1. pc[Isr] \notin Unheard \cup {"again"} \/ pc'[Isr] = pc[Isr]
    BY <1>4 DEF SharedStep, Del, DelNext, DelPrev, Link, LinkHead, LinkNew,
                LinkPrev, SizeLoad, SizeStore, Oops, At, Unheard
  <2>2. QED
    BY <1>1, <1>4, <2>1, OwnStep DEF SensorInv, sensor, Unheard
<1>5. CASE Edge
  BY <1>5 DEF Edge, Triggers, SensorInv, Unheard
<1>6. CASE IsrStart
  BY <1>1, <1>6 DEF IsrStart, GoOn, Goto, SensorInv, Unheard
<1>7. CASE IsrAgain
  BY <1>1, <1>7 DEF IsrAgain, At, GoOn, Goto, SensorInv, Unheard
<1>8. CASE IsrEach \/ IsrWake
  BY <1>1, <1>8 DEF IsrEach, IsrWake, At, GoOn, Goto, SensorInv, Unheard, sensor
<1>9. CASE Load \/ Setup \/ RequestIrq \/ RequestFails \/ Exit
  BY <1>1, <1>9 DEF Load, Setup, RequestIrq, RequestFails, Exit, SensorInv,
    Unheard, sensor
<1>10. QED
  BY <1>2, <1>3, <1>4, <1>5, <1>6, <1>7, <1>8, <1>9, PirNames DEF Next, Contexts

(* However the pin moves while the handler runs, the last edge it reports  *)
(* before it rests is the level of the pin.                                *)
THEOREM SensorIsSettled == Spec => []SensorSettled
<1>1. Init => SensorInv
  BY DEF Init, SensorInv, Unheard, Contexts
<1>2. SensorInv => SensorSettled
  BY DEF SensorInv, SensorSettled, Unheard
<1>3. QED
  BY <1>1, <1>2, SensorStep, TypedAlways, PTL DEF Spec

-----------------------------------------------------------------------------
(* Only a context that may run takes a step.                               *)
LEMMA StepRuns == ASSUME NEW c \in Contexts, ClientStep(c) \/ SharedStep(c)
                  PROVE  MayRun(c)
<1>1. CASE CreateInit(c) \/ CreateAdd(c) \/ Call(c) \/ Lock(c)
  BY <1>1 DEF CreateInit, CreateAdd, Call, Lock, At
<1>2. CASE GetToRead(c) \/ GetToWrite(c) \/ GetToClear(c) \/ GetNothing(c)
  BY <1>2 DEF GetToRead, GetToWrite, GetToClear, GetNothing, At
<1>3. CASE WaitPrepare(c) \/ WaitDone(c) \/ WaitSchedule(c) \/ First(c) \/ Copy(c)
  BY <1>3 DEF WaitPrepare, WaitDone, WaitSchedule, First, Copy, At
<1>4. CASE LoopBody(c) \/ LoopEnd(c) \/ Del(c) \/ DelNext(c) \/ DelPrev(c)
  BY <1>4 DEF LoopBody, LoopEnd, Del, DelNext, DelPrev, At
<1>5. CASE Link(c) \/ LinkHead(c) \/ LinkNew(c) \/ LinkPrev(c)
  BY <1>5 DEF Link, LinkHead, LinkNew, LinkPrev, At
<1>6. CASE SizeLoad(c) \/ SizeStore(c) \/ Oops(c)
  BY <1>6 DEF SizeLoad, SizeStore, Oops, At
<1>7. QED
  BY <1>1, <1>2, <1>3, <1>4, <1>5, <1>6 DEF ClientStep, SharedStep

(* While the driver is not loaded no client is in a call, nor, if none is  *)
(* made too early, before the lock and the list are initialised.           *)
NotYet == pc[Isr] = "gone" \/ (pc[Isr] = "added" /\ (SMP => Polite)) =>
  \A c \in Clients : pc[c] = "idle"

LEMMA NotYetStep == Typed /\ NotYet /\ [Next]_vars => NotYet'
<1> SUFFICES ASSUME Typed, NotYet, [Next]_vars PROVE NotYet'
  OBVIOUS
<1>1. pc \in [Contexts -> Labels] /\ Clients \subseteq Contexts /\ Isr \in Contexts \ Clients
  BY PirNames DEF Typed, TypeOK, ContextType, Contexts
<1>2. CASE UNCHANGED vars
  BY <1>2 DEF vars, NotYet
<1>3. ASSUME NEW c \in Clients, ClientStep(c) \/ SharedStep(c) PROVE NotYet'
  BY <1>1, <1>3, StepRuns, OwnStep, SMPType, PirBounds DEF MayRun, NotYet
<1>4. CASE SharedStep(Isr)
  <2>1. \A c \in Clients : pc'[c] = pc[c]
    BY <1>1, <1>4, OwnStep
  <2>2. pc'[Isr] = pc[Isr] \/ pc'[Isr] \notin {"gone", "added"}
    BY <1>1, <1>4, OwnStep DEF Unheard
  <2>3. QED
    BY <2>1, <2>2 DEF NotYet
<1>5. CASE Edge \/ IsrStart \/ IsrAgain \/ IsrEach \/ IsrWake
  BY <1>1, <1>5 DEF Edge, IsrStart, IsrAgain, IsrEach, IsrWake, GoOn, Goto, NotYet
<1>6. CASE Load \/ Setup \/ RequestIrq \/ RequestFails \/ Exit
  BY <1>1, <1>6 DEF Load, Setup, RequestIrq, RequestFails, Exit, NotYet
<1>7. QED
  BY <1>2, <1>3, <1>4, <1>5, <1>6 DEF Next, Contexts

(* Where a client is tells which call it is in, ...                        *)
Ops == \A c \in Clients :
  /\ pc[c] \in {"idle", "create"} => reg[c].op = "none"
  /\ pc[c] \in {"lock", "size", "store"} => reg[c].op \in {"read", "write"}
  /\ pc[c] \in {"wait", "check", "sched", "first", "copy"} => reg[c].op = "read"
  /\ pc[c] \in {"link", "linkHead", "linkNew", "linkPrev"} => reg[c].op = "write"

(* ... and a client inside a read or a write holds the lock, unless it was *)
(* initialised under it.                                                   *)
Holds == SMP /\ Polite => \A c \in Clients : Locked(c) => spinlock = c

LockInv == Ops /\ NotYet /\ Holds

LEMMA LockStep == Typed /\ LockInv /\ [Next]_vars => LockInv'
<1> SUFFICES ASSUME Typed, LockInv, [Next]_vars PROVE (Ops /\ Holds)'
  BY NotYetStep DEF LockInv
<1>1. /\ pc \in [Contexts -> Labels] /\ reg \in [Contexts -> Locals]
      /\ Clients \subseteq Contexts /\ Isr \notin Clients /\ Nobody \notin Clients
  BY PirNames DEF Typed, TypeOK, ContextType, Contexts
<1> USE <1>1 DEF LockInv, Ops, Holds, Locked, Goto, GoOn, MaySleep, Locals, At
<1>2. CASE UNCHANGED vars
  BY <1>2 DEF vars
<1>3. ASSUME NEW c \in Clients, CreateInit(c) PROVE (Ops /\ Holds)'
  BY <1>3 DEF CreateInit, Made
<1>3a. ASSUME NEW c \in Clients, CreateAdd(c) PROVE (Ops /\ Holds)'
  BY <1>3a DEF CreateAdd, Return, Blank
<1>4. ASSUME NEW c \in Clients, Call(c) PROVE (Ops /\ Holds)'
  BY <1>4 DEF Call
<1>5. ASSUME NEW c \in Clients, Lock(c) PROVE (Ops /\ Holds)'
  BY <1>5 DEF Lock, TakeLock, SpinLock
<1>6. ASSUME NEW c \in Clients, GetToRead(c) PROVE (Ops /\ Holds)'
  BY <1>6 DEF GetToRead
<1>7. ASSUME NEW c \in Clients, GetToWrite(c) PROVE (Ops /\ Holds)'
  BY <1>7 DEF GetToWrite
<1>8. ASSUME NEW c \in Clients, GetToClear(c) PROVE (Ops /\ Holds)'
  BY <1>8 DEF GetToClear
<1>8a. ASSUME NEW c \in Clients, GetNothing(c) PROVE (Ops /\ Holds)'
  BY <1>8a DEF GetNothing
<1>9. ASSUME NEW c \in Clients, WaitPrepare(c) \/ WaitDone(c) \/ WaitSchedule(c)
      PROVE  (Ops /\ Holds)'
  BY <1>9 DEF WaitPrepare, WaitDone, WaitSchedule
<1>10. ASSUME NEW c \in Clients, First(c) PROVE (Ops /\ Holds)'
  BY <1>10 DEF First
<1>10a. ASSUME NEW c \in Clients, Copy(c) PROVE (Ops /\ Holds)'
  BY <1>10a DEF Copy
<1>11. ASSUME NEW c \in Clients, LoopBody(c) PROVE (Ops /\ Holds)'
  BY <1>11 DEF LoopBody
<1>12. ASSUME NEW c \in Clients, LoopEnd(c) PROVE (Ops /\ Holds)'
  BY <1>12 DEF LoopEnd, Return, Blank
<1>13. ASSUME NEW c \in Clients, Del(c) PROVE (Ops /\ Holds)'
  BY <1>13 DEF Del
<1>13a. ASSUME NEW c \in Clients, DelNext(c) \/ DelPrev(c) PROVE (Ops /\ Holds)'
  BY <1>13a DEF DelNext, DelPrev
<1>14. ASSUME NEW c \in Clients, Link(c) PROVE (Ops /\ Holds)'
  BY <1>14 DEF Link
<1>14a. ASSUME NEW c \in Clients, LinkHead(c) \/ LinkNew(c) \/ LinkPrev(c)
        PROVE  (Ops /\ Holds)'
  BY <1>14a DEF LinkHead, LinkNew, LinkPrev
<1>15. ASSUME NEW c \in Clients, SizeLoad(c) \/ Oops(c) PROVE (Ops /\ Holds)'
  BY <1>15 DEF SizeLoad, Oops
<1>16. ASSUME NEW c \in Clients, SizeStore(c) PROVE (Ops /\ Holds)'
  <2>1. /\ pc[c] = "store" /\ pc' = [pc EXCEPT ![c] = "idle"]
        /\ reg' = [reg EXCEPT ![c] = Blank] /\ SpinUnlock
    BY <1>16 DEF SizeStore, Return
  <2>2. QED
    BY <2>1 DEF SpinUnlock, Blank
<1>17. CASE SharedStep(Isr)
  <2>1. \A d \in Clients : pc'[d] = pc[d] /\ reg'[d] = reg[d]
    BY <1>17, OwnStep DEF Contexts
  <2>2. UNCHANGED spinlock
    BY <1>17 DEF SharedStep, Del, DelNext, DelPrev, Link, LinkHead, LinkNew,
                 LinkPrev, SizeLoad, SizeStore, Oops
  <2>3. QED
    BY <2>1, <2>2
<1>18. CASE Edge \/ IsrStart \/ IsrAgain \/ IsrEach \/ IsrWake
  BY <1>18 DEF Edge, IsrStart, IsrAgain, IsrEach, IsrWake
<1>19. CASE Load \/ Setup \/ RequestIrq \/ RequestFails \/ Exit
  <2>1. \A c \in Clients : pc'[c] = pc[c] /\ reg'[c] = reg[c]
    BY <1>19 DEF Load, Setup, RequestIrq, RequestFails, Exit
  <2>2. CASE Load \/ (Setup /\ Polite)
    BY <2>1, <2>2 DEF Load, Setup, NotYet
  <2>3. CASE Setup /\ ~Polite
    BY <2>1, <2>3
  <2>4. CASE RequestIrq \/ RequestFails \/ Exit
    BY <2>1, <2>4 DEF RequestIrq, RequestFails, Exit
  <2>5. QED
    BY <1>19, <2>2, <2>3, <2>4
<1>20. QED
  BY <1>2, <1>3, <1>3a, <1>4, <1>5, <1>6, <1>7, <1>8, <1>8a, <1>9, <1>10, <1>10a,
     <1>11, <1>12, <1>13, <1>13a, <1>14, <1>14a, <1>15, <1>16, <1>17, <1>18, <1>19
  DEF Next, ClientStep, SharedStep, Contexts

LEMMA LockAlways == Spec => [](Typed /\ LockInv)
<1>1. Init => LockInv
  BY PirNames DEF Init, LockInv, Ops, NotYet, Holds, Locked, Blank, Contexts
<1>2. QED
  BY <1>1, LockStep, TypedAlways, PTL DEF Spec

(* The spin lock covers a read or a write from the lookup to its end.      *)
THEOREM LockIsExclusive == Spec => []LockExcludes
<1>1. LockInv => LockExcludes
  BY DEF LockInv, Holds, LockExcludes
<1>2. QED
  BY <1>1, LockAlways, PTL

-----------------------------------------------------------------------------
(* A reader that sleeps has looked at the counter of a queue.              *)
SleepInv == \A c \in Clients : pc[c] = "sched" => reg[c].q \in Queues

LEMMA SleepStep == Typed /\ SleepInv /\ [Next]_vars => SleepInv'
<1> SUFFICES ASSUME Typed, SleepInv, [Next]_vars, NEW r \in Clients, pc'[r] = "sched"
             PROVE  reg'[r].q \in Queues
  BY DEF SleepInv
<1>1. /\ pc \in [Contexts -> Labels] /\ reg \in [Contexts -> Locals]
      /\ Clients \subseteq Contexts /\ Isr \in Contexts \ Clients
  BY PirNames DEF Typed, TypeOK, ContextType, Contexts
<1>2. ASSUME pc[r] = "sched", reg'[r] = reg[r] PROVE reg'[r].q \in Queues
  BY <1>2 DEF SleepInv
<1>3. CASE (UNCHANGED vars) \/ Edge \/ IsrStart \/ IsrAgain \/ IsrEach \/ IsrWake
  BY <1>1, <1>2, <1>3 DEF vars, Edge, IsrStart, IsrAgain, IsrEach, IsrWake, GoOn, Goto
<1>4. ASSUME NEW c \in Contexts, c # r, ClientStep(c) \/ SharedStep(c)
      PROVE  reg'[r].q \in Queues
  BY <1>1, <1>2, <1>4, OwnStep
<1>5. CASE WaitSchedule(r)
  BY <1>1, <1>5, LocalsFields DEF WaitSchedule, At, Sound, Derefs
<1>6. CASE \/ Call(r) \/ GetToRead(r) \/ GetToWrite(r) \/ GetToClear(r) \/ LoopBody(r)
           \/ CreateInit(r) \/ CreateAdd(r) \/ Lock(r) \/ WaitPrepare(r) \/ WaitDone(r)
           \/ First(r) \/ Copy(r) \/ LoopEnd(r)
  <2>1. \E l \in Labels \ {"sched"} : Goto(r, l)
    BY <1>6 DEF Call, GetToRead, GetToWrite, GetToClear, LoopBody, CreateInit, Made,
      CreateAdd, Lock, WaitPrepare, WaitDone, First, Copy, LoopEnd, Return, GoOn,
      MaySleep, Labels
  <2>2. QED
    BY <1>1, <2>1 DEF Goto
<1>7. CASE GetNothing(r) \/ Oops(r)
  BY <1>2, <1>7 DEF GetNothing, Oops
<1>8. CASE \/ Del(r) \/ DelNext(r) \/ DelPrev(r) \/ Link(r) \/ LinkHead(r) \/ LinkNew(r)
           \/ LinkPrev(r) \/ SizeLoad(r) \/ SizeStore(r)
  <2>1. \E l \in Labels \ {"sched"} : Goto(r, l)
    BY <1>1, <1>8 DEF Del, DelNext, DelPrev, Link, LinkHead, LinkNew, LinkPrev, SizeLoad,
      SizeStore, Return, GoOn, Labels
  <2>2. QED
    BY <1>1, <2>1 DEF Goto
<1>9. CASE Load \/ Setup \/ RequestIrq \/ RequestFails \/ Exit
  BY <1>1, <1>2, <1>9 DEF Load, Setup, RequestIrq, RequestFails, Exit
<1>10. QED
  BY <1>3, <1>4, <1>5, <1>6, <1>7, <1>8, <1>9, <1>1 DEF Next, ClientStep, SharedStep

Resting == Unheard \cup {"idle", "again"}

(* While the handler rests, or has not yet decided what it saw, no reader  *)
(* sleeps beside a message: only a write could have put it there, and the  *)
(* reader holds the lock.                                                  *)
WakeInv == SMP /\ Polite => \A c \in Clients :
  pc[c] = "sched" /\ c \in my_wq /\ size[reg[c].q] > 0 => pc[Isr] \notin Resting

LEMMA WakeStep == Typed /\ LockInv /\ SleepInv /\ WakeInv /\ [Next]_vars => WakeInv'
<1> SUFFICES ASSUME Typed, LockInv, SleepInv, WakeInv, [Next]_vars, SMP, Polite,
                    NEW r \in Clients, pc'[r] = "sched", r \in my_wq',
                    size'[reg'[r].q] > 0
             PROVE  pc'[Isr] \notin Resting
  BY DEF WakeInv
<1> USE DEF Resting, Unheard
<1>1. /\ pc \in [Contexts -> Labels] /\ reg \in [Contexts -> Locals]
      /\ Clients \subseteq Contexts /\ Isr \in Contexts \ Clients
      /\ size \in [Queues -> Int]
  BY PirNames DEF Typed, TypeOK, ContextType, HeapType, Contexts
<1>2. ASSUME pc[r] = "sched", r \in my_wq, UNCHANGED size, reg'[r] = reg[r],
             pc'[Isr] = pc[Isr] \/ pc'[Isr] \notin Resting
      PROVE  pc'[Isr] \notin Resting
  BY <1>2 DEF WakeInv
<1>3. CASE UNCHANGED vars
  BY <1>2, <1>3 DEF vars, heap
<1>4. ASSUME NEW c \in Clients, CreateInit(c) PROVE pc'[Isr] \notin Resting
  <2>1. reg'[r] = reg[r] /\ pc[r] = "sched" /\ r \in my_wq /\ pc'[Isr] = pc[Isr]
    BY <1>1, <1>4 DEF CreateInit, Made, GoOn, Goto
  <2>2. reg[r].q \in Queues /\ size'[reg[r].q] > 0
    BY <2>1 DEF SleepInv
  <2>3. PICK q : size' = [size EXCEPT ![q] = 0]
    BY <1>4 DEF CreateInit
  <2>4. size[reg[r].q] > 0
    BY <1>1, <2>2, <2>3
  <2>5. QED
    BY <2>1, <2>4 DEF WakeInv
<1>5. ASSUME NEW c \in Clients, LoopEnd(c) PROVE pc'[Isr] \notin Resting
  <2>1. reg'[r] = reg[r] /\ pc[r] = "sched" /\ r \in my_wq /\ pc'[Isr] = pc[Isr]
    BY <1>1, <1>5 DEF LoopEnd, Return, Goto
  <2>2. size[reg[r].q] > 0
    BY <1>1, <1>5, <2>1 DEF LoopEnd, Emptied, SleepInv
  <2>3. QED
    BY <2>1, <2>2 DEF WakeInv
<1>6. ASSUME NEW c \in Clients, SizeStore(c) PROVE pc'[Isr] \notin Resting
  <2>1. r # c /\ pc[r] = "sched" /\ pc[c] = "store"
    BY <1>1, <1>6 DEF SizeStore, At, Return, Goto
  <2>2. Locked(r) /\ Locked(c)
    BY <2>1 DEF LockInv, Ops, Locked
  <2>3. QED
    BY <2>1, <2>2 DEF LockInv, Holds
<1>7. ASSUME NEW c \in Clients, WaitSchedule(c) PROVE pc'[Isr] \notin Resting
  <2>1. CASE c = r
    <3>1. reg[r].q \in Queues
      BY <1>1, <1>7, <2>1, LocalsFields DEF WaitSchedule, At, Sound, Derefs
    <3>2. QED
      BY <1>1, <1>7, <2>1, <3>1 DEF WaitSchedule, HasMessage, heap
  <2>2. CASE c # r
    BY <1>1, <1>2, <1>7, <2>2 DEF WaitSchedule, Goto, heap
  <2>3. QED
    BY <2>1, <2>2
<1>8. ASSUME NEW c \in Clients, c # r, ClientStep(c), UNCHANGED size,
             my_wq' \subseteq my_wq \cup {c}
      PROVE  pc'[Isr] \notin Resting
  <2>1. pc'[r] = pc[r] /\ reg'[r] = reg[r] /\ pc'[Isr] = pc[Isr]
    BY <1>1, <1>8, OwnStep
  <2>2. QED
    BY <1>2, <1>8, <2>1
<1>8a. ASSUME NEW c \in Clients, CreateAdd(c) \/ Lock(c) \/ First(c) \/ Copy(c) \/ LoopBody(c)
       PROVE  pc'[Isr] \notin Resting
  <2>1. (UNCHANGED size) /\ (UNCHANGED my_wq)
    BY <1>8a DEF CreateAdd, Lock, First, Copy, LoopBody, heap
  <2>2. pc'[c] # "sched"
    BY <1>1, <1>8a DEF CreateAdd, Lock, First, Copy, LoopBody, Return, GoOn, MaySleep, Goto
  <2>3. QED
    BY <1>8, <1>8a, <2>1, <2>2 DEF ClientStep
<1>8b. ASSUME NEW c \in Clients, WaitPrepare(c) \/ WaitDone(c)
       PROVE  pc'[Isr] \notin Resting
  <2>1. (UNCHANGED size) /\ my_wq' \subseteq my_wq \cup {c}
    BY <1>8b DEF WaitPrepare, WaitDone, PrepareToWait, FinishWait, heap
  <2>2. pc'[c] # "sched"
    BY <1>1, <1>8b DEF WaitPrepare, WaitDone, GoOn, Goto
  <2>3. QED
    BY <1>8, <1>8b, <2>1, <2>2 DEF ClientStep
<1>8c. ASSUME NEW c \in Clients, Call(c) \/ GetToRead(c) \/ GetToWrite(c) \/ GetToClear(c)
       PROVE  pc'[Isr] \notin Resting
  <2>1. (UNCHANGED size) /\ (UNCHANGED my_wq)
    BY <1>8c DEF Call, GetToRead, GetToWrite, GetToClear, heap
  <2>2. \E l \in {"lock", "get", "wait", "link", "loop"} : Goto(c, l)
    BY <1>8c DEF Call, GetToRead, GetToWrite, GetToClear, GoOn, MaySleep
  <2>3. pc'[c] # "sched"
    BY <1>1, <2>2 DEF Goto
  <2>4. QED
    BY <1>8, <1>8c, <2>1, <2>3 DEF ClientStep
<1>8d. ASSUME NEW c \in Clients, GetNothing(c) PROVE pc'[Isr] \notin Resting
  BY <1>2, <1>8d DEF GetNothing, heap
<1>9. ASSUME NEW c \in Contexts,
             \/ Del(c) \/ DelNext(c) \/ DelPrev(c) \/ Link(c) \/ LinkHead(c)
             \/ LinkNew(c) \/ LinkPrev(c) \/ SizeLoad(c) \/ Oops(c)
      PROVE  pc'[Isr] \notin Resting
  <2>1. UNCHANGED size /\ UNCHANGED my_wq
    BY <1>9 DEF Del, DelNext, DelPrev, Link, LinkHead, LinkNew, LinkPrev, SizeLoad,
                Oops, heap
  <2>2. (pc'[c] = pc[c] /\ reg'[c] = reg[c]) \/ pc'[c] \notin Resting \cup {"sched"}
    BY <1>1, <1>9 DEF Del, DelNext, DelPrev, Link, LinkHead, LinkNew, LinkPrev,
                      SizeLoad, Oops, GoOn, Goto
  <2>3. QED
    BY <1>1, <1>2, <1>9, <2>1, <2>2, OwnStep DEF SharedStep
<1>10. CASE SizeStore(Isr)
  BY <1>1, <1>10 DEF SizeStore, GoOn, Goto
<1>11. CASE Edge
  BY <1>2, <1>11 DEF Edge, heap
<1>12. CASE IsrStart \/ IsrAgain
  <2>1. pc[r] = "sched" /\ r \in my_wq /\ UNCHANGED size /\ UNCHANGED reg
        /\ pc[Isr] \in Resting
    BY <1>1, <1>12 DEF IsrStart, IsrAgain, At, GoOn, Goto, heap
  <2>2. QED
    BY <2>1 DEF WakeInv
<1>13. CASE IsrEach
  BY <1>1, <1>13 DEF IsrEach, GoOn, Goto
<1>14. CASE IsrWake
  BY <1>14 DEF IsrWake, Signal, WakeUp
<1>15. CASE Load \/ Setup \/ RequestIrq \/ RequestFails \/ Exit
  <2>1. pc'[r] = pc[r] /\ reg'[r] = reg[r] /\ UNCHANGED size
    BY <1>1, <1>15 DEF Load, Setup, RequestIrq, RequestFails, Exit, heap
  <2>2. RequestIrq \/ RequestFails
    BY <1>15, <2>1 DEF Load, Setup, Exit
  <2>3. pc[Isr] \in Resting /\ r \in my_wq
    BY <2>2 DEF RequestIrq, RequestFails
  <2>4. QED
    BY <2>1, <2>3 DEF WakeInv
<1>16. QED
  BY <1>3, <1>4, <1>5, <1>6, <1>7, <1>8a, <1>8b, <1>8c, <1>8d, <1>9, <1>10, <1>11,
     <1>12, <1>13, <1>14, <1>15
  DEF Next, ClientStep, SharedStep, Contexts

(* With SMP, if no call is made before the list is set up, a reader that   *)
(* sleeps beside a message is about to be woken.                           *)
THEOREM NobodyStranded == ASSUME SMP, Polite PROVE Spec => []NoStrandedReader
<1>1. Init => WakeInv
  BY DEF Init, WakeInv, Contexts
<1>2. Init => SleepInv
  BY DEF Init, SleepInv, Contexts
<1>3. WakeInv => NoStrandedReader
  BY DEF WakeInv, NoStrandedReader, Resting, Unheard
<1>4. QED
  BY <1>1, <1>2, <1>3, SleepStep, WakeStep, LockAlways, PTL DEF Spec

-----------------------------------------------------------------------------
(* Every queue of the list has a descriptor that was already counted, and  *)
(* no fresh memory; a client about to add one has the processor, and its   *)
(* queue has the descriptor that comes next.                               *)
Counting == \A i \in DOMAIN que_list :
  qfd[que_list[i]] < q_fd /\ mem[que_list[i]] # "fresh"
Adding == \A c \in Clients :
  pc[c] = "create" => cpu = c /\ qfd[reg[c].q] = q_fd /\ mem[reg[c].q] # "fresh"
FdInv == Counting /\ Adding /\ FdUnique

(* The part of it that a step which adds no queue has to keep.             *)
LEMMA FdKept ==
  ASSUME Typed, FdInv, UNCHANGED q_fd, UNCHANGED qfd,
         \A i \in DOMAIN que_list' : \E j \in DOMAIN que_list : que_list'[i] = que_list[j],
         \A x \in Queues : mem'[x] = "fresh" => mem[x] = "fresh",
         \A c \in Clients : pc'[c] = "create" =>
           pc[c] = "create" /\ reg'[c] = reg[c] /\ cpu' = cpu
  PROVE  FdInv'
<1>1. que_list \in Seq(Queues) /\ \A j \in DOMAIN que_list : que_list[j] \in Queues
  BY DEF Typed, TypeOK, QueueType
<1>2. Counting'
  BY <1>1 DEF FdInv, Counting
<1>3. Adding'
  BY DEF FdInv, Adding, Typed, Allocated, Contexts
<1>4. FdUnique'
  BY DEF FdInv, FdUnique, Range
<1>5. QED
  BY <1>2, <1>3, <1>4 DEF FdInv

(* Steps that leave the list of queues alone.                              *)
LEMMA FdStepShared ==
  ASSUME Typed, NEW c \in Contexts, SharedStep(c)
  PROVE  /\ UNCHANGED <<q_fd, que_list, qfd>>
         /\ \A x \in Queues : mem'[x] = "fresh" => mem[x] = "fresh"
         /\ pc'[c] = "create" => Oops(c)
<1>1. pc \in [Contexts -> Labels] /\ mem \in [Node -> {"fresh", "live", "freed"}]
  BY DEF Typed, TypeOK, ContextType, HeapType
<1>2. CASE DelPrev(c)
  BY <1>1, <1>2 DEF DelPrev, queues, GoOn, Goto, Node
<1>3. CASE Del(c) \/ DelNext(c) \/ Link(c) \/ LinkHead(c) \/ LinkNew(c) \/ LinkPrev(c)
  BY <1>1, <1>3 DEF Del, DelNext, Link, LinkHead, LinkNew, LinkPrev, queues, heap, GoOn, Goto
<1>4. CASE SizeLoad(c) \/ SizeStore(c)
  BY <1>1, <1>4 DEF SizeLoad, SizeStore, queues, heap, Return, GoOn, Goto
<1>5. CASE Oops(c)
  BY <1>5 DEF Oops, queues, heap
<1>6. QED
  BY <1>2, <1>3, <1>4, <1>5 DEF SharedStep

LEMMA FdStep == ~SMP /\ Typed /\ FdInv /\ [Next]_vars => FdInv'
<1> SUFFICES ASSUME ~SMP, Typed, FdInv, [Next]_vars PROVE FdInv'
  OBVIOUS
<1>1. /\ pc \in [Contexts -> Labels] /\ reg \in [Contexts -> Locals]
      /\ Clients \subseteq Contexts /\ Isr \in Contexts \ Clients /\ Nobody \notin Clients
      /\ que_list \in Seq(Queues) /\ q_fd \in Nat /\ qfd \in [Queues -> Nat]
      /\ mem \in [Node -> {"fresh", "live", "freed"}]
  BY PirNames DEF Typed, TypeOK, ContextType, QueueType, HeapType, Contexts
<1>2. CASE UNCHANGED vars
  BY <1>2, FdKept DEF vars, queues, heap
<1>3. ASSUME NEW c \in Clients, ClientStep(c) \/ SharedStep(c),
             NEW d \in Clients, d # c
      PROVE  pc'[d] # "create" /\ pc[d] # "create"
  <2>1. Runs(c)
    BY <1>1, <1>3, StepRuns DEF MayRun
  <2>2. pc[d] # "create"
    BY <1>1, <1>3, <2>1 DEF Runs, FdInv, Adding
  <2>3. QED
    BY <1>1, <1>3, <2>2, OwnStep
<1>4. ASSUME NEW c \in Clients, CreateInit(c) PROVE FdInv'
  <2>1. PICK q \in Queues :
          /\ mem[q] = "fresh" /\ mem' = [mem EXCEPT ![q] = "live"]
          /\ qfd' = [qfd EXCEPT ![q] = q_fd] /\ reg' = [reg EXCEPT ![c].q = q]
    BY <1>4, KmallocType DEF CreateInit
  <2>2. UNCHANGED <<q_fd, que_list>> /\ cpu' = c /\ pc' = [pc EXCEPT ![c] = "create"]
    BY <1>1, <1>4 DEF CreateInit, Made, GoOn, Goto, Keep, KeepCpu
  <2>3. \A i \in DOMAIN que_list : que_list[i] \in Queues /\ que_list[i] # q
    BY <1>1, <2>1 DEF FdInv, Counting
  <2>4. Counting'
    BY <1>1, <2>1, <2>2, <2>3 DEF FdInv, Counting, Node
  <2>5. reg'[c].q = q
    BY <1>1, <2>1 DEF Locals
  <2>6. Adding'
    <3>1. \A d \in Clients : pc'[d] = "create" => d = c
      BY <1>3, <1>4 DEF ClientStep
    <3>2. QED
      BY <1>1, <2>1, <2>2, <2>5, <3>1 DEF Adding, Node
  <2>7. FdUnique'
    <3>1. Range(que_list)' = Range(que_list)
      BY <2>2 DEF Range
    <3>2. \A x \in Range(que_list) : x \in Queues /\ x # q
      BY <2>3 DEF Range
    <3>3. \A x \in Range(que_list) : qfd'[x] = qfd[x]
      BY <1>1, <2>1, <3>2
    <3>4. QED
      BY <3>1, <3>3 DEF FdInv, FdUnique
  <2>8. QED
    BY <2>4, <2>6, <2>7 DEF FdInv
<1>5. ASSUME NEW c \in Clients, CreateAdd(c) PROVE FdInv'
  <2> DEFINE q == reg[c].q
  <2>1. q_fd' = q_fd + 1 /\ que_list' = Append(que_list, q) /\ UNCHANGED <<qfd, mem>>
    BY <1>5 DEF CreateAdd, Counted, heap
  <2>2. q \in Queues /\ qfd[q] = q_fd /\ mem[q] # "fresh"
    BY <1>1, <1>5 DEF CreateAdd, At, FdInv, Adding, Typed, Allocated
  <2> HIDE DEF q
  <2>3. \A i \in DOMAIN que_list' :
          que_list'[i] = q \/ \E j \in DOMAIN que_list : que_list'[i] = que_list[j]
    BY <1>1, <2>1, <2>2
  <2>4. \A j \in DOMAIN que_list : que_list[j] \in Queues
    BY <1>1
  <2>5. Counting'
    BY <1>1, <2>1, <2>2, <2>3, <2>4 DEF FdInv, Counting
  <2>6. \A d \in Clients : pc'[d] # "create"
    BY <1>1, <1>3, <1>5 DEF ClientStep, CreateAdd, Return, Goto
  <2>7. \A x \in Range(que_list)' : x = q \/ (x \in Range(que_list) /\ qfd[x] < q_fd)
    BY <2>3 DEF Range, FdInv, Counting
  <2>8. \A x \in Range(que_list) : x \in Queues /\ qfd[x] \in Nat
    BY <1>1, <2>4 DEF Range
  <2>9. FdUnique'
    BY <1>1, <2>1, <2>2, <2>7, <2>8 DEF FdInv, FdUnique
  <2>10. QED
    BY <2>5, <2>6, <2>9 DEF FdInv, Adding
<1>6. ASSUME NEW c \in Clients, UNCHANGED <<q_fd, qfd>>, ClientStep(c) \/ SharedStep(c),
             \A i \in DOMAIN que_list' : \E j \in DOMAIN que_list : que_list'[i] = que_list[j],
             \A x \in Queues : mem'[x] = "fresh" => mem[x] = "fresh",
             pc'[c] # "create"
      PROVE  FdInv'
  BY <1>3, <1>6, FdKept
<1>7. ASSUME NEW c \in Clients,
             \/ Lock(c) \/ WaitPrepare(c) \/ WaitDone(c) \/ WaitSchedule(c) \/ First(c)
             \/ Copy(c) \/ LoopEnd(c)
      PROVE  FdInv'
  <2>1. UNCHANGED <<q_fd, que_list, qfd>> /\ \A x \in Queues : mem'[x] = "fresh" => mem[x] = "fresh"
    BY <1>1, <1>7 DEF Lock, WaitPrepare, WaitDone, WaitSchedule, First, Copy, LoopEnd,
      queues, heap, Node
  <2>2. pc'[c] # "create"
    BY <1>1, <1>7 DEF Lock, WaitPrepare, WaitDone, WaitSchedule, First, Copy, LoopEnd,
      Return, GoOn, MaySleep, Goto
  <2>3. QED
    BY <1>6, <1>7, <2>1, <2>2 DEF ClientStep
<1>8. ASSUME NEW c \in Clients, LoopBody(c) \/ GetToWrite(c) \/ Call(c) \/ GetToRead(c)
      PROVE  FdInv'
  <2>1. UNCHANGED <<q_fd, que_list, qfd>>
    BY <1>8 DEF LoopBody, GetToWrite, Call, GetToRead, queues
  <2>2. UNCHANGED mem \/ \E x \in Node, s \in {"live", "freed"} : mem' = [mem EXCEPT ![x] = s]
    BY <1>1, <1>8, LocalsFields, KmallocType DEF LoopBody, GetToWrite, Call, GetToRead, heap,
      At, Sound, Derefs, Node
  <2>3. \A x \in Queues : mem'[x] = "fresh" => mem[x] = "fresh"
    BY <1>1, <2>2 DEF Node
  <2>4. \E l \in {"del", "loop", "link", "lock", "get", "wait"} : Goto(c, l)
    BY <1>8 DEF LoopBody, GetToWrite, Call, GetToRead, GoOn, MaySleep
  <2>5. pc'[c] # "create"
    BY <1>1, <2>4 DEF Goto
  <2>6. QED
    BY <1>6, <1>8, <2>1, <2>3, <2>5 DEF ClientStep
<1>9. ASSUME NEW c \in Clients, GetToClear(c) PROVE FdInv'
  <2>1. PICK q \in Queues :
          /\ Gets(reg[c].fd, q)
          /\ que_list' = IF reg[c].op = "flush" THEN que_list ELSE Without(Place(q))
    BY <1>9 DEF GetToClear
  <2>2. q # Nil
    BY PirNames
  <2>3. \E i \in DOMAIN que_list : que_list[i] = q
    BY <2>1, <2>2 DEF Gets
  <2>4. \A i \in DOMAIN que_list' : \E j \in DOMAIN que_list : que_list'[i] = que_list[j]
    <3>1. \A i \in DOMAIN Without(Place(q)) :
            \E j \in DOMAIN que_list : Without(Place(q))[i] = que_list[j]
      BY <1>1, <2>3, WithoutType
    <3>2. que_list' = que_list \/ que_list' = Without(Place(q))
      BY <2>1
    <3>3. QED
      BY <3>1, <3>2
  <2>5. UNCHANGED <<q_fd, qfd, mem>> /\ pc'[c] # "create"
    BY <1>1, <1>9 DEF GetToClear, GoOn, Goto, heap
  <2>6. QED
    BY <1>6, <1>9, <2>4, <2>5 DEF ClientStep
<1>10. ASSUME NEW c \in Clients, GetNothing(c) \/ Oops(c) PROVE FdInv'
  BY <1>10, FdKept DEF GetNothing, Oops, queues, heap
<1>11. ASSUME NEW c \in Clients, SharedStep(c), ~Oops(c) PROVE FdInv'
  BY <1>1, <1>6, <1>11, FdStepShared
<1>12. CASE SharedStep(Isr)
  <2>1. UNCHANGED cpu
    BY <1>1, <1>12 DEF SharedStep, Del, DelNext, DelPrev, Link, LinkHead, LinkNew, LinkPrev,
      SizeLoad, SizeStore, Oops, GoOn, Keep
  <2>2. \A d \in Clients : pc'[d] = pc[d] /\ reg'[d] = reg[d]
    BY <1>1, <1>12, OwnStep
  <2>3. QED
    BY <1>1, <1>12, <2>1, <2>2, FdStepShared, FdKept
<1>13. CASE Edge \/ IsrStart \/ IsrAgain \/ IsrWake
  <2>1. UNCHANGED <<cpu, q_fd, que_list, qfd, mem>>
    BY <1>13 DEF Edge, IsrStart, IsrAgain, IsrWake, GoOn, Keep, queues, heap
  <2>2. \A d \in Clients : pc'[d] = pc[d] /\ reg'[d] = reg[d]
    BY <1>1, <1>13 DEF Edge, IsrStart, IsrAgain, IsrWake, GoOn, Goto
  <2>3. QED
    BY <2>1, <2>2, FdKept
<1>14. CASE IsrEach
  <2>1. UNCHANGED <<cpu, q_fd, que_list, qfd>>
    BY <1>14 DEF IsrEach, GoOn, Keep, queues
  <2>2. \A d \in Clients : pc'[d] = pc[d] /\ reg'[d] = reg[d]
    BY <1>1, <1>14 DEF IsrEach, GoOn, Goto
  <2>3. \E x \in Node : mem' = [mem EXCEPT ![x] = "live"]
    BY <1>14, KmallocType DEF IsrEach, Node
  <2>4. \A x \in Queues : mem'[x] = "fresh" => mem[x] = "fresh"
    BY <1>1, <2>3 DEF Node
  <2>5. QED
    BY <2>1, <2>2, <2>4, FdKept
<1>15. CASE Load \/ Setup \/ RequestIrq \/ RequestFails \/ Exit
  <2>1. /\ UNCHANGED <<cpu, qfd, mem>>
        /\ \A d \in Clients : pc'[d] = pc[d] /\ reg'[d] = reg[d]
    BY <1>1, <1>15 DEF Load, Setup, RequestIrq, RequestFails, Exit, queues, heap
  <2>2. CASE Load
    <3>1. (\A d \in Clients : pc'[d] # "create") /\ que_list' = <<>>
      BY <2>1, <2>2 DEF Load
    <3>2. QED
      BY <3>1 DEF FdInv, Counting, Adding, FdUnique, Range
  <2>3. CASE Setup \/ RequestIrq \/ RequestFails \/ Exit
    <3>1. UNCHANGED q_fd /\ (que_list' = que_list \/ que_list' = <<>>)
      BY <2>3 DEF Setup, RequestIrq, RequestFails, Exit, queues
    <3>2. QED
      BY <2>1, <3>1, FdKept
  <2>4. QED
    BY <1>15, <2>2, <2>3
<1>16. QED
  BY <1>2, <1>4, <1>5, <1>7, <1>8, <1>9, <1>10, <1>11, <1>12, <1>13, <1>14, <1>15
  DEF Next, ClientStep, Contexts

(* Without SMP, no two queues of the list ever share a descriptor, however *)
(* creations, closes and interrupts mix.                                   *)
THEOREM DescriptorsDiffer == ASSUME ~SMP PROVE Spec => []FdUnique
<1>1. Init => FdInv
  BY DEF Init, FdInv, Counting, Adding, FdUnique, Range, Contexts
<1>2. FdInv => FdUnique
  BY DEF FdInv
<1>3. QED
  BY <1>1, <1>2, FdStep, TypedAlways, PTL DEF Spec
=============================================================================
