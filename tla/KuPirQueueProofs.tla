-------------------------- MODULE KuPirQueueProofs --------------------------
(***************************************************************************)
(* Theorems about the queues of KuPir while the interrupt handler keeps    *)
(* out of calls: the counter is the number of messages, no call ends in an *)
(* oops, and the pointers, store by store, implement the first-in          *)
(* first-out queues of MessageQueue.                                       *)
(*                                                                         *)
(* KuPirListProofs knows which messages a list has and in which order,     *)
(* also beside the handler; Exact adds the sequence itself, where head.prev*)
(* points and what the counter is, but for the stores that the context at  *)
(* work still owes.  One lemma per kind of step shows that it is kept.     *)
(***************************************************************************)
EXTENDS KuPirListProofs, FiniteSetTheorems, WellFoundedInduction

(* From the head of q on, the pointers nx lead through s and back.         *)
List(nx, s, q) == /\ nx[q] = (IF s = <<>> THEN q ELSE s[1])
                  /\ \A k \in 1 .. Len(s) : nx[s[k]] = IF k < Len(s) THEN s[k + 1] ELSE q

(* The places of a sequence of n elements are n.                           *)
LEMMA Places == \A n \in Nat : IsFiniteSet(1 .. n) /\ Cardinality(1 .. n) = n
BY FS_Interval

(* A traversal finds the messages of a list.                               *)
LEMMA TraversalIs ==
  ASSUME NEW q \in Queues, NEW s \in Seq(Msgs), NEW nx, Distinct(s), List(nx, s, q)
  PROVE  Traversal(nx, q) = s
<1> DEFINE N == Cardinality(Msgs) + 1
           step(w, i) == LET x == IF i = 1 THEN q ELSE w[i - 1]
                         IN  IF x = Nil \/ (i > 1 /\ x = q) THEN q ELSE nx[x]
           Walk(w) == w = [i \in 1 .. N |-> step(w, i)]
           W == [i \in 1 .. N |-> IF i <= Len(s) THEN s[i] ELSE q]
           V == CHOOSE w : Walk(w)
<1>1. /\ Len(s) \in Nat /\ \A i \in 1 .. Len(s) : s[i] \in Msgs /\ s[i] # q /\ s[i] # Nil
      /\ q # Nil
  BY PirNames
<1>2. Cardinality(Msgs) \in Nat /\ Len(s) <= Cardinality(Msgs) /\ N \in Nat
  <2>1. IsFiniteSet(Msgs) /\ Cardinality(Msgs) \in Nat
    BY PirNames, FS_CardinalityType
  <2>2. s \in Injection(1 .. Len(s), Msgs)
    BY <1>1 DEF Distinct, Injection, IsInjective
  <2>3. IsFiniteSet(1 .. Len(s)) /\ Cardinality(1 .. Len(s)) = Len(s)
    BY <1>1, Places
  <2>4. Cardinality(1 .. Len(s)) <= Cardinality(Msgs)
    BY <2>1, <2>2, FS_Injection
  <2>5. QED
    BY <2>1, <2>3, <2>4
<1>3. Walk(W)
  <2>1. ASSUME NEW i \in 1 .. N PROVE W[i] = step(W, i)
    <3>1. CASE i = 1
      BY <1>1, <1>2, <3>1 DEF List
    <3>2. CASE i > 1
      <4>1. i - 1 \in 1 .. N
        BY <1>2, <3>2
      <4>2. CASE i - 1 <= Len(s)
        BY <1>1, <1>2, <3>2, <4>1, <4>2 DEF List
      <4>3. CASE i - 1 > Len(s)
        BY <1>1, <1>2, <3>2, <4>1, <4>3
      <4>4. QED
        BY <1>1, <4>2, <4>3
    <3>3. QED
      BY <1>2, <3>1, <3>2
  <2>2. QED
    BY <2>1
<1>4. Walk(V)
  BY <1>3
<1>5. \A i \in 1 .. N : V[i] = W[i]
  <2> DEFINE T == {i \in 1 .. N : V[i] # W[i]}
  <2>1. \A i \in 1 .. N : V[i] = step(V, i) /\ W[i] = step(W, i)
    BY <1>3, <1>4
  <2> HIDE DEF V, W
  <2>2. SUFFICES ASSUME T # {} PROVE FALSE
    OBVIOUS
  <2>3. PICK i \in T : \A j \in T : <<j, i>> \notin OpToRel(<, Nat)
    <3>1. T \subseteq Nat
      BY <1>2
    <3> HIDE DEF T
    <3>2. QED
      BY <2>2, <3>1, NatLessThanWellFounded, WFMin
  <2>4. i \in 1 .. N /\ i # 1
    BY <2>1
  <2>5. i - 1 \in 1 .. N /\ V[i - 1] = W[i - 1]
    <3>1. i - 1 \in 1 .. N
      BY <1>2, <2>4
    <3>2. <<i - 1, i>> \in OpToRel(<, Nat)
      BY <1>2, <2>4 DEF OpToRel
    <3>3. QED
      BY <2>3, <3>1, <3>2
  <2>6. V[i] = W[i]
    BY <2>1, <2>4, <2>5
  <2>7. QED
    BY <2>6
<1>6. Cardinality({i \in DOMAIN V : V[i] # q}) = Len(s)
  <2>1. DOMAIN V = 1 .. N
    BY <1>4
  <2> HIDE DEF V
  <2>2. \A i \in 1 .. N : V[i] # q <=> i \in 1 .. Len(s)
    BY <1>1, <1>2, <1>5
  <2>3. 1 .. Len(s) \subseteq 1 .. N
    BY <1>1, <1>2
  <2>4. {i \in DOMAIN V : V[i] # q} = 1 .. Len(s)
    BY <2>1, <2>2, <2>3
  <2>5. Cardinality(1 .. Len(s)) = Len(s)
    BY <1>1, Places
  <2>6. QED
    BY <2>4, <2>5, Zenon
<1>7. Traversal(nx, q) = [i \in 1 .. Cardinality({i \in DOMAIN V : V[i] # q}) |-> V[i]]
  BY Zenon DEF Traversal
<1> HIDE DEF V
<1>8. QED
  BY <1>1, <1>2, <1>5, <1>6, <1>7

-----------------------------------------------------------------------------
(* While the handler keeps out of calls, the lists, head.prev and the      *)
(* counters are exactly what they should be, but for the stores that one   *)
(* context still owes.                                                     *)
(* Where the list of a queue ends, and who is changing it.                 *)
EndOf(q)      == LET s == Chain(q) IN IF s = <<>> THEN q ELSE s[Len(s)]
Joining(c, q) == pc[c] \in {"linkNew", "linkPrev"} /\ reg[c].q = q
Counts(c, q)  == /\ reg[c].q = q
                 /\ \/ pc[c] \in {"size", "store"}
                    \/ reg[c].op = "flush" /\ pc[c] \in {"loop", "del", "delNext", "delPrev"}

(* A queue: what a traversal meets, head.prev, and the counter.            *)
ChainOk(q) == LET s == Chain(q) IN
  s \in Seq(Msgs) /\ Distinct(s) /\ List(next, s, q) /\ Range(s) \subseteq Range(linked[q])
TailOk(q)  == Cutting(q) \/ (\E c \in Contexts : Joining(c, q)) \/ prev[q] = EndOf(q)
CountOk(q) == (\E c \in Contexts : Counts(c, q)) \/ size[q] = Len(Chain(q))

(* A context at work on a queue.                                           *)
WorkOk(c) == LET r == reg[c]  q == r.q  s == Chain(q) IN
  /\ pc[c] = "create" => size[q] = 0
  /\ pc[c] = "first" => s # <<>>
  /\ pc[c] = "copy" => r.m # Nil
  /\ pc[c] \in {"del", "delNext", "delPrev"} => s # <<>> /\ r.m = s[1]
  /\ pc[c] \in {"delNext", "delPrev"} => r.nx = next[r.m]
  /\ pc[c] = "delPrev" => prev[q] = IF r.nx = q THEN q ELSE EndOf(q)
  /\ r.op = "flush" => /\ pc[c] = "loop" => r.n = next[q]
                       /\ pc[c] = "del" => r.n = next[r.m]
                       /\ pc[c] \in {"delNext", "delPrev"} => r.n = r.nx
  /\ pc[c] \in {"linkHead", "linkNew", "linkPrev"} => r.pv = EndOf(q)
  /\ pc[c] \in {"linkNew", "linkPrev"} =>
       prev[q] = r.m /\ r.m \in Range(linked[q]) \ Range(s) /\ r.m \in Msgs
  /\ pc[c] = "linkPrev" => next[r.m] = q
  /\ pc[c] \in {"size", "store"} => size[q] = IF r.op = "read" THEN Len(s) + 1 ELSE Len(s) - 1
  /\ pc[c] = "store" => r.k = size[q]

Exact == /\ \A q \in Listed : ChainOk(q) /\ TailOk(q) /\ CountOk(q)
         /\ \A c \in Contexts : WorkOk(c)

(* A list that no store has touched is still the same.                     *)
LEMMA ChainKept ==
  ASSUME NEW q \in Queues, ChainOk(q), \A x \in Range(Chain(q)) \cup {q} : next'[x] = next[x],
         Range(linked[q]) \subseteq Range(linked'[q])
  PROVE  Chain(q)' = Chain(q) /\ ChainOk(q)' /\ EndOf(q)' = EndOf(q)
<1>1. PICK s \in Seq(Msgs) : s = Chain(q) /\ Distinct(s) /\ List(next, s, q)
  BY DEF ChainOk
<1>2. List(next', s, q)
  <2>1. \A k \in 1 .. Len(s) : s[k] \in Range(s)
    BY DEF Range
  <2>2. QED
    BY <1>1, <2>1 DEF List
<1>3. Traversal(next', q) = s
  BY <1>1, <1>2, TraversalIs
<1>4. Chain(q)' = s
  BY <1>3 DEF Chain
<1>5. QED
  BY <1>1, <1>2, <1>4 DEF ChainOk, EndOf

(* Where a chain begins and ends.                                          *)
LEMMA ChainEnds ==
  ASSUME NEW q \in Queues, ChainOk(q)
  PROVE  LET s == Chain(q) IN
         /\ s \in Seq(Msgs) /\ Len(s) \in Nat /\ (s = <<>> <=> Len(s) = 0)
         /\ next[q] = q <=> s = <<>>
         /\ s # <<>> => /\ next[q] = s[1] /\ s[1] \in Msgs /\ EndOf(q) = s[Len(s)]
                        /\ EndOf(q) \in Msgs /\ EndOf(q) \in Range(s) /\ s[1] \in Range(s)
                        /\ next[s[1]] = IF Len(s) = 1 THEN q ELSE s[2]
                        /\ next[s[1]] = q <=> Len(s) = 1
                        /\ Len(s) # 1 => s[2] \in Msgs
         /\ s = <<>> => EndOf(q) = q
<1>1. PICK s \in Seq(Msgs) : s = Chain(q) /\ List(next, s, q)
  BY DEF ChainOk
<1>2. \A k \in 1 .. Len(s) : s[k] \in Msgs /\ s[k] \in Range(s) /\ s[k] # q
  BY PirNames DEF Range
<1>3. Len(s) \in Nat /\ (s = <<>> <=> Len(s) = 0)
  BY <1>1
<1>4. s # <<>> => 1 \in 1 .. Len(s) /\ Len(s) \in 1 .. Len(s) /\ (Len(s) # 1 => 2 \in 1 .. Len(s))
  BY <1>3
<1>5. QED
  BY <1>1, <1>2, <1>3, <1>4 DEF List, EndOf

(* Who may be at work beside a context that takes a step: nobody.          *)
Sensitive == {"first"} \cup Midway
LEMMA LoneWorker ==
  ASSUME OneAtATime, Quiet, Typed, Orderly, NEW c \in Contexts, NEW d \in Contexts, c # d,
         MayRun(c), pc[c] \notin {"idle", "lock", "create"} \cup Unheard
  PROVE  pc[d] \notin Sensitive
<1>1. /\ Isr \notin Clients /\ Contexts = Clients \cup {Isr} /\ Nobody \notin Clients
      /\ LockInv /\ Ops /\ Phases /\ Processor /\ Handler
  BY PirNames DEF Contexts, Orderly, LockInv
<1>2. CASE c = Isr
  BY <1>1, <1>2 DEF Handler, Sensitive, Midway, Unheard
<1>3. CASE d = Isr
  <2>1. pc[Isr] \in Unheard \cup {"idle"}
    BY <1>1, <1>3 DEF MayRun
  <2>2. QED
    BY <1>3, <2>1 DEF Sensitive, Midway, Unheard
<1>4. CASE c \in Clients /\ d \in Clients
  <2>1. pc[d] \notin Midway
    BY <1>4, Alone
  <2>2. ASSUME pc[d] = "first" PROVE FALSE
    <3>1. CASE ~SMP
      BY <1>1, <1>4, <2>2, <3>1 DEF Processor, MayRun, Runs
    <3>2. CASE SMP
      <4>1. reg[c].op \in {"none", "create", "read", "write"}
        BY <1>1, <1>4, <3>2 DEF Phases, OneAtATime
      <4>2. pc \in [Contexts -> Labels]
        BY DEF Typed, TypeOK, ContextType
      <4>3. Locked(c) /\ Locked(d)
        BY <1>1, <1>4, <2>2, <4>1, <4>2 DEF Phases, Ops, Locked, Labels
      <4>4. QED
        BY <1>1, <1>4, <3>2, <4>3 DEF Holds, LockInv, OneAtATime
    <3>3. QED
      BY <3>1, <3>2
  <2>3. QED
    BY <2>1, <2>2 DEF Sensitive
<1>5. QED
  BY <1>1, <1>2, <1>3, <1>4

(* A context that no step disturbs.                                        *)
LEMMA OthersWork ==
  ASSUME NEW d, WorkOk(d), pc'[d] = pc[d], reg'[d] = reg[d], pc[d] \notin Sensitive,
         pc[d] = "create" => size'[reg[d].q] = size[reg[d].q]
  PROVE  WorkOk(d)'
BY DEF WorkOk, Sensitive, Midway

(* A step that writes no pointer and no counter.                           *)
LEMMA PlainExact ==
  ASSUME Exact, NEW c \in Contexts, UNCHANGED <<next, prev, size, linked>>,
         Listed' \subseteq Listed,
         \A d \in Contexts \ {c} : pc'[d] = pc[d] /\ reg'[d] = reg[d],
         pc[c] \in {"linkNew", "linkPrev", "delPrev"} => pc'[c] = pc[c] /\ reg'[c].q = reg[c].q,
         \A r : Counts(c, r) => Counts(c, r)',
         WorkOk(c)'
  PROVE  Exact'
<1>1. \A q : Chain(q)' = Chain(q) /\ EndOf(q)' = EndOf(q)
  BY DEF Chain, EndOf
<1>2. ASSUME NEW q \in Listed PROVE ChainOk(q)' /\ TailOk(q)' /\ CountOk(q)'
  <2>1. ChainOk(q) /\ TailOk(q) /\ CountOk(q)
    BY DEF Exact
  <2>2. ChainOk(q)'
    BY <1>1, <2>1 DEF ChainOk
  <2>3. \A d \in Contexts : (Counts(d, q) => Counts(d, q)') /\ (Joining(d, q) => Joining(d, q)')
    BY DEF Counts, Joining
  <2>4. Cutting(q) => Cutting(q)'
    BY DEF Cutting, Contexts
  <2>5. QED
    BY <1>1, <2>1, <2>2, <2>3, <2>4 DEF TailOk, CountOk
<1>3. ASSUME NEW d \in Contexts \ {c} PROVE WorkOk(d)'
  <2>1. WorkOk(d)
    BY DEF Exact
  <2>2. QED
    BY <1>1, <2>1 DEF WorkOk
<1>4. QED
  BY <1>2, <1>3 DEF Exact

(* Steps of a client that only move it.                                    *)
LEMMA MovingExact ==
  ASSUME OneAtATime, Quiet, Typed, Orderly, NEW S \in [Queues -> SUBSET Msgs],
         NEW u \in SUBSET Msgs, Lists(S, u), Exact, NEW c \in Clients,
         \/ Call(c) \/ Lock(c) \/ GetToRead(c) \/ GetToWrite(c) \/ WaitPrepare(c)
         \/ WaitSchedule(c) \/ GetNothing(c)
  PROVE  Exact'
<1>1. /\ UNCHANGED <<next, prev, size, linked, que_list>>
      /\ pc[c] \notin {"size", "store", "loop", "del", "delNext", "delPrev", "linkNew", "linkPrev"}
      /\ pc'[c] \in {"lock", "get", "wait", "check", "sched", "link"}
  <2>1. CASE Call(c)
    BY <2>1, Basics DEF Call, heap, queues, history, At, Goto, GoOn
  <2>2. CASE Lock(c) \/ GetToRead(c) \/ GetToWrite(c)
    BY ZenonT(40), <2>2, Basics DEF Lock, GetToRead, GetToWrite, heap, queues, history, At, Goto,
      GoOn, MaySleep
  <2>3. CASE WaitPrepare(c) \/ WaitSchedule(c) \/ GetNothing(c)
    BY ZenonT(40), <2>3, Basics DEF WaitPrepare, WaitSchedule, GetNothing, heap, queues, history,
      At, Goto, GoOn
  <2>4. QED
    BY <2>1, <2>2, <2>3
<1>2. WorkOk(c)'
  BY <1>1 DEF WorkOk
<1>3. \A r : ~Counts(c, r)
  BY <1>1 DEF Counts
<1>4. \A d \in Contexts \ {c} : pc'[d] = pc[d] /\ reg'[d] = reg[d]
  BY Basics, OwnStep DEF ClientStep
<1>5. c \in Contexts /\ Listed' = Listed
  BY <1>1, Basics DEF Listed
<1>6. QED
  BY <1>1, <1>2, <1>3, <1>4, <1>5, PlainExact

(* The queue a client looks at while nobody changes it.                    *)
LEMMA Settled ==
  ASSUME OneAtATime, Quiet, Typed, Orderly, Exact, NEW c \in Contexts, MayRun(c),
         pc[c] \notin {"idle", "lock", "create"} \cup Unheard, NEW q \in Listed
  PROVE  /\ q \in Queues /\ ChainOk(q)
         /\ pc[c] \notin {"linkNew", "linkPrev", "delPrev"} => prev[q] = EndOf(q)
         /\ ~Counts(c, q) => size[q] = Len(Chain(q))
<1>1. q \in Queues
  BY DEF Listed, Typed, TypeOK, QueueType, Range
<1>2. \A d \in Contexts \ {c} : pc[d] \notin Sensitive
  BY LoneWorker
<1>3. ChainOk(q) /\ TailOk(q) /\ CountOk(q)
  BY DEF Exact
<1>4. \A d \in Contexts \ {c} : ~Counts(d, q) /\ ~Joining(d, q) /\ pc[d] # "delPrev"
  BY <1>2 DEF Counts, Joining, Sensitive, Midway
<1>5. QED
  BY <1>1, <1>3, <1>4 DEF TailOk, CountOk, Cutting, Joining, Contexts

(* A reader that finds size > 0 finds a message.                           *)
LEMMA WaitDoneExact ==
  ASSUME OneAtATime, Quiet, Typed, Orderly, NEW S \in [Queues -> SUBSET Msgs],
         NEW u \in SUBSET Msgs, Lists(S, u), Exact, NEW c \in Clients,
         WaitDone(c) \/ First(c) \/ Copy(c)
  PROVE  Exact'
<1>1. /\ UNCHANGED <<next, prev, size, linked, que_list>> /\ UNCHANGED mem
      /\ pc[c] \in {"check", "first", "copy"} /\ pc[c] # "linkNew" /\ MayRun(c)
      /\ reg[c].op = "read" /\ reg[c].q \in Listed
  <2>1. /\ UNCHANGED <<next, prev, size, linked, que_list>> /\ UNCHANGED mem
        /\ pc[c] \in {"check", "first", "copy"} /\ MayRun(c) /\ Sound(c)
    BY DEF WaitDone, First, Copy, heap, queues, history, At
  <2>2. reg[c].op = "read"
    BY <2>1, Basics DEF Ops
  <2>3. QED
    BY <2>1, <2>2, Placed DEF InQueue, Midway
<1>2. \A r : ~Counts(c, r)
  BY <1>1 DEF Counts
<1>3. \A d \in Contexts \ {c} : pc'[d] = pc[d] /\ reg'[d] = reg[d]
  BY Basics, OwnStep DEF ClientStep
<1>4. c \in Contexts /\ Listed' = Listed
  BY <1>1, Basics DEF Listed
<1>5. PICK q \in Listed : q = reg[c].q
  BY <1>1
<1>6. /\ q \in Queues /\ ChainOk(q) /\ size[q] = Len(Chain(q)) /\ Chain(q)' = Chain(q)
  BY <1>1, <1>2, <1>4, Settled DEF Chain, Unheard
<1>7. WorkOk(c)
  BY <1>4 DEF Exact
<1>8. WorkOk(c)'
  <2>1. CASE WaitDone(c)
    <3>1. Chain(q) # <<>>
      BY <1>5, <1>6, <2>1, ChainEnds DEF WaitDone, HasMessage
    <3>2. pc'[c] = "first" /\ reg'[c] = reg[c]
      BY <2>1, Basics DEF WaitDone, GoOn, Goto, At
    <3>3. QED
      BY <1>1, <1>5, <1>6, <3>1, <3>2 DEF WorkOk
  <2>2. CASE First(c)
    <3>1. Chain(q) # <<>> /\ next[q] = Chain(q)[1] /\ next[q] \in Msgs /\ next[q] # q
      BY <1>5, <1>6, <1>7, <2>2, ChainEnds DEF WorkOk, First, At
    <3>2. pc'[c] = "copy" /\ reg'[c].m = next[q] /\ reg'[c].op = "read"
      BY <1>1, <1>5, <2>2, <3>1, Basics DEF First, MaySleep, Goto, At, Oldest, Locals
    <3>3. QED
      BY <3>1, <3>2, PirNames DEF WorkOk
  <2>3. CASE Copy(c)
    <3>1. pc'[c] = "del" /\ reg'[c] = reg[c]
      BY <2>3, Basics DEF Copy, GoOn, Goto, At
    <3>2. reg[c].m # Nil /\ reg[c].m \in S[q] /\ next[q] = reg[c].m
      BY <1>5, <1>7, <2>3, Basics DEF Copy, At, WorkOk, RestOk
    <3>3. Chain(q) # <<>> /\ reg[c].m = Chain(q)[1]
      BY <1>6, <3>2, ChainEnds, Basics
    <3>4. QED
      BY <1>1, <1>5, <1>6, <3>1, <3>3 DEF WorkOk
  <2>4. QED
    BY <1>1, <2>1, <2>2, <2>3
<1>9. QED
  BY <1>1, <1>2, <1>3, <1>4, <1>8, PlainExact

(* list_del, the loads, and the loop of a flush or a close.                *)
LEMMA LoopExact ==
  ASSUME OneAtATime, Quiet, Typed, Orderly, NEW S \in [Queues -> SUBSET Msgs],
         NEW u \in SUBSET Msgs, Lists(S, u), Exact, NEW c \in Clients,
         GetToClear(c) \/ LoopBody(c) \/ Del(c)
  PROVE  Exact'
<1>1. /\ UNCHANGED <<next, prev, size, linked>>
      /\ pc[c] \in {"get", "loop", "del"} /\ MayRun(c)
  BY DEF GetToClear, LoopBody, Del, heap, queues, history, At
<1>2. \A d \in Contexts \ {c} : pc'[d] = pc[d] /\ reg'[d] = reg[d]
  BY Basics, OwnStep DEF ClientStep, SharedStep
<1>3. c \in Contexts /\ WorkOk(c) /\ RestOk(S, c) /\ CutOk(S, c) /\ c # Isr
  BY Basics DEF Exact
<1>4. \A r : Chain(r)' = Chain(r)
  BY <1>1 DEF Chain
<1>5. Listed' \subseteq Listed
  <2>1. CASE UNCHANGED que_list
    BY <2>1 DEF Listed
  <2>2. CASE GetToClear(c) /\ ~UNCHANGED que_list
    <3>1. PICK q \in Queues : Gets(reg[c].fd, q) /\ que_list' = Without(Place(q))
      BY <2>2 DEF GetToClear
    <3>2. q \in Listed
      BY <3>1, PirNames DEF Gets, Listed, Range
    <3>3. QED
      BY <3>1, <3>2, WithoutListed, Basics DEF Apart, Listed
  <2>3. QED
    BY <2>1, <2>2 DEF LoopBody, Del, queues
<1>6. CASE GetToClear(c)
  <2>1. PICK q \in Queues : reg' = [reg EXCEPT ![c].q = q, ![c].n = next[q]]
    BY <1>6 DEF GetToClear
  <2>2. pc'[c] = "loop" /\ reg'[c].q = q /\ reg'[c].n = next[q] /\ pc[c] = "get"
    BY <1>3, <1>6, <2>1, Basics DEF GetToClear, GoOn, Goto, At, Locals
  <2>3. WorkOk(c)'
    BY <1>1, <2>2 DEF WorkOk
  <2>4. \A r : ~Counts(c, r)
    BY <2>2 DEF Counts
  <2>5. QED
    BY <1>1, <1>2, <1>3, <1>5, <2>2, <2>3, <2>4, PlainExact
<1>7. CASE LoopBody(c)
  <2>1. /\ reg'[c].q = reg[c].q /\ reg'[c].m = reg[c].n /\ reg'[c].n = next[reg[c].n]
        /\ reg'[c].op = reg[c].op /\ pc'[c] = (IF reg[c].op = "flush" THEN "del" ELSE "loop")
        /\ pc[c] = "loop" /\ reg[c].n # reg[c].q
    BY <1>3, <1>7, Basics DEF LoopBody, GoOn, Goto, At, Locals
  <2>2. WorkOk(c)'
    <3>1. CASE reg[c].op = "flush"
      <4>1. reg[c].q \in Listed /\ reg[c].n = next[reg[c].q]
        BY <1>3, <2>1, <3>1, Placed DEF WorkOk, InQueue, Midway
      <4>2. reg[c].q \in Queues /\ ChainOk(reg[c].q)
        BY <4>1, Basics DEF Exact
      <4>3. Chain(reg[c].q) # <<>> /\ reg[c].n = Chain(reg[c].q)[1]
        BY <2>1, <4>1, <4>2, ChainEnds
      <4>4. QED
        BY <1>1, <1>4, <2>1, <3>1, <4>3 DEF WorkOk
    <3>2. CASE reg[c].op # "flush"
      BY <2>1, <3>2 DEF WorkOk
    <3>3. QED
      BY <3>1, <3>2
  <2>3. \A r : Counts(c, r) => Counts(c, r)'
    BY <2>1 DEF Counts
  <2>4. QED
    BY <1>1, <1>2, <1>3, <1>5, <2>1, <2>2, <2>3, PlainExact
<1>8. CASE Del(c)
  <2>1. /\ reg'[c].q = reg[c].q /\ reg'[c].m = reg[c].m /\ reg'[c].n = reg[c].n
        /\ reg'[c].nx = next[reg[c].m] /\ reg'[c].op = reg[c].op
        /\ pc'[c] = "delNext" /\ pc[c] = "del"
    BY <1>3, <1>8, Basics DEF Del, GoOn, Goto, At, Locals
  <2>2. WorkOk(c)'
    BY <1>1, <1>3, <1>4, <2>1 DEF WorkOk
  <2>3. \A r : Counts(c, r) => Counts(c, r)'
    BY <2>1 DEF Counts
  <2>4. QED
    BY <1>1, <1>2, <1>3, <1>5, <2>1, <2>2, <2>3, PlainExact
<1>9. QED
  BY <1>6, <1>7, <1>8

(* The queue of a context that works on one.                               *)
LEMMA WorkPlace ==
  ASSUME OneAtATime, Quiet, Typed, Orderly, NEW S \in [Queues -> SUBSET Msgs],
         NEW u \in SUBSET Msgs, Lists(S, u), Exact, NEW c \in Contexts, MayRun(c),
         \/ pc[c] \in {"link", "linkHead", "linkNew", "linkPrev", "size", "store"}
         \/ pc[c] \in {"del", "delNext", "delPrev"}
         \/ pc[c] = "loop" /\ reg[c].op = "flush",
         pc[c] = "link" => Sound(c)
  PROVE  /\ WorkOk(c) /\ reg[c].q \in Listed /\ reg[c].q \in Queues /\ ChainOk(reg[c].q)
         /\ pc[c] \notin {"linkNew", "linkPrev", "delPrev"} => prev[reg[c].q] = EndOf(reg[c].q)
         /\ ~Counts(c, reg[c].q) => size[reg[c].q] = Len(Chain(reg[c].q))
         /\ \A d \in Contexts \ {c} : pc[d] \notin Sensitive
         /\ pc[c] \in {"del", "delNext", "delPrev", "loop"} => c \in Clients
<1>1. WorkOk(c)
  BY DEF Exact
<1>2. reg[c].q \in Listed /\ (pc[c] \in {"del", "delNext", "delPrev", "loop"} => c \in Clients)
  <2>1. CASE c \in Clients
    <3>1. reg[c].op # "close" /\ pc[c] \in InQueue \ {"wait"} /\ pc[c] # "check"
      BY <2>1, Basics DEF InQueue, Midway, Phases
    <3>2. QED
      BY <2>1, <3>1, Placed
  <2>2. CASE c = Isr
    BY <2>2, Basics DEF HandlerOk, Handler
  <2>3. QED
    BY <2>1, <2>2 DEF Contexts
<1>3. pc[c] \notin {"idle", "lock", "create"} \cup Unheard
  BY DEF Unheard
<1>4. QED
  BY <1>1, <1>2, <1>3, Settled, LoneWorker

(* list_add_tail and the counter, the loads.                               *)
LEMMA LoadingExact ==
  ASSUME OneAtATime, Quiet, Typed, Orderly, NEW S \in [Queues -> SUBSET Msgs],
         NEW u \in SUBSET Msgs, Lists(S, u), Exact, NEW c \in Contexts, Link(c) \/ SizeLoad(c)
  PROVE  Exact'
<1>1. /\ UNCHANGED <<next, prev, size, linked, que_list>>
      /\ pc[c] \in {"link", "size"} /\ MayRun(c) /\ Sound(c)
  BY DEF Link, SizeLoad, heap, queues, history, At
<1>2. \A d \in Contexts \ {c} : pc'[d] = pc[d] /\ reg'[d] = reg[d]
  BY OwnStep DEF SharedStep
<1>3. /\ WorkOk(c) /\ reg[c].q \in Queues
      /\ ~Counts(c, reg[c].q) => size[reg[c].q] = Len(Chain(reg[c].q))
      /\ pc[c] = "link" => prev[reg[c].q] = EndOf(reg[c].q)
  BY <1>1, WorkPlace
<1>4. \A r : Chain(r)' = Chain(r) /\ EndOf(r)' = EndOf(r)
  BY <1>1 DEF Chain, EndOf
<1>5. Listed' = Listed
  BY <1>1 DEF Listed
<1>6. CASE Link(c)
  <2>1. /\ reg'[c].q = reg[c].q /\ reg'[c].pv = prev[reg[c].q] /\ pc'[c] = "linkHead"
        /\ reg'[c].op = reg[c].op /\ pc[c] = "link"
    BY <1>6, Basics DEF Link, GoOn, Goto, At, Locals
  <2>2. WorkOk(c)'
    BY <1>3, <1>4, <2>1 DEF WorkOk
  <2>3. \A r : ~Counts(c, r)
    <3>1. reg[c].op # "flush" \/ pc[c] \notin {"loop", "del", "delNext", "delPrev"}
      BY <2>1
    <3>2. QED
      BY <2>1, <3>1 DEF Counts
  <2>4. QED
    BY <1>1, <1>2, <1>5, <2>1, <2>2, <2>3, PlainExact
<1>7. CASE SizeLoad(c)
  <2>1. /\ reg'[c].q = reg[c].q /\ reg'[c].k = size[reg[c].q] /\ pc'[c] = "store"
        /\ reg'[c].op = reg[c].op /\ pc[c] = "size"
    BY <1>7, Basics DEF SizeLoad, GoOn, Goto, At, Locals
  <2>2. WorkOk(c)'
    BY <1>1, <1>3, <1>4, <2>1 DEF WorkOk
  <2>3. \A r : Counts(c, r) => Counts(c, r)'
    BY <2>1 DEF Counts
  <2>4. QED
    BY <1>1, <1>2, <1>5, <2>1, <2>2, <2>3, PlainExact
<1>8. QED
  BY <1>6, <1>7

(* Steps of the handler, the sensor and the module; an oops.               *)
LEMMA ModuleExact ==
  ASSUME OneAtATime, Quiet, Typed, Orderly, NEW S \in [Queues -> SUBSET Msgs],
         NEW u \in SUBSET Msgs, Lists(S, u), Exact,
         \/ UNCHANGED vars \/ (\E c \in Contexts : Oops(c))
         \/ Edge \/ IsrStart \/ IsrAgain \/ IsrEach \/ IsrWake \/ Load \/ Setup
         \/ RequestIrq \/ RequestFails \/ Exit
  PROVE  Exact'
<1>1. UNCHANGED <<next, prev, size, linked>>
  BY DEF vars, Oops, Edge, IsrStart, IsrAgain, IsrEach, IsrWake, Load, Setup,
    RequestIrq, RequestFails, Exit, heap, history
<1>2. Listed' \subseteq Listed
  <2>1. CASE UNCHANGED que_list
    BY <2>1 DEF Listed
  <2>2. CASE Load \/ Setup
    BY <2>2 DEF Load, Setup, Listed, Range
  <2>3. QED
    BY <2>1, <2>2 DEF vars, Oops, Edge, IsrStart, IsrAgain, IsrEach, IsrWake,
    RequestIrq, RequestFails, Exit, queues
<1>3. \A d \in Contexts \ {Isr} : pc'[d] = pc[d] /\ reg'[d] = reg[d]
  BY Basics DEF vars, Oops, Edge, IsrStart, IsrAgain, IsrEach, IsrWake, Load, Setup,
    RequestIrq, RequestFails, Exit,
    GoOn, Goto
<1>4. WorkOk(Isr) /\ Isr \in Contexts
  BY Basics DEF Exact
<1>5. CASE UNCHANGED <<pc, reg>>
  <2>1. WorkOk(Isr)'
    BY <1>1, <1>4, <1>5 DEF WorkOk, Chain, EndOf
  <2>2. \A r : Counts(Isr, r) => Counts(Isr, r)'
    BY <1>5 DEF Counts
  <2>3. QED
    BY <1>1, <1>2, <1>3, <1>4, <1>5, <2>1, <2>2, PlainExact
<1>6. CASE IsrStart \/ IsrAgain \/ IsrEach \/ IsrWake \/ Load \/ Setup
         \/ RequestIrq \/ RequestFails \/ Exit
  <2>1. /\ pc[Isr] \in {"idle", "again", "each"} \cup Unheard
        /\ pc'[Isr] \in {"idle", "again", "each", "link"} \cup Unheard
    BY <1>4, <1>6, Basics DEF IsrStart, IsrAgain, IsrEach, IsrWake, Load, Setup,
    RequestIrq, RequestFails, Exit, GoOn, Goto, At, Unheard
  <2>2. WorkOk(Isr)'
    BY <2>1 DEF WorkOk, Unheard
  <2>3. \A r : ~Counts(Isr, r)
    BY <2>1 DEF Counts, Unheard
  <2>4. QED
    BY <1>1, <1>2, <1>3, <1>4, <2>1, <2>2, <2>3, PlainExact DEF Unheard
<1>7. QED
  BY <1>5, <1>6 DEF vars, Oops, Edge

(* A new queue is empty, and no list is touched by its creation.           *)
LEMMA CreateExact ==
  ASSUME OneAtATime, Quiet, Typed, Orderly, NEW S \in [Queues -> SUBSET Msgs],
         NEW u \in SUBSET Msgs, Lists(S, u), Exact, NEW c \in Clients, CreateInit(c)
  PROVE  Exact' /\ \A q \in Listed : Chain(q)' = Chain(q)
<1>1. PICK k \in Queues : /\ mem[k] = "fresh" /\ reg' = [reg EXCEPT ![c].q = k]
                          /\ next' = [next EXCEPT ![k] = k] /\ prev' = [prev EXCEPT ![k] = k]
                          /\ size' = [size EXCEPT ![k] = 0]
                          /\ UNCHANGED <<que_list, linked>> /\ pc[c] = "idle" /\ MayRun(c)
                          /\ pc' = [pc EXCEPT ![c] = "create"]
  BY KmallocType DEF CreateInit, Made, GoOn, Goto, At, history
<1>2. \A d \in Contexts \ {c} : pc'[d] = pc[d] /\ reg'[d] = reg[d]
  BY <1>1
<1>3. size \in [Queues -> Int] /\ c \in Contexts /\ reg[c] \in Locals
  BY Basics DEF Typed, TypeOK, HeapType
<1>4. pc'[c] = "create" /\ reg'[c].q = k /\ reg'[c].op = reg[c].op
  BY <1>1, <1>3, Basics DEF Locals
<1>5. ASSUME NEW q \in Listed
      PROVE  /\ q \in Queues /\ next'[q] = next[q] /\ prev'[q] = prev[q] /\ size'[q] = size[q]
             /\ Chain(q)' = Chain(q) /\ ChainOk(q)' /\ EndOf(q)' = EndOf(q)
  <2>1. q \in Queues /\ mem[q] = "live" /\ ChainOk(q)
    BY Basics DEF Exact
  <2>2. \A x \in Range(Chain(q)) \cup {q} : next'[x] = next[x]
    BY <1>1, <2>1, Basics DEF ChainOk, Range
  <2>3. QED
    BY <1>1, <1>3, <2>1, <2>2, ChainKept, Basics
<1>6. ASSUME NEW q \in Listed PROVE ChainOk(q)' /\ TailOk(q)' /\ CountOk(q)'
  <2>1. TailOk(q) /\ CountOk(q)
    BY DEF Exact
  <2>2. \A d \in Contexts : (Counts(d, q) => Counts(d, q)') /\ (Joining(d, q) => Joining(d, q)')
    BY <1>1, <1>2 DEF Counts, Joining
  <2>3. Cutting(q) => Cutting(q)'
    BY <1>1, <1>2 DEF Cutting, Contexts
  <2>4. QED
    BY <1>5, <2>1, <2>2, <2>3 DEF TailOk, CountOk
<1>7. WorkOk(c)'
  BY <1>1, <1>3, <1>4 DEF WorkOk
<1>8. ASSUME NEW d \in Contexts \ {c} PROVE WorkOk(d)'
  <2>1. WorkOk(d) /\ pc[Isr] \in {"idle", "off", "deaf"}
    BY <1>1, Running DEF Exact
  <2>2. CASE d = Isr \/ pc[d] \notin Sensitive
    <3>1. pc[d] \notin Sensitive
      BY <2>1, <2>2 DEF Sensitive, Midway
    <3>2. pc[d] = "create" => size'[reg[d].q] = size[reg[d].q]
      BY <1>1, <1>3, <2>1, <2>2, Basics DEF RestOk, Contexts
    <3>3. QED
      BY <1>2, <2>1, <3>1, <3>2, OthersWork
  <2>3. CASE d \in Clients /\ pc[d] \in Sensitive
    <3>1. pc[d] \notin {"create", "link"} /\ (reg[d].op # "close" => reg[d].q \in Listed)
      BY <2>3, Placed DEF InQueue, Sensitive, Midway
    <3>2. CASE reg[d].op = "close"
      BY <1>2, <2>1, <2>3, <3>1, <3>2, Basics DEF WorkOk, Phases, Sensitive, Midway
    <3>3. CASE reg[d].op # "close"
      <4>1. \A x \in Msgs : next'[x] = next[x]
        BY <1>1, Basics
      <4>2. PICK q \in Listed : q = reg[d].q
        BY <3>1, <3>3
      <4>3. /\ next'[q] = next[q] /\ prev'[q] = prev[q] /\ size'[q] = size[q]
            /\ Chain(q)' = Chain(q) /\ EndOf(q)' = EndOf(q) /\ ChainOk(q) /\ q \in Queues
        BY <1>5 DEF Exact
      <4>4. Chain(q) # <<>> => Chain(q)[1] \in Msgs
        BY <4>3, ChainEnds
      <4>5. /\ pc[d] \in {"del", "delNext", "delPrev", "linkNew", "linkPrev"} => reg[d].m \in Msgs
        BY <2>1, <4>2, <4>4 DEF WorkOk
      <4>6. QED
        BY <1>1, <1>2, <2>1, <4>1, <4>2, <4>3, <4>5 DEF WorkOk
    <3>4. QED
      BY <3>2, <3>3
  <2>4. QED
    BY <2>2, <2>3 DEF Contexts
<1>9. QED
  BY <1>1, <1>5, <1>6, <1>7, <1>8 DEF Exact, Listed

(* A queue becomes visible.                                                *)
LEMMA AddExact ==
  ASSUME OneAtATime, Quiet, Typed, Orderly, NEW S \in [Queues -> SUBSET Msgs],
         NEW u \in SUBSET Msgs, Lists(S, u), Exact, NEW c \in Clients, CreateAdd(c)
  PROVE  Exact' /\ Chain(reg[c].q) = <<>> /\ Listed' = Listed \cup {reg[c].q}
<1>1. /\ UNCHANGED <<next, prev, size, linked>> /\ pc[c] = "create" /\ pc'[c] = "idle"
      /\ que_list' = Append(que_list, reg[c].q)
  BY Basics DEF CreateAdd, Return, Goto, At, heap, history
<1>2. \A d \in Contexts \ {c} : pc'[d] = pc[d] /\ reg'[d] = reg[d]
  BY Basics, OwnStep DEF ClientStep
<1>3. PICK k \in Queues : k = reg[c].q /\ k \notin Listed /\ next[k] = k /\ prev[k] = k
  BY <1>1, Basics DEF RestOk
<1>4. \A r : Chain(r)' = Chain(r) /\ EndOf(r)' = EndOf(r)
  BY <1>1 DEF Chain, EndOf
<1>5. Chain(k) = <<>>
  <2>1. PICK s \in Seq(Msgs) : s = <<>>
    BY EmptySeq
  <2>2. Distinct(s) /\ List(next, s, k)
    BY <1>3, <2>1 DEF Distinct, List
  <2>3. Traversal(next, k) = s
    BY <2>2, TraversalIs
  <2>4. QED
    BY <2>1, <2>3 DEF Chain
<1>6. Listed' = Listed \cup {k}
  <2>1. /\ DOMAIN que_list = 1 .. Len(que_list) /\ Len(que_list) \in Nat
        /\ DOMAIN que_list' = 1 .. Len(que_list) + 1
        /\ \A i \in 1 .. Len(que_list) : que_list'[i] = que_list[i]
        /\ que_list'[Len(que_list) + 1] = k
    BY <1>1, <1>3, Basics, AppendProperties
  <2>2. QED
    BY <2>1 DEF Listed, Range
<1>7. (ChainOk(k) /\ TailOk(k) /\ CountOk(k))'
  <2>1. size[k] = 0
    BY <1>1, <1>3, Basics DEF Exact, WorkOk
  <2>2. Distinct(<<>>) /\ List(next, <<>>, k) /\ <<>> \in Seq(Msgs) /\ Range(<<>>) = {} /\ Len(<<>>) = 0
    BY <1>3 DEF Distinct, List, Range
  <2>3. ChainOk(k)'
    BY <1>1, <1>4, <1>5, <2>2 DEF ChainOk
  <2>4. QED
    BY <1>1, <1>3, <1>4, <1>5, <2>1, <2>2, <2>3 DEF TailOk, CountOk, EndOf
<1>8. ASSUME NEW q \in Listed PROVE ChainOk(q)' /\ TailOk(q)' /\ CountOk(q)'
  <2>1. ChainOk(q) /\ TailOk(q) /\ CountOk(q)
    BY DEF Exact
  <2>2. \A d \in Contexts : (Counts(d, q) => Counts(d, q)') /\ (Joining(d, q) => Joining(d, q)')
    <3>1. ~Counts(c, q) /\ ~Joining(c, q)
      BY <1>1 DEF Counts, Joining
    <3>2. QED
      BY <1>2, <3>1 DEF Counts, Joining
  <2>3. Cutting(q) => Cutting(q)'
    BY <1>1, <1>2 DEF Cutting, Contexts
  <2>4. QED
    BY <1>1, <1>4, <2>1, <2>2, <2>3 DEF ChainOk, TailOk, CountOk
<1>9. ASSUME NEW d \in Contexts PROVE WorkOk(d)'
  <2>1. WorkOk(d)
    BY DEF Exact
  <2>2. CASE d = c
    BY <1>1, <2>2 DEF WorkOk
  <2>3. CASE d # c
    BY <1>1, <1>2, <1>4, <2>1, <2>3 DEF WorkOk
  <2>4. QED
    BY <2>2, <2>3
<1>10. QED
  BY <1>3, <1>5, <1>6, <1>7, <1>8, <1>9 DEF Exact

(* A context that writes to the list, or the counter, of its queue.        *)
LEMMA ChangeExact ==
  ASSUME OneAtATime, Quiet, Typed, Orderly, NEW S \in [Queues -> SUBSET Msgs],
         NEW u \in SUBSET Msgs, Lists(S, u), Exact, NEW c \in Contexts, MayRun(c),
         pc[c] \notin {"idle", "lock", "create"} \cup Unheard,
         \A d \in Contexts \ {c} : pc'[d] = pc[d] /\ reg'[d] = reg[d],
         NEW q \in Listed, q = reg[c].q, UNCHANGED que_list,
         \A x \in Node \ {q} : x \notin Range(linked[q]) => next'[x] = next[x],
         \A r \in Queues \ {q} : prev'[r] = prev[r] /\ size'[r] = size[r],
         \A r \in Queues : Range(linked[r]) \subseteq Range(linked'[r]),
         (ChainOk(q) /\ TailOk(q) /\ CountOk(q))', WorkOk(c)'
  PROVE  Exact' /\ \A r \in Listed \ {q} : Chain(r)' = Chain(r)
<1>1. ASSUME NEW r \in Listed, r # q
      PROVE  (ChainOk(r) /\ TailOk(r) /\ CountOk(r))' /\ Chain(r)' = Chain(r)
  <2>1. r \in Queues /\ q \in Queues /\ ChainOk(r) /\ TailOk(r) /\ CountOk(r)
    BY Basics DEF Exact
  <2>2. Range(Chain(r)) \subseteq Msgs /\ Range(Chain(r)) \cap Range(linked[q]) = {}
    <3>1. Range(linked[r]) \cap Range(linked[q]) = {}
      BY <1>1, <2>1, Basics DEF HistoryOk
    <3>2. Chain(r) \in Seq(Msgs) /\ Range(Chain(r)) \subseteq Range(linked[r])
      BY <2>1 DEF ChainOk
    <3>3. PICK s \in Seq(Msgs) : s = Chain(r)
      BY <3>2
    <3>4. Range(s) \subseteq Msgs
      BY DEF Range
    <3>5. QED
      BY <3>1, <3>2, <3>3, <3>4
  <2>3. r \notin Range(linked[q])
    <3>1. \A x \in Range(linked[q]) : x \in Msgs
      BY <2>1, Basics DEF HistoryOk
    <3>2. QED
      BY <2>1, <3>1, PirNames
  <2>4. Chain(r)' = Chain(r) /\ ChainOk(r)' /\ EndOf(r)' = EndOf(r)
    <3>1. \A x \in Range(Chain(r)) \cup {r} : next'[x] = next[x]
      BY <1>1, <2>1, <2>2, <2>3, Basics
    <3>2. QED
      BY <2>1, <3>1, ChainKept
  <2>5. \A d \in Contexts : (Counts(d, r) => Counts(d, r)') /\ (Joining(d, r) => Joining(d, r)')
    BY <1>1 DEF Counts, Joining
  <2>6. Cutting(r) => Cutting(r)'
    BY <1>1 DEF Cutting, Contexts
  <2>7. QED
    BY <1>1, <2>1, <2>4, <2>5, <2>6 DEF TailOk, CountOk
<1>2. ASSUME NEW d \in Contexts \ {c} PROVE WorkOk(d)'
  <2>1. WorkOk(d) /\ pc[d] \notin Sensitive
    <3>1. pc[d] \notin Sensitive
      BY LoneWorker
    <3>2. QED
      BY <3>1 DEF Exact
  <2>2. pc[d] = "create" => reg[d].q \in Queues \ {q}
    BY Basics DEF RestOk, Contexts, Handler
  <2>3. QED
    BY <2>1, <2>2, OthersWork
<1>3. Listed' = Listed
  BY DEF Listed
<1>4. QED
  BY <1>1, <1>2, <1>3 DEF Exact

(* A list without its first message, ...                                   *)
LEMMA ListTail ==
  ASSUME NEW q \in Queues, NEW s \in Seq(Msgs), s # <<>>, NEW nx, NEW ny,
         Distinct(s), List(nx, s, q), ny[q] = nx[s[1]],
         \A x \in Range(s) : x # s[1] => ny[x] = nx[x]
  PROVE  LET t == Tail(s) IN
         /\ t \in Seq(Msgs) /\ Distinct(t) /\ List(ny, t, q) /\ Len(t) = Len(s) - 1
         /\ \A i \in 1 .. Len(t) : t[i] = s[i + 1]
         /\ Range(t) \subseteq Range(s) /\ s[1] \notin Range(t)
<1>1. PICK t \in Seq(Msgs) : t = Tail(s) /\ Len(t) = Len(s) - 1 /\ \A i \in 1 .. Len(t) : t[i] = s[i + 1]
  <2>1. Tail(s) \in Seq(Msgs) /\ Len(Tail(s)) = Len(s) - 1 /\ \A i \in 1 .. Len(Tail(s)) : Tail(s)[i] = s[i + 1]
    BY HeadTailProperties
  <2>2. QED
    BY <2>1, Zenon
<1>2. /\ Len(s) \in Nat \ {0} /\ Len(t) \in Nat /\ DOMAIN t = 1 .. Len(t) /\ DOMAIN s = 1 .. Len(s)
      /\ (t = <<>> <=> Len(t) = 0)
  BY <1>1
<1>3. \A i \in 1 .. Len(t) : i + 1 \in 1 .. Len(s) /\ i + 1 # 1 /\ s[i + 1] # s[1] /\ s[i + 1] \in Range(s)
  BY <1>1, <1>2 DEF Distinct, Range
<1>4. Distinct(t)
  BY <1>1, <1>2, <1>3 DEF Distinct
<1>5. Range(t) \subseteq Range(s) /\ s[1] \notin Range(t)
  BY <1>1, <1>2, <1>3 DEF Range
<1>6. ny[q] = IF t = <<>> THEN q ELSE t[1]
  <2>1. nx[s[1]] = IF 1 < Len(s) THEN s[2] ELSE q
    BY <1>2 DEF List
  <2>2. 1 < Len(s) => t[1] = s[2]
    BY <1>1, <1>2
  <2>3. QED
    BY <1>1, <1>2, <2>1, <2>2
<1>7. ASSUME NEW k \in 1 .. Len(t) PROVE ny[t[k]] = IF k < Len(t) THEN t[k + 1] ELSE q
  <2>1. t[k] = s[k + 1] /\ ny[s[k + 1]] = nx[s[k + 1]] /\ k + 1 \in 1 .. Len(s)
    BY <1>1, <1>3
  <2>2. nx[s[k + 1]] = IF k + 1 < Len(s) THEN s[(k + 1) + 1] ELSE q
    BY <2>1 DEF List
  <2>3. k < Len(t) => t[k + 1] = s[(k + 1) + 1]
    BY <1>1, <1>2
  <2>4. k < Len(t) <=> k + 1 < Len(s)
    BY <1>1, <1>2
  <2>5. QED
    BY <2>1, <2>2, <2>3, <2>4
<1>8. List(ny, t, q)
  BY <1>6, <1>7 DEF List
<1>9. QED
  BY <1>1, <1>4, <1>5, <1>8

(* ... and with one more message at its end.                               *)
LEMMA ListAppend ==
  ASSUME NEW q \in Queues, NEW s \in Seq(Msgs), NEW m \in Msgs, m \notin Range(s), NEW nx, NEW ny,
         NEW last, last = (IF s = <<>> THEN q ELSE s[Len(s)]),
         Distinct(s), List(nx, s, q), ny[last] = m, ny[m] = q,
         \A x \in Range(s) \cup {q} : x # last => ny[x] = nx[x]
  PROVE  LET t == Append(s, m) IN
         /\ t \in Seq(Msgs) /\ Distinct(t) /\ List(ny, t, q) /\ Len(t) = Len(s) + 1
         /\ Range(t) = Range(s) \cup {m} /\ t # <<>> /\ t[Len(t)] = m
<1>1. PICK t \in Seq(Msgs) : /\ t = Append(s, m) /\ Len(t) = Len(s) + 1 /\ t[Len(s) + 1] = m
                             /\ \A i \in 1 .. Len(s) : t[i] = s[i]
  <2>1. /\ Append(s, m) \in Seq(Msgs) /\ Len(Append(s, m)) = Len(s) + 1
        /\ Append(s, m)[Len(s) + 1] = m /\ \A i \in 1 .. Len(s) : Append(s, m)[i] = s[i]
    BY AppendProperties
  <2>2. QED
    BY <2>1, Zenon
<1>2. /\ Len(s) \in Nat /\ DOMAIN t = 1 .. Len(s) + 1 /\ DOMAIN s = 1 .. Len(s)
      /\ (s = <<>> <=> Len(s) = 0) /\ t # <<>> /\ q \notin Msgs
  BY <1>1, PirNames
<1>3. \A i \in 1 .. Len(s) : s[i] \in Range(s) /\ s[i] # m /\ s[i] # q
  BY <1>2 DEF Range
<1>4. Distinct(t)
  BY <1>1, <1>2, <1>3 DEF Distinct
<1>5. Range(t) = Range(s) \cup {m}
  BY <1>1, <1>2 DEF Range
<1>6. ny[q] = t[1]
  <2>1. CASE s = <<>>
    BY <1>1, <1>2, <2>1
  <2>2. CASE s # <<>>
    <3>1. last = s[Len(s)] /\ last # q /\ nx[q] = s[1] /\ t[1] = s[1]
      BY <1>1, <1>2, <1>3, <2>2 DEF List
    <3>2. QED
      BY <3>1
  <2>3. QED
    BY <2>1, <2>2
<1>7. ASSUME NEW k \in 1 .. Len(t) PROVE ny[t[k]] = IF k < Len(t) THEN t[k + 1] ELSE q
  <2>1. CASE k = Len(s) + 1
    BY <1>1, <2>1
  <2>2. CASE k = Len(s)
    BY <1>1, <1>2, <1>3, <2>2
  <2>3. CASE k < Len(s)
    <3>1. t[k] = s[k] /\ t[k + 1] = s[k + 1] /\ k \in 1 .. Len(s) /\ s[k] # s[Len(s)]
      BY <1>1, <1>2, <2>3 DEF Distinct
    <3>2. nx[s[k]] = s[k + 1]
      BY <2>3, <3>1 DEF List
    <3>3. s[k] \in Range(s) /\ s[k] # last
      BY <1>2, <1>3, <2>3, <3>1
    <3>4. QED
      BY <1>1, <1>2, <2>3, <3>1, <3>2, <3>3
  <2>4. k = Len(s) + 1 \/ k = Len(s) \/ k < Len(s)
    <3>1. Len(t) = Len(s) + 1 /\ Len(s) \in Nat
      BY <1>1, <1>2
    <3> HIDE <1>1, <1>2
    <3>2. k \in 1 .. Len(s) + 1
      BY <3>1
    <3>3. QED
      BY <3>1, <3>2
  <2>5. QED
    BY <2>1, <2>2, <2>3, <2>4
<1>8. List(ny, t, q)
  BY <1>2, <1>6, <1>7 DEF List
<1>9. QED
  BY <1>1, <1>2, <1>4, <1>5, <1>8

(* list_del, first store.                                                  *)
LEMMA DelNextExact ==
  ASSUME OneAtATime, Quiet, Typed, Orderly, NEW S \in [Queues -> SUBSET Msgs],
         NEW u \in SUBSET Msgs, Lists(S, u), Exact, NEW c \in Contexts, DelNext(c)
  PROVE  Exact'
<1>1. /\ UNCHANGED <<next, size, linked, que_list, reg>> /\ pc[c] = "delNext" /\ MayRun(c)
      /\ pc'[c] = "delPrev" /\ prev' = [prev EXCEPT ![reg[c].nx] = reg[c].pv]
  BY Basics DEF DelNext, At, GoOn, Goto, queues, history
<1>2. PICK q \in Listed : q = reg[c].q
  BY <1>1, WorkPlace
<1>3. /\ c \in Clients /\ q \in Queues /\ WorkOk(c) /\ ChainOk(q) /\ prev[q] = EndOf(q)
      /\ ~Counts(c, q) => size[q] = Len(Chain(q))
  BY <1>1, <1>2, WorkPlace
<1>4. \A r : Chain(r)' = Chain(r) /\ EndOf(r)' = EndOf(r)
  BY <1>1 DEF Chain, EndOf
<1>5. /\ Chain(q) # <<>> /\ reg[c].m = Chain(q)[1] /\ reg[c].nx = next[reg[c].m] /\ reg[c].pv = q
  BY <1>1, <1>2, <1>3, Basics DEF WorkOk, CutOk
<1>6. reg[c].nx = q \/ reg[c].nx \in Msgs
  BY <1>3, <1>5, ChainEnds
<1>7. prev'[q] = IF reg[c].nx = q THEN q ELSE EndOf(q)
  BY <1>1, <1>3, <1>5, <1>6, Basics
<1>8. WorkOk(c)'
  BY <1>1, <1>2, <1>3, <1>4, <1>7 DEF WorkOk
<1>9. (ChainOk(q) /\ TailOk(q) /\ CountOk(q))'
  <2>1. Cutting(q)'
    BY <1>1, <1>2, <1>3 DEF Cutting
  <2>2. ChainOk(q)'
    BY <1>1, <1>3, <1>4 DEF ChainOk
  <2>3. CountOk(q)'
    <3>1. Counts(c, q) => Counts(c, q)'
      BY <1>1 DEF Counts
    <3>2. QED
      BY <1>1, <1>3, <1>4, <3>1 DEF CountOk
  <2>4. QED
    BY <2>1, <2>2, <2>3 DEF TailOk
<1>10. \A r \in Queues \ {q} : prev'[r] = prev[r]
  BY <1>1, <1>6, Basics
<1>11. \A d \in Contexts \ {c} : pc'[d] = pc[d] /\ reg'[d] = reg[d]
  BY OwnStep DEF SharedStep
<1>12. QED
  BY <1>1, <1>2, <1>8, <1>9, <1>10, <1>11, ChangeExact DEF Unheard

(* list_del, second store: the list has lost its first message.            *)
LEMMA DelPrevExact ==
  ASSUME OneAtATime, Quiet, Typed, Orderly, NEW S \in [Queues -> SUBSET Msgs],
         NEW u \in SUBSET Msgs, Lists(S, u), Exact, NEW c \in Contexts, DelPrev(c)
  PROVE  \E q \in Listed :
           /\ Exact' /\ q = reg[c].q /\ Chain(q) # <<>> /\ Chain(q)' = Tail(Chain(q))
           /\ \A r \in Listed \ {q} : Chain(r)' = Chain(r)
<1>1. /\ UNCHANGED <<prev, size, linked, que_list, reg>> /\ pc[c] = "delPrev" /\ MayRun(c)
      /\ pc'[c] = (IF reg[c].op = "read" THEN "size" ELSE "loop")
      /\ next' = [next EXCEPT ![reg[c].pv] = reg[c].nx]
  BY Basics DEF DelPrev, At, GoOn, Goto, queues, history, Unlinked
<1>2. PICK q \in Listed : q = reg[c].q
  BY <1>1, WorkPlace
<1>3. /\ c \in Clients /\ q \in Queues /\ WorkOk(c) /\ ChainOk(q)
      /\ ~Counts(c, q) => size[q] = Len(Chain(q))
  BY <1>1, <1>2, WorkPlace
<1>4. PICK s \in Seq(Msgs) : s = Chain(q) /\ Distinct(s) /\ List(next, s, q)
  BY <1>3 DEF ChainOk
<1>5. /\ s # <<>> /\ reg[c].m = s[1] /\ reg[c].nx = next[s[1]] /\ reg[c].pv = q
      /\ prev[q] = IF reg[c].nx = q THEN q ELSE EndOf(q)
  BY <1>1, <1>2, <1>3, <1>4, Basics DEF WorkOk, CutOk
<1>6. next'[q] = next[s[1]] /\ \A x \in Node \ {q} : next'[x] = next[x]
  BY <1>1, <1>3, <1>5, Basics
<1>7. Range(s) \subseteq Node \ {q} /\ Range(s) \subseteq Range(linked[q])
  <2>1. Range(s) \subseteq Msgs
    BY <1>4 DEF Range
  <2>2. QED
    BY <1>3, <1>4, <2>1, Basics DEF ChainOk
<1>8. PICK t \in Seq(Msgs) : /\ t = Tail(s) /\ Distinct(t) /\ List(next', t, q) /\ Len(t) = Len(s) - 1
                             /\ \A i \in 1 .. Len(t) : t[i] = s[i + 1]
                             /\ Range(t) \subseteq Range(s)
  <2>1. \A x \in Range(s) : next'[x] = next[x]
    BY <1>6, <1>7
  <2>2. LET t == Tail(s) IN
        /\ t \in Seq(Msgs) /\ Distinct(t) /\ List(next', t, q) /\ Len(t) = Len(s) - 1
        /\ \A i \in 1 .. Len(t) : t[i] = s[i + 1]
        /\ Range(t) \subseteq Range(s)
    BY <1>3, <1>4, <1>5, <1>6, <2>1, ListTail
  <2>3. QED
    BY <2>2, Zenon
<1>9. Chain(q)' = t
  <2>1. Traversal(next', q) = t
    BY <1>3, <1>8, TraversalIs
  <2>2. QED
    BY <2>1 DEF Chain
<1>10. ChainOk(q)'
  BY <1>1, <1>7, <1>8, <1>9 DEF ChainOk
<1>11. prev'[q] = EndOf(q)'
  <2>1. Len(s) \in Nat \ {0} /\ (t = <<>> <=> Len(t) = 0) /\ Len(t) \in Nat
    <3>1. Len(s) \in Nat /\ Len(s) # 0
      BY <1>3, <1>4, <1>5, ChainEnds
    <3>2. Len(t) \in Nat
      BY <1>8
    <3>3. t = <<>> <=> Len(t) = 0
      BY EmptySeq
    <3>4. QED
      BY <3>1, <3>2, <3>3
  <2>2. reg[c].nx = q <=> Len(s) = 1
    BY <1>3, <1>4, <1>5, ChainEnds
  <2>3. CASE Len(s) = 1
    BY <1>1, <1>5, <1>8, <1>9, <2>1, <2>2, <2>3 DEF EndOf
  <2>4. CASE Len(s) # 1
    <3>1. t # <<>> /\ Len(t) \in 1 .. Len(t) /\ t[Len(t)] = s[Len(s)]
      BY <1>8, <2>1, <2>4
    <3>2. EndOf(q) = s[Len(s)]
      BY <1>4, <1>5 DEF EndOf
    <3>3. QED
      BY <1>1, <1>5, <1>9, <2>2, <2>4, <3>1, <3>2 DEF EndOf
  <2>5. QED
    BY <2>3, <2>4
<1>12. Counts(c, q)' /\ TailOk(q)'
  <2>1. reg[c].op \in {"read", "flush"}
    BY <1>1, <1>3, Basics DEF Phases
  <2>2. QED
    BY <1>1, <1>2, <1>11, <2>1 DEF Counts, TailOk
<1>13. WorkOk(c)'
  <2>1. reg[c].op = "read" => size[q] = Len(s)
    BY <1>1, <1>3, <1>4 DEF Counts
  <2>2. Len(s) = Len(t) + 1
    BY <1>4, <1>8
  <2>3. reg[c].op = "flush" => reg[c].n = next'[q]
    BY <1>1, <1>2, <1>3, <1>5, <1>6 DEF WorkOk
  <2>4. QED
    BY <1>1, <1>2, <1>9, <2>1, <2>2, <2>3 DEF WorkOk
<1>14. \A d \in Contexts \ {c} : pc'[d] = pc[d] /\ reg'[d] = reg[d]
  BY OwnStep DEF SharedStep
<1>15. CountOk(q)'
  BY <1>12 DEF CountOk
<1>16. Exact' /\ \A r \in Listed \ {q} : Chain(r)' = Chain(r)
  BY <1>1, <1>2, <1>6, <1>10, <1>12, <1>13, <1>14, <1>15, ChangeExact DEF Unheard
<1>17. QED
  BY <1>1, <1>2, <1>4, <1>5, <1>8, <1>9, <1>16

(* list_add_tail, first store: the message is recorded as appended.        *)
LEMMA LinkHeadExact ==
  ASSUME OneAtATime, Quiet, Typed, Orderly, NEW S \in [Queues -> SUBSET Msgs],
         NEW u \in SUBSET Msgs, Lists(S, u), Exact, NEW c \in Contexts, LinkHead(c)
  PROVE  Exact'
<1>1. /\ UNCHANGED <<next, size, que_list, reg>> /\ pc[c] = "linkHead" /\ MayRun(c)
      /\ pc'[c] = "linkNew" /\ prev' = [prev EXCEPT ![reg[c].q] = reg[c].m]
      /\ linked' = [linked EXCEPT ![reg[c].q] = Append(@, reg[c].m)]
  BY Basics DEF LinkHead, At, GoOn, Goto, queues
<1>2. PICK q \in Listed : q = reg[c].q
  BY <1>1, WorkPlace
<1>3. /\ q \in Queues /\ WorkOk(c) /\ ChainOk(q) /\ prev[q] = EndOf(q)
      /\ ~Counts(c, q) => size[q] = Len(Chain(q))
  BY <1>1, <1>2, WorkPlace
<1>4. PICK m \in Msgs : m = reg[c].m /\ m \notin Range(linked[q])
  <2>1. CASE c \in Clients
    BY <1>1, <1>3, <2>1, Basics DEF JoinOk, Pending, Unknown
  <2>2. CASE c = Isr
    BY <1>1, <1>3, <2>2, Basics DEF HandlerOk, Pending, Unknown
  <2>3. QED
    BY <2>1, <2>2 DEF Contexts
<1>5. Range(linked'[q]) = Range(linked[q]) \cup {m}
  <2>1. linked'[q] = Append(linked[q], m) /\ linked[q] \in Seq(Node) /\ m \in Node
    BY <1>1, <1>2, <1>3, <1>4, Basics
  <2>2. Distinct(linked[q])
    BY <1>3, Basics DEF HistoryOk
  <2>3. QED
    BY <1>4, <2>1, <2>2, BeforeAppend
<1>6. \A r : Chain(r)' = Chain(r) /\ EndOf(r)' = EndOf(r)
  BY <1>1 DEF Chain, EndOf
<1>7. ChainOk(q)' /\ m \notin Range(Chain(q))
  BY <1>1, <1>3, <1>4, <1>5, <1>6 DEF ChainOk
<1>8. prev'[q] = m /\ \A r \in Queues \ {q} : prev'[r] = prev[r] /\ linked'[r] = linked[r]
  BY <1>1, <1>2, <1>3, <1>4, Basics
<1>9. WorkOk(c)'
  BY <1>1, <1>2, <1>3, <1>4, <1>5, <1>6, <1>7, <1>8 DEF WorkOk
<1>10. TailOk(q)' /\ CountOk(q)'
  <2>1. Joining(c, q)'
    BY <1>1, <1>2 DEF Joining
  <2>2. ~Counts(c, q)
    BY <1>1 DEF Counts
  <2>3. QED
    BY <1>1, <1>3, <1>6, <2>1, <2>2 DEF TailOk, CountOk
<1>11. \A d \in Contexts \ {c} : pc'[d] = pc[d] /\ reg'[d] = reg[d]
  BY OwnStep DEF SharedStep
<1>12. \A r \in Queues : Range(linked[r]) \subseteq Range(linked'[r])
  BY <1>5, <1>8
<1>13. QED
  BY <1>1, <1>2, <1>7, <1>8, <1>9, <1>10, <1>11, <1>12, ChangeExact DEF Unheard

(* list_add_tail, second store: the pointers of the new entry.             *)
LEMMA LinkNewExact ==
  ASSUME OneAtATime, Quiet, Typed, Orderly, NEW S \in [Queues -> SUBSET Msgs],
         NEW u \in SUBSET Msgs, Lists(S, u), Exact, NEW c \in Contexts, LinkNew(c)
  PROVE  Exact' /\ \A q \in Listed : Chain(q)' = Chain(q)
<1>1. /\ UNCHANGED <<size, que_list, reg, linked>> /\ pc[c] = "linkNew" /\ MayRun(c)
      /\ pc'[c] = "linkPrev" /\ prev' = [prev EXCEPT ![reg[c].m] = reg[c].pv]
      /\ next' = [next EXCEPT ![reg[c].m] = reg[c].q]
  BY Basics DEF LinkNew, At, GoOn, Goto, queues, history
<1>2. PICK q \in Listed : q = reg[c].q
  BY <1>1, WorkPlace
<1>3. /\ q \in Queues /\ WorkOk(c) /\ ChainOk(q)
      /\ ~Counts(c, q) => size[q] = Len(Chain(q))
  BY <1>1, <1>2, WorkPlace
<1>4. PICK m \in Msgs : /\ m = reg[c].m /\ m \in Range(linked[q]) /\ m \notin Range(Chain(q))
                        /\ reg[c].pv = EndOf(q) /\ prev[q] = m
  BY <1>1, <1>2, <1>3 DEF WorkOk
<1>5. next'[m] = q /\ \A x \in Node \ {m} : next'[x] = next[x] /\ prev'[x] = prev[x]
  BY <1>1, <1>2, <1>4, Basics
<1>6. Range(Chain(q)) \subseteq Node
  BY <1>3, Basics DEF ChainOk, Range
<1>7. Chain(q)' = Chain(q) /\ ChainOk(q)' /\ EndOf(q)' = EndOf(q)
  BY <1>1, <1>3, <1>4, <1>5, <1>6, Basics, ChainKept
<1>8. WorkOk(c)'
  BY <1>1, <1>2, <1>3, <1>4, <1>5, <1>7, Basics DEF WorkOk
<1>9. TailOk(q)' /\ CountOk(q)'
  <2>1. Joining(c, q)'
    BY <1>1, <1>2 DEF Joining
  <2>2. ~Counts(c, q)
    BY <1>1 DEF Counts
  <2>3. QED
    BY <1>1, <1>3, <1>7, <2>1, <2>2 DEF TailOk, CountOk
<1>10. \A d \in Contexts \ {c} : pc'[d] = pc[d] /\ reg'[d] = reg[d]
  BY OwnStep DEF SharedStep
<1>11. \A x \in Node : x \notin Range(linked[q]) => next'[x] = next[x]
  BY <1>4, <1>5
<1>12. \A r \in Queues \ {q} : prev'[r] = prev[r] /\ size'[r] = size[r] /\ linked'[r] = linked[r]
  BY <1>1, <1>4, <1>5, Basics
<1>13. Exact' /\ \A r \in Listed \ {q} : Chain(r)' = Chain(r)
  BY <1>1, <1>2, <1>7, <1>8, <1>9, <1>10, <1>11, <1>12, ChangeExact DEF Unheard
<1>14. QED
  BY <1>7, <1>13

(* list_add_tail, last store: the list has one more message.               *)
LEMMA LinkPrevExact ==
  ASSUME OneAtATime, Quiet, Typed, Orderly, NEW S \in [Queues -> SUBSET Msgs],
         NEW u \in SUBSET Msgs, Lists(S, u), Exact, NEW c \in Contexts, LinkPrev(c)
  PROVE  \E q \in Listed, m \in Msgs :
           /\ Exact' /\ q = reg[c].q /\ m = reg[c].m /\ m \in Range(linked[q])
           /\ m \notin Range(Chain(q)) /\ Chain(q)' = Append(Chain(q), m)
           /\ \A r \in Listed \ {q} : Chain(r)' = Chain(r)
<1>1. /\ UNCHANGED <<prev, size, linked, que_list, reg>> /\ pc[c] = "linkPrev" /\ MayRun(c)
      /\ pc'[c] = "size" /\ next' = [next EXCEPT ![reg[c].pv] = reg[c].m]
      /\ reg[c].op # "read"
  BY Basics DEF LinkPrev, At, GoOn, Goto, queues, history, Ops, Handler, Contexts
<1>2. PICK q \in Listed : q = reg[c].q
  BY <1>1, WorkPlace
<1>3. /\ q \in Queues /\ WorkOk(c) /\ ChainOk(q)
      /\ ~Counts(c, q) => size[q] = Len(Chain(q))
  BY <1>1, <1>2, WorkPlace
<1>4. PICK m \in Msgs : /\ m = reg[c].m /\ m \in Range(linked[q]) /\ m \notin Range(Chain(q))
                        /\ reg[c].pv = EndOf(q) /\ prev[q] = m /\ next[m] = q
  BY <1>1, <1>2, <1>3 DEF WorkOk
<1>5. PICK s \in Seq(Msgs) : /\ s = Chain(q) /\ Distinct(s) /\ List(next, s, q)
                             /\ Range(s) \subseteq Range(linked[q])
  BY <1>3 DEF ChainOk
<1>6. PICK l : l = EndOf(q) /\ l = (IF s = <<>> THEN q ELSE s[Len(s)])
  BY <1>5 DEF EndOf
<1>7. l \in Range(s) \cup {q} /\ l \in Node /\ l # m /\ Range(s) \subseteq Node
  <2>1. Range(s) \subseteq Msgs
    BY <1>5 DEF Range
  <2>2. l \in Range(s) \cup {q}
    BY <1>3, <1>5, <1>6, ChainEnds
  <2>3. QED
    BY <1>3, <1>4, <1>5, <2>1, <2>2, Basics
<1>8. next'[l] = m /\ \A x \in Node \ {l} : next'[x] = next[x]
  BY <1>1, <1>4, <1>6, <1>7, Basics
<1>9. PICK t \in Seq(Msgs) : /\ t = Append(s, m) /\ Distinct(t) /\ List(next', t, q)
                             /\ Len(t) = Len(s) + 1 /\ Range(t) = Range(s) \cup {m}
                             /\ t # <<>> /\ t[Len(t)] = m
  <2>1. next'[m] = q /\ \A x \in Range(s) \cup {q} : x # l => next'[x] = next[x]
    BY <1>3, <1>4, <1>7, <1>8, Basics
  <2>2. LET t == Append(s, m) IN
        /\ t \in Seq(Msgs) /\ Distinct(t) /\ List(next', t, q) /\ Len(t) = Len(s) + 1
        /\ Range(t) = Range(s) \cup {m} /\ t # <<>> /\ t[Len(t)] = m
    BY <1>3, <1>4, <1>5, <1>6, <1>8, <2>1, ListAppend
  <2>3. QED
    BY <2>2, Zenon
<1>10. Chain(q)' = t
  <2>1. Traversal(next', q) = t
    BY <1>3, <1>9, TraversalIs
  <2>2. QED
    BY <2>1 DEF Chain
<1>11. ChainOk(q)'
  BY <1>1, <1>4, <1>5, <1>9, <1>10 DEF ChainOk
<1>12. Counts(c, q)' /\ TailOk(q)'
  <2>1. prev'[q] = EndOf(q)'
    BY <1>1, <1>4, <1>9, <1>10 DEF EndOf
  <2>2. QED
    BY <1>1, <1>2, <2>1 DEF Counts, TailOk
<1>13. WorkOk(c)'
  <2>1. size'[q] = Len(t) - 1
    <3>1. ~Counts(c, q)
      BY <1>1 DEF Counts
    <3>2. size'[q] = Len(s) /\ Len(s) \in Nat
      BY <1>1, <1>3, <1>5, <3>1
    <3>3. QED
      BY <1>9, <3>2
  <2>2. QED
    BY <1>1, <1>2, <1>10, <2>1 DEF WorkOk
<1>14. \A d \in Contexts \ {c} : pc'[d] = pc[d] /\ reg'[d] = reg[d]
  BY OwnStep DEF SharedStep
<1>15. CountOk(q)'
  BY <1>12 DEF CountOk
<1>16. \A x \in Node \ {q} : x \notin Range(linked[q]) => next'[x] = next[x]
  BY <1>5, <1>7, <1>8
<1>17. Exact' /\ \A r \in Listed \ {q} : Chain(r)' = Chain(r)
  BY <1>1, <1>2, <1>11, <1>12, <1>13, <1>14, <1>15, <1>16, ChangeExact DEF Unheard
<1>18. QED
  BY <1>1, <1>2, <1>4, <1>5, <1>9, <1>10, <1>17

(* The counter follows, and its store ends the insertion or the removal.   *)
LEMMA SizeStoreExact ==
  ASSUME OneAtATime, Quiet, Typed, Orderly, NEW S \in [Queues -> SUBSET Msgs],
         NEW u \in SUBSET Msgs, Lists(S, u), Exact, NEW c \in Contexts, SizeStore(c)
  PROVE  Exact'
<1>1. /\ UNCHANGED <<next, prev, linked, que_list>> /\ pc[c] = "store" /\ MayRun(c)
      /\ pc'[c] \in {"each", "idle"}
      /\ size' = [size EXCEPT ![reg[c].q] = IF reg[c].op = "read" THEN reg[c].k - 1
                                                                  ELSE reg[c].k + 1]
  BY Basics DEF SizeStore, At, GoOn, Goto, Return, queues, history
<1>2. PICK q \in Listed : q = reg[c].q
  BY <1>1, WorkPlace
<1>3. q \in Queues /\ WorkOk(c) /\ ChainOk(q) /\ prev[q] = EndOf(q)
  BY <1>1, <1>2, WorkPlace
<1>4. \A r : Chain(r)' = Chain(r) /\ EndOf(r)' = EndOf(r)
  BY <1>1 DEF Chain, EndOf
<1>5. size \in [Queues -> Int] /\ Len(Chain(q)) \in Nat
  BY <1>3, ChainEnds DEF Typed, TypeOK, HeapType
<1>6. reg[c].k = IF reg[c].op = "read" THEN Len(Chain(q)) + 1 ELSE Len(Chain(q)) - 1
  BY <1>1, <1>2, <1>3 DEF WorkOk
<1>7. size'[q] = Len(Chain(q)) /\ \A r \in Queues \ {q} : size'[r] = size[r]
  BY <1>1, <1>2, <1>3, <1>5, <1>6
<1>8. (ChainOk(q) /\ TailOk(q) /\ CountOk(q))'
  BY <1>1, <1>3, <1>4, <1>7 DEF ChainOk, TailOk, CountOk
<1>9. WorkOk(c)'
  BY <1>1 DEF WorkOk
<1>10. \A d \in Contexts \ {c} : pc'[d] = pc[d] /\ reg'[d] = reg[d]
  BY OwnStep DEF SharedStep
<1>11. QED
  BY <1>1, <1>2, <1>7, <1>8, <1>9, <1>10, ChangeExact DEF Unheard

(* The end of a flush, which resets the counter, or of a close.            *)
LEMMA LoopEndExact ==
  ASSUME OneAtATime, Quiet, Typed, Orderly, NEW S \in [Queues -> SUBSET Msgs],
         NEW u \in SUBSET Msgs, Lists(S, u), Exact, NEW c \in Clients, LoopEnd(c)
  PROVE  Exact'
<1>1. /\ UNCHANGED <<next, prev, linked, que_list>> /\ pc[c] = "loop" /\ MayRun(c)
      /\ pc'[c] = "idle" /\ c \in Contexts /\ reg[c].n = reg[c].q
      /\ reg[c].op \in {"flush", "close"}
  BY Basics DEF LoopEnd, At, Goto, Return, queues, history, Phases
<1>2. \A r : Chain(r)' = Chain(r) /\ EndOf(r)' = EndOf(r)
  BY <1>1 DEF Chain, EndOf
<1>3. \A d \in Contexts \ {c} : pc'[d] = pc[d] /\ reg'[d] = reg[d]
  BY <1>1, OwnStep DEF ClientStep
<1>4. WorkOk(c)'
  BY <1>1 DEF WorkOk
<1>5. CASE reg[c].op = "flush"
  <2>1. PICK q \in Listed : q = reg[c].q
    BY <1>1, <1>5, WorkPlace
  <2>2. q \in Queues /\ WorkOk(c) /\ ChainOk(q) /\ prev[q] = EndOf(q)
    BY <1>1, <1>5, <2>1, WorkPlace
  <2>3. Len(Chain(q)) = 0
    <3>1. next[q] = q
      BY <1>1, <1>5, <2>1, <2>2 DEF WorkOk
    <3>2. QED
      BY <2>2, <3>1, ChainEnds
  <2>4. size'[q] = 0 /\ \A r \in Queues \ {q} : size'[r] = size[r]
    BY <1>5, <2>1, <2>2 DEF LoopEnd, Emptied, Typed, TypeOK, HeapType
  <2>5. (ChainOk(q) /\ TailOk(q) /\ CountOk(q))'
    BY <1>1, <1>2, <2>2, <2>3, <2>4 DEF ChainOk, TailOk, CountOk
  <2>6. QED
    BY <1>1, <1>3, <1>4, <2>1, <2>4, <2>5, ChangeExact DEF Unheard
<1>6. CASE reg[c].op = "close"
  <2>1. UNCHANGED size /\ Listed' = Listed
    BY <1>1, <1>6 DEF LoopEnd, Listed
  <2>2. \A r : ~Counts(c, r)
    BY <1>1, <1>6 DEF Counts
  <2>3. QED
    BY <1>1, <1>3, <1>4, <2>1, <2>2, PlainExact
<1>7. QED
  BY <1>1, <1>5, <1>6

(* Every step keeps lists, head.prev and counters exact.                   *)
LEMMA ExactStep ==
  ASSUME OneAtATime, Quiet, Typed, Orderly, ListInv, Exact, [Next]_vars
  PROVE  Exact'
<1>1. PICK S \in [Queues -> SUBSET Msgs], u \in SUBSET Msgs : Lists(S, u)
  BY DEF ListInv
<1>2. ASSUME NEW c \in Contexts, SharedStep(c) PROVE Exact'
  <2>1. CASE c \in Clients /\ Del(c)
    BY <1>1, <2>1, LoopExact
  <2>2. CASE c = Isr /\ Del(c)
    BY <1>1, <2>2, Basics DEF Del, At, Handler
  <2>3. CASE DelNext(c) \/ DelPrev(c)
    BY <1>1, <2>3, DelNextExact, DelPrevExact
  <2>4. CASE Link(c) \/ SizeLoad(c)
    BY <1>1, <2>4, LoadingExact
  <2>5. CASE LinkHead(c) \/ LinkNew(c)
    BY <1>1, <2>5, LinkHeadExact, LinkNewExact
  <2>6. CASE LinkPrev(c) \/ SizeStore(c)
    BY <1>1, <2>6, LinkPrevExact, SizeStoreExact
  <2>7. CASE Oops(c)
    BY <1>1, <2>7, ModuleExact
  <2>8. QED
    BY <1>2, <2>1, <2>2, <2>3, <2>4, <2>5, <2>6, <2>7 DEF SharedStep, Contexts
<1>3. ASSUME NEW c \in Clients, ClientStep(c) PROVE Exact'
  <2>1. CASE CreateInit(c) \/ CreateAdd(c)
    BY <1>1, <2>1, CreateExact, AddExact
  <2>2. CASE \/ Call(c) \/ Lock(c) \/ GetToRead(c) \/ GetToWrite(c) \/ WaitPrepare(c)
             \/ WaitSchedule(c) \/ GetNothing(c)
    BY <1>1, <2>2, MovingExact
  <2>3. CASE WaitDone(c) \/ First(c) \/ Copy(c)
    BY <1>1, <2>3, WaitDoneExact
  <2>4. CASE GetToClear(c) \/ LoopBody(c)
    BY <1>1, <2>4, LoopExact
  <2>5. CASE LoopEnd(c)
    BY <1>1, <2>5, LoopEndExact
  <2>6. QED
    BY <1>3, <2>1, <2>2, <2>3, <2>4, <2>5 DEF ClientStep
<1>4. CASE \/ UNCHANGED vars
           \/ Edge \/ IsrStart \/ IsrAgain \/ IsrEach \/ IsrWake \/ Load \/ Setup
         \/ RequestIrq \/ RequestFails \/ Exit
  BY <1>1, <1>4, ModuleExact
<1>5. QED
  BY <1>2, <1>3, <1>4 DEF Next

(* At first there is no queue.                                             *)
LEMMA ExactInit == Init => Exact
<1> SUFFICES ASSUME Init PROVE Exact
  OBVIOUS
<1>1. Listed = {}
  BY DEF Init, Listed, Range
<1>2. \A c \in Contexts : pc[c] \in {"idle", "gone"}
  BY DEF Init
<1>3. QED
  BY <1>1, <1>2 DEF Exact, WorkOk

(* ... so that they are exact in every reachable state.                    *)
LEMMA ExactAlways ==
  ASSUME OneAtATime, Quiet
  PROVE  Spec => [](Typed /\ Orderly /\ ListInv /\ Exact)
<1>1. Typed /\ Orderly /\ ListInv /\ Exact /\ [Next]_vars => Exact'
  BY ExactStep
<1>2. QED
  BY <1>1, ExactInit, ListAlways, PTL DEF Spec

(* While the handler keeps out of calls, the counter of a queue that       *)
(* nobody works on is the number of its messages.                          *)
THEOREM CountersAreExact ==
  ASSUME OneAtATime, Quiet
  PROVE  Spec => []SizeIsMessageCount
<1>1. Exact => SizeIsMessageCount
  <2> SUFFICES ASSUME Exact, NEW q \in Listed, \A c \in Contexts : ~AtWork(c, q)
               PROVE  size[q] = Len(Chain(q))
    BY DEF SizeIsMessageCount, Listed
  <2>1. \A c \in Contexts : ~Counts(c, q)
    BY DEF Counts, AtWork
  <2>2. QED
    BY <2>1 DEF Exact, CountOk
<1>2. QED
  BY <1>1, ExactAlways, PTL

(* Nor does a step follow a null pointer, but in a call that named a       *)
(* descriptor no queue had.                                                *)
LEMMA DerefsSomething ==
  ASSUME OneAtATime, Quiet, Typed, Orderly, NEW S \in [Queues -> SUBSET Msgs],
         NEW u \in SUBSET Msgs, Lists(S, u), Exact, NEW c \in Contexts, MayRun(c),
         c \in Clients => reg[c].named = "queue"
  PROVE  Nil \notin Derefs(c)
<1>1. WorkOk(c) /\ Nil \notin Node
  BY Basics DEF Exact
<1>2. \A r \in Listed : r \in Queues /\ ChainOk(r)
  BY Basics DEF Exact
<1>3. CASE c = Isr
  <2>1. HandlerOk /\ Handler
    BY Basics
  <2>2. CASE pc[Isr] \in {"link", "linkHead", "linkNew", "size", "store"}
    BY <1>1, <1>2, <1>3, <2>1, <2>2, Basics DEF Derefs, HandlerOk, Pending
  <2>3. CASE pc[Isr] = "linkPrev"
    BY <1>1, <1>2, <1>3, <2>1, <2>3, ChainEnds, Basics DEF Derefs, HandlerOk, WorkOk
  <2>4. CASE pc[Isr] \in {"each", "again", "idle"} \cup Unheard
    BY <1>3, <2>1, <2>4 DEF Derefs, HandlerOk, Listed, Unheard
  <2>5. QED
    BY <2>1, <2>2, <2>3, <2>4 DEF Handler, Unheard
<1>4. CASE c \in Clients
  <2>1. /\ CutOk(S, c) /\ JoinOk(S, u, c) /\ Ops /\ Phases /\ pc[Isr] # "added"
        /\ pc[c] \in InQueue /\ reg[c].op # "close" => reg[c].q \in Listed
        /\ pc[c] = "copy" => reg[c].m = Nil \/ reg[c].m \in S[reg[c].q]
    <3>1. RestOk(S, c) /\ ~Astray(c)
      BY <1>4, Basics DEF Astray
    <3>2. QED
      BY <1>4, <3>1, Basics, Running DEF RestOk
  <2>2. CASE pc[c] \in {"check", "first", "link", "linkHead", "size", "store"}
    BY <1>1, <1>2, <1>4, <2>1, <2>2, Basics DEF Derefs, InQueue, Midway, Ops
  <2>3. CASE pc[c] \in {"copy", "linkNew", "linkPrev"}
    BY <1>1, <1>2, <1>4, <2>1, <2>3, ChainEnds, Basics DEF Derefs, WorkOk, InQueue, Midway, Ops
  <2>4. CASE pc[c] \in {"del", "delNext", "delPrev"}
    <3>1. reg[c].q \in Listed /\ reg[c].q \in Queues
      BY <1>2, <1>4, <2>1, <2>4 DEF InQueue, Midway, Phases
    <3>2. reg[c].m \in Msgs /\ (next[reg[c].m] = reg[c].q \/ next[reg[c].m] \in Msgs)
      BY <1>1, <1>2, <2>4, <3>1, ChainEnds DEF WorkOk
    <3>3. /\ pc[c] \in {"delNext", "delPrev"} => reg[c].nx = next[reg[c].m] /\ reg[c].pv = reg[c].q
      BY <1>1, <2>1, <2>4 DEF WorkOk, CutOk
    <3>4. QED
      BY <1>1, <2>4, <3>1, <3>2, <3>3, Basics DEF Derefs
  <2>5. CASE pc[c] = "loop"
    <3>1. reg[c].q \in Queues
      BY <1>2, <1>4, <2>1, <2>5 DEF CutOk, InQueue, Midway, Phases
    <3>2. reg[c].n = reg[c].q \/ reg[c].n \in Msgs
      <4>1. S[reg[c].q] \subseteq Msgs
        BY <3>1
      <4>2. CASE reg[c].op = "flush"
        BY <2>1, <2>5, <4>1, <4>2 DEF CutOk
      <4>3. CASE reg[c].op = "close"
        BY <2>1, <2>5, <4>1, <4>3 DEF CutOk, Threads
      <4>4. QED
        BY <1>4, <2>1, <2>5, <4>2, <4>3 DEF Phases
    <3>3. QED
      BY <1>1, <2>5, <3>1, <3>2, Basics DEF Derefs
  <2>6. CASE pc[c] \notin {"check", "first", "link", "linkHead", "size", "store", "copy",
                          "linkNew", "del", "loop", "linkPrev", "delNext", "delPrev", "each"}
    BY <2>1, <2>6 DEF Derefs
  <2>7. QED
    BY <2>1, <2>2, <2>3, <2>4, <2>5, <2>6, <1>4 DEF Phases
<1>5. QED
  BY <1>3, <1>4 DEF Contexts

(* A call that names a queue does not end in an oops: the queue is there   *)
(* as long as the call needs it, also when a flush or a close looks it up  *)
(* and when a reader wakes up, and so is all that a step dereferences.     *)
THEOREM NothingFaults ==
  ASSUME OneAtATime, Quiet
  PROVE  Spec => []NoOops
<1>1. Init => NoOops
  BY DEF Init, NoOops
<1>2. Typed /\ Orderly /\ ListInv /\ Exact /\ NoOops /\ [Next]_vars => NoOops'
  <2> SUFFICES ASSUME Typed, Orderly, Exact, NoOops, [Next]_vars,
                      NEW S \in [Queues -> SUBSET Msgs], NEW u \in SUBSET Msgs, Lists(S, u)
               PROVE  NoOops'
    BY DEF ListInv
  <2>1. ASSUME NEW c \in Contexts, Oops(c) PROVE fault' = "badfd"
    <3>1. Nil \in Derefs(c) /\ MayRun(c)
      BY <2>1, DerefsLive DEF Oops
    <3>2. c \in Clients /\ reg[c].named # "queue"
      BY <3>1, DerefsSomething, Basics
    <3>3. reg[c].named = "nothing"
      BY <3>2, Basics DEF Locals
    <3>4. QED
      BY <2>1, <3>1, <3>3 DEF Oops, NullOops
  <2>2. ASSUME NEW c \in Clients, GetNothing(c) PROVE fault' = "badfd"
    <3>1. pc[c] = "get" /\ \A i \in DOMAIN que_list : qfd[que_list[i]] # reg[c].fd
      BY <2>2, PirNames DEF GetNothing, At, Gets, Typed, TypeOK, QueueType
    <3>2. reg[c].named = "queue" => \E r \in Listed : qfd[r] = reg[c].fd
      BY <3>1, Basics DEF RestOk
    <3>3. reg[c].named = "nothing"
      BY <3>1, <3>2, Basics DEF Listed, Range, Locals
    <3>4. QED
      BY <2>2, <3>3 DEF GetNothing, NullOops
  <2>3. ASSUME NEW c \in Contexts, SharedStep(c) PROVE NoOops'
    BY <2>1, <2>3 DEF SharedStep, Del, DelNext, DelPrev, Link, LinkHead, LinkNew, LinkPrev,
      SizeLoad, SizeStore, NoOops
  <2>4. ASSUME NEW c \in Clients, ClientStep(c) PROVE NoOops'
    BY <2>2, <2>4 DEF ClientStep, CreateInit, CreateAdd, Call, Lock, GetToRead, GetToWrite,
      GetToClear, WaitPrepare, WaitDone, WaitSchedule, First, Copy, LoopBody, LoopEnd, NoOops
  <2>5. QED
    BY <2>3, <2>4 DEF Next, vars, NoOops, Edge, IsrStart, IsrAgain, IsrEach, IsrWake,
      Load, Setup, RequestIrq, RequestFails, Exit
<1>3. QED
  BY <1>1, <1>2, ExactAlways, PTL DEF Spec

-----------------------------------------------------------------------------
(* The queues as the clients may see them.                                 *)
Removing(c) == pc[c] \in {"del", "delNext", "delPrev"} /\ reg[c].op = "read"

(* Steps that a client of the queues does not notice.                      *)
LEMMA WaitingKept ==
  ASSUME UNCHANGED <<que_list, taken>>, \A q \in Listed : Chain(q)' = Chain(q),
         NEW c \in Contexts, \A d \in Contexts \ {c} : pc'[d] = pc[d] /\ reg'[d] = reg[d],
         Removing(c) <=> Removing(c)',
         Removing(c) => reg'[c].q = reg[c].q /\ reg'[c].m = reg[c].m
  PROVE  UNCHANGED <<Waiting, taken>>
<1>1. \A d \in Clients : /\ Removing(d) <=> Removing(d)'
                         /\ Removing(d) => reg'[d].q = reg[d].q /\ reg'[d].m = reg[d].m
  BY DEF Removing, Contexts
<1>2. ASSUME NEW q PROVE Copied(q)' = Copied(q)
  BY <1>1 DEF Copied, Removing
<1>3. ASSUME NEW q \in Listed PROVE Left(q, Chain(q))' = Left(q, Chain(q))
  BY <1>2 DEF Left
<1>4. QED
  BY <1>3 DEF Waiting, Listed

(* What has been copied to a reader.                                       *)
LEMMA CopiedByOne ==
  ASSUME NEW c \in Contexts, \A d \in Contexts \ {c} : pc[d] \notin Sensitive
  PROVE  \A q : Copied(q) = IF c \in Clients /\ Removing(c) /\ reg[c].q = q THEN {reg[c].m} ELSE {}
<1>1. \A d \in Clients \ {c} : ~Removing(d)
  BY DEF Sensitive, Midway, Removing, Contexts
<1>2. QED
  BY <1>1 DEF Copied, Removing

(* The calls of a client up to the list of a queue, ...                    *)
LEMMA QuietSteps ==
  ASSUME OneAtATime, Quiet, Typed, Orderly, NEW S \in [Queues -> SUBSET Msgs],
         NEW u \in SUBSET Msgs, Lists(S, u), Exact, NEW c \in Clients,
         \/ CreateInit(c) \/ Call(c) \/ Lock(c) \/ GetToRead(c) \/ GetToWrite(c)
         \/ (GetToClear(c) /\ reg[c].op = "flush") \/ GetNothing(c) \/ WaitPrepare(c)
         \/ WaitDone(c) \/ WaitSchedule(c) \/ First(c) \/ LoopBody(c) \/ LoopEnd(c)
  PROVE  UNCHANGED <<Waiting, taken>>
<1>1. c \in Contexts /\ \A d \in Contexts \ {c} : pc'[d] = pc[d] /\ reg'[d] = reg[d]
  BY Basics, OwnStep DEF ClientStep
<1>2. UNCHANGED <<que_list, taken>>
  BY DEF CreateInit, Call, Lock, GetToRead, GetToWrite, GetToClear, GetNothing, WaitPrepare,
    WaitDone, WaitSchedule, First, LoopBody, LoopEnd, queues, history
<1>3. \A q \in Listed : Chain(q)' = Chain(q)
  <2>1. CASE CreateInit(c)
    BY <2>1, CreateExact
  <2>2. CASE UNCHANGED next
    BY <2>2 DEF Chain
  <2>3. QED
    BY <2>1, <2>2 DEF Call, Lock, GetToRead, GetToWrite, GetToClear, GetNothing, WaitPrepare,
      WaitDone, WaitSchedule, First, LoopBody, LoopEnd, heap
<1>4. ~Removing(c) /\ ~Removing(c)'
  <2>1. CASE LoopBody(c)
    <3>1. pc[c] = "loop" /\ reg'[c].op = reg[c].op /\ reg[c].op \in {"flush", "close"}
      BY <2>1, Basics DEF LoopBody, At, Phases, Locals
    <3>2. QED
      BY <3>1 DEF Removing
  <2>2. CASE ~LoopBody(c)
    <3>1. /\ pc[c] \in {"idle", "lock", "get", "wait", "check", "sched", "first", "loop"}
          /\ pc'[c] \in {"create", "lock", "get", "wait", "link", "loop", "check", "first",
                        "sched", "copy", "idle"}
      BY <2>2, Basics DEF CreateInit, Made, Call, Lock, GetToRead, GetToWrite, GetToClear, GetNothing,
        WaitPrepare, WaitDone, WaitSchedule, First, LoopEnd, At, Goto, GoOn, MaySleep, Return
    <3>2. QED
      BY <3>1 DEF Removing
  <2>3. QED
    BY <2>1, <2>2
<1>5. QED
  BY <1>1, <1>2, <1>3, <1>4, WaitingKept

(* ... the single stores of list_del and list_add_tail, ...                *)
LEMMA QuietSharedSteps ==
  ASSUME OneAtATime, Quiet, Typed, Orderly, NEW S \in [Queues -> SUBSET Msgs],
         NEW u \in SUBSET Msgs, Lists(S, u), Exact, NEW c \in Contexts,
         \/ Del(c) \/ DelNext(c) \/ Link(c) \/ LinkHead(c) \/ LinkNew(c)
         \/ SizeLoad(c) \/ SizeStore(c) \/ Oops(c)
  PROVE  UNCHANGED <<Waiting, taken>>
<1>1. \A d \in Contexts \ {c} : pc'[d] = pc[d] /\ reg'[d] = reg[d]
  BY OwnStep DEF SharedStep
<1>2. UNCHANGED <<que_list, taken>>
  BY DEF Del, DelNext, Link, LinkHead, LinkNew, SizeLoad, SizeStore, Oops, queues, history
<1>3. \A q \in Listed : Chain(q)' = Chain(q)
  <2>1. CASE LinkNew(c)
    BY <2>1, LinkNewExact
  <2>2. CASE UNCHANGED next
    BY <2>2 DEF Chain
  <2>3. QED
    BY <2>1, <2>2 DEF Del, DelNext, Link, LinkHead, SizeLoad, SizeStore, Oops, heap
<1>4. /\ Removing(c) <=> Removing(c)'
      /\ Removing(c) => reg'[c].q = reg[c].q /\ reg'[c].m = reg[c].m
  <2>1. CASE Del(c) \/ DelNext(c)
    <3>1. /\ pc[c] \in {"del", "delNext"} /\ pc'[c] \in {"delNext", "delPrev"}
          /\ reg'[c].op = reg[c].op /\ reg'[c].q = reg[c].q /\ reg'[c].m = reg[c].m
      BY <2>1, Basics DEF Del, DelNext, At, GoOn, Goto, Locals
    <3>2. QED
      BY <3>1 DEF Removing
  <2>2. CASE Link(c) \/ LinkHead(c) \/ LinkNew(c) \/ SizeLoad(c) \/ SizeStore(c)
    <3>1. /\ pc[c] \in {"link", "linkHead", "linkNew", "size", "store"}
          /\ pc'[c] \in {"linkHead", "linkNew", "linkPrev", "store", "each", "idle"}
      <4>1. CASE Link(c) \/ LinkHead(c) \/ LinkNew(c)
        BY <4>1, Basics DEF Link, LinkHead, LinkNew, At, GoOn, Goto
      <4>2. CASE SizeLoad(c)
        BY <4>2, Basics DEF SizeLoad, At, GoOn, Goto
      <4>3. CASE SizeStore(c)
        BY <4>3, Basics DEF SizeStore, At, GoOn, Goto, Return
      <4>4. QED
        BY <2>2, <4>1, <4>2, <4>3
    <3>2. QED
      BY <3>1 DEF Removing
  <2>3. CASE Oops(c)
    BY <2>3 DEF Oops, Removing
  <2>4. QED
    BY <2>1, <2>2, <2>3
<1>5. QED
  BY <1>1, <1>2, <1>3, <1>4, WaitingKept

(* ... and what the handler, the sensor and the module do besides.         *)
LEMMA QuietModuleSteps ==
  ASSUME OneAtATime, Quiet, Typed, Orderly, NEW S \in [Queues -> SUBSET Msgs],
         NEW u \in SUBSET Msgs, Lists(S, u),
         \/ UNCHANGED vars
         \/ Edge \/ IsrStart \/ IsrAgain \/ IsrEach \/ IsrWake \/ RequestIrq
         \/ RequestFails \/ Exit
  PROVE  UNCHANGED <<Waiting, taken>>
<1>1. \A d \in Contexts \ {Isr} : pc'[d] = pc[d] /\ reg'[d] = reg[d]
  BY Basics DEF vars, Edge, IsrStart, IsrAgain, IsrEach, IsrWake,
    RequestIrq, RequestFails, Exit, GoOn, Goto
<1>2. UNCHANGED <<que_list, taken, next>>
  BY DEF vars, Edge, IsrStart, IsrAgain, IsrEach, IsrWake,
    RequestIrq, RequestFails, Exit, queues, heap, history
<1>3. \A q \in Listed : Chain(q)' = Chain(q)
  BY <1>2 DEF Chain
<1>4. Isr \in Contexts /\ ~Removing(Isr) /\ ~Removing(Isr)'
  <2>1. pc[Isr] \notin {"del", "delNext", "delPrev"}
    BY Basics DEF Handler
  <2>2. pc'[Isr] \notin {"del", "delNext", "delPrev"}
    BY <2>1, Basics DEF vars, Edge, IsrStart, IsrAgain, IsrEach, IsrWake,
    RequestIrq, RequestFails, Exit, GoOn, Goto
  <2>3. QED
    BY <2>1, <2>2, Basics DEF Removing
<1>5. QED
  BY <1>1, <1>2, <1>3, <1>4, WaitingKept

(* A new queue is an empty one.                                            *)
LEMMA AddSeen ==
  ASSUME OneAtATime, Quiet, Typed, Orderly, NEW S \in [Queues -> SUBSET Msgs],
         NEW u \in SUBSET Msgs, Lists(S, u), Exact, NEW c \in Clients, CreateAdd(c)
  PROVE  UNCHANGED <<Waiting, taken>>
<1>1. /\ UNCHANGED <<next, taken>> /\ pc[c] = "create" /\ pc'[c] = "idle"
      /\ \A d \in Clients \ {c} : pc'[d] = pc[d] /\ reg'[d] = reg[d]
  BY Basics, OwnStep DEF CreateAdd, Return, Goto, At, heap, history, ClientStep, Contexts
<1>2. Chain(reg[c].q) = <<>> /\ Listed' = Listed \cup {reg[c].q}
  BY AddExact
<1>3. ASSUME NEW q PROVE Copied(q)' = Copied(q)
  BY <1>1 DEF Copied
<1>4. ASSUME NEW q PROVE Chain(q)' = Chain(q) /\ Left(q, Chain(q))' = Left(q, Chain(q))
  BY <1>1, <1>3 DEF Chain, Left
<1>5. \A q : q \in Listed' \ Listed => Left(q, Chain(q)) = <<>>
  BY <1>2 DEF Left
<1>6. \A q \in Queues : (IF q \in Listed THEN Left(q, Chain(q)) ELSE <<>>)
                      = (IF q \in Listed' THEN Left(q, Chain(q))' ELSE <<>>)
  BY <1>2, <1>4, <1>5
<1>7. QED
  BY <1>1, <1>6 DEF Waiting, Listed

(* A message is taken when it is copied, ...                               *)
LEMMA CopySeen ==
  ASSUME OneAtATime, Quiet, Typed, Orderly, NEW S \in [Queues -> SUBSET Msgs],
         NEW u \in SUBSET Msgs, Lists(S, u), Exact, NEW c \in Clients, Copy(c)
  PROVE  Fifo!Next
<1>1. /\ UNCHANGED <<next, que_list, reg>> /\ pc[c] = "copy" /\ MayRun(c) /\ c \in Contexts
      /\ pc'[c] = "del" /\ reg[c].op = "read" /\ reg[c].q \in Listed
      /\ taken' = [taken EXCEPT ![reg[c].q] = Append(@, reg[c].m)]
      /\ \A d \in Contexts \ {c} : pc'[d] = pc[d]
  <2>1. /\ UNCHANGED <<next, que_list, reg>> /\ pc[c] = "copy" /\ MayRun(c) /\ c \in Contexts
        /\ pc'[c] = "del" /\ reg[c].op = "read"
        /\ taken' = [taken EXCEPT ![reg[c].q] = Append(@, reg[c].m)]
        /\ \A d \in Contexts \ {c} : pc'[d] = pc[d]
    BY Basics DEF Copy, At, GoOn, Goto, heap, queues, Ops
  <2>2. QED
    BY <2>1, Placed DEF InQueue
<1>2. PICK q \in Queues : q = reg[c].q /\ q \in Listed /\ ChainOk(q)
  BY <1>1, Basics DEF Exact
<1>3. \A d \in Contexts \ {c} : pc[d] \notin Sensitive
  BY <1>1, LoneWorker DEF Unheard
<1>4. \A r : Copied(r) = {}
  BY <1>1, <1>3, CopiedByOne DEF Removing
<1>5. \A r : Copied(r)' = IF r = q THEN {reg[c].m} ELSE {}
  <2>1. /\ \A d \in Clients \ {c} : pc'[d] \notin {"del", "delNext", "delPrev"}
        /\ reg'[c] = reg[c]
    BY <1>1, <1>3 DEF Sensitive, Midway, Contexts
  <2>2. QED
    BY <1>1, <1>2, <2>1 DEF Copied
<1>6. Chain(q) # <<>> /\ Head(Chain(q)) = reg[c].m
  <2>1. WorkOk(c) /\ RestOk(S, c)
    BY Basics DEF Exact
  <2>2. reg[c].m \in Msgs /\ next[q] = reg[c].m
    BY <1>1, <1>2, <2>1 DEF WorkOk, RestOk
  <2>3. Chain(q) # <<>> /\ reg[c].m = Chain(q)[1]
    BY <1>2, <2>2, ChainEnds, PirNames
  <2>4. QED
    BY <2>3
<1>7. \A r : Chain(r)' = Chain(r)
  BY <1>1 DEF Chain
<1>8. /\ Waiting = [r \in Queues |-> IF r \in Listed THEN Chain(r) ELSE <<>>]
      /\ Waiting' = [r \in Queues |-> IF r = q THEN Tail(Chain(r)) ELSE
                                      IF r \in Listed THEN Chain(r) ELSE <<>>]
  <2>1. \A r : Left(r, Chain(r)) = Chain(r)
    BY <1>4 DEF Left
  <2>2. \A r : Left(r, Chain(r))' = IF r = q THEN Tail(Chain(r)) ELSE Chain(r)
    BY <1>5, <1>6, <1>7 DEF Left
  <2>3. QED
    BY <1>1, <1>2, <2>1, <2>2 DEF Waiting, Listed
<1>9. Waiting' = [Waiting EXCEPT ![q] = Tail(@)] /\ Waiting[q] = Chain(q)
  BY <1>2, <1>8
<1>10. Fifo!Get(q)
  BY <1>1, <1>2, <1>6, <1>9 DEF Fifo!Get
<1>11. QED
  BY <1>10 DEF Fifo!Next

(* ... so that its removal goes unnoticed; a flush drops it.               *)
LEMMA DelPrevSeen ==
  ASSUME OneAtATime, Quiet, Typed, Orderly, NEW S \in [Queues -> SUBSET Msgs],
         NEW u \in SUBSET Msgs, Lists(S, u), Exact, NEW c \in Contexts, DelPrev(c)
  PROVE  Fifo!Next \/ UNCHANGED <<Waiting, taken>>
<1>1. /\ UNCHANGED <<que_list, reg, taken>> /\ pc[c] = "delPrev" /\ MayRun(c)
      /\ pc'[c] \in {"size", "loop"} /\ \A d \in Contexts \ {c} : pc'[d] = pc[d]
  BY Basics DEF DelPrev, At, GoOn, Goto, queues, history
<1>2. c \in Clients /\ reg[c].op \in {"read", "flush"} /\ WorkOk(c)
  BY <1>1, WorkPlace, Basics DEF Phases
<1>3. PICK q \in Listed : /\ q = reg[c].q /\ Chain(q) # <<>> /\ Chain(q)' = Tail(Chain(q))
                          /\ \A r \in Listed \ {q} : Chain(r)' = Chain(r)
  BY DelPrevExact
<1>4. q \in Queues /\ Head(Chain(q)) = reg[c].m
  BY <1>1, <1>2, <1>3, Basics DEF WorkOk
<1>5. \A d \in Contexts \ {c} : pc[d] \notin Sensitive
  BY <1>1, LoneWorker DEF Unheard
<1>6. \A r : Copied(r)' = {}
  <2>1. \A d \in Clients : pc'[d] \notin {"del", "delNext", "delPrev"}
    BY <1>1, <1>5 DEF Sensitive, Midway, Contexts
  <2>2. QED
    BY <2>1 DEF Copied
<1>7. \A r : Left(r, Chain(r))' = Chain(r)'
  BY <1>6 DEF Left
<1>8. CASE reg[c].op = "read"
  <2>1. \A r : Copied(r) = IF r = q THEN {reg[c].m} ELSE {}
    BY <1>1, <1>2, <1>3, <1>5, <1>8, CopiedByOne DEF Removing
  <2>2. \A r : Left(r, Chain(r)) = IF r = q THEN Tail(Chain(r)) ELSE Chain(r)
    BY <1>3, <1>4, <2>1 DEF Left
  <2>3. \A r \in Listed : Left(r, Chain(r))' = Left(r, Chain(r))
    BY <1>3, <1>7, <2>2
  <2>4. QED
    BY <1>1, <2>3 DEF Waiting, Listed
<1>9. CASE reg[c].op = "flush"
  <2>1. \A r : Copied(r) = {}
    BY <1>5, <1>9, CopiedByOne DEF Removing
  <2>2. \A r : Left(r, Chain(r)) = Chain(r)
    BY <2>1 DEF Left
  <2>3. /\ Waiting = [r \in Queues |-> IF r \in Listed THEN Chain(r) ELSE <<>>]
        /\ Waiting' = [r \in Queues |-> IF r = q THEN Tail(Chain(r)) ELSE
                                        IF r \in Listed THEN Chain(r) ELSE <<>>]
    BY <1>1, <1>3, <1>7, <2>2 DEF Waiting, Listed
  <2>4. Waiting' = [Waiting EXCEPT ![q] = Tail(@)] /\ Waiting[q] = Chain(q)
    BY <1>3, <1>4, <2>3
  <2>5. Fifo!Drop(q)
    BY <1>1, <1>3, <2>4 DEF Fifo!Drop
  <2>6. QED
    BY <1>4, <2>5 DEF Fifo!Next
<1>10. QED
  BY <1>2, <1>8, <1>9

(* A message is in a queue once it is reachable, and it is a new one.      *)
LEMMA LinkPrevSeen ==
  ASSUME OneAtATime, Quiet, Typed, Orderly, NEW S \in [Queues -> SUBSET Msgs],
         NEW u \in SUBSET Msgs, Lists(S, u), Exact, NEW c \in Contexts, LinkPrev(c)
  PROVE  Fifo!Next
<1>1. /\ UNCHANGED <<que_list, reg, taken>> /\ pc[c] = "linkPrev" /\ MayRun(c)
      /\ pc'[c] = "size" /\ \A d \in Contexts \ {c} : pc'[d] = pc[d]
  BY Basics DEF LinkPrev, At, GoOn, Goto, queues, history
<1>2. PICK q \in Listed, m \in Msgs :
        /\ q = reg[c].q /\ m = reg[c].m /\ m \in Range(linked[q]) /\ m \notin Range(Chain(q))
        /\ Chain(q)' = Append(Chain(q), m) /\ \A r \in Listed \ {q} : Chain(r)' = Chain(r)
  BY LinkPrevExact
<1>3. q \in Queues /\ \A r \in Listed : r \in Queues /\ ChainOk(r)
  BY Basics DEF Exact
<1>4. \A d \in Contexts \ {c} : pc[d] \notin Sensitive
  BY <1>1, LoneWorker DEF Unheard
<1>5. \A r : Copied(r) = {} /\ Copied(r)' = {}
  <2>1. \A r : Copied(r) = {}
    BY <1>1, <1>4, CopiedByOne DEF Removing
  <2>2. \A d \in Clients : pc'[d] \notin {"del", "delNext", "delPrev"}
    BY <1>1, <1>4 DEF Sensitive, Midway, Contexts
  <2>3. QED
    BY <2>1, <2>2 DEF Copied
<1>6. \A r : Left(r, Chain(r)) = Chain(r) /\ Left(r, Chain(r))' = Chain(r)'
  BY <1>5 DEF Left
<1>7. /\ Waiting = [r \in Queues |-> IF r \in Listed THEN Chain(r) ELSE <<>>]
      /\ Waiting' = [r \in Queues |-> IF r = q THEN Append(Chain(r), m) ELSE
                                      IF r \in Listed THEN Chain(r) ELSE <<>>]
  BY ZenonT(40), <1>1, <1>2, <1>6 DEF Waiting, Listed
<1>8. Waiting' = [Waiting EXCEPT ![q] = Append(@, m)]
  BY <1>2, <1>3, <1>7
<1>9. m \notin Range(taken[q])
  <2>1. CASE c = Isr
    BY <1>1, <1>2, <2>1, Basics DEF HandlerOk
  <2>2. CASE c \in Clients
    <3>1. \A y \in Range(taken[q]) : Before(linked[q], y, m)
      BY <1>1, <1>2, <2>2, Basics DEF JoinOk
    <3>2. linked[q] \in Seq(Node) /\ Distinct(linked[q])
      BY <1>3, Basics DEF HistoryOk
    <3>3. QED
      BY <3>1, <3>2, BeforeOrder
  <2>3. QED
    BY <2>1, <2>2 DEF Contexts
<1>10. ASSUME NEW r \in Queues PROVE m \notin Range(Waiting[r]) \cup Range(taken[r])
  <2>1. r # q => m \notin Range(linked[r])
    <3>1. r # q => Range(linked[q]) \cap Range(linked[r]) = {}
      BY <1>3, Basics DEF HistoryOk
    <3>2. QED
      BY <1>2, <3>1
  <2>2. Range(taken[r]) \subseteq Range(linked[r])
    BY Basics DEF HistoryOk
  <2>3. r \in Listed => Range(Chain(r)) \subseteq Range(linked[r])
    BY <1>3 DEF ChainOk
  <2>4. r \notin Listed => Range(Waiting[r]) = {}
    BY <1>7 DEF Range
  <2>5. r \in Listed => Waiting[r] = Chain(r)
    BY <1>7
  <2>6. QED
    BY <1>2, <1>9, <2>1, <2>2, <2>3, <2>4, <2>5
<1>11. Fifo!Put(q, m)
  BY <1>1, <1>8, <1>10 DEF Fifo!Put, Fifo!Range, Range
<1>12. QED
  BY <1>3, <1>11 DEF Fifo!Next

(* What waits in a queue is lost when the queue is closed, ...             *)
LEMMA CloseSeen ==
  ASSUME OneAtATime, Quiet, Typed, Orderly, NEW S \in [Queues -> SUBSET Msgs],
         NEW u \in SUBSET Msgs, Lists(S, u), Exact, NEW c \in Clients, GetToClear(c),
         reg[c].op = "close"
  PROVE  Fifo!Next
<1>1. PICK q \in Queues : /\ Gets(reg[c].fd, q) /\ reg' = [reg EXCEPT ![c].q = q, ![c].n = next[q]]
                          /\ que_list' = Without(Place(q))
                          /\ UNCHANGED <<next, taken>> /\ pc[c] = "get" /\ pc'[c] = "loop"
                          /\ \A d \in Contexts \ {c} : pc'[d] = pc[d] /\ reg'[d] = reg[d]
  BY Basics DEF GetToClear, GoOn, Goto, At, heap, history
<1>2. q \in Listed /\ Listed' = Listed \ {q}
  <2>1. q \in Listed
    BY <1>1, PirNames DEF Gets, Listed, Range
  <2>2. QED
    BY <1>1, <2>1, WithoutListed, Basics DEF Apart, Listed
<1>3. ASSUME NEW r PROVE Copied(r)' = Copied(r)
  BY ZenonT(40), <1>1 DEF Copied, Contexts
<1>4. ASSUME NEW r PROVE Left(r, Chain(r))' = Left(r, Chain(r))
  BY <1>1, <1>3 DEF Left, Chain
<1>5. /\ Waiting = [r \in Queues |-> IF r \in Listed THEN Left(r, Chain(r)) ELSE <<>>]
      /\ Waiting' = [r \in Queues |-> IF r \in Listed \ {q} THEN Left(r, Chain(r)) ELSE <<>>]
  BY <1>2, <1>4 DEF Waiting, Listed
<1>6. Waiting' = [Waiting EXCEPT ![q] = <<>>]
  BY <1>1, <1>5
<1>7. Fifo!Close(q)
  BY <1>1, <1>6 DEF Fifo!Close
<1>8. QED
  BY <1>7 DEF Fifo!Next

(* The clients see queues that are first-in first-out: what the driver     *)
(* does, store by store, is what the abstract queues do.                   *)
THEOREM ImplementsQueues ==
  ASSUME OneAtATime, Quiet
  PROVE  Spec => FifoSpec
<1>1. Init => Fifo!Init
  <2> SUFFICES ASSUME Init PROVE Fifo!Init
    OBVIOUS
  <2>1. Range(que_list) = {}
    BY DEF Init, Range
  <2>2. Waiting = [q \in Queues |-> <<>>]
    BY <2>1 DEF Waiting
  <2>3. QED
    BY <2>2 DEF Fifo!Init, Init
<1>2. Typed /\ Orderly /\ ListInv /\ Exact /\ [Next]_vars => [Fifo!Next]_<<Waiting, taken>>
  <2> SUFFICES ASSUME Typed, Orderly, Exact, [Next]_vars,
                      NEW S \in [Queues -> SUBSET Msgs], NEW u \in SUBSET Msgs, Lists(S, u)
               PROVE  Fifo!Next \/ UNCHANGED <<Waiting, taken>>
    BY DEF ListInv
  <2>1. ASSUME NEW c \in Contexts, SharedStep(c) PROVE Fifo!Next \/ UNCHANGED <<Waiting, taken>>
    <3>1. CASE DelPrev(c) \/ LinkPrev(c)
      BY <3>1, DelPrevSeen, LinkPrevSeen
    <3>2. CASE ~DelPrev(c) /\ ~LinkPrev(c)
      BY <2>1, <3>2, QuietSharedSteps DEF SharedStep
    <3>3. QED
      BY <3>1, <3>2
  <2>2. ASSUME NEW c \in Clients, ClientStep(c) PROVE Fifo!Next \/ UNCHANGED <<Waiting, taken>>
    <3>1. CASE CreateAdd(c) \/ Copy(c)
      BY <3>1, AddSeen, CopySeen
    <3>2. CASE GetToClear(c) /\ reg[c].op # "flush"
      <4>1. reg[c].op = "close"
        BY <3>2 DEF GetToClear
      <4>2. QED
        BY <3>2, <4>1, CloseSeen
    <3>3. CASE ~CreateAdd(c) /\ ~Copy(c) /\ ~(GetToClear(c) /\ reg[c].op # "flush")
      BY <2>2, <3>3, QuietSteps DEF ClientStep
    <3>4. QED
      BY <3>1, <3>2, <3>3
  <2>3. CASE Load \/ Setup
    <3>1. Waiting' = [q \in Queues |-> <<>>] /\ UNCHANGED taken
      BY <2>3 DEF Load, Setup, Waiting, Range, history
    <3>2. QED
      BY <3>1 DEF Fifo!Next, Fifo!Restart
  <2>4. CASE UNCHANGED vars \/ Edge \/ IsrStart \/ IsrAgain \/ IsrEach \/ IsrWake \/ RequestIrq
         \/ RequestFails \/ Exit
    BY <2>4, QuietModuleSteps
  <2>5. QED
    BY <2>1, <2>2, <2>3, <2>4 DEF Next
<1>3. QED
  BY <1>1, <1>2, ExactAlways, PTL DEF Spec, FifoSpec, Fifo!Spec, Fifo!vars
=============================================================================
