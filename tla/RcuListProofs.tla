--------------------------- MODULE RcuListProofs ----------------------------
(***************************************************************************)
(* Theorems about RcuList for any readers, any length of the list and any  *)
(* number of loads, where building and freeing the list is not interleaved *)
(* with reads at its two ends: because nobody reads then, or because there *)
(* is one processor and nothing sleeps there.                              *)
(***************************************************************************)
EXTENDS RcuList, TLAPS, SequenceTheorems, FiniteSetTheorems, WellFoundedInduction

(* The entries that are listed are linked from the newest to the oldest.   *)
Listing == lpc \notin {"gone", "added"}

Linear == Listing =>
  /\ listed \in 0 .. Length /\ next[MyList] = listed - 1
  /\ \A m \in 0 .. listed - 1 : next[m] = m - 1
  /\ prev[next[MyList]] = MyList

(* What is allocated, and where loading or removal stands on the list.     *)
Placed ==
  /\ lpc \in {"gone", "added"} => mem = {} /\ listed = 0
  /\ lpc = "alloc" => i = listed /\ mem = 0 .. i - 1
  /\ lpc \in {"fill", "publish"} => i = listed /\ i < Length /\ mem = 0 .. i
  /\ lpc = "publish" => next[i] = i - 1 /\ prev[i] = MyList
  /\ lpc = "back" => i = listed - 1 /\ mem = 0 .. i
  /\ lpc = "loaded" => listed = Length /\ mem = 0 .. listed - 1
  /\ lpc = "loop" => /\ tmp = listed - 1 /\ mem = 0 .. listed - 1
                     /\ tmp # MyList => pos = tmp - 1
  /\ lpc = "free" => tmp = listed /\ pos = tmp - 1 /\ mem = 0 .. tmp

(* Reads run beside list_add_rcu only.                                     *)
Apart == \A p \in Readers :
  rpc[p] # "idle" => /\ lpc \in {"alloc", "fill", "publish", "back", "loaded"}
                     /\ ~SMP => cpu = p

Holds == ~SMP /\ lpc \in {"added", "publish", "back", "loop", "free"} => cpu = Loader

(* A walk has printed what was listed, down to the entry it looks at.      *)
Printed(p) == [k \in 1 .. snapshot[p] - 1 - cursor[p] |-> snapshot[p] - k]

Walk(p) ==
  /\ rpc[p] \in {"locked", "rcu"} => seen[p] = <<>>
  /\ Walking(p) => /\ snapshot[p] <= listed /\ cursor[p] \in MyList .. snapshot[p] - 1
                   /\ seen[p] = Printed(p)

Walks == \A p \in Readers : Walk(p)

Sound == TypeOK /\ Linear /\ Placed /\ Apart /\ Holds /\ Walks /\ NoFault

LEMMA SoundInit == Init => Sound
<1> SUFFICES ASSUME Init PROVE Sound
  OBVIOUS
<1>1. TypeOK
  <2>1. seen \in [Readers -> Seq(Ids)]
    BY DEF Init
  <2>2. cpu = Nobody /\ spinlock = Nobody
    BY DEF Init, KernelInit
  <2>3. /\ next \in [Node -> Ptr] /\ prev \in [Node -> Ptr] /\ tmp \in Ptr /\ pos \in Ptr
        /\ cursor \in [Readers -> Ptr]
    BY DEF Init, Ptr
  <2>4. i \in 0 .. Length /\ mem \subseteq Ids /\ loads \in Nat /\ lpc = "gone" /\ listed \in Nat
    BY RcuBounds DEF Init
  <2>5. /\ snapshot \in [Readers -> Nat] /\ fault \in BOOLEAN
        /\ rpc \in [Readers -> {"idle", "locked", "rcu", "walk", "walk locked"}]
    BY DEF Init
  <2>6. QED
    BY <2>1, <2>2, <2>3, <2>4, <2>5 DEF TypeOK
<1>2. Linear /\ Placed /\ Apart /\ Holds /\ Walks /\ NoFault
  BY DEF Init, Linear, Listing, Placed, Apart, Holds, Walks, Walk, Walking, NoFault
<1>3. QED
  BY <1>1, <1>2 DEF Sound

-----------------------------------------------------------------------------
(* A walk has printed nothing when it begins, and prints one more entry.   *)
LEMMA PrintsNothing == \A n \in Nat : [k \in 1 .. 0 |-> n - k] = <<>>
<1> TAKE n \in Nat
<1> DEFINE t == [k \in 1 .. 0 |-> n - k]
<1>1. t \in [1 .. 0 -> Int] /\ DOMAIN t = 1 .. 0
  OBVIOUS
<1> HIDE DEF t
<1>2. t \in Seq(Int)
  BY <1>1, SeqDef
<1>3. Len(t) = 0
  <2>1. Len(t) \in Nat /\ DOMAIN t = 1 .. Len(t)
    BY <1>2, LenProperties
  <2>2. QED
    BY <1>1, <2>1
<1>4. t = <<>>
  BY <1>2, <1>3, EmptySeq
<1>5. QED
  BY <1>4 DEF t

LEMMA PrintsOne ==
  ASSUME NEW s \in Nat, NEW c \in 0 .. s - 1, NEW q \in Seq(Ids), c \in Ids,
         q = [k \in 1 .. s - 1 - c |-> s - k]
  PROVE  /\ Append(q, c) \in Seq(Ids)
         /\ Append(q, c) = [k \in 1 .. s - 1 - (c - 1) |-> s - k]
<1> DEFINE t == Append(q, c)
<1>1. Len(q) = s - 1 - c
  <2>1. Len(q) \in Nat /\ DOMAIN q = 1 .. Len(q)
    BY LenProperties
  <2>2. DOMAIN q = 1 .. s - 1 - c /\ s - 1 - c \in Nat
    OBVIOUS
  <2>3. QED
    BY <2>1, <2>2
<1>2. /\ t \in Seq(Ids) /\ Len(t) = Len(q) + 1
      /\ \A k \in 1 .. Len(q) : t[k] = q[k]
      /\ t[Len(q) + 1] = c
  BY AppendProperties
<1>3. t \in [1 .. Len(t) -> Ids]
  BY <1>2, LenProperties
<1>4. \A k \in 1 .. s - c : t[k] = s - k
  BY <1>1, <1>2
<1> HIDE DEF t
<1>5. t = [k \in 1 .. s - c |-> s - k]
  BY <1>1, <1>2, <1>3, <1>4
<1>6. QED
  BY <1>2, <1>5 DEF t

-----------------------------------------------------------------------------
(* The two halves of the state: the loader's and the readers'.             *)
ListTypes ==
  /\ next \in [Node -> Ptr] /\ prev \in [Node -> Ptr] /\ mem \subseteq Ids
  /\ lpc \in {"gone", "added", "alloc", "fill", "publish", "back", "loaded", "loop", "free"}
  /\ i \in 0 .. Length /\ tmp \in Ptr /\ pos \in Ptr /\ loads \in Nat /\ listed \in Nat

ReadTypes ==
  /\ cpu \in Readers \cup {Loader, Nobody} /\ spinlock \in Readers \cup {Nobody}
  /\ rpc \in [Readers -> {"idle", "locked", "rcu", "walk", "walk locked"}]
  /\ cursor \in [Readers -> Ptr] /\ seen \in [Readers -> Seq(Ids)]
  /\ snapshot \in [Readers -> Nat] /\ fault \in BOOLEAN

ListSound == ListTypes /\ Linear /\ Placed

ReadSound == ReadTypes /\ Apart /\ Holds /\ Walks /\ NoFault

LEMMA Halves == Sound <=> ListSound /\ ReadSound
<1>1. TypeOK <=> ListTypes /\ ReadTypes
  BY DEF TypeOK, ListTypes, ReadTypes
<1>2. QED
  BY <1>1 DEF Sound, ListSound, ReadSound

LEMMA HalvesNext == ListTypes' /\ Linear' /\ Placed' /\ ReadSound' => Sound'
<1>1. ListTypes' /\ ReadTypes' => TypeOK'
  BY DEF TypeOK, ListTypes, ReadTypes
<1>2. QED
  BY <1>1 DEF Sound, ReadSound

NobodyReads == \A p \in Readers : rpc[p] = "idle"

(* What every step of the loader has to see to so that readers are served. *)
LEMMA LoaderFrame ==
  ASSUME Sound, Runs(Loader), KeepCpu(Loader) \/ GiveUpCpu,
         UNCHANGED <<spinlock, reader>>, fault' = FALSE,
         listed \in Nat, listed' \in Nat, listed <= listed' \/ NobodyReads,
         lpc' \in {"alloc", "fill", "publish", "back", "loaded"} \/ NobodyReads,
         KeepCpu(Loader) \/ lpc' \notin {"added", "publish", "back", "loop", "free"}
  PROVE  ReadSound'
<1>1. ReadSound
  BY Halves
<1>2. UNCHANGED <<spinlock, rpc, cursor, seen, snapshot>>
  BY DEF reader
<1>3. ReadTypes'
  BY <1>1, <1>2, RcuProcs DEF ReadSound, ReadTypes, KeepCpu, GiveUpCpu
<1>4. ~SMP => NobodyReads
  BY <1>1, RcuProcs DEF ReadSound, Apart, Runs, NobodyReads
<1>5. Apart'
  BY <1>1, <1>2, <1>4 DEF Apart, ReadSound, NobodyReads
<1>6. Holds'
  BY DEF Holds, KeepCpu
<1>7. Walks'
  <2> SUFFICES ASSUME NEW p \in Readers, Walking(p)
               PROVE  snapshot[p] <= listed'
    <3>1. Walks
      BY <1>1 DEF ReadSound
    <3>2. \A p \in Readers : Printed(p)' = Printed(p) /\ Walking(p)' = Walking(p)
      BY <1>2 DEF Printed, Walking
    <3>3. QED
      BY <1>2, <3>1, <3>2 DEF Walks, Walk
  <2>1. ~NobodyReads
    BY DEF Walking, NobodyReads
  <2>2. snapshot[p] <= listed
    BY <1>1 DEF ReadSound, Walks, Walk
  <2>3. snapshot[p] \in Nat
    BY <1>1 DEF ReadSound, ReadTypes
  <2>4. QED
    BY <2>1, <2>2, <2>3
<1>8. NoFault'
  BY DEF NoFault
<1>9. QED
  BY <1>3, <1>5, <1>6, <1>7, <1>8 DEF ReadSound

(* Building the list.  Readers see an entry when it is complete.           *)
LEMMA BuildStep ==
  ASSUME Sound, Load \/ InitHead \/ Alloc \/ Fill \/ Publish \/ Back \/ Finish
  PROVE  Sound'
<1> USE RcuProcs, RcuBounds
<1>a. ListTypes /\ Linear /\ Placed
  BY Halves DEF ListSound
<1>b. /\ fault = FALSE
      /\ lpc \in {"gone", "added", "loop", "free"} => NobodyReads
  BY Halves DEF ReadSound, ReadTypes, NoFault, Apart, NobodyReads
<1>1. CASE Load
  <2>1. ListTypes'
    BY <1>a, <1>1 DEF Ptr, Node, Ids, MyList, Nil, Goes, Load, ListTypes
  <2>2. Linear'
    BY <1>a, <1>1 DEF Ptr, Node, Ids, MyList, Nil, Goes, Load, ListTypes, Linear, Listing, Placed
  <2>3. Placed'
    BY <1>a, <1>1 DEF Ptr, Node, Ids, MyList, Nil, Goes, Load, ListTypes, Linear, Listing, Placed
  <2>4. ReadSound'
    <3>1. /\ Runs(Loader) /\ UNCHANGED <<spinlock, reader>> /\ UNCHANGED fault
          /\ KeepCpu(Loader) \/ GiveUpCpu
      BY <1>1 DEF Load, Goes
    <3>2. KeepCpu(Loader) \/ lpc' \notin {"added", "publish", "back", "loop", "free"}
      BY <1>1 DEF Load, Goes
    <3>3. /\ listed <= listed' \/ NobodyReads
          /\ lpc' \in {"alloc", "fill", "publish", "back", "loaded"} \/ NobodyReads
      BY <1>a, <1>b, <1>1 DEF Load, Goes, ListTypes
    <3>4. listed \in Nat /\ listed' \in Nat
      BY <1>a, <2>1 DEF ListTypes
    <3>5. QED
      BY <1>b, <3>1, <3>2, <3>3, <3>4, LoaderFrame
  <2>5. QED
    BY <2>1, <2>2, <2>3, <2>4, HalvesNext
<1>2. CASE InitHead
  <2>1. ListTypes'
    BY <1>a, <1>2 DEF Ptr, Node, Ids, MyList, Nil, Goes, InitHead, ListTypes
  <2>2. Linear'
    BY <1>a, <1>2 DEF Ptr, Node, Ids, MyList, Nil, Goes, InitHead, ListTypes, Linear, Listing, Placed
  <2>3. Placed'
    BY <1>a, <1>2 DEF Ptr, Node, Ids, MyList, Nil, Goes, InitHead, ListTypes, Linear, Listing, Placed
  <2>4. ReadSound'
    <3>1. /\ Runs(Loader) /\ UNCHANGED <<spinlock, reader>> /\ UNCHANGED fault
          /\ KeepCpu(Loader) \/ GiveUpCpu
      BY <1>2 DEF InitHead, Goes
    <3>2. KeepCpu(Loader) \/ lpc' \notin {"added", "publish", "back", "loop", "free"}
      BY <1>2 DEF InitHead, Goes
    <3>3. /\ listed <= listed' \/ NobodyReads
          /\ lpc' \in {"alloc", "fill", "publish", "back", "loaded"} \/ NobodyReads
      BY <1>a, <1>b, <1>2 DEF InitHead, Goes, ListTypes
    <3>4. listed \in Nat /\ listed' \in Nat
      BY <1>a, <2>1 DEF ListTypes
    <3>5. QED
      BY <1>b, <3>1, <3>2, <3>3, <3>4, LoaderFrame
  <2>5. QED
    BY <2>1, <2>2, <2>3, <2>4, HalvesNext
<1>3. CASE Alloc
  <2>1. ListTypes'
    BY <1>a, <1>3 DEF Ptr, Node, Ids, MyList, Nil, Goes, Alloc, More, ListTypes
  <2>2. Linear'
    BY <1>a, <1>3 DEF Ptr, Node, Ids, MyList, Nil, Goes, Alloc, More, ListTypes, Linear, Listing, Placed
  <2>3. Placed'
    BY <1>a, <1>3 DEF Ptr, Node, Ids, MyList, Nil, Goes, Alloc, More, ListTypes, Linear, Listing, Placed
  <2>4. ReadSound'
    <3>1. /\ Runs(Loader) /\ UNCHANGED <<spinlock, reader>> /\ UNCHANGED fault
          /\ KeepCpu(Loader) \/ GiveUpCpu
      BY <1>3 DEF Alloc, Goes
    <3>2. KeepCpu(Loader) \/ lpc' \notin {"added", "publish", "back", "loop", "free"}
      BY <1>3 DEF Alloc, Goes
    <3>3. /\ listed <= listed' \/ NobodyReads
          /\ lpc' \in {"alloc", "fill", "publish", "back", "loaded"} \/ NobodyReads
      BY <1>a, <1>b, <1>3 DEF Alloc, Goes, ListTypes
    <3>4. listed \in Nat /\ listed' \in Nat
      BY <1>a, <2>1 DEF ListTypes
    <3>5. QED
      BY <1>b, <3>1, <3>2, <3>3, <3>4, LoaderFrame
  <2>5. QED
    BY <2>1, <2>2, <2>3, <2>4, HalvesNext
<1>4. CASE Fill
  <2>1. ListTypes'
    BY <1>a, <1>4 DEF Ptr, Node, Ids, MyList, Nil, Goes, Fill, Linked, ListTypes
  <2>2. Linear'
    BY <1>a, <1>4 DEF Ptr, Node, Ids, MyList, Nil, Goes, Fill, Linked, ListTypes, Linear, Listing, Placed
  <2>3. Placed'
    BY <1>a, <1>4 DEF Ptr, Node, Ids, MyList, Nil, Goes, Fill, Linked, ListTypes, Linear, Listing, Placed
  <2>4. ReadSound'
    <3>1. /\ Runs(Loader) /\ UNCHANGED <<spinlock, reader>> /\ UNCHANGED fault
          /\ KeepCpu(Loader) \/ GiveUpCpu
      BY <1>4 DEF Fill, Goes
    <3>2. KeepCpu(Loader) \/ lpc' \notin {"added", "publish", "back", "loop", "free"}
      BY <1>4 DEF Fill, Goes
    <3>3. /\ listed <= listed' \/ NobodyReads
          /\ lpc' \in {"alloc", "fill", "publish", "back", "loaded"} \/ NobodyReads
      BY <1>a, <1>b, <1>4 DEF Fill, Goes, ListTypes
    <3>4. listed \in Nat /\ listed' \in Nat
      BY <1>a, <2>1 DEF ListTypes
    <3>5. QED
      BY <1>b, <3>1, <3>2, <3>3, <3>4, LoaderFrame
  <2>5. QED
    BY <2>1, <2>2, <2>3, <2>4, HalvesNext
<1>5. CASE Publish
  <2>1. ListTypes'
    BY <1>a, <1>5 DEF Ptr, Node, Ids, MyList, Nil, Goes, Publish, ListTypes, Linear,
      Listing, Placed
  <2>2. Linear'
    BY <1>a, <1>5 DEF Ptr, Node, Ids, MyList, Nil, Goes, Publish, ListTypes, Linear, Listing, Placed
  <2>3. Placed'
    BY <1>a, <1>5 DEF Ptr, Node, Ids, MyList, Nil, Goes, Publish, ListTypes, Linear, Listing, Placed
  <2>4. ReadSound'
    <3>1. /\ Runs(Loader) /\ UNCHANGED <<spinlock, reader>> /\ UNCHANGED fault
          /\ KeepCpu(Loader) \/ GiveUpCpu
      BY <1>5 DEF Publish, Goes
    <3>2. KeepCpu(Loader) \/ lpc' \notin {"added", "publish", "back", "loop", "free"}
      BY <1>5 DEF Publish, Goes
    <3>3. /\ listed <= listed' \/ NobodyReads
          /\ lpc' \in {"alloc", "fill", "publish", "back", "loaded"} \/ NobodyReads
      BY <1>a, <1>b, <1>5 DEF Publish, Goes, ListTypes
    <3>4. listed \in Nat /\ listed' \in Nat
      BY <1>a, <2>1 DEF ListTypes
    <3>5. QED
      BY <1>b, <3>1, <3>2, <3>3, <3>4, LoaderFrame
  <2>5. QED
    BY <2>1, <2>2, <2>3, <2>4, HalvesNext
<1>6. CASE Back
  <2>1. ListTypes'
    BY <1>a, <1>6 DEF Ptr, Node, Ids, MyList, Nil, Goes, Back, ListTypes, Linear,
      Listing, Placed
  <2>2. Linear'
    BY <1>a, <1>6 DEF Ptr, Node, Ids, MyList, Nil, Goes, Back, ListTypes, Linear, Listing, Placed
  <2>3. Placed'
    BY <1>a, <1>6 DEF Ptr, Node, Ids, MyList, Nil, Goes, Back, ListTypes, Linear, Listing, Placed
  <2>4. ReadSound'
    <3>1. /\ Runs(Loader) /\ UNCHANGED <<spinlock, reader>> /\ UNCHANGED fault
          /\ KeepCpu(Loader) \/ GiveUpCpu
      BY <1>6 DEF Back, Goes
    <3>2. KeepCpu(Loader) \/ lpc' \notin {"added", "publish", "back", "loop", "free"}
      BY <1>6 DEF Back, Goes
    <3>3. /\ listed <= listed' \/ NobodyReads
          /\ lpc' \in {"alloc", "fill", "publish", "back", "loaded"} \/ NobodyReads
      BY <1>a, <1>b, <1>6 DEF Back, Goes, ListTypes
    <3>4. listed \in Nat /\ listed' \in Nat
      BY <1>a, <2>1 DEF ListTypes
    <3>5. QED
      BY <1>b, <3>1, <3>2, <3>3, <3>4, LoaderFrame
  <2>5. QED
    BY <2>1, <2>2, <2>3, <2>4, HalvesNext
<1>7. CASE Finish
  <2>1. ListTypes'
    BY <1>a, <1>7 DEF Ptr, Node, Ids, MyList, Nil, Goes, Finish, More, ListTypes
  <2>2. Linear'
    BY <1>a, <1>7 DEF Ptr, Node, Ids, MyList, Nil, Goes, Finish, More, ListTypes, Linear, Listing, Placed
  <2>3. Placed'
    BY <1>a, <1>7 DEF Ptr, Node, Ids, MyList, Nil, Goes, Finish, More, ListTypes, Linear, Listing, Placed
  <2>4. ReadSound'
    <3>1. /\ Runs(Loader) /\ UNCHANGED <<spinlock, reader>> /\ UNCHANGED fault
          /\ KeepCpu(Loader) \/ GiveUpCpu
      BY <1>7 DEF Finish, Goes
    <3>2. KeepCpu(Loader) \/ lpc' \notin {"added", "publish", "back", "loop", "free"}
      BY <1>7 DEF Finish, Goes
    <3>3. /\ listed <= listed' \/ NobodyReads
          /\ lpc' \in {"alloc", "fill", "publish", "back", "loaded"} \/ NobodyReads
      BY <1>a, <1>b, <1>7 DEF Finish, Goes, ListTypes
    <3>4. listed \in Nat /\ listed' \in Nat
      BY <1>a, <2>1 DEF ListTypes
    <3>5. QED
      BY <1>b, <3>1, <3>2, <3>3, <3>4, LoaderFrame
  <2>5. QED
    BY <2>1, <2>2, <2>3, <2>4, HalvesNext
<1>8. QED
  BY <1>1, <1>2, <1>3, <1>4, <1>5, <1>6, <1>7

(* Freeing it.  Nobody reads.                                              *)
LEMMA RemoveStep ==
  ASSUME Sound, Polite \/ ~SMP, Exit \/ Delete \/ Free \/ Gone
  PROVE  Sound'
<1> USE RcuProcs, RcuBounds
<1>a. ListTypes /\ Linear /\ Placed
  BY Halves DEF ListSound
<1>b. /\ fault = FALSE
      /\ lpc \in {"gone", "added", "loop", "free"} => NobodyReads
  BY Halves DEF ReadSound, ReadTypes, NoFault, Apart, NobodyReads
<1>1. CASE Exit
  <2>1. ListTypes'
    BY <1>a, <1>1 DEF Ptr, Node, Ids, MyList, Nil, Goes, Exit, ListTypes, Linear,
      Listing, Placed
  <2>2. Linear'
    BY <1>a, <1>1 DEF Ptr, Node, Ids, MyList, Nil, Goes, Exit, ListTypes, Linear, Listing, Placed
  <2>3. Placed'
    BY <1>a, <1>1 DEF Ptr, Node, Ids, MyList, Nil, Goes, Exit, ListTypes, Linear, Listing, Placed
  <2>4. ReadSound'
    <3>1. /\ Runs(Loader) /\ UNCHANGED <<spinlock, reader>> /\ UNCHANGED fault
          /\ KeepCpu(Loader) \/ GiveUpCpu
      BY <1>1 DEF Exit, Goes
    <3>2. KeepCpu(Loader) \/ lpc' \notin {"added", "publish", "back", "loop", "free"}
      BY <1>1 DEF Exit, Goes
    <3>3. /\ listed <= listed' \/ NobodyReads
          /\ lpc' \in {"alloc", "fill", "publish", "back", "loaded"} \/ NobodyReads
      <4>1. ~SMP => NobodyReads
        BY <1>1, <3>1, Halves DEF ReadSound, Apart, Runs, NobodyReads
      <4>2. QED
        BY <1>a, <1>1, <4>1 DEF Exit, Goes, ListTypes, NobodyReads
    <3>4. listed \in Nat /\ listed' \in Nat
      BY <1>a, <2>1 DEF ListTypes
    <3>5. QED
      BY <1>b, <3>1, <3>2, <3>3, <3>4, LoaderFrame
  <2>5. QED
    BY <2>1, <2>2, <2>3, <2>4, HalvesNext
<1>2. CASE Delete
  <2>1. ListTypes'
    BY <1>a, <1>2 DEF Ptr, Node, Ids, MyList, Nil, Goes, Delete, ListTypes, Linear,
      Listing, Placed
  <2>2. Linear'
    BY <1>a, <1>2 DEF Ptr, Node, Ids, MyList, Nil, Goes, Delete, ListTypes, Linear, Listing, Placed
  <2>3. Placed'
    BY <1>a, <1>2 DEF Ptr, Node, Ids, MyList, Nil, Goes, Delete, ListTypes, Linear, Listing, Placed
  <2>4. ReadSound'
    <3>1. /\ Runs(Loader) /\ UNCHANGED <<spinlock, reader>> /\ UNCHANGED fault
          /\ KeepCpu(Loader) \/ GiveUpCpu
      BY <1>2 DEF Delete, Goes
    <3>2. KeepCpu(Loader) \/ lpc' \notin {"added", "publish", "back", "loop", "free"}
      BY <1>2 DEF Delete, Goes
    <3>3. /\ listed <= listed' \/ NobodyReads
          /\ lpc' \in {"alloc", "fill", "publish", "back", "loaded"} \/ NobodyReads
      BY <1>a, <1>b, <1>2 DEF Delete, Goes, ListTypes
    <3>4. listed \in Nat /\ listed' \in Nat
      BY <1>a, <2>1 DEF ListTypes
    <3>5. QED
      BY <1>b, <3>1, <3>2, <3>3, <3>4, LoaderFrame
  <2>5. QED
    BY <2>1, <2>2, <2>3, <2>4, HalvesNext
<1>3. CASE Free
  <2>1. ListTypes'
    BY <1>a, <1>3 DEF Ptr, Node, Ids, MyList, Nil, Goes, Free, Freed, Following, ListTypes
  <2>2. Linear'
    BY <1>a, <1>3 DEF Ptr, Node, Ids, MyList, Nil, Goes, Free, Freed, Following, ListTypes, Linear, Listing, Placed
  <2>3. Placed'
    BY <1>a, <1>3 DEF Ptr, Node, Ids, MyList, Nil, Goes, Free, Freed, Following, ListTypes, Linear, Listing, Placed
  <2>4. ReadSound'
    <3>0. pos \in Freed \cup {MyList}
      BY <1>a, <1>3 DEF Free, Freed, Goes, Placed, Linear, Listing, MyList
    <3>1. /\ Runs(Loader) /\ UNCHANGED <<spinlock, reader>> /\ UNCHANGED fault
          /\ KeepCpu(Loader) \/ GiveUpCpu
      BY <1>3, <3>0 DEF Free, Goes, Freed, Following
    <3>2. KeepCpu(Loader) \/ lpc' \notin {"added", "publish", "back", "loop", "free"}
      BY <1>3 DEF Free, Goes
    <3>3. /\ listed <= listed' \/ NobodyReads
          /\ lpc' \in {"alloc", "fill", "publish", "back", "loaded"} \/ NobodyReads
      BY <1>a, <1>b, <1>3 DEF Free, Goes, ListTypes
    <3>4. listed \in Nat /\ listed' \in Nat
      BY <1>a, <2>1 DEF ListTypes
    <3>5. QED
      BY <1>b, <3>1, <3>2, <3>3, <3>4, LoaderFrame
  <2>5. QED
    BY <2>1, <2>2, <2>3, <2>4, HalvesNext
<1>4. CASE Gone
  <2>1. ListTypes'
    BY <1>a, <1>4 DEF Ptr, Node, Ids, MyList, Nil, Goes, Gone, ListTypes
  <2>2. Linear'
    BY <1>a, <1>4 DEF Ptr, Node, Ids, MyList, Nil, Goes, Gone, ListTypes, Linear, Listing, Placed
  <2>3. Placed'
    BY <1>a, <1>4 DEF Ptr, Node, Ids, MyList, Nil, Goes, Gone, ListTypes, Linear, Listing, Placed
  <2>4. ReadSound'
    <3>1. /\ Runs(Loader) /\ UNCHANGED <<spinlock, reader>> /\ UNCHANGED fault
          /\ KeepCpu(Loader) \/ GiveUpCpu
      BY <1>4 DEF Gone, Goes
    <3>2. KeepCpu(Loader) \/ lpc' \notin {"added", "publish", "back", "loop", "free"}
      BY <1>4 DEF Gone, Goes
    <3>3. /\ listed <= listed' \/ NobodyReads
          /\ lpc' \in {"alloc", "fill", "publish", "back", "loaded"} \/ NobodyReads
      BY <1>a, <1>b, <1>4 DEF Gone, Goes, ListTypes
    <3>4. listed \in Nat /\ listed' \in Nat
      BY <1>a, <2>1 DEF ListTypes
    <3>5. QED
      BY <1>b, <3>1, <3>2, <3>3, <3>4, LoaderFrame
  <2>5. QED
    BY <2>1, <2>2, <2>3, <2>4, HalvesNext
<1>5. QED
  BY <1>1, <1>2, <1>3, <1>4

-----------------------------------------------------------------------------
(* A step of reader p that leaves the others where they are.               *)
LEMMA ReaderFrame ==
  ASSUME Sound, Polite \/ ~SMP, NEW p \in Readers, Runs(p),
         KeepCpu(p) \/ (GiveUpCpu /\ rpc'[p] = "idle"), fault' = FALSE,
         UNCHANGED <<next, prev, mem, loader, listed>>,
         \A r \in Readers \ {p} : /\ rpc'[r] = rpc[r] /\ cursor'[r] = cursor[r]
                                  /\ seen'[r] = seen[r] /\ snapshot'[r] = snapshot[r],
         rpc[p] # "idle" \/ Available, ReadTypes', Walk(p)'
  PROVE  Sound'
<1>1. ListSound /\ ReadSound /\ UNCHANGED <<lpc, i, tmp, pos, loads>>
  BY Halves DEF loader
<1>2. ListTypes' /\ Linear' /\ Placed'
  BY <1>1 DEF ListSound, ListTypes, Linear, Listing, Placed
<1>3. Walks'
  <2> SUFFICES ASSUME NEW r \in Readers \ {p} PROVE Walk(r)'
    BY DEF Walks
  <2>1. Walk(r) /\ Printed(r)' = Printed(r) /\ Walking(r)' = Walking(r)
    BY <1>1 DEF ReadSound, Walks, Printed, Walking
  <2>2. QED
    BY <2>1 DEF Walk
<1>4. ~SMP => /\ \A r \in Readers \ {p} : rpc[r] = "idle"
              /\ lpc \notin {"added", "publish", "back", "loop", "free"}
  BY <1>1, RcuProcs DEF ReadSound, Apart, Holds, Runs
<1>5. lpc \in {"alloc", "fill", "publish", "back", "loaded"}
  <2>1. CASE rpc[p] # "idle"
    BY <1>1, <2>1 DEF ReadSound, Apart
  <2>2. CASE Available
    BY <1>1, <1>4, <2>2 DEF ListSound, ListTypes, Available
  <2>3. QED
    BY <2>1, <2>2
<1>6. Apart'
  <2>1. ~SMP => \A r \in Readers : rpc'[r] # "idle" => cpu' = r
    BY <1>4 DEF KeepCpu
  <2>2. QED
    BY <1>1, <1>5, <2>1 DEF Apart
<1>7. Holds'
  BY <1>1, <1>4 DEF Holds
<1>8. QED
  BY <1>2, <1>3, <1>6, <1>7, HalvesNext DEF ReadSound, NoFault

LEMMA ReadStep ==
  ASSUME Sound, Polite \/ ~SMP, NEW p \in Readers, ReaderNext(p)
  PROVE  Sound'
<1>a. /\ ListTypes /\ Linear /\ Placed /\ ReadTypes /\ fault = FALSE
      /\ Apart /\ Walk(p)
  BY Halves DEF ListSound, ReadSound, ReadTypes, NoFault, Walks
<1>1. ASSUME NEW locks \in BOOLEAN, Read(p, locks) PROVE Sound'
  <2>1. Walk(p)'
    BY <1>1, <1>a DEF Read, Walk, Walking, ReadTypes
  <2>2. ReadTypes'
    <3>1. spinlock' \in Readers \cup {Nobody} /\ cpu' \in Readers \cup {Loader, Nobody}
      BY <1>1, <1>a DEF Read, SpinLock, KeepCpu, ReadTypes
    <3>2. <<>> \in Seq(Ids) /\ Nil \in Ptr
      BY DEF Ptr
    <3>3. QED
      BY <1>1, <1>a, <3>1, <3>2 DEF Read, ReadTypes
  <2>3. QED
    BY <1>1, <1>a, <2>1, <2>2, ReaderFrame DEF Read, ReadTypes
<1>2. CASE First(p)
  <2>1. cpu' \in Readers \cup {Loader, Nobody} /\ Runs(p) /\ KeepCpu(p)
    BY <1>2 DEF First, KeepCpu
  <2>2. next[MyList] = listed - 1 /\ listed \in Nat /\ next[MyList] \in Ptr
    BY <1>2, <1>a DEF First, Apart, Linear, Listing, ListTypes, Node
  <2>3. /\ rpc'[p] \in {"walk", "walk locked"} /\ cursor'[p] = listed - 1
        /\ snapshot'[p] = listed /\ seen'[p] = <<>> /\ listed' = listed
    BY <1>2, <1>a, <2>2 DEF First, Walk, ReadTypes
  <2>4. Printed(p)' = <<>>
    <3>1. Printed(p)' = [k \in 1 .. snapshot'[p] - 1 - cursor'[p] |-> snapshot'[p] - k]
      BY DEF Printed
    <3>2. listed - 1 - (listed - 1) = 0
      BY <2>2
    <3>3. Printed(p)' = [k \in 1 .. listed - 1 - (listed - 1) |-> listed - k]
      BY <2>3, <3>1
    <3>4. QED
      BY <2>2, <3>2, <3>3, PrintsNothing
  <2>5. Walk(p)'
    <3>1. listed - 1 \in MyList .. listed - 1 /\ listed <= listed
      BY <2>2 DEF MyList
    <3>2. snapshot'[p] <= listed' /\ cursor'[p] \in MyList .. snapshot'[p] - 1
      BY <2>3, <3>1
    <3>3. rpc'[p] \notin {"locked", "rcu"} /\ seen'[p] = Printed(p)'
      BY <2>3, <2>4
    <3>4. QED
      BY <3>2, <3>3 DEF Walk
  <2>6. ReadTypes'
    BY <1>2, <1>a, <2>1, <2>2 DEF First, ReadTypes
  <2>7. QED
    BY <1>2, <1>a, <2>1, <2>5, <2>6, ReaderFrame DEF First, ReadTypes
<1>3. CASE ShowEntry(p)
  <2>0. /\ Walking(p) /\ cursor[p] # -1 /\ listed \in Nat
        /\ lpc \in {"alloc", "fill", "publish", "back", "loaded"}
    BY <1>3, <1>a DEF ShowEntry, Walking, Apart, ListTypes, MyList
  <2>1. cursor[p] \in 0 .. snapshot[p] - 1 /\ snapshot[p] \in 0 .. listed
    <3>1. snapshot[p] <= listed /\ cursor[p] \in -1 .. snapshot[p] - 1
      BY <1>a, <2>0 DEF Walk, MyList
    <3>2. snapshot[p] \in Nat
      BY <1>a DEF ReadTypes
    <3>3. QED
      BY <2>0, <3>1, <3>2
  <2>2. cursor[p] \in mem /\ next[cursor[p]] = cursor[p] - 1 /\ mem \subseteq Ids
    BY SMTT(30), <1>a, <2>0, <2>1 DEF Placed, Linear, Listing, ListTypes
  <2>3. /\ Append(seen[p], cursor[p]) \in Seq(Ids)
        /\ Append(seen[p], cursor[p]) =
             [k \in 1 .. snapshot[p] - 1 - (cursor[p] - 1) |-> snapshot[p] - k]
    <3>1. seen[p] \in Seq(Ids) /\ snapshot[p] \in Nat
      BY <1>a DEF ReadTypes
    <3>2. seen[p] = [k \in 1 .. snapshot[p] - 1 - cursor[p] |-> snapshot[p] - k]
      BY <1>a, <2>0 DEF Walk, Printed
    <3>3. QED
      BY <2>1, <2>2, <3>1, <3>2, PrintsOne
  <2>4. /\ seen' = [seen EXCEPT ![p] = Append(seen[p], cursor[p])]
        /\ cursor' = [cursor EXCEPT ![p] = cursor[p] - 1] /\ fault' = FALSE
        /\ UNCHANGED <<next, prev, mem, loader, spinlock, rpc, snapshot, listed>>
        /\ Runs(p) /\ KeepCpu(p)
    BY <1>3, <1>a, <2>2 DEF ShowEntry
  <2>5. seen'[p] = Append(seen[p], cursor[p]) /\ cursor'[p] = cursor[p] - 1
    BY <1>a, <2>4 DEF ReadTypes
  <2>6. Printed(p)' = Append(seen[p], cursor[p])
    <3>1. Printed(p)' = [k \in 1 .. snapshot'[p] - 1 - cursor'[p] |-> snapshot'[p] - k]
      BY DEF Printed
    <3>2. QED
      BY <2>3, <2>4, <2>5, <3>1
  <2>7. Walk(p)'
    <3>1. cursor[p] - 1 \in MyList .. snapshot[p] - 1 /\ snapshot[p] <= listed
      BY <2>0, <2>1 DEF MyList
    <3>2. rpc'[p] \notin {"locked", "rcu"}
      BY <2>0, <2>4 DEF Walking
    <3>3. snapshot'[p] <= listed' /\ cursor'[p] \in MyList .. snapshot'[p] - 1
      BY <2>4, <2>5, <3>1
    <3>4. seen'[p] = Printed(p)'
      BY <2>5, <2>6
    <3>5. QED
      BY <3>2, <3>3, <3>4 DEF Walk
  <2>8. ReadTypes'
    <3>1. cursor[p] - 1 \in Ptr
      <4>1. \A c \in 0 .. Length - 1 : c - 1 \in (0 .. Length - 1) \cup {-1}
        BY RcuBounds
      <4>2. QED
        BY <2>2, <4>1 DEF Ptr, Node, Ids, MyList
    <3>2. cpu' \in Readers \cup {Loader, Nobody}
      BY <2>4 DEF KeepCpu
    <3>3. QED
      BY <1>a, <2>3, <2>4, <3>1, <3>2 DEF ReadTypes
  <2>9. \A r \in Readers \ {p} : seen'[r] = seen[r] /\ cursor'[r] = cursor[r]
    BY <1>a, <2>4 DEF ReadTypes
  <2>10. QED
    BY <2>0, <2>4, <2>7, <2>8, <2>9, ReaderFrame DEF Walking
<1>4. CASE Return(p)
  <2>1. Walk(p)'
    BY <1>4, <1>a DEF Return, Walk, Walking, ReadTypes
  <2>2. ReadTypes'
    BY <1>4, <1>a DEF Return, SpinUnlock, GiveUpCpu, ReadTypes
  <2>3. QED
    BY <1>4, <1>a, <2>1, <2>2, ReaderFrame DEF Return, Walking, ReadTypes
<1>5. QED
  BY <1>1, <1>2, <1>3, <1>4 DEF ReaderNext

-----------------------------------------------------------------------------
LEMMA SoundAlways == ASSUME Polite \/ ~SMP PROVE Spec => []Sound
<1>1. Sound /\ [Next]_vars => Sound'
  <2> SUFFICES ASSUME Sound, [Next]_vars PROVE Sound'
    OBVIOUS
  <2>1. CASE LoaderNext
    BY <2>1, BuildStep, RemoveStep DEF LoaderNext
  <2>2. ASSUME NEW p \in Readers, ReaderNext(p) PROVE Sound'
    BY <2>2, ReadStep
  <2>3. CASE UNCHANGED vars
    <3>1. /\ UNCHANGED <<cpu, spinlock, next, prev, mem, lpc, i, tmp, pos, loads>>
          /\ UNCHANGED <<rpc, cursor, seen, snapshot, listed, fault>>
      BY <2>3 DEF vars, loader, reader
    <3>2. TypeOK'
      BY <3>1 DEF Sound, TypeOK
    <3>2a. Linear' /\ Placed'
      BY <3>1 DEF Sound, Linear, Listing, Placed
    <3>2b. Apart' /\ Holds' /\ NoFault'
      BY <3>1 DEF Sound, Apart, Holds, NoFault
    <3>3. \A p \in Readers : Walk(p) => Walk(p)'
      BY <3>1 DEF Walk, Walking, Printed
    <3>4. QED
      BY <3>2, <3>2a, <3>2b, <3>3 DEF Sound, Walks
  <2>4. QED
    BY <2>1, <2>2, <2>3 DEF Next
<1>2. QED
  BY <1>1, SoundInit, PTL DEF Spec

(* On a multiprocessor as long as nobody reads before INIT_LIST_HEAD or    *)
(* during removal, and without SMP whoever reads when, no pointer to       *)
(* nothing or to a freed entry is followed, ...                            *)
THEOREM NothingFaults == ASSUME Polite \/ ~SMP PROVE Spec => []NoFault
<1>1. Sound => NoFault
  BY DEF Sound
<1>2. QED
  BY <1>1, SoundAlways, PTL

(* A read that ran beside list_add_rcu, with or without the lock, printed  *)
(* the list as it was when the read began, newest first, neither a part of *)
(* it nor an entry twice (simple_rcu.c:38-57, 92-96).                      *)
ReadsSnapshot == \A p \in Readers :
  Walking(p) /\ cursor[p] = MyList =>
    seen[p] = [k \in 1 .. snapshot[p] |-> snapshot[p] - k]

(* ... every read prints the list as it was when the read began, ...       *)
THEOREM SnapshotsRead == ASSUME Polite \/ ~SMP PROVE Spec => []ReadsSnapshot
<1>1. Sound => ReadsSnapshot
  <2> SUFFICES ASSUME Sound, NEW p \in Readers, Walking(p), cursor[p] = MyList
               PROVE  seen[p] = [k \in 1 .. snapshot[p] |-> snapshot[p] - k]
    BY DEF ReadsSnapshot
  <2>1. seen[p] = Printed(p)
    BY DEF Sound, Walks, Walk
  <2>2. snapshot[p] - 1 - cursor[p] = snapshot[p]
    <3>1. snapshot[p] \in Nat
      BY DEF Sound, TypeOK
    <3>2. QED
      BY <3>1 DEF MyList
  <2>3. QED
    BY <2>1, <2>2 DEF Printed
<1>2. QED
  BY <1>1, SoundAlways, PTL

(* ... and removal leaves nothing allocated.                               *)
THEOREM AllFreed == ASSUME Polite \/ ~SMP PROVE Spec => []NothingLeft
<1>1. Sound => NothingLeft
  BY DEF Sound, Placed, NothingLeft
<1>2. QED
  BY <1>1, SoundAlways, PTL

(* Every variable keeps its type, the index of the loop that builds the    *)
(* list and the pointers of the loop that frees it included.               *)
THEOREM TypeCorrect == ASSUME Polite \/ ~SMP PROVE Spec => []TypeOK
<1>1. Sound => TypeOK
  BY DEF Sound
<1>2. QED
  BY <1>1, SoundAlways, PTL

-----------------------------------------------------------------------------
(* The list of n entries, newest first.                                    *)
Newest(n) == [k \in 1 .. n |-> n - k]

LEMMA NewestType ==
  ASSUME NEW n \in 0 .. Length
  PROVE  Newest(n) \in Seq(Ids) /\ Len(Newest(n)) = n /\ \A k \in 1 .. n : Newest(n)[k] = n - k
<1> DEFINE t == Newest(n)
<1>1. n \in Nat /\ \A k \in 1 .. n : n - k \in Ids
  BY RcuBounds DEF Ids
<1>2. t \in [1 .. n -> Ids]
  BY <1>1 DEF Newest
<1>3. \A k \in 1 .. n : t[k] = n - k
  BY DEF Newest
<1> HIDE DEF t
<1>4. t \in Seq(Ids)
  BY <1>1, <1>2, SeqDef
<1>5. Len(t) = n
  <2>1. Len(t) \in Nat /\ DOMAIN t = 1 .. Len(t)
    BY <1>4, LenProperties
  <2>2. QED
    BY <1>1, <1>2, <2>1
<1>6. QED
  BY <1>3, <1>4, <1>5 DEF t

(* The places of a sequence of n elements are n.                           *)
LEMMA Places == \A n \in Nat : Cardinality(1 .. n) = n
BY FS_Interval

(* A walk meets the n entries that are linked one by one from x on, or     *)
(* none when x is no entry.                                                *)
LEMMA WalkedIs ==
  ASSUME NEW nx, NEW x, NEW n \in 0 .. Length, n = 0 => x \notin Ids, n # 0 => x = n - 1,
         \A m \in 0 .. n - 1 : nx[m] = m - 1
  PROVE  Walked(nx, x) = Newest(n)
<1> DEFINE N == Length + 1
           step(w, k) == IF k = 1 THEN x ELSE IF w[k - 1] \in Ids THEN nx[w[k - 1]] ELSE MyList
           Walked_(w) == w = [k \in 1 .. N |-> step(w, k)]
           W == [k \in 1 .. N |-> IF k = 1 THEN x ELSE IF k <= n + 1 THEN n - k ELSE MyList]
           V == CHOOSE w : Walked_(w)
<1>1. /\ N \in Nat /\ n \in Nat /\ n + 1 <= N /\ MyList = -1 /\ MyList \notin Ids
      /\ \A m \in 0 .. n - 1 : m \in Ids /\ (nx[m] \in Ids <=> m # 0)
  BY RcuBounds DEF MyList, Ids
<1>2. \A k \in 1 .. N : W[k] \in Ids <=> k <= n
  BY <1>1 DEF Ids
<1>3. Walked_(W)
  <2>1. ASSUME NEW k \in 1 .. N PROVE W[k] = step(W, k)
    <3>1. CASE k = 1
      BY <3>1
    <3>2. CASE k > 1
      <4>1. k - 1 \in 1 .. N
        BY <1>1, <3>2
      <4>2. CASE k - 1 <= n
        <5>1. W[k - 1] = n - (k - 1) /\ n - (k - 1) \in 0 .. n - 1
          BY <1>1, <3>2, <4>1, <4>2
        <5>2. W[k] = n - k
          BY <1>1, <3>2, <4>2
        <5>3. QED
          BY <1>1, <3>2, <5>1, <5>2
      <4>3. CASE k - 1 > n
        BY <1>1, <1>2, <3>2, <4>1, <4>3
      <4>4. QED
        BY <1>1, <4>2, <4>3
    <3>3. QED
      BY <1>1, <3>1, <3>2
  <2>2. QED
    BY <2>1
<1>4. Walked_(V)
  BY <1>3
<1>5. \A k \in 1 .. N : V[k] = W[k]
  <2> DEFINE T == {k \in 1 .. N : V[k] # W[k]}
  <2>1. \A k \in 1 .. N : V[k] = step(V, k) /\ W[k] = step(W, k)
    BY <1>3, <1>4
  <2> HIDE DEF V, W
  <2>2. SUFFICES ASSUME T # {} PROVE FALSE
    OBVIOUS
  <2>3. PICK k \in T : \A j \in T : <<j, k>> \notin OpToRel(<, Nat)
    <3>1. T \subseteq Nat
      BY <1>1
    <3> HIDE DEF T
    <3>2. QED
      BY <2>2, <3>1, NatLessThanWellFounded, WFMin
  <2>4. k \in 1 .. N /\ k # 1
    BY <2>1
  <2>5. k - 1 \in 1 .. N /\ V[k - 1] = W[k - 1]
    <3>1. k - 1 \in 1 .. N
      BY <1>1, <2>4
    <3>2. <<k - 1, k>> \in OpToRel(<, Nat)
      BY <1>1, <2>4 DEF OpToRel
    <3>3. QED
      BY <2>3, <3>1, <3>2
  <2>6. V[k] = W[k]
    BY <2>1, <2>4, <2>5
  <2>7. QED
    BY <2>6
<1>6. Walked(nx, x) = [k \in 1 .. Cardinality({k \in 1 .. Length + 1 : V[k] \in Ids}) |-> V[k]]
  BY Zenon DEF Walked
<1>7. Cardinality({k \in 1 .. Length + 1 : V[k] \in Ids}) = n
  <2> HIDE DEF V
  <2>1. {k \in 1 .. N : V[k] \in Ids} = 1 .. n
    <3>1. \A k \in 1 .. N : V[k] \in Ids <=> k \in 1 .. n
      BY <1>1, <1>2, <1>5
    <3>2. 1 .. n \subseteq 1 .. N
      BY <1>1
    <3>3. QED
      BY <3>1, <3>2
  <2>2. QED
    BY <1>1, <2>1, Places
<1> HIDE DEF V
<1>8. \A k \in 1 .. n : V[k] = n - k
  BY <1>1, <1>5
<1>9. QED
  BY <1>6, <1>7, <1>8 DEF Newest

(* Printing goes on where it stands, whether an entry is added in front or *)
(* the front entry is removed.                                             *)
LEMMA NewestParts ==
  ASSUME NEW n \in 0 .. Length
  PROVE  /\ n < Length => Newest(n + 1) = <<n>> \o Newest(n)
         /\ n > 0 => Newest(n) # <<>> /\ Tail(Newest(n)) = Newest(n - 1)
         /\ n \notin Range(Newest(n))
<1>1. n \in Nat /\ \A k \in 0 .. Length - 1 : k \in Ids
  BY DEF Ids
<1>2. /\ Newest(n) \in Seq(Ids) /\ Len(Newest(n)) = n
      /\ \A k \in 1 .. n : Newest(n)[k] = n - k
  BY NewestType
<1>3. ASSUME n < Length PROVE Newest(n + 1) = <<n>> \o Newest(n)
  <2>1. /\ Newest(n + 1) \in Seq(Ids) /\ Len(Newest(n + 1)) = n + 1
        /\ \A k \in 1 .. n + 1 : Newest(n + 1)[k] = n + 1 - k
    <3>1. n + 1 \in 0 .. Length
      BY RcuBounds, <1>1, <1>3
    <3>2. QED
      BY <3>1, NewestType
  <2>2. <<n>> \in Seq(Ids) /\ Len(<<n>>) = 1 /\ <<n>>[1] = n
    BY RcuBounds, <1>1, <1>3
  <2>3. /\ <<n>> \o Newest(n) \in Seq(Ids) /\ Len(<<n>> \o Newest(n)) = n + 1
        /\ \A k \in 1 .. n + 1 : (<<n>> \o Newest(n))[k] =
                                   IF k <= 1 THEN <<n>>[k] ELSE Newest(n)[k - 1]
    BY <1>1, <1>2, <2>2, ConcatProperties
  <2>4. \A k \in 1 .. n + 1 : (<<n>> \o Newest(n))[k] = n + 1 - k
    BY <1>1, <1>2, <2>2, <2>3
  <2>5. QED
    BY <2>1, <2>3, <2>4, SeqEqual
<1>4. ASSUME n > 0 PROVE Newest(n) # <<>> /\ Tail(Newest(n)) = Newest(n - 1)
  <2>1. /\ Newest(n - 1) \in Seq(Ids) /\ Len(Newest(n - 1)) = n - 1
        /\ \A k \in 1 .. n - 1 : Newest(n - 1)[k] = n - 1 - k
    <3>1. n - 1 \in 0 .. Length
      BY RcuBounds, <1>1, <1>4
    <3>2. QED
      BY <3>1, NewestType
  <2>2. Newest(n) # <<>>
    BY <1>2, <1>4
  <2>3. /\ Tail(Newest(n)) \in Seq(Ids) /\ Len(Tail(Newest(n))) = n - 1
        /\ \A k \in 1 .. n - 1 : Tail(Newest(n))[k] = Newest(n)[k + 1]
    BY <1>2, <2>2, HeadTailProperties
  <2>4. \A k \in 1 .. n - 1 : Tail(Newest(n))[k] = n - 1 - k
    BY <1>1, <1>2, <2>3
  <2>5. QED
    BY <2>1, <2>2, <2>3, <2>4, SeqEqual
<1>5. n \notin Range(Newest(n))
  <2>1. DOMAIN Newest(n) = 1 .. n
    BY DEF Newest
  <2>2. QED
    BY <1>1, <1>2, <2>1 DEF Range
<1>6. QED
  BY <1>3, <1>4, <1>5

(* What is printed, from the newest of n entries down to the one before c, *)
(* and what is met from c on, are together the n entries.                  *)
LEMMA PrintsAll ==
  ASSUME NEW n \in 0 .. Length, NEW c \in MyList .. n - 1, NEW s \in Seq(Ids),
         s = [k \in 1 .. n - 1 - c |-> n - k]
  PROVE  s \o Newest(c + 1) = Newest(n)
<1>1. n \in Nat /\ c \in Int /\ c + 1 \in 0 .. Length /\ n - 1 - c \in Nat
  BY RcuBounds DEF MyList
<1>2. Len(s) = n - 1 - c
  <2>1. Len(s) \in Nat /\ DOMAIN s = 1 .. Len(s)
    BY LenProperties
  <2>2. DOMAIN s = 1 .. n - 1 - c
    OBVIOUS
  <2>3. QED
    BY <1>1, <2>1, <2>2
<1>3. /\ Newest(n) \in Seq(Ids) /\ Len(Newest(n)) = n
      /\ \A k \in 1 .. n : Newest(n)[k] = n - k
  BY NewestType
<1>4. /\ Newest(c + 1) \in Seq(Ids) /\ Len(Newest(c + 1)) = c + 1
      /\ \A k \in 1 .. c + 1 : Newest(c + 1)[k] = c + 1 - k
  BY <1>1, NewestType
<1> DEFINE t == s \o Newest(c + 1)
<1>5. /\ t \in Seq(Ids) /\ Len(t) = n
      /\ \A k \in 1 .. n : t[k] = IF k <= n - 1 - c THEN s[k] ELSE Newest(c + 1)[k - (n - 1 - c)]
  <2>1. /\ t \in Seq(Ids) /\ Len(t) = Len(s) + Len(Newest(c + 1))
        /\ \A k \in 1 .. Len(s) + Len(Newest(c + 1)) :
             t[k] = IF k <= Len(s) THEN s[k] ELSE Newest(c + 1)[k - Len(s)]
    BY <1>4, ConcatProperties
  <2> HIDE DEF t
  <2>2. Len(s) + Len(Newest(c + 1)) = n
    <3>1. (n - 1 - c) + (c + 1) = n
      BY <1>1
    <3>2. QED
      BY <1>2, <1>4, <3>1
  <2>3. QED
    BY <1>2, <2>1, <2>2
<1> HIDE DEF t
<1>6. ASSUME NEW k \in 1 .. n PROVE t[k] = n - k
  <2>1. CASE k <= n - 1 - c
    BY <1>1, <1>5, <2>1
  <2>2. CASE k > n - 1 - c
    <3>1. k - (n - 1 - c) \in 1 .. c + 1
      BY <1>1, <2>2
    <3>2. Newest(c + 1)[k - (n - 1 - c)] = c + 1 - (k - (n - 1 - c))
      BY <1>4, <3>1
    <3>3. c + 1 - (k - (n - 1 - c)) = n - k
      BY <1>1
    <3>4. t[k] = Newest(c + 1)[k - (n - 1 - c)]
      BY <1>1, <1>5, <2>2
    <3>5. QED
      BY <3>2, <3>3, <3>4
  <2>3. QED
    BY <1>1, <2>1, <2>2
<1>7. t = Newest(n)
  BY <1>3, <1>5, <1>6, SeqEqual
<1>8. QED
  BY <1>7 DEF t

-----------------------------------------------------------------------------
(* A reader that is not walking points nowhere, or to the head at which    *)
(* its last walk ended; and while the module is not loaded the head points *)
(* to no entry.                                                            *)
Resting ==
  /\ \A p \in Readers : ~Walking(p) => cursor[p] = Nil \/ (rpc[p] = "idle" /\ cursor[p] = MyList)
  /\ ~Listing => next[MyList] \in {Nil, MyList}

LEMMA RestingAlways == ASSUME Polite \/ ~SMP PROVE Spec => [](Sound /\ Resting)
<1>1. Init => Resting
  BY DEF Init, Resting, Walking, Listing, Node, MyList
<1>2. Sound /\ Resting /\ [Next]_vars => Resting'
  <2> SUFFICES ASSUME Sound, Resting, [Next]_vars PROVE Resting'
    OBVIOUS
  <2>1. TypeOK /\ (lpc = "loop" /\ tmp = MyList => next[MyList] = MyList)
    BY DEF Sound, Linear, Placed, Listing, MyList
  <2>2. CASE LoaderNext
    <3>1. \A p \in Readers : rpc'[p] = rpc[p] /\ cursor'[p] = cursor[p]
      BY <2>2 DEF LoaderNext, reader, Load, InitHead, Alloc, Fill, Publish, Back, Finish, Exit,
        Delete, Free, Gone
    <3>2. ~Listing' => next'[MyList] \in {Nil, MyList}
      BY <2>1, <2>2 DEF LoaderNext, Goes, Resting, Listing, TypeOK, Node, Load, InitHead, Alloc,
        Fill, Publish, Back, Finish, Exit, Delete, Free, Gone
    <3>3. QED
      BY <3>1, <3>2 DEF Resting, Walking
  <2>3. ASSUME NEW p \in Readers, ReaderNext(p) PROVE Resting'
    <3>1. UNCHANGED <<next, lpc>>
      BY <2>3 DEF ReaderNext, Read, First, ShowEntry, Return, loader
    <3>2. \A r \in Readers \ {p} : rpc'[r] = rpc[r] /\ cursor'[r] = cursor[r]
      BY <2>1, <2>3 DEF TypeOK, ReaderNext, Read, First, ShowEntry, Return
    <3>3. ~Walking(p)' => cursor'[p] = Nil \/ (rpc'[p] = "idle" /\ cursor'[p] = MyList)
      BY <2>1, <2>3 DEF TypeOK, Walking, ReaderNext, Read, First, ShowEntry, Return
    <3>4. QED
      BY <3>1, <3>2, <3>3 DEF Resting, Walking, Listing
  <2>4. CASE UNCHANGED vars
    BY <2>4 DEF vars, reader, loader, Resting, Walking, Listing
  <2>5. QED
    BY <2>2, <2>3, <2>4 DEF Next
<1>3. QED
  BY <1>1, <1>2, SoundAlways, PTL DEF Spec

(* What SharedList sees.                                                   *)
LEMMA EntriesAre == Sound /\ Resting => Entries = Newest(listed) /\ listed \in 0 .. Length
<1> SUFFICES ASSUME Sound, Resting PROVE Entries = Newest(listed) /\ listed \in 0 .. Length
  OBVIOUS
<1>1. CASE Listing
  <2>1. /\ listed \in 0 .. Length /\ next[MyList] = listed - 1
        /\ \A m \in 0 .. listed - 1 : next[m] = m - 1
    BY <1>1 DEF Sound, Linear
  <2>2. listed = 0 => next[MyList] \notin Ids
    BY <2>1 DEF Ids
  <2>3. QED
    BY <2>1, <2>2, WalkedIs DEF Entries
<1>2. CASE ~Listing
  <2>1. listed = 0 /\ next[MyList] \notin Ids
    BY <1>2 DEF Sound, Placed, Listing, Resting, Ids, Nil, MyList
  <2>2. 0 \in 0 .. Length /\ \A m \in 0 .. 0 - 1 : next[m] = m - 1
    BY RcuBounds
  <2>3. QED
    BY <2>1, <2>2, WalkedIs DEF Entries
<1>3. QED
  BY <1>1, <1>2

LEMMA AnswersAre ==
  Sound /\ Resting => \A p \in Readers :
    Answer(p) = IF Walking(p) THEN {Newest(snapshot[p])}
                ELSE IF cursor[p] = Nil THEN {} ELSE {seen[p]}
<1> SUFFICES ASSUME Sound, Resting, NEW p \in Readers
             PROVE  Answer(p) = IF Walking(p) THEN {Newest(snapshot[p])}
                                ELSE IF cursor[p] = Nil THEN {} ELSE {seen[p]}
  OBVIOUS
<1>1. TypeOK /\ Walk(p)
  BY DEF Sound, Walks
<1>2. CASE Walking(p)
  <2>1. Listing /\ lpc \notin {"loop", "free"}
    BY <1>2 DEF Sound, Apart, Walking, Listing
  <2>2. /\ snapshot[p] \in 0 .. Length /\ cursor[p] \in MyList .. snapshot[p] - 1
        /\ seen[p] \in Seq(Ids)
        /\ seen[p] = [k \in 1 .. snapshot[p] - 1 - cursor[p] |-> snapshot[p] - k]
        /\ \A m \in 0 .. listed - 1 : next[m] = m - 1
        /\ listed \in 0 .. Length /\ snapshot[p] <= listed
    <3>1. snapshot[p] \in Nat /\ seen[p] \in Seq(Ids)
      BY <1>1 DEF TypeOK
    <3>2. /\ snapshot[p] <= listed /\ cursor[p] \in MyList .. snapshot[p] - 1
          /\ seen[p] = Printed(p)
      BY <1>1, <1>2 DEF Walk
    <3>3. listed \in 0 .. Length /\ \A m \in 0 .. listed - 1 : next[m] = m - 1
      BY <2>1 DEF Sound, Linear
    <3>4. snapshot[p] \in 0 .. Length
      BY RcuBounds, <3>1, <3>2, <3>3
    <3>5. QED
      BY <3>1, <3>2, <3>3, <3>4 DEF Printed
  <2>3. Walked(next, cursor[p]) = Newest(cursor[p] + 1)
    <3>1. PICK n \in 0 .. Length : n = cursor[p] + 1
      BY <2>2, RcuBounds DEF MyList
    <3>2. n = 0 => cursor[p] \notin Ids
      BY <2>2, <3>1 DEF MyList, Ids
    <3>3. n # 0 => cursor[p] = n - 1
      BY <2>2, <3>1 DEF MyList
    <3>4. \A m \in 0 .. n - 1 : next[m] = m - 1
      BY <2>2, <3>1 DEF MyList
    <3>5. Walked(next, cursor[p]) = Newest(n)
      BY <3>2, <3>3, <3>4, WalkedIs
    <3>6. QED
      BY <3>1, <3>5
  <2>4. seen[p] \o Newest(cursor[p] + 1) = Newest(snapshot[p])
    BY <2>2, PrintsAll
  <2>5. cursor[p] # Nil
    BY <2>2 DEF MyList, Nil
  <2>6. QED
    BY <1>2, <2>3, <2>4, <2>5 DEF Answer
<1>3. CASE ~Walking(p)
  <2>1. cursor[p] \in {Nil, MyList}
    BY <1>3 DEF Resting
  <2>2. Walked(next, MyList) = Newest(0)
    <3>1. 0 \in 0 .. Length /\ MyList \notin Ids /\ \A m \in 0 .. 0 - 1 : next[m] = m - 1
      BY RcuBounds DEF MyList, Ids
    <3>2. QED
      BY <3>1, WalkedIs
  <2>3. seen[p] \in Seq(Ids) /\ Newest(0) = <<>>
    <3>1. Newest(0) \in Seq(Ids) /\ Len(Newest(0)) = 0
      <4>1. 0 \in 0 .. Length
        BY RcuBounds
      <4>2. QED
        BY <4>1, NewestType
    <3>2. QED
      BY <1>1, <3>1, EmptySeq DEF TypeOK
  <2>4. seen[p] \o <<>> = seen[p]
    BY <2>3, ConcatEmptySeq
  <2>5. QED
    BY <1>3, <2>1, <2>2, <2>3, <2>4 DEF Answer
<1>4. QED
  BY <1>2, <1>3

-----------------------------------------------------------------------------
(* The same of the state after a step.                                     *)
LEMMA SeenNext ==
  ASSUME Sound', Resting'
  PROVE  /\ Entries' = Newest(listed')
         /\ \A p \in Readers :
              Answer(p)' = IF Walking(p)' THEN {Newest(snapshot'[p])}
                           ELSE IF cursor'[p] = Nil THEN {} ELSE {seen'[p]}
<1>1. (\A p \in Readers : Answer(p) = IF Walking(p) THEN {Newest(snapshot[p])}
                ELSE IF cursor[p] = Nil THEN {} ELSE {seen[p]})'
  BY AnswersAre, PTL
<1>2. (Entries = Newest(listed) /\ listed \in 0 .. Length)'
  BY EntriesAre, PTL
<1>3. QED
  BY <1>1, <1>2

LEMMA NewestNone == Newest(0) = <<>>
<1>1. 0 \in 0 .. Length
  BY RcuBounds
<1>2. Newest(0) \in Seq(Ids) /\ Len(Newest(0)) = 0
  BY <1>1, NewestType
<1>3. QED
  BY <1>2, EmptySeq

(* A step that leaves what a call has seen alone leaves what it returns.   *)
LEMMA AnswerKept ==
  ASSUME Sound, Resting, Sound', Resting', NEW p \in Readers,
         Walking(p)' = Walking(p), snapshot'[p] = snapshot[p],
         Walking(p) \/ (cursor'[p] = cursor[p] /\ seen'[p] = seen[p])
  PROVE  Answer(p)' = Answer(p)
BY AnswersAre, SeenNext

(* Loading adds to the list and removal takes from it where the list is    *)
(* linked, and nothing else the loader does is seen.                       *)
LEMMA LoaderSeen ==
  ASSUME Sound, Resting, Sound', Resting', LoaderNext
  PROVE  [Atomic!Next]_(Atomic!vars)
<1>1. Entries = Newest(listed) /\ Entries' = Newest(listed') /\ listed \in 0 .. Length
  BY EntriesAre, SeenNext
<1>2. UNCHANGED <<rpc, cursor, seen, snapshot>>
  BY DEF LoaderNext, reader, Load, InitHead, Alloc, Fill, Publish, Back, Finish, Exit, Delete,
    Free, Gone
<1>3. Answers' = Answers
  <2>1. \A p \in Readers : Walking(p)' = Walking(p)
    BY <1>2 DEF Walking
  <2>2. \A p \in Readers : Answer(p)' = Answer(p)
    BY <1>2, <2>1, AnswerKept
  <2>3. QED
    BY <2>2 DEF Answers
<1>4. CASE Publish
  <2>1. listed' = listed + 1 /\ i = listed /\ listed < Length /\ i \in Ids
    <3>1. lpc = "publish" /\ listed' = listed + 1
      BY <1>4 DEF Publish, Goes
    <3>2. i = listed /\ i < Length
      BY <3>1 DEF Sound, Placed
    <3>3. QED
      BY <1>1, <3>1, <3>2, RcuBounds DEF Ids
  <2>2. Entries' = <<i>> \o Entries /\ i \notin Range(Entries)
    BY <1>1, <2>1, NewestParts
  <2>3. i \notin Atomic!Range(Entries)
    BY <2>2 DEF Range, Atomic!Range
  <2>4. Atomic!Add(i)
    BY <1>3, <2>2, <2>3 DEF Atomic!Add
  <2>5. QED
    BY <2>1, <2>4 DEF Atomic!Next
<1>5. CASE Delete
  <2>1. listed' = listed - 1 /\ listed > 0
    BY <1>1, <1>5 DEF Delete, Goes, Sound, Placed, MyList
  <2>2. Entries # <<>> /\ Entries' = Tail(Entries)
    BY <1>1, <2>1, NewestParts
  <2>3. Atomic!Remove
    BY <1>3, <2>2 DEF Atomic!Remove
  <2>4. QED
    BY <2>3 DEF Atomic!Next
<1>6. CASE ~Publish /\ ~Delete
  <2>1. listed' = listed
    BY <1>6 DEF LoaderNext, Load, InitHead, Alloc, Fill, Back, Finish, Exit, Free, Gone
  <2>2. QED
    BY <1>1, <1>3, <2>1 DEF Atomic!vars
<1>7. QED
  BY <1>4, <1>5, <1>6

(* A read takes its answer when it reads mylist.next, whatever it prints   *)
(* later.                                                                  *)
LEMMA ReaderSeen ==
  ASSUME Sound, Resting, Sound', Resting', NEW p \in Readers, ReaderNext(p)
  PROVE  [Atomic!Next]_(Atomic!vars)
<1>1. TypeOK /\ Walk(p)
  BY DEF Sound, Walks
<1>2. listed' = listed /\ Entries' = Entries
  <2>1. listed' = listed
    BY DEF ReaderNext, Read, First, ShowEntry, Return
  <2>2. QED
    BY <2>1, EntriesAre, SeenNext
<1>3. \A r \in Readers \ {p} : Answer(r)' = Answer(r)
  <2>1. \A r \in Readers \ {p} : /\ rpc'[r] = rpc[r] /\ cursor'[r] = cursor[r]
                                 /\ seen'[r] = seen[r] /\ snapshot'[r] = snapshot[r]
    BY <1>1 DEF TypeOK, ReaderNext, Read, First, ShowEntry, Return
  <2>2. QED
    BY <2>1, AnswerKept DEF Walking
<1>4. Answers' = [Answers EXCEPT ![p] = Answer(p)']
  BY <1>3 DEF Answers
<1>5. Answer(p)' = Answer(p) => Answers' = Answers
  BY <1>3 DEF Answers
<1>6. ASSUME NEW locks \in BOOLEAN, Read(p, locks) PROVE [Atomic!Next]_(Atomic!vars)
  <2>1. cursor'[p] = Nil /\ ~Walking(p)'
    BY <1>1, <1>6 DEF Read, TypeOK, Walking
  <2>2. Answer(p)' = {}
    BY <2>1, SeenNext
  <2>3. Atomic!Call(p)
    BY <1>2, <1>4, <2>2 DEF Atomic!Call
  <2>4. QED
    BY <2>3 DEF Atomic!Next
<1>7. CASE First(p)
  <2>1. ~Walking(p) /\ cursor[p] = Nil
    BY <1>7 DEF First, Walking, Resting
  <2>2. Walking(p)' /\ snapshot'[p] = listed
    BY <1>1, <1>7 DEF First, TypeOK, Walking
  <2>3. Answer(p) = {}
    BY <2>1, AnswersAre
  <2>4. Answer(p)' = {Entries}
    BY <2>2, EntriesAre, SeenNext
  <2>5. Answers[p] = {}
    BY <2>3 DEF Answers
  <2>6. Atomic!Look(p)
    BY <1>2, <1>4, <2>4, <2>5 DEF Atomic!Look
  <2>7. QED
    BY <2>6 DEF Atomic!Next
<1>8. CASE ShowEntry(p)
  <2>1. Walking(p) /\ Walking(p)' = Walking(p) /\ snapshot'[p] = snapshot[p]
    BY <1>8 DEF ShowEntry, Walking
  <2>2. Answer(p)' = Answer(p)
    BY <2>1, AnswerKept
  <2>3. QED
    BY <1>2, <1>5, <2>2 DEF Atomic!vars
<1>9. CASE Return(p)
  <2>1. /\ Walking(p) /\ cursor[p] = MyList /\ ~Walking(p)'
        /\ cursor'[p] = MyList /\ seen'[p] = seen[p]
    BY <1>1, <1>9 DEF Return, Walking, TypeOK
  <2>2. seen[p] = Newest(snapshot[p])
    <3>1. seen[p] = Printed(p)
      BY <1>1, <2>1 DEF Walk
    <3>2. snapshot[p] - 1 - MyList = snapshot[p]
      <4>1. snapshot[p] \in Nat
        BY <1>1 DEF TypeOK
      <4>2. QED
        BY <4>1 DEF MyList
    <3>3. QED
      BY <2>1, <3>1, <3>2 DEF Printed, Newest
  <2>3. MyList # Nil
    BY DEF MyList, Nil
  <2>4. Answer(p)' = {seen[p]} /\ Answer(p) = {Newest(snapshot[p])}
    BY <2>1, <2>3, AnswersAre, SeenNext
  <2>5. QED
    BY <1>2, <1>5, <2>2, <2>4 DEF Atomic!vars
<1>10. QED
  BY <1>6, <1>7, <1>8, <1>9 DEF ReaderNext

(* A read that walks the list while entries are added to it, pointer by    *)
(* pointer and without the lock, returns what it would have returned had   *)
(* it been done at one moment: the list as linked pointers implements the  *)
(* list of SharedList.                                                     *)
THEOREM ReadsTakeNoTime == ASSUME Polite \/ ~SMP PROVE Spec => ReadsAreAtomic
<1>1. Init => Atomic!Init
  <2> SUFFICES ASSUME Init PROVE Atomic!Init
    OBVIOUS
  <2>1. Sound
    BY SoundInit
  <2>2. Resting
    BY DEF Init, Resting, Walking, Listing, Node, MyList
  <2>3. Entries = <<>>
    BY <2>1, <2>2, EntriesAre, NewestNone DEF Init
  <2>4. \A p \in Readers : Answer(p) = {}
    BY <2>1, <2>2, AnswersAre DEF Init, Walking
  <2>5. QED
    BY <2>3, <2>4 DEF Answers, Atomic!Init
<1>2. Sound /\ Resting /\ [Next]_vars /\ (Sound /\ Resting)' => [Atomic!Next]_(Atomic!vars)
  <2> SUFFICES ASSUME Sound, Resting, [Next]_vars, Sound', Resting'
               PROVE  [Atomic!Next]_(Atomic!vars)
    OBVIOUS
  <2>1. CASE LoaderNext
    BY <2>1, LoaderSeen
  <2>2. ASSUME NEW p \in Readers, ReaderNext(p) PROVE [Atomic!Next]_(Atomic!vars)
    BY <2>2, ReaderSeen
  <2>3. CASE UNCHANGED vars
    <3>1. UNCHANGED <<next, rpc, cursor, seen, snapshot, listed>>
      BY <2>3 DEF vars, reader
    <3>2. Entries' = Entries
      BY <3>1, EntriesAre, SeenNext
    <3>3. \A p \in Readers : Answer(p)' = Answer(p)
      BY <3>1, AnswerKept DEF Walking
    <3>4. Answers' = Answers
      BY <3>3 DEF Answers
    <3>5. QED
      BY <3>2, <3>4 DEF Atomic!vars
  <2>4. QED
    BY <2>1, <2>2, <2>3 DEF Next
<1>3. QED
  BY <1>1, <1>2, RestingAlways, PTL DEF Spec, ReadsAreAtomic, Atomic!Spec

=============================================================================
