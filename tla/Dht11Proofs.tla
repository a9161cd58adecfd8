---------------------------- MODULE Dht11Proofs -----------------------------
(***************************************************************************)
(* Theorems about dht11_read for any number of bits in a byte, any answers,*)
(* reads and faults: it does not store behind dht11_data unless a pulse is *)
(* split; as long as none is, it prints nothing of which two pulses were   *)
(* lost, and if none was, what it prints is what the sensor sent.          *)
(***************************************************************************)
EXTENDS Dht11, FiniteSetTheorems, WellFoundedInduction, TLAPS

-----------------------------------------------------------------------------
(* Facts about the natural numbers: induction, stated for a set instead of *)
(* a predicate, powers of two and division by them.                        *)

(* A set of numbers with 0 and the successor of each of its elements has   *)
(* them all: otherwise there were a least one that is missing.  Cite it    *)
(* with S == {n \in Nat : P(n)} to prove P by induction.                   *)
LEMMA NatSetInduction ==
  ASSUME NEW S, 0 \in S, \A n \in Nat : n \in S => n + 1 \in S
  PROVE  Nat \subseteq S
<1> SUFFICES ASSUME Nat \ S # {} PROVE FALSE
  OBVIOUS
<1> DEFINE T == Nat \ S
<1>1. PICK m \in T : \A k \in T : <<k, m>> \notin OpToRel(<, Nat)
  <2>1. T \subseteq Nat /\ T # {}
    OBVIOUS
  <2> HIDE DEF T
  <2>2. QED
    BY <2>1, NatLessThanWellFounded, WFMin
<1>2. m \in Nat /\ m # 0 /\ m \notin S
  OBVIOUS
<1>3. m - 1 \in T
  BY <1>2
<1>4. <<m - 1, m>> \in OpToRel(<, Nat)
  BY <1>2, <1>3 DEF OpToRel
<1>5. QED
  BY <1>1, <1>3, <1>4

(* 2^n counts the subsets of a set with n elements; one more element       *)
(* doubles them.                                                           *)
LEMMA PowerOfTwo ==
  /\ 2^0 = 1
  /\ \A n \in Nat : 2^n \in Nat /\ 2^(n + 1) = 2 * 2^n
<1>1. ASSUME NEW n \in Nat
      PROVE  /\ IsFiniteSet(SUBSET (1 .. n)) /\ Cardinality(SUBSET (1 .. n)) = 2^n
             /\ 2^n \in Nat
  <2>1. IsFiniteSet(1 .. n) /\ Cardinality(1 .. n) = n
    BY FS_Interval
  <2>2. IsFiniteSet(SUBSET (1 .. n)) /\ Cardinality(SUBSET (1 .. n)) = 2^n
    BY <2>1, FS_SUBSET
  <2>3. QED
    BY <2>2, FS_CardinalityType
<1>2. 2^0 = 1
  <2>1. SUBSET (1 .. 0) = {{}}
    <3>1. 1 .. 0 = {}
      OBVIOUS
    <3>2. QED
      BY <3>1
  <2>2. Cardinality({{}}) = 1
    BY FS_Singleton
  <2>3. QED
    BY <1>1, <2>1, <2>2
<1>3. ASSUME NEW n \in Nat PROVE 2^(n + 1) = 2 * 2^n
  <2> DEFINE A == SUBSET (1 .. n)
             B == {T \cup {n + 1} : T \in A}
             f == [T \in A |-> T \cup {n + 1}]
  <2>1. n + 1 \notin 1 .. n /\ 1 .. n + 1 = (1 .. n) \cup {n + 1}
    OBVIOUS
  <2>2. SUBSET (1 .. n + 1) = A \cup B
    <3>1. ASSUME NEW U \in SUBSET (1 .. n + 1), n + 1 \in U PROVE U \in B
      <4>1. U \ {n + 1} \in A /\ U = (U \ {n + 1}) \cup {n + 1}
        BY <2>1, <3>1
      <4>2. QED
        BY <4>1
    <3>2. ASSUME NEW U \in SUBSET (1 .. n + 1), n + 1 \notin U PROVE U \in A
      BY <2>1, <3>2
    <3>3. ASSUME NEW U \in A \cup B PROVE U \in SUBSET (1 .. n + 1)
      BY <2>1
    <3> HIDE DEF A, B
    <3>4. QED
      BY <3>1, <3>2, <3>3
  <2>3. A \cap B = {}
    BY <2>1
  <2>4. f \in Bijection(A, B)
    <3>1. f \in [A -> B] /\ \A y \in B : \E T \in A : f[T] = y
      OBVIOUS
    <3>2. ASSUME NEW T \in A, NEW U \in A, f[T] = f[U] PROVE T = U
      BY <2>1, <3>2
    <3>3. QED
      BY <3>1, <3>2 DEF Bijection, Injection, Surjection, IsInjective
  <2>5. IsFiniteSet(A) /\ Cardinality(A) = 2^n /\ 2^n \in Nat
    BY <1>1
  <2>6. IsFiniteSet(B) /\ Cardinality(B) = 2^n
    BY <2>4, <2>5, FS_Bijection DEF ExistsBijection
  <2> HIDE DEF A, B, f
  <2>7. Cardinality(A \cup B) = 2^n + 2^n
    BY <2>3, <2>5, <2>6, FS_Union, FS_EmptySet
  <2>8. Cardinality(A \cup B) = 2^(n + 1)
    <3>1. n + 1 \in Nat
      OBVIOUS
    <3>2. QED
      BY <1>1, <2>2, <3>1, Zenon
  <2>9. QED
    BY <2>5, <2>7, <2>8
<1>4. QED
  BY <1>1, <1>2, <1>3

LEMMA PowerPositive == \A n \in Nat : 2^n \in Nat /\ 2^n > 0
<1> DEFINE S == {n \in Nat : 2^n > 0}
<1>1. 0 \in S
  BY PowerOfTwo
<1>2. \A n \in Nat : n \in S => n + 1 \in S
  BY PowerOfTwo
<1> HIDE DEF S
<1>3. Nat \subseteq S
  BY <1>1, <1>2, NatSetInduction
<1>4. QED
  BY <1>3, PowerOfTwo DEF S

(* A shorter number has a smaller power.                                   *)
LEMMA PowerMonotonic == \A n, m \in Nat : n < m => 2^n < 2^m
<1>1. SUFFICES ASSUME NEW n \in Nat
               PROVE  \A d \in Nat : 2^n < 2^(n + d + 1)
  <2>1. ASSUME NEW m \in Nat, NEW k \in Nat, k < m PROVE 2^k < 2^m
    <3>1. m - k - 1 \in Nat /\ k + (m - k - 1) + 1 = m
      BY <2>1
    <3>2. QED
      BY <1>1, <3>1
  <2>2. QED
    BY <2>1
<1> DEFINE S == {d \in Nat : 2^n < 2^(n + d + 1)}
<1>2. 0 \in S
  BY PowerOfTwo, PowerPositive
<1>3. ASSUME NEW d \in Nat, d \in S PROVE d + 1 \in S
  <2>1. n + (d + 1) + 1 = (n + d + 1) + 1 /\ n + d + 1 \in Nat
    OBVIOUS
  <2>2. 2^((n + d + 1) + 1) = 2 * 2^(n + d + 1)
    BY <2>1, PowerOfTwo
  <2>3. 2^n \in Nat /\ 2^(n + d + 1) \in Nat /\ 2^n < 2^(n + d + 1)
    BY <1>3, <2>1, PowerPositive
  <2>4. QED
    BY <2>1, <2>2, <2>3
<1> HIDE DEF S
<1>4. Nat \subseteq S
  BY <1>2, <1>3, NatSetInduction
<1>5. QED
  BY <1>4 DEF S

(* Division by a positive number: what it means, and that it determines   *)
(* the quotient.                                                           *)
LEMMA Division ==
  ASSUME NEW a \in Int, NEW p \in Nat \ {0}
  PROVE  /\ a \div p \in Int /\ a % p \in Nat /\ a % p < p
         /\ a = p * (a \div p) + (a % p)
OBVIOUS

LEMMA Larger ==
  ASSUME NEW p \in Nat \ {0}, NEW x \in Int, NEW y \in Int, x < y
  PROVE  p * x + p <= p * y
<1>1. y - x - 1 \in Nat
  OBVIOUS
<1>2. p * (y - x - 1) >= 0
  BY <1>1
<1>3. p * (y - x - 1) = p * y - p * x - p
  OBVIOUS
<1>4. p * x \in Int /\ p * y \in Int
  OBVIOUS
<1>5. QED
  BY <1>2, <1>3, <1>4

LEMMA Quotient ==
  ASSUME NEW a \in Int, NEW p \in Nat \ {0}, NEW x \in Int,
         p * x <= a, a < p * x + p
  PROVE  a \div p = x
<1>1. /\ a \div p \in Int /\ a % p \in Nat /\ a % p < p
      /\ a = p * (a \div p) + (a % p)
  BY Division
<1>2. p * x \in Int /\ p * (a \div p) \in Int
  BY <1>1
<1>3. CASE x < a \div p
  BY <1>1, <1>2, <1>3, Larger
<1>4. CASE a \div p < x
  BY <1>1, <1>2, <1>4, Larger
<1>5. QED
  BY <1>1, <1>3, <1>4

(* Dividing by half as much brings one binary digit more.                  *)
LEMMA NextDigit ==
  ASSUME NEW a \in Nat, NEW p \in Nat \ {0}
  PROVE  /\ a \div p \in Nat
         /\ a \div p = 2 * (a \div (2 * p)) + ((a \div p) % 2)
<1> DEFINE d == a \div p
           u == d \div 2
<1>1. d \in Int /\ p * d <= a /\ a < p * d + p /\ p * d \in Int
  BY Division
<1>2. d \in Nat
  <2>1. CASE d < 0
    <3>1. p * d + p <= p * 0
      BY <1>1, <2>1, Larger
    <3>2. QED
      BY <1>1, <3>1
  <2>2. QED
    BY <1>1, <2>1
<1> HIDE DEF d
<1>3. d = 2 * u + (d % 2) /\ u \in Int /\ d % 2 \in {0, 1}
  BY <1>2
<1> HIDE DEF u
<1>4. (2 * p) * u = p * (2 * u) /\ p * (2 * u) \in Int
  BY <1>3
<1>5. (2 * p) * u <= a /\ a < (2 * p) * u + 2 * p
  <2>1. CASE d = 2 * u
    BY <1>1, <1>4, <2>1
  <2>2. CASE d = 2 * u + 1
    <3>1. p * (2 * u + 1) = p * (2 * u) + p
      BY <1>3
    <3>2. QED
      BY <1>1, <1>4, <2>2, <3>1
  <2>3. QED
    BY <1>3, <2>1, <2>2
<1>6. a \div (2 * p) = u
  BY <1>3, <1>5, Quotient
<1>7. QED
  BY <1>2, <1>3, <1>6 DEF d

(* Two numbers less than the modulus apart differ modulo it.               *)
LEMMA NearbyDiffer ==
  ASSUME NEW p \in Nat \ {0}, NEW a \in Int, NEW b \in Int,
         a # b, a - b < p, b - a < p
  PROVE  a % p # b % p
<1> SUFFICES ASSUME a % p = b % p PROVE FALSE
  OBVIOUS
<1>1. /\ a \div p \in Int /\ b \div p \in Int /\ a % p \in Int
      /\ a = p * (a \div p) + (a % p) /\ b = p * (b \div p) + (b % p)
  BY Division
<1>2. p * (a \div p) \in Int /\ p * (b \div p) \in Int
  BY <1>1
<1>3. CASE a \div p < b \div p
  BY <1>1, <1>2, <1>3, Larger
<1>4. CASE b \div p < a \div p
  BY <1>1, <1>2, <1>4, Larger
<1>5. CASE a \div p = b \div p
  BY <1>1, <1>2, <1>5
<1>6. QED
  BY <1>1, <1>3, <1>4, <1>5

-----------------------------------------------------------------------------
(* The loop of dht11_read.                                                 *)

(* Every second pulse from the fifth on was a bit.                         *)
Counted ==
  /\ i \in 0 .. 4 => j = 0
  /\ i > 4 /\ i % 2 = 0 => 2 * j = i - 4
  /\ i > 4 /\ i % 2 = 1 => 2 * j = i - 3

(* While no pulse was split the sensor is not behind the loop.             *)
Ahead == glitches = 0 => split = 0 /\ i <= pos /\ ~overrun

InTime == /\ i \in Nat /\ j \in Nat /\ pos \in Nat /\ glitches \in Nat /\ split \in 0 .. 2
          /\ overrun \in BOOLEAN
          /\ phase = "poll" => i < MAX_TIMING

Sound == InTime /\ Counted /\ Ahead

LEMMA Sizes == Total \in Nat /\ MAX_TIMING = 2 * Total + 5 /\ Pulses = 2 * Total + 4
BY Dht11Constants DEF Total, MAX_TIMING, Pulses

(* One turn of the loop.                                                   *)
LEMMA TurnStep ==
  ASSUME Sound, NEW length, Turn(length),
         glitches = 0 => length = "endless" \/ pos < Pulses
  PROVE  /\ i' \in Nat /\ j' \in Nat /\ overrun' \in BOOLEAN
         /\ phase' = "poll" => i' < MAX_TIMING
         /\ Counted' /\ i' <= i + 1 /\ (length = "endless" => i' = i)
         /\ glitches = 0 => ~overrun'
<1>1. /\ i \in Nat /\ j \in Nat /\ pos \in Nat /\ glitches \in Nat /\ i < MAX_TIMING
      /\ Counted /\ (glitches = 0 => i <= pos /\ ~overrun) /\ overrun \in BOOLEAN
  <2>1. phase = "poll"
    BY DEF Turn
  <2>2. QED
    BY <2>1 DEF Sound, InTime, Ahead
<1>2. CASE length = "endless"
  <2>1. phase' = "judge" /\ UNCHANGED <<i, j, overrun>>
    BY <1>2 DEF Turn
  <2>2. QED
    BY <1>1, <1>2, <2>1 DEF Counted
<1>3. CASE length # "endless"
  <2>1. i' = i + 1 /\ (phase' = "poll" => i' < MAX_TIMING)
    BY <1>1, <1>3, Sizes DEF Turn
  <2>2. CASE IsBit(i)
    <3>1. /\ i >= 4 /\ i % 2 = 0 /\ j' = j + 1
          /\ overrun' = IF j < Total THEN overrun ELSE TRUE
      BY <1>3, <2>2 DEF Turn, Store, IsBit
    <3>2. 2 * j = i - 4 /\ (i + 1) % 2 = 1
      BY <1>1, <3>1 DEF Counted
    <3>3. Counted'
      BY <1>1, <2>1, <3>1, <3>2 DEF Counted
    <3>4. glitches = 0 => j < Total
      BY <1>1, <1>3, <3>2, Sizes
    <3>5. overrun' \in BOOLEAN /\ (glitches = 0 => ~overrun')
      <4>1. overrun' = overrun \/ (j >= Total /\ overrun' = TRUE)
        BY <1>1, <1>3, <2>2, Sizes DEF Turn, Store
      <4>2. CASE overrun' = overrun
        BY <1>1, <4>2, Zenon
      <4>3. CASE j >= Total /\ overrun' = TRUE
        <5>1. glitches # 0
          BY <1>1, <3>4, <4>3, Sizes
        <5>2. QED
          BY <4>3, <5>1, Zenon
      <4>4. QED
        BY <4>1, <4>2, <4>3
    <3>6. i' \in Nat /\ j' \in Nat /\ i' <= i + 1
      BY <1>1, <2>1, <3>1
    <3>7. QED
      BY <1>3, <2>1, <3>3, <3>5, <3>6, Zenon
  <2>3. CASE ~IsBit(i)
    <3>1. UNCHANGED <<j, overrun>> /\ (i < 4 \/ i % 2 # 0)
      BY <1>1, <1>3, <2>3 DEF Turn, IsBit
    <3>2. Counted'
      BY <1>1, <2>1, <3>1 DEF Counted
    <3>3. QED
      BY <1>1, <1>3, <2>1, <3>1, <3>2
  <2>4. QED
    BY <2>2, <2>3
<1>4. QED
  BY <1>2, <1>3

LEMMA SoundStep == Sound /\ [Next]_vars => Sound'
<1> SUFFICES ASSUME Sound, [Next]_vars PROVE Sound'
  OBVIOUS
<1>a. /\ i \in Nat /\ j \in Nat /\ pos \in Nat /\ glitches \in Nat /\ split \in 0 .. 2
      /\ Counted /\ Ahead /\ overrun \in BOOLEAN
  BY DEF Sound, InTime
<1>1. CASE Start
  <2>1. i' = 0 /\ j' = 0 /\ pos' = 0 /\ split' = 0 /\ glitches' = 0 /\ ~overrun'
    BY <1>1 DEF Start
  <2>a. overrun' \in BOOLEAN
    BY <1>1, Zenon DEF Start
  <2>2. InTime'
    BY <2>1, <2>a, Sizes DEF InTime
  <2>3. QED
    BY <2>1, <2>2 DEF Sound, Counted, Ahead
<1>2. CASE Clean
  <2>1. glitches = 0 => Pulse(pos) = "endless" \/ pos < Pulses
    BY <1>a, Sizes DEF Pulse
  <2>2. QED
    BY <1>2, <1>a, <2>1, TurnStep DEF Clean, Sound, InTime, Ahead
<1>3. CASE Misread
  <2>1. pos < Pulses
    BY <1>3, <1>a, Sizes DEF Misread
  <2>2. QED
    BY <1>3, <1>a, <2>1, TurnStep DEF Misread, Sound, InTime, Ahead
<1>4. CASE Lose
  <2>1. PICK length \in Lengths, n \in 1 .. Pulses - pos - 1 :
          /\ Turn(length) /\ pos' = pos + 1 + n /\ UNCHANGED <<split, glitches>> /\ split = 0
    BY <1>4 DEF Lose
  <2>2. pos < Pulses /\ n \in Nat /\ pos' \in Nat /\ pos + 1 <= pos'
    BY <1>a, <2>1, Sizes
  <2>3. QED
    BY <1>a, <2>1, <2>2, TurnStep DEF Sound, InTime, Ahead
<1>5. CASE Stop
  <2>1. /\ Turn("endless") /\ pos < Pulses /\ pos' = Pulses
        /\ UNCHANGED <<split, glitches>> /\ split = 0
    BY <1>5 DEF Stop
  <2>2. i' = i /\ pos' \in Nat /\ pos < pos'
    BY <1>a, <2>1, Sizes DEF Turn
  <2>3. QED
    BY <1>a, <2>1, <2>2, TurnStep DEF Sound, InTime, Ahead
<1>6. CASE Glitch
  <2>1. PICK length \in Lengths :
          /\ Turn(length) /\ pos < Pulses /\ pos' = pos
          /\ split' \in {1, 2} /\ glitches' = glitches + 1
    BY <1>6 DEF Glitch
  <2>2. QED
    BY <1>a, <2>1, TurnStep DEF Sound, InTime, Ahead
<1>7. CASE RestOfSplit
  <2>1. PICK length \in Lengths :
          /\ Turn(length) /\ split > 0 /\ split' = split - 1 /\ glitches' = glitches
          /\ pos' = IF split = 1 THEN pos + 1 ELSE pos
    BY <1>7 DEF RestOfSplit
  <2>2. glitches > 0
    BY <1>a, <2>1 DEF Ahead
  <2>3. QED
    BY <1>a, <2>1, <2>2, TurnStep DEF Sound, InTime, Ahead
<1>8. CASE Judge \/ Delay
  <2>1. phase' # "poll" /\ UNCHANGED <<i, j, overrun, pos, split, glitches>>
    BY <1>8 DEF Judge, Delay
  <2>2. QED
    BY <1>a, <2>1 DEF Sound, InTime, Counted, Ahead
<1>9. CASE UNCHANGED vars
  BY <1>9 DEF vars, Sound, InTime, Counted, Ahead
<1>10. QED
  BY <1>1, <1>2, <1>3, <1>4, <1>5, <1>6, <1>7, <1>8, <1>9 DEF Next

LEMMA SoundInit == Init => Sound
<1> SUFFICES ASSUME Init PROVE Sound
  OBVIOUS
<1>1. i = 0 /\ j = 0 /\ pos = 0 /\ split = 0 /\ glitches = 0 /\ ~overrun
  BY DEF Init
<1>2. overrun \in BOOLEAN /\ phase # "poll"
  BY Zenon DEF Init
<1>3. QED
  BY <1>1, <1>2 DEF Sound, InTime, Counted, Ahead

(* However many pulses are lost or misread, all bits fit.                  *)
THEOREM AllBitsFit == Spec => []BitsFit
<1>1. Sound => BitsFit
  BY DEF Sound, InTime, Ahead, BitsFit
<1>2. QED
  BY <1>1, SoundInit, SoundStep, PTL DEF Spec

-----------------------------------------------------------------------------
(* What dht11_read prints is what the sensor sent.  After n bits, Taken of *)
(* them belong to byte b, and Right is what its leading bits amount to.    *)
Taken(b, n) == IF n <= Bits * b THEN 0
               ELSE IF n < Bits * b + Bits THEN n - Bits * b ELSE Bits
Right(m, b, n) == m[b] \div 2^(Bits - Taken(b, n))

Exact == \A b \in Bytes : data[b] = Right(sent, b, j)

(* A misread bit is worth a power of two, and twice as much with each bit  *)
(* of the byte that follows.                                               *)
OneOff == \E e \in Bytes, s \in Nat :
  /\ s < Taken(e, j)
  /\ \/ data[e] = Right(sent, e, j) + 2^s
     \/ data[e] = Right(sent, e, j) - 2^s
  /\ \A b \in Bytes \ {e} : data[b] = Right(sent, b, j)

Stored ==
  /\ data \in [Bytes -> Int] /\ sent \in [Bytes -> 0 .. 2^Bits - 1]
  /\ sent[4] = CheckByte(sent) /\ misread \in Nat /\ lost \in Nat

(* The sensor is ahead of the loop by the pulses that were lost; an answer *)
(* that loses none ends when the sensor has sent all of them.              *)
InStep == glitches = 0 =>
  /\ i + lost <= Pulses
  /\ phase = "poll" => pos = i + lost
  /\ lost = 0 /\ phase \in {"judge", "good", "bad"} => i = Pulses

Decoded == glitches = 0 /\ lost = 0 =>
  /\ misread = 0 => Exact
  /\ misread = 1 => Exact \/ OneOff

Judged ==
  /\ phase = "good" => Complete /\ data[4] = Checksum(data)
  /\ phase = "bad" => ~(Complete /\ data[4] = Checksum(data))

Answered == Sound /\ Stored /\ InStep /\ Decoded /\ Judged

LEMMA PowerOfBits == Bits \in Nat /\ Bits > 0 /\ 2^Bits \in Nat /\ 2^Bits > 0
BY Dht11Constants, PowerPositive

LEMMA RightType ==
  ASSUME NEW m \in [Bytes -> 0 .. 2^Bits - 1], NEW b \in Bytes, NEW n \in Nat
  PROVE  Taken(b, n) \in 0 .. Bits /\ Right(m, b, n) \in Int
<1>1. b \in Nat /\ Bits * b \in Nat
  BY PowerOfBits DEF Bytes
<1>2. Taken(b, n) \in 0 .. Bits
  BY <1>1, PowerOfBits DEF Taken
<1>3. Bits - Taken(b, n) \in Nat
  BY <1>2, PowerOfBits
<1>4. 2^(Bits - Taken(b, n)) \in Nat \ {0} /\ m[b] \in Int
  BY <1>3, PowerPositive, PowerOfBits
<1>5. QED
  BY <1>2, <1>4, Division DEF Right

(* Before the first bit nothing of a byte is there, after the last one all.*)
LEMMA RightEnds ==
  ASSUME NEW m \in [Bytes -> 0 .. 2^Bits - 1], NEW b \in Bytes
  PROVE  Right(m, b, 0) = 0 /\ Right(m, b, Total) = m[b]
<1>1. m[b] \in Nat /\ m[b] < 2^Bits /\ b \in 0 .. 4
  BY PowerOfBits DEF Bytes
<1>2. Taken(b, 0) = 0 /\ Taken(b, Total) = Bits
  BY <1>1, PowerOfBits DEF Taken, Total
<1>3. m[b] \div 2^Bits = 0
  <2>1. 2^Bits * 0 <= m[b] /\ m[b] < 2^Bits * 0 + 2^Bits
    BY <1>1, PowerOfBits
  <2>2. QED
    BY <1>1, <2>1, PowerOfBits, Quotient
<1>4. m[b] \div 1 = m[b]
  BY <1>1
<1>5. QED
  BY <1>2, <1>3, <1>4, PowerOfBits, PowerOfTwo DEF Right

(* One more bit doubles its byte and adds the bit; the others are as they  *)
(* were.                                                                   *)
LEMMA NextBit ==
  ASSUME sent \in [Bytes -> 0 .. 2^Bits - 1], data \in [Bytes -> Int],
         j \in Nat, j < Total, NEW v \in {0, 1}, Store(v)
  PROVE  /\ j' = j + 1 /\ data' \in [Bytes -> Int] /\ Bit(j) \in {0, 1}
         /\ \E e \in Bytes :
              /\ data'[e] = 2 * data[e] + v /\ Taken(e, j + 1) = Taken(e, j) + 1
              /\ Right(sent, e, j + 1) = 2 * Right(sent, e, j) + Bit(j)
              /\ \A b \in Bytes \ {e} :
                   /\ data'[b] = data[b] /\ Taken(b, j + 1) = Taken(b, j)
                   /\ Right(sent, b, j + 1) = Right(sent, b, j)
<1>1. PICK e \in Bytes : Bits * e <= j /\ j < Bits * e + Bits
  <2>1. \/ Bits * 0 <= j /\ j < Bits * 0 + Bits
        \/ Bits * 1 <= j /\ j < Bits * 1 + Bits
        \/ Bits * 2 <= j /\ j < Bits * 2 + Bits
        \/ Bits * 3 <= j /\ j < Bits * 3 + Bits
        \/ Bits * 4 <= j /\ j < Bits * 4 + Bits
    BY PowerOfBits DEF Total
  <2>2. 0 \in Bytes /\ 1 \in Bytes /\ 2 \in Bytes /\ 3 \in Bytes /\ 4 \in Bytes
    BY DEF Bytes
  <2>3. QED
    BY <2>1, <2>2
<1>2. e \in Nat /\ Bits * e \in Nat
  BY PowerOfBits DEF Bytes
<1>3. j \div Bits = e /\ j % Bits = j - Bits * e
  <2>1. j \div Bits = e
    BY <1>1, <1>2, PowerOfBits, Quotient
  <2>2. j = Bits * (j \div Bits) + (j % Bits) /\ j % Bits \in Nat
    BY PowerOfBits, Division
  <2>3. QED
    BY <1>2, <2>1, <2>2
<1>4. /\ j' = j + 1 /\ data' = [data EXCEPT ![e] = 2 * data[e] + v]
      /\ data' \in [Bytes -> Int]
  BY <1>3 DEF Store
<1>5. Taken(e, j) = j - Bits * e /\ Taken(e, j + 1) = j + 1 - Bits * e
  BY <1>1, <1>2, PowerOfBits DEF Taken
<1>6. \A b \in Bytes \ {e} : Taken(b, j + 1) = Taken(b, j)
  <2>1. ASSUME NEW b \in Bytes \ {e} PROVE j + 1 <= Bits * b \/ Bits * b + Bits <= j
    <3>1. b \in Nat /\ Bits * b \in Nat /\ (b < e \/ e < b)
      BY <1>2, PowerOfBits DEF Bytes
    <3>2. CASE b < e
      BY <1>1, <1>2, <3>1, <3>2, PowerOfBits, Larger
    <3>3. CASE e < b
      BY <1>1, <1>2, <3>1, <3>3, PowerOfBits, Larger
    <3>4. QED
      BY <3>1, <3>2, <3>3
  <2>2. \A b \in Bytes : Bits * b \in Nat
    BY PowerOfBits DEF Bytes
  <2>3. QED
    BY <2>1, <2>2, PowerOfBits DEF Taken
<1> DEFINE t == Bits - 1 - (j % Bits)
           p == 2^t
<1>7. t \in Nat /\ Bits - Taken(e, j) = t + 1 /\ Bits - Taken(e, j + 1) = t
  BY <1>1, <1>2, <1>3, <1>5, PowerOfBits
<1>8. p \in Nat \ {0} /\ 2^(t + 1) = 2 * p
  <2> HIDE DEF t
  <2>1. QED
    BY <1>7, PowerOfTwo, PowerPositive
<1>9. Bit(j) = (sent[e] \div p) % 2
  BY <1>3 DEF Bit
<1>10. Right(sent, e, j) = sent[e] \div (2 * p) /\ Right(sent, e, j + 1) = sent[e] \div p
  BY <1>7, <1>8 DEF Right
<1>11. sent[e] \in Nat
  BY PowerOfBits
<1> HIDE DEF p, t
<1>12. /\ Right(sent, e, j + 1) = 2 * Right(sent, e, j) + Bit(j)
       /\ sent[e] \div p \in Nat
  BY <1>8, <1>9, <1>10, <1>11, NextDigit
<1>13. Bit(j) \in {0, 1}
  BY <1>9, <1>12
<1>14. \A b \in Bytes \ {e} : /\ data'[b] = data[b]
                              /\ Right(sent, b, j + 1) = Right(sent, b, j)
  BY <1>4, <1>6 DEF Right
<1>15. data'[e] = 2 * data[e] + v
  BY <1>4
<1>16. Taken(e, j + 1) = Taken(e, j) + 1
  BY <1>2, <1>5
<1>17. QED
  BY <1>4, <1>6, <1>12, <1>13, <1>14, <1>15, <1>16, Zenon

(* A turn of the loop, which stores the bit it is on or its complement.    *)
LEMMA DecodeStep ==
  ASSUME Answered, glitches = 0, pos = i, pos < Pulses,
         NEW length \in {"long", "short"}, Turn(length)
  PROVE  /\ length = Pulse(i) =>
              /\ Exact => Exact'
              /\ OneOff => OneOff'
         /\ length # Pulse(i) /\ Exact => Exact' \/ OneOff'
<1>1. /\ Stored /\ Counted /\ i \in Nat /\ j \in Nat /\ pos \in Nat
  BY DEF Answered, Sound, InTime
<1>2. UNCHANGED sent
  BY DEF Turn
<1>3. CASE ~IsBit(i)
  <2>1. UNCHANGED <<data, j>>
    BY <1>3 DEF Turn
  <2>2. QED
    BY <1>2, <2>1 DEF Exact, OneOff
<1>4. CASE IsBit(i)
  <2> DEFINE v == IF length = "long" THEN 1 ELSE 0
  <2>1. Store(v) /\ v \in {0, 1}
    BY <1>4 DEF Turn
  <2>2. i >= 4 /\ i % 2 = 0 /\ 2 * j = i - 4 /\ j < Total /\ (i - 4) \div 2 = j
    <3>1. i >= 4 /\ i % 2 = 0 /\ 2 * j = i - 4
      BY <1>1, <1>4 DEF IsBit, Counted
    <3>2. j < Total
      BY <1>1, <3>1, Sizes
    <3>3. (i - 4) \div 2 = j
      BY <1>1, <3>1
    <3>4. QED
      BY <3>1, <3>2, <3>3
  <2>3. Pulse(i) = IF Bit(j) = 0 THEN "short" ELSE "long"
    <3>1. i < Pulses
      OBVIOUS
    <3>2. Bit((i - 4) \div 2) = Bit(j)
      BY <2>2
    <3>3. QED
      BY <1>1, <2>2, <3>1, <3>2, Sizes DEF Pulse
  <2> HIDE DEF v
  <2>4. /\ j' = j + 1 /\ data' \in [Bytes -> Int] /\ Bit(j) \in {0, 1}
        /\ \E e \in Bytes :
             /\ data'[e] = 2 * data[e] + v /\ Taken(e, j + 1) = Taken(e, j) + 1
             /\ Right(sent, e, j + 1) = 2 * Right(sent, e, j) + Bit(j)
             /\ \A b \in Bytes \ {e} :
                  /\ data'[b] = data[b] /\ Taken(b, j + 1) = Taken(b, j)
                  /\ Right(sent, b, j + 1) = Right(sent, b, j)
    BY <1>1, <2>1, <2>2, NextBit DEF Stored
  <2>5. PICK e \in Bytes :
             /\ data'[e] = 2 * data[e] + v /\ Taken(e, j + 1) = Taken(e, j) + 1
             /\ Right(sent, e, j + 1) = 2 * Right(sent, e, j) + Bit(j)
             /\ \A b \in Bytes \ {e} :
                  /\ data'[b] = data[b] /\ Taken(b, j + 1) = Taken(b, j)
                  /\ Right(sent, b, j + 1) = Right(sent, b, j)
    BY <2>4
  <2>6. /\ data[e] \in Int /\ data'[e] \in Int
        /\ \A b \in Bytes : Right(sent, b, j) \in Int /\ Taken(b, j) \in Nat
    BY <1>1, <2>4, RightType, PowerOfBits DEF Stored
  <2>7. (length = Pulse(i)) = (v = Bit(j)) /\ v \in {0, 1}
    BY <2>1, <2>3, <2>4 DEF v
  <2>8. ASSUME v = Bit(j), Exact PROVE Exact'
    BY <1>2, <2>4, <2>5, <2>8 DEF Exact
  <2>9. ASSUME v # Bit(j), Exact PROVE OneOff'
    <3>1. data[e] = Right(sent, e, j)
      BY <2>9 DEF Exact
    <3>2. \/ data'[e] = Right(sent, e, j + 1) + 1
          \/ data'[e] = Right(sent, e, j + 1) - 1
      BY <2>4, <2>5, <2>6, <2>7, <2>9, <3>1
    <3>3. 0 \in Nat /\ 0 < Taken(e, j + 1) /\ 2^0 = 1
      BY <2>5, <2>6, PowerOfTwo
    <3>4. \A b \in Bytes \ {e} : data'[b] = Right(sent, b, j + 1)
      BY <2>5, <2>9 DEF Exact
    <3>5. QED
      BY <1>2, <2>4, <3>2, <3>3, <3>4 DEF OneOff
  <2>10. ASSUME v = Bit(j), OneOff PROVE OneOff'
    <3>1. PICK d \in Bytes, s \in Nat :
            /\ s < Taken(d, j)
            /\ \/ data[d] = Right(sent, d, j) + 2^s
               \/ data[d] = Right(sent, d, j) - 2^s
            /\ \A b \in Bytes \ {d} : data[b] = Right(sent, b, j)
      BY <2>10 DEF OneOff
    <3>2. 2^s \in Int /\ 2^(s + 1) = 2 * 2^s /\ s + 1 \in Nat
      BY PowerOfTwo
    <3>3. CASE d = e
      <4>1. \/ data'[e] = Right(sent, e, j + 1) + 2 * 2^s
            \/ data'[e] = Right(sent, e, j + 1) - 2 * 2^s
        BY <2>5, <2>6, <2>7, <2>10, <3>1, <3>2, <3>3
      <4>2. s + 1 < Taken(e, j + 1)
        BY <2>5, <2>6, <3>1, <3>3
      <4>3. \A b \in Bytes \ {e} : data'[b] = Right(sent, b, j + 1)
        BY <2>5, <3>1, <3>3
      <4>4. QED
        BY <1>2, <2>4, <3>2, <4>1, <4>2, <4>3 DEF OneOff
    <3>4. CASE d # e
      <4>1. data'[e] = Right(sent, e, j + 1)
        BY <2>5, <2>10, <3>1, <3>4
      <4>2. \A b \in Bytes \ {d} : data'[b] = Right(sent, b, j + 1)
        BY <2>5, <3>1, <4>1
      <4>3. /\ data'[d] = data[d] /\ Right(sent, d, j + 1) = Right(sent, d, j)
            /\ Taken(d, j + 1) = Taken(d, j)
        BY <2>5, <3>4
      <4>4. QED
        BY <1>2, <2>4, <3>1, <4>2, <4>3 DEF OneOff
    <3>5. QED
      BY <3>3, <3>4
  <2>11. QED
    BY <2>7, <2>8, <2>9, <2>10
<1>5. QED
  BY <1>3, <1>4

(* What any turn keeps.                                                    *)
LEMMA TurnType ==
  ASSUME Answered, NEW length, Turn(length), misread' \in Nat, lost' \in Nat
  PROVE  /\ Stored' /\ Judged' /\ phase' \in {"poll", "judge"}
         /\ phase = "poll" /\ i < MAX_TIMING
<1>1. data' \in [Bytes -> Int]
  <2>1. data \in [Bytes -> Int]
    BY DEF Answered, Stored
  <2>2. ASSUME NEW v \in {0, 1}, Store(v) PROVE data' \in [Bytes -> Int]
    BY <2>1, <2>2 DEF Store
  <2>3. UNCHANGED data \/ Store(0) \/ Store(1)
    BY DEF Turn
  <2>4. QED
    BY <2>1, <2>2, <2>3
<1>2. UNCHANGED sent /\ phase' \in {"poll", "judge"} /\ phase = "poll"
  BY DEF Turn
<1>3. Stored'
  BY <1>1, <1>2 DEF Answered, Stored, CheckByte
<1>4. QED
  BY <1>2, <1>3 DEF Judged, Answered, Sound, InTime

LEMMA AnsweredStep == Answered /\ [Next]_vars => Answered'
<1> SUFFICES ASSUME Answered, [Next]_vars PROVE Answered'
  OBVIOUS
<1>a. /\ Sound /\ Stored /\ InStep /\ Decoded /\ Judged /\ Sound'
      /\ i \in Nat /\ j \in Nat /\ pos \in Nat /\ misread \in Nat /\ lost \in Nat
      /\ glitches \in Nat /\ (phase = "poll" => i < MAX_TIMING)
  BY SoundStep DEF Answered, Sound, InTime, Stored
<1>b. Pulses \in Nat /\ MAX_TIMING = Pulses + 1
  BY Sizes
<1>1. CASE Start
  <2>1. /\ phase' = "poll" /\ data' = Zero /\ i' = 0 /\ j' = 0 /\ pos' = 0
        /\ misread' = 0 /\ lost' = 0
    BY <1>1, Zenon DEF Start, Cleared
  <2>2. sent' \in [Bytes -> 0 .. 2^Bits - 1] /\ (sent[4] = CheckByte(sent))'
    <3>1. PICK m \in [0 .. 3 -> Values] :
            sent' = [b \in Bytes |-> IF b < 4 THEN m[b] ELSE CheckByte(m)]
      BY <1>1 DEF Start
    <3>2. \A b \in 0 .. 3 : m[b] \in 0 .. 2^Bits - 1
      BY Dht11Constants
    <3>3. CheckByte(m) \in 0 .. 2^Bits - 1
      <4>1. m[0] + m[1] + m[2] + m[3] \in Int
        BY <3>2, PowerOfBits
      <4> DEFINE sum == m[0] + m[1] + m[2] + m[3]
      <4> HIDE DEF sum
      <4>2. sum % 2^Bits \in 0 .. 2^Bits - 1
        BY <4>1, PowerOfBits, Division DEF sum
      <4>3. QED
        BY <4>2 DEF sum, CheckByte
    <3>4. sent' \in [Bytes -> 0 .. 2^Bits - 1]
      BY <3>1, <3>2, <3>3 DEF Bytes
    <3>5. /\ sent'[0] = m[0] /\ sent'[1] = m[1] /\ sent'[2] = m[2] /\ sent'[3] = m[3]
          /\ sent'[4] = CheckByte(m)
      BY <3>1 DEF Bytes
    <3>6. QED
      BY <3>4, <3>5 DEF CheckByte
  <2>3. Exact'
    BY <2>1, <2>2, RightEnds DEF Exact, Zero
  <2>4. Stored'
    BY <2>1, <2>2 DEF Stored, Zero
  <2>5. InStep' /\ Judged'
    BY <2>1, <1>b DEF InStep, Judged
  <2>6. QED
    BY <1>a, <2>3, <2>4, <2>5, <2>1 DEF Answered, Decoded
<1>2. CASE Clean
  <2>1. /\ Turn(Pulse(pos)) /\ pos' = pos + 1
        /\ UNCHANGED <<misread, lost, glitches>>
    BY <1>2 DEF Clean
  <2>2. /\ Stored' /\ Judged' /\ phase' \in {"poll", "judge"}
        /\ phase = "poll" /\ i < MAX_TIMING
    BY <1>a, <2>1, TurnType
  <2>3. CASE glitches # 0
    BY <1>a, <2>1, <2>2, <2>3 DEF Answered, InStep, Decoded
  <2>4. CASE glitches = 0 /\ pos >= Pulses
    <3>1. Pulse(pos) = "endless" /\ phase' = "judge" /\ UNCHANGED <<i, j, data, sent>>
      BY <2>1, <2>4 DEF Pulse, Turn
    <3>2. pos = Pulses /\ pos = i + lost
      BY <1>a, <1>b, <2>2, <2>4 DEF InStep
    <3>3. Exact' = Exact /\ OneOff' = OneOff
      BY <3>1 DEF Exact, OneOff
    <3>4. InStep'
      BY <1>a, <1>b, <2>1, <2>4, <3>1, <3>2 DEF InStep
    <3>5. Decoded'
      BY <1>a, <2>1, <3>3 DEF Decoded
    <3>6. QED
      BY <1>a, <2>2, <3>4, <3>5 DEF Answered
  <2>5. CASE glitches = 0 /\ pos < Pulses
    <3>1. Pulse(pos) \in {"long", "short"} /\ pos = i + lost
      BY <1>a, <1>b, <2>2, <2>5 DEF Pulse, InStep
    <3>2. i' = i + 1 /\ (phase' = "judge" => i + 1 = MAX_TIMING)
      BY <2>1, <3>1 DEF Turn
    <3>3. InStep'
      BY <1>a, <1>b, <2>1, <2>2, <2>5, <3>1, <3>2 DEF InStep
    <3>4. Decoded'
      <4>1. CASE lost = 0
        BY <1>a, <2>1, <2>5, <3>1, <4>1, DecodeStep DEF Decoded
      <4>2. CASE lost # 0
        BY <2>1, <4>2 DEF Decoded
      <4>3. QED
        BY <4>1, <4>2
    <3>5. QED
      BY <1>a, <2>2, <3>3, <3>4 DEF Answered
  <2>6. QED
    BY <1>a, <1>b, <2>3, <2>4, <2>5
<1>3. CASE Misread
  <2> DEFINE length == IF Pulse(pos) = "long" THEN "short" ELSE "long"
  <2>1. /\ Turn(length) /\ length \in {"long", "short"} /\ pos' = pos + 1 /\ pos < Pulses
        /\ misread' = misread + 1 /\ UNCHANGED <<lost, glitches>>
    BY <1>3, <1>b DEF Misread
  <2>2. Pulse(pos) \in {"long", "short"}
    BY <1>a, <1>b, <2>1 DEF Pulse
  <2>3. length # Pulse(pos)
    BY <2>2
  <2> HIDE DEF length
  <2>4. /\ Stored' /\ Judged' /\ phase' \in {"poll", "judge"}
        /\ phase = "poll" /\ i < MAX_TIMING
    BY <1>a, <2>1, TurnType
  <2>5. i' = i + 1 /\ (phase' = "judge" => i + 1 = MAX_TIMING)
    BY <2>1 DEF Turn
  <2>6. InStep'
    BY <1>a, <1>b, <2>1, <2>4, <2>5 DEF InStep
  <2>7. Decoded'
    <3>1. CASE glitches = 0 /\ lost = 0
      <4>1. Exact => Exact' \/ OneOff'
        <5>1. pos = i
          BY <1>a, <2>4, <3>1 DEF InStep
        <5>2. QED
          BY <1>a, <2>1, <2>3, <3>1, <5>1, DecodeStep DEF Answered
      <4>2. misread' = 1 => Exact
        BY <1>a, <2>1, <3>1 DEF Decoded
      <4>3. QED
        BY <1>a, <2>1, <4>1, <4>2 DEF Decoded
    <3>2. CASE glitches # 0 \/ lost # 0
      BY <2>1, <3>2 DEF Decoded
    <3>3. QED
      BY <3>1, <3>2
  <2>8. QED
    BY <1>a, <2>4, <2>6, <2>7 DEF Answered
<1>4. CASE Lose
  <2>1. PICK length \in Lengths, n \in 1 .. Pulses - pos - 1 :
          /\ Turn(length) /\ pos' = pos + 1 + n /\ lost' = lost + n
          /\ UNCHANGED <<misread, glitches>>
    BY <1>4 DEF Lose
  <2>2. lost' \in Nat /\ lost' > 0 /\ pos + 1 + n <= Pulses /\ length # "endless"
    BY <1>a, <1>b, <2>1 DEF Lengths
  <2>3. /\ Stored' /\ Judged' /\ phase' \in {"poll", "judge"}
        /\ phase = "poll" /\ i < MAX_TIMING
    BY <1>a, <2>1, <2>2, TurnType
  <2>4. i' = i + 1
    BY <2>1, <2>2 DEF Turn
  <2>5. InStep'
    BY <1>a, <1>b, <2>1, <2>2, <2>3, <2>4 DEF InStep
  <2>6. Decoded'
    BY <2>2 DEF Decoded
  <2>7. QED
    BY <1>a, <2>3, <2>5, <2>6 DEF Answered
<1>5. CASE Stop
  <2>1. /\ Turn("endless") /\ pos < Pulses /\ lost' = lost + Pulses - pos
        /\ UNCHANGED <<misread, glitches>>
    BY <1>5 DEF Stop
  <2>2. lost' \in Nat /\ lost' > 0
    BY <1>a, <1>b, <2>1
  <2>3. /\ Stored' /\ Judged' /\ phase' = "judge" /\ phase = "poll" /\ i' = i
    <3>1. Stored' /\ Judged' /\ phase = "poll"
      BY <1>a, <2>1, <2>2, TurnType
    <3>2. QED
      BY <2>1, <3>1 DEF Turn
  <2>4. InStep'
    BY <1>a, <1>b, <2>1, <2>2, <2>3 DEF InStep
  <2>5. Decoded'
    BY <2>2 DEF Decoded
  <2>6. QED
    BY <1>a, <2>3, <2>4, <2>5 DEF Answered
<1>6. CASE Glitch
  <2>1. PICK length \in Lengths :
          Turn(length) /\ glitches' = glitches + 1 /\ UNCHANGED <<misread, lost>>
    BY <1>6 DEF Glitch
  <2>2. Stored' /\ Judged'
    BY <1>a, <2>1, TurnType
  <2>3. QED
    BY <1>a, <2>1, <2>2 DEF Answered, InStep, Decoded
<1>7. CASE RestOfSplit
  <2>1. PICK length \in Lengths :
          Turn(length) /\ UNCHANGED <<misread, lost, glitches>> /\ glitches # 0
    BY <1>7, <1>a DEF RestOfSplit, Sound, InTime, Ahead
  <2>2. Stored' /\ Judged'
    BY <1>a, <2>1, TurnType
  <2>3. QED
    BY <1>a, <2>1, <2>2 DEF Answered, InStep, Decoded
<1>8. CASE Judge
  <2>1. /\ phase = "judge" /\ UNCHANGED <<data, i, j, sent, pos, misread, lost, glitches>>
        /\ phase' = IF Complete /\ data[4] = Checksum(data) THEN "good" ELSE "bad"
    BY <1>8 DEF Judge
  <2>2. Exact' = Exact /\ OneOff' = OneOff
    BY <2>1 DEF Exact, OneOff
  <2>3. Judged'
    BY <2>1 DEF Judged, Complete, Checksum
  <2>4. Stored' /\ InStep' /\ Decoded'
    BY <1>a, <2>1, <2>2 DEF Stored, CheckByte, InStep, Decoded
  <2>5. QED
    BY <1>a, <2>3, <2>4 DEF Answered
<1>9. CASE Delay
  <2>1. phase' = "idle" /\ UNCHANGED <<data, i, j, sent, pos, misread, lost, glitches>>
    BY <1>9 DEF Delay
  <2>2. Exact' = Exact /\ OneOff' = OneOff
    BY <2>1 DEF Exact, OneOff
  <2>3. Stored' /\ InStep' /\ Decoded' /\ Judged'
    BY <1>a, <2>1, <2>2 DEF Stored, CheckByte, InStep, Decoded, Judged
  <2>4. QED
    BY <1>a, <2>3 DEF Answered
<1>10. CASE UNCHANGED vars
  <2>1. UNCHANGED <<phase, data, i, j, sent, pos, misread, lost, glitches>>
    BY <1>10 DEF vars
  <2>2. Exact' = Exact /\ OneOff' = OneOff
    BY <2>1 DEF Exact, OneOff
  <2>3. Stored' /\ InStep' /\ Decoded' /\ Judged'
    BY <1>a, <2>1, <2>2 DEF Stored, CheckByte, InStep, Decoded, Judged, Complete, Checksum
  <2>4. QED
    BY <1>a, <2>3 DEF Answered
<1>11. QED
  BY <1>1, <1>2, <1>3, <1>4, <1>5, <1>6, <1>7, <1>8, <1>9, <1>10 DEF Next

LEMMA AnsweredInit == Init => Answered
<1> SUFFICES ASSUME Init PROVE Answered
  OBVIOUS
<1>1. /\ phase = "idle" /\ i = 0 /\ j = 0 /\ pos = 0 /\ misread = 0 /\ lost = 0
      /\ data = Zero /\ sent = Zero /\ glitches = 0
  BY DEF Init
<1>2. Sound
  BY <1>1, SoundInit
<1>3. sent \in [Bytes -> 0 .. 2^Bits - 1] /\ data \in [Bytes -> Int]
  BY <1>1, PowerOfBits DEF Zero
<1>4. sent[4] = CheckByte(sent)
  <2>1. 0 % 2^Bits = 0
    BY PowerOfBits, Division, Quotient
  <2>2. QED
    BY <1>1, <2>1, PowerOfBits DEF CheckByte, Zero, Bytes
<1>5. Exact
  BY <1>1, <1>3, RightEnds DEF Exact, Zero
<1>6. QED
  BY <1>1, <1>2, <1>3, <1>4, <1>5, Sizes DEF Answered, Stored, InStep, Decoded, Judged

(* All bits are there only if at most one pulse was lost.  If none was,    *)
(* the bytes are those the sensor sent, or, with a bit misread, one of     *)
(* them is off by a power of two.                                          *)
LEMMA AllBitsThere ==
  ASSUME Answered, glitches = 0, Complete
  PROVE  /\ lost < 2
         /\ lost = 0 /\ misread = 0 => data = sent
         /\ lost = 0 /\ misread = 1 =>
              \/ data = sent
              \/ \E e \in Bytes, s \in Nat :
                   /\ s < Bits
                   /\ data[e] = sent[e] + 2^s \/ data[e] = sent[e] - 2^s
                   /\ \A b \in Bytes \ {e} : data[b] = sent[b]
<1>1. /\ i \in Nat /\ j \in Nat /\ lost \in Nat /\ Counted /\ i + lost <= Pulses
      /\ data \in [Bytes -> Int] /\ sent \in [Bytes -> 0 .. 2^Bits - 1]
  BY DEF Answered, Sound, InTime, InStep, Stored
<1>2. j = Total /\ lost < 2
  <2>1. Total \in Nat /\ Total > 0 /\ Pulses = 2 * Total + 4 /\ j >= Total
    BY PowerOfBits, Sizes DEF Total, Complete
  <2>2. i > 4 /\ (i % 2 = 0 \/ i % 2 = 1)
    BY <1>1, <2>1 DEF Counted
  <2>3. 2 * j = i - 4 \/ (2 * j = i - 3 /\ i % 2 = 1)
    BY <1>1, <2>2 DEF Counted
  <2>4. QED
    BY <1>1, <2>1, <2>3
<1>3. lost = 0 => (misread = 0 => Exact) /\ (misread = 1 => Exact \/ OneOff)
  BY DEF Answered, Decoded
<1>4. \A b \in Bytes : Right(sent, b, j) = sent[b]
  BY <1>1, <1>2, RightEnds
<1>5. Exact => data = sent
  BY <1>1, <1>4 DEF Exact
<1>6. OneOff => \E e \in Bytes, s \in Nat :
                  /\ s < Bits
                  /\ data[e] = sent[e] + 2^s \/ data[e] = sent[e] - 2^s
                  /\ \A b \in Bytes \ {e} : data[b] = sent[b]
  <2>1. \A b \in Bytes : Taken(b, j) = Bits
    <3>1. \A b \in Bytes : Bits * b \in Nat /\ Bits * b + Bits <= Total
      BY PowerOfBits DEF Total, Bytes
    <3>2. QED
      BY <1>2, <3>1, PowerOfBits, Sizes DEF Taken
  <2>2. QED
    BY <1>4, <2>1 DEF OneOff
<1>7. QED
  BY <1>2, <1>3, <1>5, <1>6

(* The checksum notices one byte that is off by less than the modulus.     *)
LEMMA ChecksumNotices ==
  ASSUME Stored, NEW e \in Bytes, NEW s \in Nat, s < Bits,
         data[e] = sent[e] + 2^s \/ data[e] = sent[e] - 2^s,
         \A b \in Bytes \ {e} : data[b] = sent[b]
  PROVE  data[4] # Checksum(data)
<1>1. /\ data \in [Bytes -> Int] /\ sent \in [Bytes -> Int]
      /\ 2^s \in Nat /\ 2^s > 0 /\ 2^s < 2^Bits
  BY PowerOfBits, PowerPositive, PowerMonotonic DEF Stored
<1> DEFINE D == data[0] + data[1] + data[2] + data[3]
           S == sent[0] + sent[1] + sent[2] + sent[3]
<1>2. D \in Int /\ S \in Int
  BY <1>1 DEF Bytes
<1>3. Checksum(data) = D % 2^Bits /\ sent[4] = S % 2^Bits
  BY DEF Checksum, CheckByte, Stored
<1>4. CASE e = 4
  <2>1. D = S /\ data[4] # sent[4]
    BY <1>1, <1>4 DEF Bytes
  <2>2. QED
    BY <1>3, <2>1
<1>5. CASE e # 4
  <2>1. (D = S + 2^s \/ D = S - 2^s) /\ data[4] = sent[4]
    <3>1. e \in {0, 1, 2, 3}
      BY <1>5 DEF Bytes
    <3>2. QED
      BY <1>1, <3>1 DEF Bytes
  <2> HIDE DEF D, S
  <2>2. D % 2^Bits # S % 2^Bits
    <3>1. D # S /\ D - S < 2^Bits /\ S - D < 2^Bits
      BY <1>1, <1>2, <2>1, PowerOfBits
    <3>2. 2^Bits \in Nat \ {0}
      BY PowerOfBits
    <3>3. QED
      BY <1>2, <3>1, <3>2, NearbyDiffer
  <2>3. QED
    BY <1>3, <2>1, <2>2
<1>6. QED
  BY <1>4, <1>5

(* Of an answer that is printed not more than one pulse was lost, as every *)
(* lost pulse takes a turn of the loop; and if none was, the printed       *)
(* result is what the sensor sent, as the sum gives one misread bit away   *)
(* (dht11.c:19, 28-52).                                                    *)
THEOREM PrintedIsSent == Spec => []GoodIsSent
<1>1. Answered => GoodIsSent
  <2> SUFFICES ASSUME Answered, phase = "good", glitches = 0
               PROVE  lost < 2 /\ (lost = 0 /\ misread < 2 => data = sent)
    BY DEF GoodIsSent
  <2>1. Stored /\ misread \in Nat /\ Complete /\ data[4] = Checksum(data)
    BY DEF Answered, Stored, Judged
  <2>2. lost < 2
    BY <2>1, AllBitsThere
  <2>3. ASSUME lost = 0, misread < 2, data # sent PROVE FALSE
    <3>1. misread = 1
      BY <2>1, <2>3, AllBitsThere
    <3>2. QED
      BY <2>1, <2>3, <3>1, AllBitsThere, ChecksumNotices
  <2>4. QED
    BY <2>2, <2>3
<1>2. QED
  BY <1>1, AnsweredInit, AnsweredStep, PTL DEF Spec

(* An answer that arrives undisturbed is printed: the loop counts all its  *)
(* pulses, decodes every bit, and the sums agree (dht11.c:28-52).          *)
THEOREM UndisturbedIsPrinted == Spec => []CleanIsGood
<1>1. Answered => CleanIsGood
  <2> SUFFICES ASSUME Answered, phase = "bad", ~(misread + lost + glitches > 0)
               PROVE  FALSE
    BY DEF CleanIsGood
  <2>1. Stored /\ misread = 0 /\ lost = 0 /\ glitches = 0 /\ Counted /\ i \in Nat /\ j \in Nat
    BY DEF Answered, Stored, Sound, InTime
  <2>2. i = Pulses
    BY <2>1 DEF Answered, InStep
  <2>3. Complete
    BY <2>1, <2>2, Sizes DEF Counted, Complete
  <2>4. data = sent
    BY <2>1, <2>3, AllBitsThere
  <2>5. data[4] = Checksum(data)
    BY <2>1, <2>4 DEF Stored, CheckByte, Checksum
  <2>6. QED
    BY <2>3, <2>5 DEF Answered, Judged
<1>2. QED
  BY <1>1, AnsweredInit, AnsweredStep, PTL DEF Spec

=============================================================================
