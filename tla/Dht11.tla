------------------------------- MODULE Dht11 --------------------------------
(***************************************************************************)
(* src/19/dht11.c: loading the module asks a temperature sensor ten times  *)
(* for four bytes and their checksum.  The sensor answers on one wire with *)
(* pulses of alternating level: three of preamble, then a low and a high   *)
(* one for every bit, the high one long for a 1, and a low one at the end; *)
(* the wire then stays high.  A turn of the loop counts microseconds until *)
(* the level changes (line 30), gives up at 255, and reads the level once  *)
(* more (line 37).  It decodes by the number of the turn alone, so a pulse *)
(* that is lost or split shifts all that follow; one that goes by between  *)
(* the two readings even swaps the low pulses and the high ones.           *)
(***************************************************************************)
EXTENDS Integers

CONSTANTS
  Bits,       \* bits of a byte; 8 in the code
  Values,     \* the bytes the sensor may have to send
  MaxReads,   \* calls of dht11_read; 10 in the code
  MaxFaults   \* bound: faults of the wire during one read

ASSUME Dht11Constants ==
  /\ Bits \in Nat \ {0} /\ Values \subseteq 0 .. 2^Bits - 1
  /\ MaxReads \in Nat /\ MaxFaults \in Nat

VARIABLES
  phase,      \* "idle" between two reads, "poll", "judge", and "good" or "bad"
  reads,      \* calls of dht11_read so far
  data,       \* dht11_data
  i, j,       \* pulses counted, bits stored
  overrun,    \* this read stored a bit behind dht11_data
  sent,       \* the five bytes the sensor sends
  pos,        \* the pulse of the sensor that is on the wire
  split,      \* how many more parts it is in
  misread,    \* bits that came out wrong during this read,
  lost,       \* pulses that went by unseen,
  glitches    \* and pulses that were split

vars == <<phase, reads, data, i, j, overrun, sent, pos, split, misread, lost, glitches>>

Bytes == 0 .. 4
Total == 5 * Bits             \* bits of an answer
MAX_TIMING == 2 * Total + 5

Zero == [b \in Bytes |-> 0]

Bug_Checksum(d) == d[0] + d[1] + d[2] + d[3]
Checksum(d) == (d[0] + d[1] + d[2] + d[3]) % 2^Bits

(* The sensor: its checksum, the bits of the answer, most significant      *)
(* first, and the pulses.                                                  *)
CheckByte(m) == (m[0] + m[1] + m[2] + m[3]) % 2^Bits

Bit(k) == (sent[k \div Bits] \div 2^(Bits - 1 - (k % Bits))) % 2

Pulses == 2 * Total + 4

Pulse(n) ==
  IF n >= Pulses THEN "endless"
  ELSE IF n >= 4 /\ n % 2 = 0 /\ Bit((n - 4) \div 2) = 0 THEN "short" ELSE "long"

Init ==
  /\ phase = "idle" /\ reads = 0 /\ data = Zero /\ i = 0 /\ j = 0 /\ overrun = FALSE
  /\ sent = Zero /\ pos = 0 /\ split = 0 /\ misread = 0 /\ lost = 0 /\ glitches = 0

-----------------------------------------------------------------------------
(* dht11_read clears the bytes and pulls the wire low for 18 ms, which     *)
(* makes the sensor answer.                                                *)
Cleared == Zero

Start ==
  /\ phase = "idle" /\ reads < MaxReads /\ reads' = reads + 1
  /\ phase' = "poll" /\ data' = Cleared /\ i' = 0 /\ j' = 0
  /\ \E m \in [0 .. 3 -> Values] :
       sent' = [b \in Bytes |-> IF b < 4 THEN m[b] ELSE CheckByte(m)]
  /\ pos' = 0 /\ split' = 0 /\ misread' = 0 /\ lost' = 0 /\ glitches' = 0
  /\ overrun' = FALSE

(* One turn of the loop: it is over when line 30 has counted a pulse to    *)
(* the given length.  Which pulse the next turn counts is for line 37, and *)
(* the actions below, to say.                                              *)
Bug_IsBit(n) == n >= 2 /\ n % 2 = 0
IsBit(n) == n >= 4 /\ n % 2 = 0

Store(b) ==
  /\ j' = j + 1
  /\ IF j < Total
     THEN data' = [data EXCEPT ![j \div Bits] = 2 * @ + b] /\ UNCHANGED overrun
     ELSE overrun' = TRUE /\ UNCHANGED data

Turn(length) ==
  /\ phase = "poll"
  /\ IF length = "endless"
     THEN phase' = "judge" /\ UNCHANGED <<i, j, data, overrun>>
     ELSE /\ i' = i + 1
          /\ phase' = IF i + 1 = MAX_TIMING THEN "judge" ELSE "poll"
          /\ IF IsBit(i) THEN Store(IF length = "long" THEN 1 ELSE 0)
                         ELSE UNCHANGED <<j, data, overrun>>
  /\ UNCHANGED <<reads, sent>>

Lengths == {"short", "long"}

Faulty == misread + lost + glitches < MaxFaults

(* Both readings of the turn are in time, or the wire is idle.             *)
Clean ==
  /\ split = 0 /\ Turn(Pulse(pos)) /\ pos' = pos + 1
  /\ UNCHANGED <<split, misread, lost, glitches>>

(* The loop was held up, or the wire slow, and the count is wrong.         *)
Misread ==
  /\ split = 0 /\ Faulty /\ pos < Pulses /\ IsBit(i)
  /\ Turn(IF Pulse(pos) = "long" THEN "short" ELSE "long")
  /\ pos' = pos + 1 /\ misread' = misread + 1 /\ UNCHANGED <<split, lost, glitches>>

(* It was held up while n pulses went by: an even number of them while it  *)
(* counted, which it takes for the same level going on, or any number      *)
(* between its two readings of the level.  It counts its own rounds, so    *)
(* the count may come out either way.                                      *)
Lose ==
  /\ split = 0 /\ Faulty /\ \E length \in Lengths : Turn(length)
  /\ \E n \in 1 .. Pulses - pos - 1 : pos' = pos + 1 + n /\ lost' = lost + n
  /\ UNCHANGED <<split, misread, glitches>>

(* The sensor stops, or the loop was held up until it had.                 *)
Stop ==
  /\ split = 0 /\ Faulty /\ pos < Pulses /\ Turn("endless")
  /\ pos' = Pulses /\ lost' = lost + Pulses - pos /\ UNCHANGED <<split, misread, glitches>>

(* The other level appears for a moment.  Line 37 still sees it, and the   *)
(* pulse counts as three, or sees it gone, and the pulse counts as two.    *)
Glitch ==
  /\ split = 0 /\ Faulty /\ pos < Pulses /\ \E length \in Lengths : Turn(length)
  /\ split' \in {1, 2} /\ glitches' = glitches + 1 /\ UNCHANGED <<pos, misread, lost>>

RestOfSplit ==
  /\ split > 0 /\ \E length \in Lengths : Turn(length)
  /\ split' = split - 1 /\ pos' = IF split = 1 THEN pos + 1 ELSE pos
  /\ UNCHANGED <<misread, lost, glitches>>

Bug_Complete == TRUE
Complete == j >= Total

(* The result is printed, or "Data not good, skip".                        *)
Judge ==
  /\ phase = "judge"
  /\ phase' = IF Complete /\ data[4] = Checksum(data) THEN "good" ELSE "bad"
  /\ UNCHANGED <<reads, data, i, j, overrun, sent, pos, split, misread, lost, glitches>>

(* mdelay(1000) in simple_dht11_init, and the next call.                   *)
Delay ==
  /\ phase \in {"good", "bad"} /\ phase' = "idle"
  /\ UNCHANGED <<reads, data, i, j, overrun, sent, pos, split, misread, lost, glitches>>

Next == Start \/ Clean \/ Misread \/ Lose \/ Stop \/ Glitch \/ RestOfSplit \/ Judge \/ Delay

Spec == Init /\ [][Next]_vars

-----------------------------------------------------------------------------
TypeOK ==
  /\ phase \in {"idle", "poll", "judge", "good", "bad"} /\ reads \in Nat
  /\ data \in [Bytes -> 0 .. 2^Bits - 1] /\ sent \in [Bytes -> 0 .. 2^Bits - 1]
  /\ i \in 0 .. MAX_TIMING /\ j \in 0 .. Total + 1 /\ overrun \in BOOLEAN
  /\ pos \in Nat /\ split \in 0 .. 2
  /\ misread \in Nat /\ lost \in Nat /\ glitches \in Nat

(* Of an answer that is printed not more than one pulse was lost; and if  *)
(* none was, and not more than one bit was misread, the printed result is  *)
(* what the sensor sent, in any of the reads (dht11.c:19, 28-52).          *)
GoodIsSent ==
  phase = "good" /\ glitches = 0 =>
    lost < 2 /\ (lost = 0 /\ misread < 2 => data = sent)

(* An answer that arrives undisturbed is printed (dht11.c:28-52).          *)
CleanIsGood == phase = "bad" => misread + lost + glitches > 0

(* dht11_data holds all bits as long as no pulse is split: 85 turns make   *)
(* one bit more than there are, and the break at 255 saves it              *)
(* (dht11.c:28, 39-48).                                                    *)
BitsFit == overrun => glitches > 0
=============================================================================
