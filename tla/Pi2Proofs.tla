----------------------------- MODULE Pi2Proofs ------------------------------
(***************************************************************************)
(* Theorems about Pi2 for every set of processes and commands, any number  *)
(* of calls and reloads, and any number of cycles in a revolution.         *)
(***************************************************************************)
EXTENDS Pi2, TLAPS

LEMMA NoneType == None \in Jobs /\ None.cmd = "none" /\ None.k = 1 /\ None.s = 1
BY DEF None, Jobs, AllCmds

LEMMA JobFields ==
  ASSUME NEW j \in Jobs
  PROVE  /\ j.cmd \in {"none"} \cup AllCmds /\ j.i \in Nat
         /\ j.s \in 1 .. 9 /\ j.k \in 0 .. 4 /\ j.playNote \in 0 .. 52
         /\ j.playDelay \in {0, 1}
BY DEF Jobs

(* What an assignment to a local keeps, and changes.                       *)
LEMMA SetK == ASSUME NEW j \in Jobs, NEW k \in 0 .. 4, NEW n, n = [j EXCEPT !.k = k]
              PROVE  /\ n \in Jobs /\ n.cmd = j.cmd /\ n.k = k /\ n.s = j.s
                     /\ n.playDelay = j.playDelay
BY DEF Jobs

LEMMA SetS == ASSUME NEW j \in Jobs, NEW s \in 1 .. 9, NEW n, n = [j EXCEPT !.s = s]
              PROVE  /\ n \in Jobs /\ n.cmd = j.cmd /\ n.k = j.k /\ n.s = s
                     /\ n.playDelay = j.playDelay
BY DEF Jobs

LEMMA SetI == ASSUME NEW j \in Jobs, NEW i \in Nat, NEW n, n = [j EXCEPT !.i = i]
              PROVE  n \in Jobs /\ n.cmd = j.cmd /\ n.k = j.k
BY DEF Jobs

LEMMA TempoType ==
  ASSUME NEW j \in Jobs
  PROVE  Tempo(j) \in Jobs /\ Tempo(j).cmd = j.cmd /\ Tempo(j).k = j.k /\ Tempo(j).i = j.i
<1> DEFINE n == j.playNote + 1
<1>0. ASSUME NEW m \in 0 .. 52, NEW d \in {0, 1}
      PROVE  /\ [j EXCEPT !.playNote = m] \in Jobs
             /\ [j EXCEPT !.playNote = m].cmd = j.cmd
             /\ [j EXCEPT !.playNote = m].k = j.k
             /\ [j EXCEPT !.playNote = m].i = j.i
             /\ [j EXCEPT !.playNote = m, !.playDelay = d] \in Jobs
             /\ [j EXCEPT !.playNote = m, !.playDelay = d].cmd = j.cmd
             /\ [j EXCEPT !.playNote = m, !.playDelay = d].k = j.k
             /\ [j EXCEPT !.playNote = m, !.playDelay = d].i = j.i
  BY DEF Jobs
<1>1. n \in 1 .. 53
  BY JobFields
<1>2. Tempo(j) = IF n = 53 THEN [j EXCEPT !.playNote = 0, !.playDelay = 0]
                 ELSE IF n > 50 THEN [j EXCEPT !.playNote = n, !.playDelay = 1]
                                ELSE [j EXCEPT !.playNote = n]
  BY DEF Tempo
<1> HIDE DEF n
<1>3. CASE n = 53
  BY <1>0, <1>2, <1>3
<1>4. CASE n # 53
  <2>1. n \in 0 .. 52
    BY <1>1, <1>4
  <2>2. QED
    BY <1>0, <1>2, <1>4, <2>1
<1>5. QED
  BY <1>3, <1>4

(* A command that just begins.                                             *)
LEMMA StartType ==
  ASSUME NEW cmd \in AllCmds
  PROVE  LET j == [None EXCEPT !.cmd = cmd, !.k = FirstPin(cmd)]
         IN  j \in Jobs /\ j.cmd = cmd /\ j.k = FirstPin(cmd) /\ j.s = 1
<1>1. ASSUME NEW k \in 0 .. 4
      PROVE  LET j == [None EXCEPT !.cmd = cmd, !.k = k]
             IN  j \in Jobs /\ j.cmd = cmd /\ j.k = k /\ j.s = 1
  <2>1. \A j \in Jobs : /\ [j EXCEPT !.cmd = cmd, !.k = k] \in Jobs
                        /\ [j EXCEPT !.cmd = cmd, !.k = k].cmd = cmd
                        /\ [j EXCEPT !.cmd = cmd, !.k = k].k = k
                        /\ [j EXCEPT !.cmd = cmd, !.k = k].s = j.s
    BY DEF Jobs
  <2>2. QED
    BY <2>1, NoneType
<1>2. FirstPin(cmd) \in 0 .. 4
  BY DEF FirstPin
<1>3. QED
  BY <1>1, <1>2

(* Where the locals of a call are, by its command.                         *)
Placed == \A p \in Procs :
  /\ job[p].cmd \in LedCmds => job[p].k \in 1 .. 3
  /\ job[p].cmd \in DoorCmds => /\ job[p].k \in FirstPin(job[p].cmd) .. 4
                                /\ job[p].s = 9 => job[p].k = FirstPin(job[p].cmd)

Typed == TypeOK /\ Placed

LEMMA TypedInit == Init => Typed
<1> SUFFICES ASSUME Init PROVE Typed
  OBVIOUS
<1>1. MotorType
  <2>1. coil \in [Pins -> {0, 1}] /\ field \in 1 .. 8 /\ angle \in Int
    BY DEF Init, MotorInit, Off, Pins
  <2>2. slipped \in BOOLEAN
    BY DEF Init, MotorInit
  <2>3. QED
    BY <2>1, <2>2 DEF MotorType
<1>2. job \in [Procs -> Jobs]
  BY NoneType DEF Init
<1>2a. Placed
  <2>1. \A p \in Procs : job[p].cmd = "none"
    BY NoneType DEF Init
  <2>2. QED
    BY <2>1 DEF Placed, LedCmds, DoorCmds
<1>3. QED
  BY <1>1, <1>2, <1>2a DEF Init, KernelInit, Typed, TypeOK, Absent, Ready

LEMMA FollowType ==
  ASSUME MotorType, NEW c, Follow(c)
  PROVE  field' \in 1 .. 8 /\ angle' \in Int /\ slipped' \in BOOLEAN
<1>1. slipped' \in BOOLEAN
  BY DEF MotorType, Follow
<1>2. \A h \in 1 .. 8 : Way(field, h) \in Int
  BY DEF MotorType, Way
<1>3. field' \in 1 .. 8 /\ angle' \in Int
  BY <1>2 DEF MotorType, Follow
<1>4. QED
  BY <1>1, <1>3

LEMMA SetPinType ==
  ASSUME MotorType, NEW k \in Pins, NEW v \in {0, 1}, SetPin(k, v)
  PROVE  MotorType'
<1>1. coil' \in [Pins -> {0, 1}] /\ Follow(coil')
  BY DEF MotorType, SetPin
<1>2. QED
  BY <1>1, FollowType DEF MotorType

LEMMA StepsType == ASSUME NEW cmd, NEW s \in 1 .. 8, NEW k \in Pins
                   PROVE  Steps(cmd)[s][k] \in {0, 1}
BY DEF Steps, forward, backward, Pins

(* What a step of p leaves in p's locals, and in those of the others.      *)
LEMMA Moved ==
  ASSUME Typed, NEW p \in Procs, NEW j, GoOn(p, j) \/ (Return(p) /\ j = None)
  PROVE  job'[p] = j /\ \A q \in Procs \ {p} : job'[q] = job[q]
BY DEF Typed, TypeOK, GoOn, Return

LEMMA CoilLocals ==
  ASSUME Typed, NEW p \in Procs, Coil(p)
  PROVE  /\ job'[p] \in Jobs /\ job'[p].cmd = job[p].cmd
         /\ job'[p].playDelay = job[p].playDelay
         /\ job[p].k < 4  => job'[p].k = job[p].k + 1 /\ job'[p].s = job[p].s
         /\ job[p].k >= 4 => job'[p].k = FirstPin(job[p].cmd) /\ job'[p].s = job[p].s + 1
         /\ \A q \in Procs \ {p} : job'[q] = job[q]
<1> DEFINE j == job[p]
           k == FirstPin(j.cmd)
           n == IF j.k < 4 THEN [j EXCEPT !.k = j.k + 1] ELSE [j EXCEPT !.k = k, !.s = j.s + 1]
<1>1. j \in Jobs /\ j.k \in 1 .. 4 /\ j.s \in 1 .. 8 /\ GoOn(p, n)
  BY JobFields DEF Coil, At, Pins, Typed, TypeOK
<1>2. job'[p] = n /\ \A q \in Procs \ {p} : job'[q] = job[q]
  BY <1>1, Moved
<1> HIDE DEF j
<1>3. CASE j.k < 4
  <2>1. j.k + 1 \in 0 .. 4 /\ n = [j EXCEPT !.k = j.k + 1]
    BY <1>1, <1>3
  <2>2. /\ n \in Jobs /\ n.cmd = j.cmd /\ n.k = j.k + 1 /\ n.s = j.s
        /\ n.playDelay = j.playDelay
    BY <1>1, <2>1, SetK
  <2> HIDE DEF n
  <2>3. QED
    BY <1>1, <1>2, <1>3, <2>2 DEF j
<1>4. CASE ~(j.k < 4)
  <2> DEFINE m == [j EXCEPT !.k = k]
             r == j.s + 1
  <2>1. k \in 0 .. 4 /\ r \in 1 .. 9
    BY <1>1 DEF FirstPin
  <2>2. n = [m EXCEPT !.s = r]
    BY <1>4
  <2> HIDE DEF k, r, n
  <2>3. m \in Jobs /\ m.cmd = j.cmd /\ m.k = k /\ m.playDelay = j.playDelay
    BY <1>1, <2>1, SetK
  <2> HIDE DEF m
  <2>4. n \in Jobs /\ n.cmd = j.cmd /\ n.k = k /\ n.s = r /\ n.playDelay = j.playDelay
    BY <2>1, <2>2, <2>3, SetS
  <2>5. QED
    BY <1>1, <1>2, <1>4, <2>4 DEF j, k, r
<1>5. QED
  BY <1>3, <1>4

LEMMA SpeakerLocals ==
  ASSUME Typed, NEW p \in Procs, SpeakerStep(p)
  PROVE  /\ job'[p] \in Jobs /\ job'[p].cmd = job[p].cmd /\ job'[p].k = 1
         /\ job'[p].s = job[p].s /\ job'[p].playDelay = job[p].playDelay
         /\ \A q \in Procs \ {p} : job'[q] = job[q]
<1> DEFINE j == job[p]
           n == [j EXCEPT !.k = 1]
<1>1. j \in Jobs /\ GoOn(p, n)
  BY DEF SpeakerStep, Typed, TypeOK
<1>2. job'[p] = n /\ \A q \in Procs \ {p} : job'[q] = job[q]
  BY <1>1, Moved
<1>3. n \in Jobs /\ n.cmd = j.cmd /\ n.k = 1 /\ n.s = j.s /\ n.playDelay = j.playDelay
  BY <1>1, SetK
<1> HIDE DEF n
<1>4. QED
  BY <1>2, <1>3

(* A step of p that goes on with locals j, or returns.                     *)
JobKept(p, j) == j \in Jobs
  /\ (j.cmd \in LedCmds => j.k \in 1 .. 3)
  /\ (j.cmd \in DoorCmds => j.k \in FirstPin(j.cmd) .. 4
                            /\ (j.s = 9 => j.k = FirstPin(j.cmd)))

LEMMA NoneKept == \A p : JobKept(p, None)
BY NoneType DEF JobKept, LedCmds, DoorCmds

LEMMA MoveType ==
  ASSUME Typed, NEW p \in Procs, NEW j, JobKept(p, j),
         GoOn(p, j) \/ (Return(p) /\ j = None)
  PROVE  job' \in [Procs -> Jobs] /\ cpu' \in Procs \cup {Nobody} /\ Placed'
<1>1. job' = [job EXCEPT ![p] = j]
  BY DEF GoOn, Return
<1>2. job' \in [Procs -> Jobs]
  BY <1>1 DEF Typed, TypeOK, JobKept
<1>3. Placed'
  BY <1>1 DEF Typed, TypeOK, Placed, JobKept
<1>4. cpu' \in Procs \cup {Nobody}
  BY DEF GoOn, Return, KeepCpu, GiveUpCpu
<1>5. QED
  BY <1>1, <1>2, <1>3, <1>4 DEF Typed, TypeOK

LEMMA TypedStep == Typed /\ [Next]_vars => Typed'
<1> SUFFICES ASSUME Typed, [Next]_vars PROVE Typed'
  OBVIOUS
<1>1. job \in [Procs -> Jobs] /\ Placed /\ MotorType /\ setup \in 0 .. 9
  BY DEF Typed, TypeOK, Absent, Ready
<1>2. UNCHANGED motor => MotorType'
  BY <1>1 DEF motor, MotorType
<1>3. CASE UNCHANGED vars
  <2>1. MotorType'
    BY <1>2, <1>3 DEF vars
  <2>2. QED
    BY <1>3, <2>1 DEF vars, Typed, TypeOK, Placed
<1>4. ASSUME NEW p \in Procs, Ioctl(p) PROVE Typed'
  <2>1. PICK cmd \in Cmds[p] : GoOn(p, [None EXCEPT !.cmd = cmd, !.k = FirstPin(cmd)])
    BY <1>4 DEF Ioctl
  <2>2. cmd \in AllCmds
    BY Pi2Procs
  <2> DEFINE n == [None EXCEPT !.cmd = cmd, !.k = FirstPin(cmd)]
  <2>2a. n \in Jobs /\ n.cmd = cmd /\ n.k = FirstPin(cmd) /\ n.s = 1 /\ GoOn(p, n)
    BY <2>1, <2>2, StartType
  <2> HIDE DEF n
  <2>3. JobKept(p, n)
    BY <2>2, <2>2a DEF JobKept, FirstPin, LedCmds, DoorCmds, AllCmds
  <2>4. MotorType'
    BY <1>2, <1>4 DEF Ioctl
  <2>5. QED
    BY <1>4, <2>2a, <2>3, <2>4, MoveType DEF Ioctl, Typed, TypeOK
<1>5. ASSUME NEW p \in Procs, Coil(p) PROVE Typed'
  <2>1. /\ job[p].cmd \in DoorCmds /\ job[p].k \in 1 .. 4 /\ job[p].s \in 1 .. 8
        /\ \E n : GoOn(p, n)
    BY <1>1, <1>5, JobFields DEF Coil, At, Pins
  <2>2. FirstPin(job[p].cmd) \in 0 .. 1
    BY DEF FirstPin
  <2>3. JobKept(p, job'[p])
    BY <1>5, <2>1, <2>2, CoilLocals DEF JobKept, LedCmds, DoorCmds, FirstPin
  <2>4. SetPin(job[p].k, Steps(job[p].cmd)[job[p].s][job[p].k])
    BY <1>5 DEF Coil
  <2>5. MotorType'
    BY <1>1, <2>1, <2>4, StepsType, SetPinType DEF Pins
  <2>6. QED
    BY <1>5, <2>1, <2>3, <2>5, Moved, MoveType DEF Coil, Typed, TypeOK
<1>6. ASSUME NEW p \in Procs, SpeakerStep(p) PROVE Typed'
  <2>1. /\ job[p] \in Jobs /\ job[p].cmd = "DOORSPEAKER" /\ job[p].s # 9
        /\ \E n : GoOn(p, n)
    BY <1>1, <1>6 DEF SpeakerStep, At
  <2>2. JobKept(p, job'[p])
    BY <1>6, <2>1, SpeakerLocals DEF JobKept, LedCmds, DoorCmds, FirstPin
  <2>3. MotorType' /\ speaker' \in {0, 1}
    BY <1>2, <1>6 DEF SpeakerStep, Beat, Typed, TypeOK
  <2>4. QED
    BY <1>6, <2>1, <2>2, <2>3, Moved, MoveType DEF SpeakerStep, Typed, TypeOK
<1>7. ASSUME NEW p \in Procs, CycleEnd(p) PROVE Typed'
  <2> DEFINE j == job[p]
             t == IF j.cmd = "DOORSPEAKER" THEN Tempo(j) ELSE j
             n == [t EXCEPT !.i = j.i + 1, !.s = 1]
  <2>1. j \in Jobs /\ j.cmd \in DoorCmds /\ j.s = 9 /\ j.k = FirstPin(j.cmd)
    BY <1>1, <1>7 DEF CycleEnd, At, Placed
  <2>2. Return(p) \/ GoOn(p, n)
    BY <1>7 DEF CycleEnd
  <2>3. turned' \in Int
    BY <1>7 DEF CycleEnd, Typed, TypeOK
  <2> HIDE DEF j
  <2>4. t \in Jobs /\ t.cmd = j.cmd /\ t.k = j.k /\ j.i + 1 \in Nat
    BY <2>1, TempoType, JobFields
  <2> HIDE DEF t
  <2> DEFINE m == [t EXCEPT !.i = j.i + 1]
  <2>4a. n = [m EXCEPT !.s = 1]
    OBVIOUS
  <2>4b. m \in Jobs /\ m.cmd = j.cmd /\ m.k = j.k
    BY <2>4, SetI
  <2> HIDE DEF m, n
  <2>5. n \in Jobs /\ n.cmd = j.cmd /\ n.k = j.k /\ n.s = 1
    BY <2>4a, <2>4b, SetS
  <2>6. JobKept(p, n)
    BY <2>1, <2>5 DEF JobKept, LedCmds, DoorCmds, FirstPin
  <2>7. MotorType'
    BY <1>2, <1>7 DEF CycleEnd
  <2> HIDE DEF n
  <2>8. QED
    BY <1>7, <2>2, <2>3, <2>6, <2>7, NoneKept, MoveType DEF CycleEnd, Typed, TypeOK
<1>8. ASSUME NEW p \in Procs, Tone(p) PROVE Typed'
  <2> DEFINE j == job[p]
  <2>1. j \in Jobs /\ j.cmd = "SPEAKER" /\ j.i + 1 \in Nat
    BY <1>1, <1>8, JobFields DEF Tone, At
  <2>2. PICK n : /\ n = [j EXCEPT !.k = 2] \/ n = [j EXCEPT !.i = j.i + 1, !.k = 1]
                 /\ Return(p) \/ GoOn(p, n)
    BY <1>8 DEF Tone
  <2> DEFINE m == [j EXCEPT !.i = j.i + 1]
  <2>2b. n = [j EXCEPT !.k = 2] \/ n = [m EXCEPT !.k = 1]
    BY <2>2
  <2>2c. m \in Jobs /\ m.cmd = j.cmd
    BY <2>1, SetI
  <2> HIDE DEF j, m
  <2>2a. n \in Jobs /\ n.cmd = "SPEAKER"
    <3>1. CASE n = [j EXCEPT !.k = 2]
      BY <2>1, <2>2b, <3>1, SetK
    <3>2. CASE n = [m EXCEPT !.k = 1]
      BY <2>1, <2>2c, <3>2, SetK
    <3>3. QED
      BY <2>2b, <3>1, <3>2
  <2>3. JobKept(p, n)
    BY <2>2a DEF JobKept, LedCmds, DoorCmds
  <2>4. MotorType' /\ speaker' \in {0, 1}
    BY <1>2, <1>8 DEF Tone
  <2>5. QED
    BY <1>8, <2>2, <2>3, <2>4, NoneKept, MoveType DEF Tone, Typed, TypeOK
<1>9. ASSUME NEW p \in Procs, Light(p) PROVE Typed'
  <2> DEFINE j == job[p]
             n == [j EXCEPT !.k = j.k + 1]
  <2>1. j \in Jobs /\ j.cmd \in LedCmds /\ j.k \in 1 .. 3
    BY <1>1, <1>9 DEF Light, At, Placed
  <2>2. Return(p) \/ (j.k # 3 /\ GoOn(p, n))
    BY <1>9 DEF Light
  <2>3. led' \in [1 .. 3 -> {0, 1}]
    BY <1>9 DEF Light, Switched, Typed, TypeOK
  <2> HIDE DEF j
  <2>4. j.k # 3 => JobKept(p, n)
    <3>1. j.k # 3 => j.k + 1 \in 0 .. 4 /\ j.k + 1 \in 1 .. 3
      BY <2>1
    <3>2. j.k # 3 => n \in Jobs /\ n.cmd = j.cmd /\ n.k = j.k + 1
      BY <2>1, <3>1, SetK
    <3> HIDE DEF n
    <3>3. QED
      BY <2>1, <3>1, <3>2 DEF JobKept, LedCmds, DoorCmds
  <2> HIDE DEF n
  <2>5. MotorType'
    BY <1>2, <1>9 DEF Light
  <2>6. QED
    BY <1>9, <2>2, <2>3, <2>4, <2>5, NoneKept, MoveType DEF Light, Typed, TypeOK
<1>10. CASE Exit \/ Load
  <2>1. MotorType'
    BY <1>2, <1>10 DEF Exit, Load
  <2>2. QED
    BY <1>10, <2>1 DEF Exit, Load, Typed, TypeOK, Placed, Absent, Ready
<1>11. CASE InitPin
  <2>1. setup \in 4 .. 7 => setup - 3 \in Pins
    BY <1>1 DEF Pins
  <2>2. MotorType'
    BY <1>1, <1>2, <1>11, <2>1, SetPinType DEF InitPin
  <2>3. setup' \in 0 .. 9 /\ led' \in [1 .. 3 -> {0, 1}] /\ speaker' \in {0, 1}
    BY <1>1, <1>11 DEF InitPin, Typed, TypeOK
  <2>4. QED
    BY <1>11, <2>2, <2>3 DEF InitPin, Typed, TypeOK, Placed, Absent, Ready
<1>12. QED
  BY <1>3, <1>4, <1>5, <1>6, <1>7, <1>8, <1>9, <1>10, <1>11 DEF Next

LEMMA TypedAlways == Spec => []Typed
BY TypedInit, TypedStep, PTL DEF Spec

(* Every variable keeps its type, and the counters of forwardSpeaker stay  *)
(* below 53 (pi2.c:200-206).                                               *)
THEOREM TypeCorrect == Spec => []TypeOK
<1>1. Typed => TypeOK
  BY DEF Typed
<1>2. QED
  BY <1>1, TypedAlways, PTL

-----------------------------------------------------------------------------
(* The part of a call that has the speaker on.                             *)
Owes(p) == LET j == job[p] IN
  \/ j.cmd = "SPEAKER" /\ j.k = 2
  \/ /\ j.cmd = "DOORSPEAKER" /\ j.playDelay = 0
     /\ (j.s \in {1, 5} /\ j.k # 0) \/ j.s \in {2, 6} \/ (j.s \in {3, 7} /\ j.k = 0)

Silence == speaker = 1 => \E p \in Procs : Owes(p)

LEMMA OthersOwe ==
  ASSUME NEW p \in Procs, Silence, ~Owes(p), speaker' = 1 => speaker = 1,
         \A q \in Procs \ {p} : job'[q] = job[q]
  PROVE  Silence'
<1>1. ASSUME NEW q \in Procs, Owes(q) PROVE Owes(q)'
  BY <1>1 DEF Owes
<1>2. QED
  BY <1>1 DEF Silence

LEMMA SilenceStep == Typed /\ Silence /\ [Next]_vars => Silence'
<1> SUFFICES ASSUME Typed, Silence, [Next]_vars PROVE Silence'
  OBVIOUS
<1>1. job \in [Procs -> Jobs] /\ speaker \in {0, 1}
  BY DEF Typed, TypeOK
<1>2. CASE job' = job /\ (speaker' = 1 => speaker = 1)
  BY <1>2 DEF Silence, Owes
<1>3. ASSUME NEW p \in Procs, Ioctl(p) PROVE Silence'
  <2>1. \A q \in Procs \ {p} : job'[q] = job[q]
    BY <1>1, <1>3 DEF Ioctl, GoOn
  <2>2. ~Owes(p) /\ speaker' = speaker
    BY <1>3 DEF Ioctl, At, Owes
  <2>3. QED
    BY <2>1, <2>2, OthersOwe
<1>4. ASSUME NEW p \in Procs, Coil(p) PROVE Silence'
  <2>1. /\ job[p] \in Jobs /\ job[p].cmd \in DoorCmds /\ job[p].k \in 1 .. 4
        /\ job[p].s \in 1 .. 8 /\ speaker' = speaker
    BY <1>1, <1>4, JobFields DEF Coil, At, Pins
  <2>2. CASE ~Owes(p)
    BY <1>4, <2>1, <2>2, CoilLocals, OthersOwe
  <2>3. CASE Owes(p)
    <3>1. job[p].cmd = "DOORSPEAKER" /\ job[p].playDelay = 0 /\ job[p].s \in {1, 2, 5, 6}
      BY <2>1, <2>3 DEF Owes, DoorCmds
    <3>2. Owes(p)'
      BY <1>4, <2>1, <3>1, CoilLocals DEF Owes, FirstPin
    <3>3. QED
      BY <3>2 DEF Silence
  <2>4. QED
    BY <2>2, <2>3
<1>5. ASSUME NEW p \in Procs, SpeakerStep(p) PROVE Silence'
  <2>1. /\ job[p].cmd = "DOORSPEAKER" /\ job[p].k = 0 /\ job[p].s \in 1 .. 8
        /\ job[p].playDelay \in {0, 1}
    BY <1>1, <1>5, JobFields DEF SpeakerStep, At
  <2>2. speaker' = IF job[p].s \in {1, 3, 5, 7} /\ job[p].playDelay = 0
                   THEN IF job[p].s \in {1, 5} THEN 1 ELSE 0 ELSE speaker
    BY <1>5, <2>1 DEF SpeakerStep, Beat
  <2>3. CASE job[p].s \in {1, 2, 5, 6} /\ job[p].playDelay = 0
    <3>1. Owes(p)'
      BY <1>5, <2>1, <2>3, SpeakerLocals DEF Owes
    <3>2. QED
      BY <3>1 DEF Silence
  <2>4. CASE job[p].s \in {3, 7} /\ job[p].playDelay = 0
    BY <2>2, <2>4 DEF Silence
  <2>5. CASE job[p].s \in {4, 8} \/ job[p].playDelay = 1
    <3>1. ~Owes(p) /\ speaker' = speaker
      BY <2>1, <2>2, <2>5 DEF Owes
    <3>2. QED
      BY <1>5, <3>1, SpeakerLocals, OthersOwe
  <2>6. QED
    BY <2>1, <2>3, <2>4, <2>5
<1>6. ASSUME NEW p \in Procs, CycleEnd(p) PROVE Silence'
  <2>1. ~Owes(p) /\ speaker' = speaker
    BY <1>6 DEF CycleEnd, At, Owes, DoorCmds
  <2>2. \A q \in Procs \ {p} : job'[q] = job[q]
    BY <1>1, <1>6 DEF CycleEnd, GoOn, Return
  <2>3. QED
    BY <2>1, <2>2, OthersOwe
<1>7. ASSUME NEW p \in Procs, Tone(p) PROVE Silence'
  <2>1. CASE job[p].k = 1
    <3>1. job[p] \in Jobs /\ job[p].cmd = "SPEAKER" /\ GoOn(p, [job[p] EXCEPT !.k = 2])
      BY <1>1, <1>7, <2>1 DEF Tone, At
    <3> DEFINE n == [job[p] EXCEPT !.k = 2]
    <3>2. job'[p] = n
      BY <3>1, Moved
    <3>3. n.cmd = "SPEAKER" /\ n.k = 2
      BY <3>1, SetK
    <3> HIDE DEF n
    <3>4. Owes(p)'
      BY <3>2, <3>3 DEF Owes
    <3>5. QED
      BY <3>4 DEF Silence
  <2>2. CASE job[p].k # 1
    BY <1>7, <2>2 DEF Tone, Silence
  <2>3. QED
    BY <2>1, <2>2
<1>8. ASSUME NEW p \in Procs, Light(p) PROVE Silence'
  <2>1. ~Owes(p) /\ speaker' = speaker
    BY <1>8 DEF Light, At, Owes, LedCmds
  <2>2. \A q \in Procs \ {p} : job'[q] = job[q]
    BY <1>1, <1>8 DEF Light, GoOn, Return
  <2>3. QED
    BY <2>1, <2>2, OthersOwe
<1>9. CASE Exit \/ Load \/ InitPin \/ UNCHANGED vars
  BY <1>2, <1>9 DEF Exit, Load, InitPin, vars
<1>10. QED
  BY <1>3, <1>4, <1>5, <1>6, <1>7, <1>8, <1>9 DEF Next

(* Whatever the processes issue, together or in turn, and whenever the     *)
(* module is loaded again, the speaker is low while nobody plays           *)
(* (pi2.c:148-188, 200-206, 213-216).                                      *)
THEOREM SpeakerIsSilent == Spec => []SilentAtRest
<1>1. Init => Silence
  BY DEF Init, Silence
<1>2. Typed /\ Silence => SilentAtRest
  BY DEF Typed, TypeOK, Silence, Owes, SilentAtRest
<1>3. QED
  BY <1>1, <1>2, SilenceStep, TypedAlways, PTL DEF Spec

-----------------------------------------------------------------------------
(* A call that still has to write a 0 to coil k before it returns.         *)
Clears(p, k) == LET j == job[p] IN
  j.cmd \in DoorCmds /\ (j.s < 8 \/ (j.s = 8 /\ j.k <= k))

Middle == {2, 3}
Cleared == \A k \in Middle : coil[k] = 1 => \E p \in Procs : Clears(p, k)

LEMMA OthersClear ==
  ASSUME NEW p \in Procs, Cleared, \A k \in Middle : coil'[k] = 1 => coil[k] = 1,
         \A k \in Middle : Clears(p, k) => Clears(p, k)',
         \A q \in Procs \ {p} : job'[q] = job[q]
  PROVE  Cleared'
<1>1. ASSUME NEW k \in Middle, NEW q \in Procs, Clears(q, k) PROVE Clears(q, k)'
  BY <1>1 DEF Clears
<1>2. QED
  BY <1>1 DEF Cleared

(* Both sequences of half steps end without the coils in the middle.       *)
LEMMA LastStep == \A cmd : \A k \in Middle : Steps(cmd)[8][k] = 0
BY DEF Steps, forward, backward, Middle

LEMMA ClearedStep == Typed /\ Cleared /\ [Next]_vars => Cleared'
<1> SUFFICES ASSUME Typed, Cleared, [Next]_vars PROVE Cleared'
  OBVIOUS
<1>1. job \in [Procs -> Jobs] /\ coil \in [Pins -> {0, 1}] /\ Middle \subseteq Pins
  BY DEF Typed, TypeOK, MotorType, Middle, Pins
<1>2. ASSUME NEW p \in Procs, Coil(p) PROVE Cleared'
  <2>1. /\ job[p].cmd \in DoorCmds /\ job[p].k \in 1 .. 4 /\ job[p].s \in 1 .. 8
        /\ coil' = [coil EXCEPT ![job[p].k] = Steps(job[p].cmd)[job[p].s][job[p].k]]
    BY <1>1, <1>2, JobFields DEF Coil, At, Pins, SetPin
  <2>2. job'[p].cmd = job[p].cmd /\ \A q \in Procs \ {p} : job'[q] = job[q]
    BY <1>2, CoilLocals
  <2>3. /\ job[p].k < 4 => job'[p].k = job[p].k + 1 /\ job'[p].s = job[p].s
        /\ job[p].k >= 4 => job'[p].k \in {0, 1} /\ job'[p].s = job[p].s + 1
    BY <1>2, CoilLocals DEF FirstPin
  <2>4. SUFFICES ASSUME NEW k \in Middle, coil'[k] = 1 PROVE \E q \in Procs : Clears(q, k)'
    BY DEF Cleared
  <2>5. CASE job[p].k = k
    <3>1. job[p].s # 8
      BY <1>1, <2>1, <2>4, <2>5, LastStep
    <3>2. Clears(p, k)'
      BY <2>1, <2>2, <2>3, <2>5, <3>1 DEF Clears, Middle
    <3>3. QED
      BY <3>2
  <2>6. CASE job[p].k # k
    <3>1. PICK q \in Procs : Clears(q, k)
      BY <1>1, <2>1, <2>4, <2>6 DEF Cleared
    <3>2. CASE q = p
      BY <2>1, <2>2, <2>3, <2>6, <3>1, <3>2 DEF Clears, Middle
    <3>3. CASE q # p
      BY <2>2, <3>1, <3>3 DEF Clears
    <3>4. QED
      BY <3>2, <3>3
  <2>7. QED
    BY <2>5, <2>6
<1>3. ASSUME NEW p \in Procs, SpeakerStep(p) PROVE Cleared'
  <2>1. job[p].k = 0 /\ coil' = coil
    BY <1>3 DEF SpeakerStep, motor
  <2>2. \A k \in Middle : Clears(p, k) => Clears(p, k)'
    BY <1>3, <2>1, SpeakerLocals DEF Clears, Middle
  <2>3. QED
    BY <1>3, <2>1, <2>2, SpeakerLocals, OthersClear
<1>4. ASSUME NEW p \in Procs, Ioctl(p) \/ CycleEnd(p) \/ Tone(p) \/ Light(p) PROVE Cleared'
  <2>1. coil' = coil /\ \A q \in Procs \ {p} : job'[q] = job[q]
    BY <1>1, <1>4 DEF Ioctl, CycleEnd, Tone, Light, motor, GoOn, Return
  <2>2. \A k : ~Clears(p, k)
    <3>1. job[p].cmd \notin DoorCmds \/ job[p].s = 9
      BY <1>4 DEF Ioctl, CycleEnd, Tone, Light, At, DoorCmds, LedCmds
    <3>2. QED
      BY <3>1 DEF Clears
  <2>3. QED
    BY <2>1, <2>2, OthersClear
<1>5. CASE Exit \/ Load \/ InitPin \/ UNCHANGED vars
  <2>1. job' = job /\ \A k \in Middle : coil'[k] = 1 => coil[k] = 1
    <3>1. CASE InitPin
      <4>1. job' = job /\ (coil' = coil \/ \E k \in Pins : coil' = [coil EXCEPT ![k] = 0])
        BY <3>1 DEF InitPin, SetPin, motor, Pins
      <4>2. QED
        BY <1>1, <4>1
    <3>2. QED
      BY <1>5, <3>1 DEF Exit, Load, vars, motor
  <2>2. QED
    BY <2>1 DEF Cleared, Clears
<1>6. QED
  BY <1>2, <1>3, <1>4, <1>5 DEF Next

(* However many processes move the door at the same time, and wherever     *)
(* they lose the rotor, the coils are left next to the first half step of  *)
(* either direction (pi2.c:57-66, 112-121, 245-275, 314-317).              *)
THEOREM CoilsRestAtStart == Spec => []RestsAtStart
<1>1. Init => Cleared
  BY DEF Init, MotorInit, Cleared, Off, Middle
<1>2. Typed /\ Cleared => RestsAtStart
  <2> SUFFICES ASSUME Typed, Cleared, \A p \in Procs : job[p].cmd \notin DoorCmds
               PROVE  coil[2] = 0 /\ coil[3] = 0
    BY DEF RestsAtStart
  <2>1. coil[2] \in {0, 1} /\ coil[3] \in {0, 1}
    BY DEF Typed, TypeOK, MotorType, Pins
  <2>2. QED
    BY <2>1 DEF Cleared, Clears, Middle
<1>3. QED
  BY <1>1, <1>2, ClearedStep, TypedAlways, PTL DEF Spec

-----------------------------------------------------------------------------
(* Without SMP a call keeps the processor, else one process alone issues   *)
(* the commands S.                                                         *)
Sole(S) == ~SMP \/ \E q \in Procs : \A p \in Procs \ {q} : Cmds[p] \cap S = {}

Busy(p) == job[p].cmd # "none"

(* What is known of a call while it lasts.                                 *)
Called == \A p \in Procs : Busy(p) =>
  job[p].cmd \in Cmds[p] /\ (~SMP => cpu = p) /\ (~Eager => setup = Ready)

LEMMA OneAtATime ==
  ASSUME NEW S, Sole(S), "none" \notin S, Called, NEW p \in Procs, Runs(p),
         NEW c \in Cmds[p], c \in S, NEW q \in Procs, job[q].cmd \in S
  PROVE  q = p
<1>1. Busy(q)
  BY DEF Busy
<1>2. CASE ~SMP
  BY <1>1, <1>2, Pi2Procs DEF Called, Runs
<1>3. CASE SMP
  BY <1>1, <1>3 DEF Called, Sole
<1>4. QED
  BY <1>2, <1>3

(* What the end of a cycle and a step of play, turnOn or turnOff do to the *)
(* locals of the calls.                                                    *)
LEMMA EndLocals ==
  ASSUME Typed, NEW p \in Procs, CycleEnd(p)
  PROVE  /\ \A q \in Procs \ {p} : job'[q] = job[q]
         /\ \/ Return(p) /\ job'[p] = None
            \/ /\ GoOn(p, job'[p]) /\ job'[p].cmd = job[p].cmd
               /\ job'[p].s = 1 /\ job'[p].k = job[p].k
<1> DEFINE j == job[p]
           t == IF j.cmd = "DOORSPEAKER" THEN Tempo(j) ELSE j
           n == [t EXCEPT !.i = j.i + 1, !.s = 1]
<1>1. j \in Jobs /\ (Return(p) \/ GoOn(p, n))
  BY DEF CycleEnd, Typed, TypeOK
<1>2. t \in Jobs /\ t.cmd = j.cmd /\ t.k = j.k
  BY <1>1, TempoType
<1> HIDE DEF t
<1>3. n.cmd = j.cmd /\ n.s = 1 /\ n.k = j.k
  BY <1>2 DEF Jobs
<1> HIDE DEF n
<1>4. QED
  BY <1>1, <1>3, Moved

LEMMA OtherLocals ==
  ASSUME Typed, NEW p \in Procs, Tone(p) \/ Light(p)
  PROVE  /\ job[p].cmd \in LedCmds \cup {"SPEAKER"} /\ job[p].cmd \notin DoorCmds
         /\ Runs(p) /\ UNCHANGED <<motor, turned, setup>>
         /\ \A q \in Procs \ {p} : job'[q] = job[q]
         /\ \/ Return(p) /\ job'[p] = None
            \/ GoOn(p, job'[p]) /\ job'[p].cmd = job[p].cmd
<1> DEFINE j == job[p]
<1>1. /\ j \in Jobs /\ j.cmd \in LedCmds \cup {"SPEAKER"} /\ Runs(p)
      /\ UNCHANGED <<motor, turned, setup>>
  BY DEF Tone, Light, At, Typed, TypeOK
<1>2. PICK n : /\ \/ n = [j EXCEPT !.k = 2] \/ n = [j EXCEPT !.i = j.i + 1, !.k = 1]
                  \/ n = [j EXCEPT !.k = j.k + 1]
               /\ Return(p) \/ GoOn(p, n)
  BY DEF Tone, Light
<1>3. n.cmd = j.cmd
  BY <1>1, <1>2 DEF Jobs
<1>4. QED
  BY <1>1, <1>2, <1>3, Moved DEF LedCmds, DoorCmds

LEMMA CalledMove ==
  ASSUME Typed, Called, NEW p \in Procs, NEW j, GoOn(p, j) \/ (Return(p) /\ j = None),
         UNCHANGED setup, Runs(p),
         j.cmd # "none" => j.cmd \in Cmds[p] /\ (~Eager => setup = Ready)
  PROVE  Called'
<1>1. job'[p] = j /\ \A q \in Procs \ {p} : job'[q] = job[q]
  BY Moved
<1> SUFFICES ASSUME NEW q \in Procs, Busy(q)'
             PROVE  /\ job'[q].cmd \in Cmds[q]
                    /\ (~SMP => cpu' = q) /\ (~Eager => setup' = Ready)
  BY DEF Called
<1>2. CASE q = p
  BY <1>1, <1>2, NoneType DEF Busy, GoOn, KeepCpu
<1>3. CASE q # p
  BY <1>1, <1>3, Pi2Procs DEF Called, Busy, Runs
<1>4. QED
  BY <1>2, <1>3

LEMMA CalledStep == ASSUME Typed, Called, [Next]_vars PROVE Called'
<1>1. ASSUME NEW p \in Procs, Ioctl(p) PROVE Called'
  <2>1. PICK cmd \in Cmds[p] : GoOn(p, [None EXCEPT !.cmd = cmd, !.k = FirstPin(cmd)])
    BY <1>1 DEF Ioctl
  <2> DEFINE n == [None EXCEPT !.cmd = cmd, !.k = FirstPin(cmd)]
  <2>2. n.cmd = cmd /\ GoOn(p, n)
    BY <2>1, Pi2Procs, StartType
  <2> HIDE DEF n
  <2>3. UNCHANGED setup /\ Runs(p) /\ (~Eager => setup = Ready)
    BY <1>1 DEF Ioctl, At
  <2>4. QED
    BY <2>2, <2>3, CalledMove
<1>2. ASSUME NEW p \in Procs, Coil(p) \/ SpeakerStep(p) PROVE Called'
  <2>1. Busy(p) /\ Runs(p) /\ UNCHANGED setup
    BY <1>2 DEF Coil, SpeakerStep, At, Busy, DoorCmds
  <2>2. PICK n : GoOn(p, n)
    BY <1>2 DEF Coil, SpeakerStep
  <2>3. n.cmd = job[p].cmd
    BY <1>2, <2>2, CoilLocals, SpeakerLocals, Moved
  <2>4. QED
    BY <2>1, <2>2, <2>3, CalledMove DEF Called
<1>3. ASSUME NEW p \in Procs, CycleEnd(p) PROVE Called'
  <2>1. Busy(p) /\ Runs(p) /\ UNCHANGED setup
    BY <1>3 DEF CycleEnd, At, Busy, DoorCmds
  <2>2. PICK n : (GoOn(p, n) \/ (Return(p) /\ n = None)) /\ n.cmd \in {job[p].cmd, "none"}
    BY <1>3, EndLocals, NoneType
  <2>3. QED
    BY <2>1, <2>2, CalledMove DEF Called
<1>4. ASSUME NEW p \in Procs, Tone(p) \/ Light(p) PROVE Called'
  <2>1. Busy(p) /\ Runs(p) /\ UNCHANGED setup
    BY <1>4, OtherLocals DEF Busy, LedCmds
  <2>2. PICK n : (GoOn(p, n) \/ (Return(p) /\ n = None)) /\ n.cmd \in {job[p].cmd, "none"}
    BY <1>4, OtherLocals, NoneType
  <2>3. QED
    BY <2>1, <2>2, CalledMove DEF Called
<1>5. CASE Exit
  <2>1. \A p \in Procs : job'[p] = None
    BY <1>5 DEF Exit
  <2>2. QED
    BY <2>1, NoneType DEF Called, Busy
<1>6. CASE Load \/ InitPin
  <2>1. job' = job /\ cpu' = cpu /\ setup # Ready
    BY <1>6 DEF Load, InitPin, Absent, Ready
  <2>2. QED
    BY <2>1 DEF Called, Busy
<1>7. CASE UNCHANGED vars
  BY <1>7 DEF vars, Called, Busy
<1>8. QED
  BY <1>1, <1>2, <1>3, <1>4, <1>5, <1>6, <1>7 DEF Next

LEMMA CalledAlways == Spec => []Called
<1>1. Init => Called
  BY NoneType DEF Init, Called, Busy
<1>2. Typed /\ Called /\ [Next]_vars => Called'
  BY CalledStep
<1>3. QED
  BY <1>1, <1>2, TypedAlways, PTL DEF Spec

-----------------------------------------------------------------------------
(* The LEDs.  A call that switches them has set those before its k-th;     *)
(* while pi2_init runs, the LEDs it has passed are low.                    *)
SoFar == \A p \in Procs : job[p].cmd \in LedCmds =>
  \A l \in 1 .. 3 : l < job[p].k => led[l] = Switched(job[p].cmd, l)
Lowered == setup \in 1 .. 8 => \A l \in 1 .. 3 : l < setup => led[l] = 0

LedsSound == SoFar /\ Lowered /\ LightsAgree

(* A step that switches no LED.                                            *)
LEMMA LedsRest ==
  ASSUME LedsSound, UNCHANGED <<led, setup>>,
         \A q \in Procs : \/ job'[q] = job[q]
                          \/ job[q].cmd \notin LedCmds /\ job'[q].cmd \notin LedCmds
  PROVE  LedsSound'
<1>1. \A q \in Procs : job'[q].cmd \in LedCmds <=> job[q].cmd \in LedCmds
  OBVIOUS
<1>2. SoFar' /\ Lowered'
  BY <1>1 DEF LedsSound, SoFar, Lowered
<1>3. LightsAgree'
  BY <1>1 DEF LedsSound, LightsAgree
<1>4. QED
  BY <1>2, <1>3 DEF LedsSound

LEMMA LedsStep ==
  ASSUME ~Eager, Sole(LedCmds), Typed, Called, LedsSound, [Next]_vars
  PROVE  LedsSound'
<1>1. job \in [Procs -> Jobs] /\ led \in [1 .. 3 -> {0, 1}] /\ setup \in 0 .. 9 /\ Placed
  BY DEF Typed, TypeOK, Absent, Ready
<1>2. CASE UNCHANGED vars
  BY <1>2, LedsRest DEF vars
<1>3. ASSUME NEW p \in Procs, Ioctl(p) PROVE LedsSound'
  <2>1. PICK cmd \in Cmds[p] : GoOn(p, [None EXCEPT !.cmd = cmd, !.k = FirstPin(cmd)])
    BY <1>3 DEF Ioctl
  <2> DEFINE n == [None EXCEPT !.cmd = cmd, !.k = FirstPin(cmd)]
  <2>2. n.cmd = cmd /\ n.k = FirstPin(cmd) /\ GoOn(p, n)
    BY <2>1, Pi2Procs, StartType
  <2> HIDE DEF n
  <2>3. job'[p] = n /\ \A q \in Procs \ {p} : job'[q] = job[q]
    BY <2>2, Moved
  <2>4. setup = Ready /\ UNCHANGED <<led, setup>> /\ job[p].cmd \notin LedCmds
    BY <1>3 DEF Ioctl, At, LedCmds
  <2>5. CASE cmd \notin LedCmds
    BY <2>2, <2>3, <2>4, <2>5, LedsRest
  <2>6. CASE cmd \in LedCmds
    <3>1. n.k = 1
      BY <2>2, <2>6 DEF FirstPin, LedCmds
    <3>2. SoFar' /\ Lowered'
      BY <2>3, <2>4, <3>1 DEF LedsSound, SoFar, Lowered
    <3>3. LightsAgree'
      BY <2>2, <2>3, <2>6 DEF LightsAgree
    <3>4. QED
      BY <3>2, <3>3 DEF LedsSound
  <2>7. QED
    BY <2>5, <2>6
<1>4. ASSUME NEW p \in Procs, Coil(p) \/ SpeakerStep(p) PROVE LedsSound'
  <2>1. /\ job'[p].cmd = job[p].cmd /\ \A q \in Procs \ {p} : job'[q] = job[q]
        /\ job[p].cmd \notin LedCmds /\ UNCHANGED <<led, setup>>
    BY <1>4, CoilLocals, SpeakerLocals DEF Coil, SpeakerStep, At, DoorCmds, LedCmds
  <2>2. QED
    BY <2>1, LedsRest
<1>5. ASSUME NEW p \in Procs, CycleEnd(p) PROVE LedsSound'
  <2>1. job[p].cmd \notin LedCmds /\ UNCHANGED <<led, setup>>
    BY <1>5 DEF CycleEnd, At, DoorCmds, LedCmds
  <2>2. job'[p].cmd \notin LedCmds /\ \A q \in Procs \ {p} : job'[q] = job[q]
    BY <1>5, <2>1, EndLocals, NoneType DEF LedCmds
  <2>3. QED
    BY <2>1, <2>2, LedsRest
<1>6. ASSUME NEW p \in Procs, Tone(p) PROVE LedsSound'
  <2>1. job[p].cmd = "SPEAKER" /\ UNCHANGED <<led, setup>>
    BY <1>6 DEF Tone, At
  <2>2. job'[p].cmd \notin LedCmds /\ \A q \in Procs \ {p} : job'[q] = job[q]
    BY <1>6, <2>1, OtherLocals, NoneType DEF LedCmds
  <2>3. QED
    BY <2>1, <2>2, LedsRest DEF LedCmds
<1>7. ASSUME NEW p \in Procs, Light(p) PROVE LedsSound'
  <2> DEFINE j == job[p]
             n == [j EXCEPT !.k = j.k + 1]
  <2>1. /\ j \in Jobs /\ j.cmd \in LedCmds /\ j.k \in 1 .. 3 /\ UNCHANGED setup
        /\ led' = [led EXCEPT ![j.k] = Switched(j.cmd, j.k)]
        /\ setup = Ready /\ Runs(p) /\ j.cmd \in Cmds[p]
    BY <1>1, <1>7 DEF Light, At, Placed, Called, Busy, LedCmds
  <2>2. \A q \in Procs \ {p} : job[q].cmd \notin LedCmds
    BY <2>1, OneAtATime DEF LedCmds
  <2>3. \A l \in 1 .. 3 : l <= j.k => led'[l] = Switched(j.cmd, l)
    BY <1>1, <2>1 DEF LedsSound, SoFar
  <2>4. Lowered'
    BY <2>1 DEF Lowered, Ready
  <2>5. CASE j.k = 3
    <3>1. Return(p) /\ job'[p] = None /\ \A q \in Procs \ {p} : job'[q] = job[q]
      BY <1>7, <2>5, Moved DEF Light
    <3>2. SoFar'
      BY <2>2, <3>1, NoneType DEF SoFar, LedCmds
    <3>3. LightsAgree'
      <4>1. \A l \in 1 .. 3 : led'[l] = Switched(j.cmd, l)
        BY <2>1, <2>3, <2>5
      <4>2. QED
        BY <4>1 DEF LightsAgree, Switched
    <3>4. QED
      BY <2>4, <3>2, <3>3 DEF LedsSound
  <2>6. CASE j.k # 3
    <3>1. GoOn(p, n) /\ n.cmd = j.cmd /\ n.k = j.k + 1
      BY <1>7, <2>1, <2>6, SetK DEF Light
    <3> HIDE DEF n
    <3>2. job'[p] = n /\ \A q \in Procs \ {p} : job'[q] = job[q]
      BY <3>1, Moved
    <3>3. SoFar'
      <4> SUFFICES ASSUME NEW q \in Procs, job'[q].cmd \in LedCmds, NEW l \in 1 .. 3, l < job'[q].k
                   PROVE  led'[l] = Switched(job'[q].cmd, l)
        BY DEF SoFar
      <4>1. q = p
        BY <2>2, <3>2
      <4>2. l <= j.k
        BY <2>1, <3>1, <3>2, <4>1
      <4>3. QED
        BY <2>3, <3>1, <3>2, <4>1, <4>2
    <3>4. LightsAgree'
      BY <2>1, <3>1, <3>2 DEF LightsAgree
    <3>5. QED
      BY <2>4, <3>3, <3>4 DEF LedsSound
  <2>7. QED
    BY <2>5, <2>6
<1>8. CASE Exit
  <2>1. \A p \in Procs : job'[p] = None
    BY <1>8 DEF Exit
  <2>2. QED
    BY <1>8, <2>1, NoneType
    DEF Exit, LedsSound, SoFar, Lowered, LightsAgree, LedCmds, Absent, Ready
<1>9. CASE Load \/ InitPin
  <2>1. /\ job' = job /\ setup # Ready /\ setup' \in 1 .. 9
        /\ setup' = 1 \/ (setup \in 1 .. 8 /\ setup' = setup + 1)
    BY <1>1, <1>9 DEF Load, InitPin, Absent, Ready
  <2>2. \A p \in Procs : job[p].cmd = "none"
    BY <2>1 DEF Called, Busy
  <2>3. \A l \in 1 .. 3 : l < setup' => led'[l] = 0
    BY <1>1, <1>9, <2>1 DEF Load, InitPin, LedsSound, Lowered
  <2>4. SoFar'
    BY <2>1, <2>2 DEF SoFar, LedCmds
  <2>5. Lowered' /\ LightsAgree'
    BY <2>3 DEF Lowered, LightsAgree, Ready
  <2>6. QED
    BY <2>4, <2>5 DEF LedsSound
<1>10. QED
  BY <1>2, <1>3, <1>4, <1>5, <1>6, <1>7, <1>8, <1>9 DEF Next

(* The LEDs agree between calls if pi2_init is waited for and the light is *)
(* switched by one process, or without SMP (pi2.c:231-243, 309-311).       *)
THEOREM LedsAgree == ASSUME ~Eager, Sole(LedCmds) PROVE Spec => []LightsAgree
<1>1. Init => LedsSound
  <2> SUFFICES ASSUME Init PROVE LedsSound
    OBVIOUS
  <2>1. \A p \in Procs : job[p].cmd = "none"
    BY NoneType DEF Init
  <2>2. QED
    BY <2>1 DEF Init, LedsSound, SoFar, Lowered, LightsAgree, LedCmds, Ready
<1>2. LedsSound => LightsAgree
  BY DEF LedsSound
<1>3. Typed /\ Called /\ LedsSound /\ [Next]_vars => LedsSound'
  BY LedsStep
<1>4. QED
  BY <1>1, <1>2, <1>3, TypedAlways, CalledAlways, PTL DEF Spec

-----------------------------------------------------------------------------
(* The motor.  Which pins are on at a half step.                           *)
LEMMA Pattern ==
  ASSUME NEW h \in 1 .. 8, NEW i \in Pins
  PROVE  /\ HalfSteps[h][i] \in {0, 1}
         /\ HalfSteps[h][i] = 1 <=>
              \/ i = 1 /\ h \in {8, 1, 2}
              \/ i = 2 /\ h \in {2, 3, 4}
              \/ i = 3 /\ h \in {4, 5, 6}
              \/ i = 4 /\ h \in {6, 7, 8}
<1>1. i \in {1, 2, 3, 4}
  BY DEF Pins
<1>2. CASE h = 1
  BY <1>1, <1>2 DEF HalfSteps
<1>3. CASE h = 2
  BY <1>1, <1>3 DEF HalfSteps
<1>4. CASE h = 3
  BY <1>1, <1>4 DEF HalfSteps
<1>5. CASE h = 4
  BY <1>1, <1>5 DEF HalfSteps
<1>6. CASE h = 5
  BY <1>1, <1>6 DEF HalfSteps
<1>7. CASE h = 6
  BY <1>1, <1>7 DEF HalfSteps
<1>8. CASE h = 7
  BY <1>1, <1>8 DEF HalfSteps
<1>9. CASE h = 8
  BY <1>1, <1>9 DEF HalfSteps
<1>10. QED
  BY <1>2, <1>3, <1>4, <1>5, <1>6, <1>7, <1>8, <1>9

Shows(h) == \A i \in Pins : coil[i] = HalfSteps[h][i]
Dark     == \A i \in Pins : coil[i] = 0

LEMMA HalfStepType == ASSUME NEW h \in 1 .. 8
                      PROVE  HalfSteps[h] \in [Pins -> {0, 1}] /\ HalfSteps[h] # Off
BY DEF HalfSteps, Off, Pins

LEMMA SameHalfStep ==
  ASSUME NEW g \in 1 .. 8, NEW h \in 1 .. 8, \A i \in Pins : HalfSteps[g][i] = HalfSteps[h][i]
  PROVE  g = h
<1>1. \A i \in Pins : HalfSteps[g][i] = 1 <=> HalfSteps[h][i] = 1
  OBVIOUS
<1>2. /\ g \in {8, 1, 2} <=> h \in {8, 1, 2}
      /\ g \in {2, 3, 4} <=> h \in {2, 3, 4}
      /\ g \in {4, 5, 6} <=> h \in {4, 5, 6}
      /\ g \in {6, 7, 8} <=> h \in {6, 7, 8}
  BY <1>1, Pattern DEF Pins
<1>3. QED
  BY <1>2

(* The rotor follows a half step, and stays when all coils are off.        *)
LEMMA FollowShows ==
  ASSUME MotorType, MotorType', Follow(coil'), NEW h \in 1 .. 8, Shows(h)', Way(field, h) # 4
  PROVE  field' = h /\ angle' = angle + Way(field, h) /\ slipped' = slipped
<1>1. coil' = HalfSteps[h] /\ coil' # Off
  BY HalfStepType DEF MotorType, Shows
<1>2. \A g \in 1 .. 8 : coil' = HalfSteps[g] => g = h
  BY <1>1, SameHalfStep
<1>3. QED
  BY <1>1, <1>2 DEF Follow

LEMMA FollowDark ==
  ASSUME MotorType, MotorType', Follow(coil'), Dark'
  PROVE  UNCHANGED <<field, angle, slipped>>
<1>1. coil' = Off
  BY DEF MotorType, Dark, Off, Pins
<1>2. \A h \in 1 .. 8 : coil' # HalfSteps[h]
  BY <1>1, HalfStepType
<1>3. QED
  BY <1>1, <1>2 DEF Follow

(* Where the rotor is at rest, and in the first half step of a cycle: at   *)
(* the half step 7, 8 or 1.                                                *)
Near == /\ field \in {7, 8, 1} /\ angle = 8 * turned + Way(1, field) /\ ~slipped
        /\ Dark \/ Shows(field)

(* The half step that the s-th of a call's cycle is.                       *)
Aim(cmd, s)  == IF cmd = "DOOROPEN" THEN 9 - s ELSE s
Base(cmd)    == IF cmd = "DOOROPEN" THEN 9 ELSE 1

(* In a later one: between the half step before and this one, which the    *)
(* pins below the k-th already have.                                       *)
Between(cmd, s, k) ==
  /\ field \in {Aim(cmd, s - 1), Aim(cmd, s)} /\ Shows(field) /\ ~slipped
  /\ angle = 8 * turned + field - Base(cmd)
  /\ \A i \in Pins : i < k => coil[i] = HalfSteps[Aim(cmd, s)][i]

InCycle(cmd, s, k) ==
  /\ s = 1 => Near /\ (k > 1 => Shows(field) /\ coil[1] = 1)
  /\ s \in 2 .. 8 => Between(cmd, s, k)
  /\ s = 9 => /\ field = Aim(cmd, 8) /\ Shows(field) /\ ~slipped
              /\ angle = 8 * turned + field - Base(cmd)

LEMMA StepsAim == ASSUME NEW cmd, NEW s \in 1 .. 8, NEW k \in Pins
                  PROVE  /\ Aim(cmd, s) \in 1 .. 8
                         /\ Steps(cmd)[s][k] = HalfSteps[Aim(cmd, s)][k]
<1>1. CASE cmd = "DOOROPEN"
  <2>1. backward[s] = HalfSteps[9 - s]
    BY DEF backward, HalfSteps
  <2>2. QED
    BY <1>1, <2>1 DEF Steps, Aim
<1>2. CASE cmd # "DOOROPEN"
  <2>1. forward[s] = HalfSteps[s]
    BY DEF forward, HalfSteps
  <2>2. QED
    BY <1>2, <2>1 DEF Steps, Aim
<1>3. QED
  BY <1>1, <1>2

(* A pin is set near the half step 8: the rotor stays near.                *)
LEMMA NearStep ==
  ASSUME MotorType, MotorType', Near, turned \in Int, turned' = turned,
         NEW k \in Pins, NEW v \in {0, 1}, SetPin(k, v), k \in {2, 3} => v = 0
  PROVE  /\ Near'
         /\ Dark => IF k \in {1, 4} /\ v = 1 THEN Shows(IF k = 1 THEN 1 ELSE 7)' ELSE Dark'
<1>1. coil' = [coil EXCEPT ![k] = v] /\ Follow(coil')
  BY DEF SetPin
<1>2. coil'[k] = v /\ \A i \in Pins \ {k} : coil'[i] = coil[i]
  BY <1>1 DEF MotorType
<1>3. \A f, h \in {7, 8, 1} : Way(f, h) # 4 /\ Way(1, f) + Way(f, h) = Way(1, h) /\ Way(f, h) \in Int
  BY DEF Way
<1>4. ASSUME NEW h \in {7, 8, 1}, Shows(h)' PROVE Near'
  <2>1. field \in {7, 8, 1} /\ h \in 1 .. 8 /\ angle = 8 * turned + Way(1, field) /\ ~slipped
    BY DEF Near
  <2>2. /\ Way(field, h) # 4 /\ Way(1, field) + Way(field, h) = Way(1, h)
        /\ Way(1, field) \in Int /\ Way(field, h) \in Int
    BY <1>3, <2>1
  <2>3. field' = h /\ angle' = angle + Way(field, h) /\ slipped' = slipped
    BY <1>1, <1>4, <2>1, <2>2, FollowShows
  <2>4. angle' = 8 * turned' + Way(1, h)
    BY <2>1, <2>2, <2>3
  <2>5. QED
    BY <1>4, <2>1, <2>3, <2>4 DEF Near, Shows
<1>5. ASSUME Dark' PROVE Near'
  <2>1. UNCHANGED <<field, angle, slipped>>
    BY <1>1, <1>5, FollowDark
  <2>2. QED
    BY <1>5, <2>1 DEF Near
<1>6. /\ Dark => IF k \in {1, 4} /\ v = 1 THEN Shows(IF k = 1 THEN 1 ELSE 7)' ELSE Dark'
      /\ ~Dark => Dark' \/ Shows(7)' \/ Shows(8)' \/ Shows(1)'
  <2>1. /\ HalfSteps[7][1] = 0 /\ HalfSteps[7][2] = 0 /\ HalfSteps[7][3] = 0 /\ HalfSteps[7][4] = 1
        /\ HalfSteps[8][1] = 1 /\ HalfSteps[8][2] = 0 /\ HalfSteps[8][3] = 0 /\ HalfSteps[8][4] = 1
        /\ HalfSteps[1][1] = 1 /\ HalfSteps[1][2] = 0 /\ HalfSteps[1][3] = 0 /\ HalfSteps[1][4] = 0
    BY Pattern DEF Pins
  <2>2. Pins = {1, 2, 3, 4}
    BY DEF Pins
  <2>3. CASE Dark
    <3>1. CASE k = 1
      BY <1>2, <2>1, <2>2, <2>3, <3>1 DEF Dark, Shows
    <3>2. CASE k = 4
      BY <1>2, <2>1, <2>2, <2>3, <3>2 DEF Dark, Shows
    <3>3. CASE k \in {2, 3}
      BY <1>2, <2>2, <2>3, <3>3 DEF Dark
    <3>4. QED
      BY <2>2, <2>3, <3>1, <3>2, <3>3
  <2>4. CASE ~Dark
    <3>1. Shows(field) /\ field \in {7, 8, 1}
      BY <2>4 DEF Near
    <3>2. CASE field = 7
      BY <1>2, <2>1, <2>2, <3>1, <3>2 DEF Dark, Shows
    <3>3. CASE field = 8
      BY <1>2, <2>1, <2>2, <3>1, <3>3 DEF Dark, Shows
    <3>4. CASE field = 1
      BY <1>2, <2>1, <2>2, <3>1, <3>4 DEF Dark, Shows
    <3>5. QED
      BY <2>4, <3>1, <3>2, <3>3, <3>4
  <2>5. QED
    BY <2>3, <2>4
<1>7. QED
  BY <1>4, <1>5, <1>6

LEMMA CoilMoves ==
  ASSUME MotorType, MotorType', turned \in Int, turned' = turned,
         NEW cmd \in DoorCmds, NEW s \in 1 .. 8, NEW k \in Pins,
         SetPin(k, Steps(cmd)[s][k]), InCycle(cmd, s, k)
  PROVE  IF k < 4 THEN InCycle(cmd, s, k + 1)' ELSE InCycle(cmd, s + 1, FirstPin(cmd))'
<1> DEFINE b == Aim(cmd, s)
           v == HalfSteps[b][k]
<1>1. b \in 1 .. 8 /\ v \in {0, 1} /\ SetPin(k, v) /\ FirstPin(cmd) \in 0 .. 1
  BY StepsAim, Pattern DEF FirstPin
<1>2. coil'[k] = v /\ Follow(coil') /\ \A i \in Pins \ {k} : coil'[i] = coil[i]
  BY <1>1 DEF SetPin, MotorType
<1>3. CASE s = 1
  <2>1. Near /\ (k > 1 => Shows(field) /\ coil[1] = 1)
    BY <1>3 DEF InCycle
  <2>2. b = (IF cmd = "DOOROPEN" THEN 8 ELSE 1)
        /\ v = (IF k = 1 \/ (k = 4 /\ cmd = "DOOROPEN") THEN 1 ELSE 0)
    BY <1>1, <1>3, Pattern DEF Aim, Pins
  <2>3. Near'
    BY <1>1, <2>1, <2>2, NearStep
  <2>4. coil'[1] = 1
    BY <1>2, <2>1, <2>2 DEF Pins
  <2>5. Shows(field)' /\ field' \in {8, 1}
    <3>1. Shows(field)'
      BY <2>3, <2>4 DEF Near, Dark, Pins
    <3>2. HalfSteps[7][1] # 1
      BY Pattern DEF Pins
    <3>3. QED
      BY <2>3, <2>4, <3>1, <3>2 DEF Near, Shows, Pins
  <2>6. CASE k < 4
    BY <1>3, <2>3, <2>4, <2>5, <2>6 DEF InCycle
  <2>7. CASE k = 4
    <3>1. HalfSteps[8][4] = 1 /\ HalfSteps[1][4] = 0
      BY Pattern DEF Pins
    <3>2. field' = b
      BY <1>2, <2>2, <2>5, <2>7, <3>1 DEF Shows, Pins
    <3>3. Way(1, 8) = -1 /\ Way(1, 1) = 0
      BY DEF Way
    <3>4. angle' = 8 * turned' + field' - Base(cmd)
      BY <2>2, <2>3, <3>2, <3>3 DEF Near, Base
    <3>5. Between(cmd, 2, FirstPin(cmd))'
      BY <1>1, <1>3, <2>3, <2>5, <3>2, <3>4 DEF Between, Near, Pins
    <3>6. QED
      BY <1>3, <2>7, <3>5 DEF InCycle
  <2>8. QED
    BY <2>6, <2>7 DEF Pins
<1>4. CASE s \in 2 .. 8
  <2> DEFINE a == Aim(cmd, s - 1)
  <2>1. Between(cmd, s, k)
    BY <1>4 DEF InCycle
  <2>2. a \in 1 .. 8 /\ (b = a + 1 \/ b = a - 1)
    BY <1>1, <1>4 DEF Aim
  <2>3. v # HalfSteps[a][k] => \A i \in Pins \ {k} : HalfSteps[a][i] = HalfSteps[b][i]
    BY <1>1, <2>2, Pattern DEF Pins
  <2>4. PICK h \in {a, b} : Shows(h)' /\ (field = b => h = b)
    <3>1. CASE field = b \/ v # HalfSteps[a][k]
      BY <1>2, <2>1, <2>3, <3>1 DEF Between, Shows
    <3>2. CASE field = a /\ a # b /\ v = HalfSteps[a][k]
      BY <1>2, <2>1, <3>2 DEF Between, Shows
    <3>3. QED
      BY <2>1, <2>2, <3>1, <3>2 DEF Between
  <2>5. field \in {a, b} /\ Way(field, h) = h - field /\ Way(field, h) # 4
    BY <1>1, <2>1, <2>2 DEF Between, Way
  <2>6. field' = h /\ angle' = angle + h - field /\ slipped' = slipped
    BY <1>1, <1>2, <2>2, <2>4, <2>5, FollowShows DEF MotorType
  <2>7. \A i \in Pins : i <= k => coil'[i] = HalfSteps[b][i]
    BY <1>2, <2>1 DEF Between, Pins
  <2>8. angle' = 8 * turned' + field' - Base(cmd) /\ ~slipped'
    BY <1>1, <2>1, <2>2, <2>6 DEF Between, Base, MotorType
  <2>9. CASE k < 4
    <3>1. Between(cmd, s, k + 1)'
      BY <2>4, <2>6, <2>7, <2>8, <2>9 DEF Between, Pins
    <3>2. QED
      BY <1>4, <2>9, <3>1 DEF InCycle
  <2>10. CASE k = 4
    <3>1. field' = b /\ Shows(field)'
      <4>1. \A i \in Pins : HalfSteps[h][i] = HalfSteps[b][i]
        BY <2>4, <2>7, <2>10 DEF Shows, Pins
      <4>2. QED
        BY <1>1, <2>2, <2>4, <2>6, <4>1, SameHalfStep
    <3>2. s + 1 \in 2 .. 8 => Between(cmd, s + 1, FirstPin(cmd))'
      BY <1>1, <2>8, <3>1 DEF Between, Pins
    <3>3. QED
      BY <1>4, <2>8, <2>10, <3>1, <3>2 DEF InCycle
  <2>11. QED
    BY <2>9, <2>10 DEF Pins
<1>5. QED
  BY <1>3, <1>4

(* At the end of a cycle the rotor is where the next call can begin.       *)
LEMMA CycleMoves ==
  ASSUME MotorType, UNCHANGED motor, turned \in Int, NEW cmd \in DoorCmds,
         turned' = (IF cmd = "DOOROPEN" THEN turned - 1 ELSE turned + 1),
         NEW k, InCycle(cmd, 9, k)
  PROVE  Near'
<1>1. field = Aim(cmd, 8) /\ Shows(field) /\ ~slipped
      /\ angle = 8 * turned + field - Base(cmd)
  BY DEF InCycle
<1>2. Way(1, 8) = -1 /\ Way(1, 1) = 0
  BY DEF Way
<1>3. /\ coil' = coil /\ field' = field /\ angle' = angle /\ slipped' = slipped
      /\ field \in {8, 1} /\ angle = 8 * turned' + Way(1, field)
  BY <1>1, <1>2 DEF motor, Aim, Base, MotorType
<1>4. QED
  BY <1>1, <1>3 DEF Near, Shows

-----------------------------------------------------------------------------
(* One process moves the door at a time, and no pin is set up meanwhile.   *)
SoleMover == ~SMP \/ (~Eager /\ Sole(DoorCmds))

MotorSound ==
  /\ \A p \in Procs : job[p].cmd \in DoorCmds => InCycle(job[p].cmd, job[p].s, job[p].k)
  /\ (\A p \in Procs : job[p].cmd \notin DoorCmds) => Near

(* A step that moves neither the motor nor a call that moves it.           *)
LEMMA MotorRests ==
  ASSUME MotorSound, UNCHANGED <<motor, turned>>,
         \A q \in Procs : \/ job'[q] = job[q]
                          \/ job[q].cmd \notin DoorCmds /\ job'[q].cmd \notin DoorCmds
  PROVE  MotorSound'
<1>1. UNCHANGED <<coil, field, angle, slipped, turned>>
  BY DEF motor
<1>2. Near' <=> Near
  BY <1>1 DEF Near, Dark, Shows
<1>3. ASSUME NEW q \in Procs, job'[q].cmd \in DoorCmds
      PROVE  InCycle(job[q].cmd, job[q].s, job[q].k)'
  <2>1. job'[q] = job[q] /\ InCycle(job[q].cmd, job[q].s, job[q].k)
    BY <1>3 DEF MotorSound
  <2>2. QED
    BY <1>1, <1>2, <2>1 DEF InCycle, Between, Shows, Aim, Base
<1>4. QED
  BY <1>2, <1>3 DEF MotorSound

LEMMA MotorStep ==
  ASSUME SoleMover, Typed, Typed', Called, MotorSound, [Next]_vars
  PROVE  MotorSound'
<1>1. /\ job \in [Procs -> Jobs] /\ Placed /\ MotorType /\ MotorType' /\ turned \in Int
      /\ setup \in 0 .. 9
  BY DEF Typed, TypeOK, Absent, Ready
<1>2. ASSUME NEW p \in Procs, NEW q \in Procs, Runs(p), NEW c \in Cmds[p],
             c \in DoorCmds, job[q].cmd \in DoorCmds
      PROVE  q = p
  BY <1>2, OneAtATime DEF SoleMover, Sole, DoorCmds
<1>3. CASE UNCHANGED vars
  BY <1>3, MotorRests DEF vars
<1>4. ASSUME NEW p \in Procs, Ioctl(p) PROVE MotorSound'
  <2>1. PICK cmd \in Cmds[p] : GoOn(p, [None EXCEPT !.cmd = cmd, !.k = FirstPin(cmd)])
    BY <1>4 DEF Ioctl
  <2> DEFINE n == [None EXCEPT !.cmd = cmd, !.k = FirstPin(cmd)]
  <2>2. /\ cmd \in AllCmds /\ n.cmd = cmd /\ n.k = FirstPin(cmd) /\ n.s = 1 /\ GoOn(p, n)
    BY <2>1, Pi2Procs, StartType
  <2> HIDE DEF n
  <2>3. job'[p] = n /\ \A q \in Procs \ {p} : job'[q] = job[q]
    BY <2>2, Moved
  <2>4. UNCHANGED <<motor, turned>> /\ Runs(p) /\ job[p].cmd = "none"
    BY <1>4 DEF Ioctl, At
  <2>5. CASE cmd \notin DoorCmds
    BY <2>2, <2>3, <2>4, <2>5, MotorRests DEF DoorCmds
  <2>6. CASE cmd \in DoorCmds
    <3>1. \A q \in Procs : job[q].cmd \notin DoorCmds
      BY <1>2, <2>4, <2>6 DEF DoorCmds
    <3>2. Near'
      <4>1. Near /\ UNCHANGED <<coil, field, angle, slipped, turned>>
        BY <2>4, <3>1 DEF MotorSound, motor
      <4>2. QED
        BY <4>1 DEF Near, Dark, Shows
    <3>3. job'[p].s = 1 /\ job'[p].k \in 0 .. 1
      BY <2>2, <2>3 DEF FirstPin
    <3>4. InCycle(job[p].cmd, job[p].s, job[p].k)'
      BY <3>2, <3>3 DEF InCycle
    <3>5. QED
      BY <2>2, <2>3, <2>6, <3>1, <3>4 DEF MotorSound
  <2>7. QED
    BY <2>5, <2>6
<1>5. ASSUME NEW p \in Procs, job[p].cmd \in DoorCmds, Runs(p) PROVE
        /\ \A q \in Procs \ {p} : job[q].cmd \notin DoorCmds
        /\ InCycle(job[p].cmd, job[p].s, job[p].k)
  <2>1. job[p].cmd \in Cmds[p]
    BY <1>5 DEF Called, Busy, DoorCmds
  <2>2. QED
    BY <1>2, <1>5, <2>1 DEF MotorSound
<1>6. ASSUME NEW p \in Procs, Coil(p) PROVE MotorSound'
  <2>1. PICK c, s, k : c = job[p].cmd /\ s = job[p].s /\ k = job[p].k
    OBVIOUS
  <2>2. /\ c \in DoorCmds /\ s \in 1 .. 8 /\ k \in Pins /\ SetPin(k, Steps(c)[s][k])
        /\ turned' = turned /\ Runs(p)
    BY <1>1, <1>6, <2>1, JobFields DEF Coil, At
  <2>3. InCycle(c, s, k) /\ \A q \in Procs \ {p} : job[q].cmd \notin DoorCmds
    BY <1>5, <2>1, <2>2
  <2>4. IF k < 4 THEN InCycle(c, s, k + 1)' ELSE InCycle(c, s + 1, FirstPin(c))'
    BY <1>1, <2>2, <2>3, CoilMoves
  <2>5. /\ job'[p].cmd = c
        /\ IF k < 4 THEN job'[p].k = k + 1 /\ job'[p].s = s
                    ELSE job'[p].k = FirstPin(c) /\ job'[p].s = s + 1
        /\ \A q \in Procs \ {p} : job'[q] = job[q]
    BY <1>6, <2>1, <2>2, CoilLocals DEF Pins
  <2>6. InCycle(job[p].cmd, job[p].s, job[p].k)'
    BY <2>4, <2>5 DEF InCycle, Between, Near, Dark, Shows
  <2>7. QED
    BY <2>2, <2>3, <2>5, <2>6 DEF MotorSound
<1>7. ASSUME NEW p \in Procs, SpeakerStep(p) PROVE MotorSound'
  <2>1. job[p].cmd \in DoorCmds /\ job[p].k = 0 /\ Runs(p) /\ UNCHANGED <<motor, turned>>
    BY <1>7 DEF SpeakerStep, At, DoorCmds
  <2>2. /\ InCycle(job[p].cmd, job[p].s, job[p].k)
        /\ \A q \in Procs \ {p} : job[q].cmd \notin DoorCmds
    BY <1>5, <2>1
  <2>3. /\ job'[p].cmd = job[p].cmd /\ job'[p].s = job[p].s /\ job'[p].k = 1
        /\ \A q \in Procs \ {p} : job'[q] = job[q]
    BY <1>7, SpeakerLocals
  <2>4. UNCHANGED <<coil, field, angle, slipped, turned>>
    BY <2>1 DEF motor
  <2>5. InCycle(job[p].cmd, job[p].s, job[p].k)'
    BY <2>1, <2>2, <2>3, <2>4 DEF InCycle, Between, Near, Dark, Shows, Pins, Aim, Base
  <2>6. QED
    BY <2>1, <2>2, <2>3, <2>5 DEF MotorSound
<1>8. ASSUME NEW p \in Procs, CycleEnd(p) PROVE MotorSound'
  <2>1. PICK c, s, k : c = job[p].cmd /\ s = job[p].s /\ k = job[p].k
    OBVIOUS
  <2>2. /\ c \in DoorCmds /\ s = 9 /\ k = FirstPin(c) /\ Runs(p) /\ UNCHANGED motor
        /\ turned' = IF c = "DOOROPEN" THEN turned - 1 ELSE turned + 1
    BY <1>1, <1>8, <2>1 DEF CycleEnd, At, Placed
  <2>3. InCycle(c, 9, k) /\ \A q \in Procs \ {p} : job[q].cmd \notin DoorCmds
    BY <1>5, <2>1, <2>2
  <2>4. Near'
    BY <1>1, <2>2, <2>3, CycleMoves
  <2>5. /\ job'[p].cmd = "none" \/ (job'[p].s = 1 /\ job'[p].k \in 0 .. 1)
        /\ \A q \in Procs \ {p} : job'[q] = job[q]
    <3>1. FirstPin(c) \in 0 .. 1
      BY DEF FirstPin
    <3>2. /\ \/ job'[p].cmd = "none"
             \/ job'[p].s = 1 /\ job'[p].k = job[p].k
          /\ \A q \in Procs \ {p} : job'[q] = job[q]
      BY <1>8, EndLocals, NoneType
    <3>3. QED
      BY <2>1, <2>2, <3>1, <3>2
  <2>6. InCycle(job[p].cmd, job[p].s, job[p].k)' \/ job'[p].cmd = "none"
    BY <2>4, <2>5 DEF InCycle
  <2>7. QED
    BY <2>3, <2>4, <2>5, <2>6 DEF MotorSound, DoorCmds
<1>9. ASSUME NEW p \in Procs, Tone(p) \/ Light(p) PROVE MotorSound'
  <2>1. /\ job[p].cmd \notin DoorCmds /\ UNCHANGED <<motor, turned>>
        /\ job'[p].cmd \in {"none", job[p].cmd}
        /\ \A q \in Procs \ {p} : job'[q] = job[q]
    BY <1>9, OtherLocals, NoneType
  <2>2. QED
    BY <2>1, MotorRests DEF DoorCmds
<1>10. CASE Exit \/ Load
  BY <1>10, MotorRests, NoneType DEF Exit, Load
<1>11. CASE InitPin
  <2>1. \A p \in Procs : job[p].cmd \notin DoorCmds
    <3>1. \A p \in Procs : Busy(p) => (SMP \/ cpu = p) /\ (~Eager => setup = Ready)
      BY DEF Called
    <3>2. setup # Ready /\ (SMP \/ cpu = Nobody)
      BY <1>11 DEF InitPin, Ready
    <3>3. QED
      BY <3>1, <3>2, Pi2Procs DEF SoleMover, Busy, DoorCmds
  <2>2. Near /\ job' = job /\ turned' = turned
    BY <1>11, <2>1 DEF MotorSound, InitPin
  <2>3. Near'
    <3>1. CASE setup \in 4 .. 7
      <4>1. PICK k : k = setup - 3
        OBVIOUS
      <4>2. k \in Pins /\ SetPin(k, 0)
        BY <1>11, <3>1, <4>1 DEF InitPin, Pins
      <4>3. QED
        BY <1>1, <2>2, <4>2, NearStep
    <3>2. CASE setup \notin 4 .. 7
      BY <1>11, <2>2, <3>2 DEF InitPin, motor, Near, Dark, Shows
    <3>3. QED
      BY <3>1, <3>2
  <2>4. QED
    BY <2>1, <2>2, <2>3 DEF MotorSound
<1>12. QED
  BY <1>3, <1>4, <1>6, <1>7, <1>8, <1>9, <1>10, <1>11 DEF Next

LEMMA MotorAlways == ASSUME SoleMover PROVE Spec => []MotorSound
<1>1. Init => MotorSound
  <2> SUFFICES ASSUME Init PROVE MotorSound
    OBVIOUS
  <2>1. \A p \in Procs : job[p].cmd = "none"
    BY NoneType DEF Init
  <2>2. Near
    <3>1. field = 1 /\ angle = 0 /\ slipped = FALSE /\ turned = 0 /\ Way(1, 1) = 0
      BY DEF Init, MotorInit, Way
    <3>2. Dark
      BY DEF Init, MotorInit, Dark, Off, Pins
    <3>3. QED
      BY <3>1, <3>2 DEF Near
  <2>3. QED
    BY <2>1, <2>2 DEF MotorSound, DoorCmds
<1>2. Typed /\ Typed' /\ Called /\ MotorSound /\ [Next]_vars => MotorSound'
  BY MotorStep
<1>3. QED
  BY <1>1, <1>2, TypedAlways, CalledAlways, PTL DEF Spec

(* The rotor never loses its position (pi2.c:26-67, 81-122, 147-207).      *)
THEOREM NeverSlips == ASSUME SoleMover PROVE Spec => []NoSlip
<1>1. Typed /\ MotorSound => NoSlip
  <2> SUFFICES ASSUME Typed, MotorSound PROVE NoSlip
    OBVIOUS
  <2>1. CASE \A p \in Procs : job[p].cmd \notin DoorCmds
    BY <2>1 DEF MotorSound, Near, NoSlip
  <2>2. ASSUME NEW p \in Procs, job[p].cmd \in DoorCmds PROVE NoSlip
    <3>1. job[p].s \in 1 .. 9 /\ InCycle(job[p].cmd, job[p].s, job[p].k)
      BY <2>2, JobFields DEF Typed, TypeOK, MotorSound
    <3>2. QED
      BY <3>1 DEF InCycle, Between, Near, NoSlip
  <2>3. QED
    BY <2>1, <2>2
<1>2. QED
  BY <1>1, TypedAlways, MotorAlways, PTL

(* While the door rests, it is where the calls so far have turned it.      *)
THEOREM DoorIsThere == ASSUME SoleMover PROVE Spec => []DoorWhereCommanded
<1>1. MotorSound => DoorWhereCommanded
  BY DEF MotorSound, Near, DoorWhereCommanded
<1>2. QED
  BY <1>1, MotorAlways, PTL
=============================================================================
