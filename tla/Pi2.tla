-------------------------------- MODULE Pi2 ---------------------------------
(***************************************************************************)
(* The door controller of src/project/pi2.c.  Its ioctl turns the motor,   *)
(* plays on the speaker and switches three LEDs, pin by pin and without a  *)
(* lock.  The delays are busy waits (udelay, mdelay), so without SMP a     *)
(* process keeps the processor for the whole call.  The module can be      *)
(* removed and set up again while no call is in progress.  Loading makes   *)
(* the device available first and then sets its pins low, one by one.      *)
(* Removal takes the device away last; that a call begins before it does   *)
(* is left out, like every call that a removal catches.                    *)
(***************************************************************************)
EXTENDS StepMotor, Kernel, FiniteSets

CONSTANTS
  Procs,       \* the processes
  Cmds,        \* the commands each of them issues
  Periods,     \* periods of the tone that play() makes: 8 * 100 in the code
  Eager,       \* TRUE: they may call before pi2_init has set up the pins
  MaxCalls     \* bound: calls and reloads in one behaviour

(* The commands, as the functions of pi2_app.c issue them.                 *)
DoorCmds == {"DOOROPEN", "DOORCLOSE", "DOORSPEAKER"}
LedCmds  == {"LEDON", "LEDOFF"}
AllCmds  == DoorCmds \cup LedCmds \cup {"SPEAKER"}

ASSUME Pi2Procs == Nobody \notin Procs /\ Cmds \in [Procs -> SUBSET AllCmds]
ASSUME Pi2Bounds == Eager \in BOOLEAN /\ Periods \in Nat \ {0} /\ MaxCalls \in Nat

VARIABLES
  setup,       \* the next pin of pi2_init; Absent and Ready around it
  speaker,     \* the value of SPEAKER
  led,         \* the values of LED1 .. LED3
  job,         \* the call each process is in, and its locals
  calls,       \* calls and reloads so far
  turned       \* history: cycles forward less cycles backward, all finished

vars == <<cpu, spinlock, motor, setup, speaker, led, job, calls, turned>>

Absent == 0   \* not loaded
Ready  == 9   \* pi2_init has returned; it sets 3 LEDs, 4 coils and the speaker

None == [cmd |-> "none", i |-> 0, s |-> 1, k |-> 1, playNote |-> 0, playDelay |-> 0]

Init ==
  /\ KernelInit /\ MotorInit
  /\ setup = Ready /\ speaker = 0 /\ led = [l \in 1 .. 3 |-> 0]
  /\ job = [p \in Procs |-> None] /\ calls = 0 /\ turned = 0

-----------------------------------------------------------------------------
(* pi2_ioctl: which way the door turns, and how far.                       *)
Steps(cmd)  == IF cmd = "DOOROPEN" THEN backward ELSE forward
Cycles(cmd) == Degree(IF cmd = "DOORCLOSE" THEN 360 ELSE 3600)

(* The pin of the pattern to begin with; forwardSpeaker looks at the       *)
(* speaker first, before every other pattern.                              *)
FirstPin(cmd) == IF cmd = "DOORSPEAKER" THEN 0 ELSE 1

At(p, cmds) == job[p].cmd \in cmds /\ Runs(p)

GoOn(p, j)  == job' = [job EXCEPT ![p] = j] /\ KeepCpu(p)
Return(p)   == job' = [job EXCEPT ![p] = None] /\ GiveUpCpu

Ioctl(p) == \E cmd \in Cmds[p] :
  /\ At(p, {"none"}) /\ calls < MaxCalls
  /\ setup = Ready \/ (Eager /\ setup # Absent)
  /\ calls' = calls + 1
  /\ GoOn(p, [None EXCEPT !.cmd = cmd, !.k = FirstPin(cmd)])
  /\ UNCHANGED <<spinlock, motor, setup, speaker, led, turned>>

(* The next pin of the half step, or the first one of the next.            *)
Coil(p) == LET j == job[p] IN
  /\ At(p, DoorCmds) /\ j.k \in Pins /\ j.s # 9
  /\ SetPin(j.k, Steps(j.cmd)[j.s][j.k])
  /\ GoOn(p, IF j.k < 4 THEN [j EXCEPT !.k = j.k + 1]
                        ELSE [j EXCEPT !.k = FirstPin(j.cmd), !.s = j.s + 1])
  /\ UNCHANGED <<spinlock, setup, speaker, led, calls, turned>>

(* forwardSpeaker: 1 before the half steps 1 and 5, 0 before 3 and 7.  The *)
(* test playNote % 50 >= 0 always succeeds.                                *)
Bug_Beat(s) == IF s \in {3, 7} THEN 1 ELSE 0
Beat(s) == IF s \in {1, 5} THEN 1 ELSE 0

SpeakerStep(p) == LET j == job[p] IN
  /\ At(p, {"DOORSPEAKER"}) /\ j.k = 0 /\ j.s # 9
  /\ speaker' = IF j.s % 2 = 1 /\ j.playDelay = 0 THEN Beat(j.s) ELSE speaker
  /\ GoOn(p, [j EXCEPT !.k = 1])
  /\ UNCHANGED <<spinlock, motor, setup, led, calls, turned>>

(* The end of a cycle: 50 cycles and one more with sound, two without.     *)
Bug_Tempo(j) ==
  LET n == j.playNote + 1
  IN  IF n = 53      THEN [j EXCEPT !.playNote = n, !.playDelay = 0]
      ELSE IF n > 50 THEN [j EXCEPT !.playNote = n, !.playDelay = 1]
                     ELSE [j EXCEPT !.playNote = n]
Tempo(j) ==
  LET n == j.playNote + 1
  IN  IF n = 53      THEN [j EXCEPT !.playNote = 0, !.playDelay = 0]
      ELSE IF n > 50 THEN [j EXCEPT !.playNote = n, !.playDelay = 1]
                     ELSE [j EXCEPT !.playNote = n]

CycleEnd(p) == LET j == job[p] IN
  /\ At(p, DoorCmds) /\ j.s = 9
  /\ turned' = IF j.cmd = "DOOROPEN" THEN turned - 1 ELSE turned + 1
  /\ IF j.i + 1 = Cycles(j.cmd) THEN Return(p)
     ELSE LET t == IF j.cmd = "DOORSPEAKER" THEN Tempo(j) ELSE j
          IN  GoOn(p, [t EXCEPT !.i = j.i + 1, !.s = 1])
  /\ UNCHANGED <<spinlock, motor, setup, speaker, led, calls>>

(* play: one half period of the tone.                                      *)
Tone(p) == LET j == job[p] IN
  /\ At(p, {"SPEAKER"})
  /\ speaker' = IF j.k = 1 THEN 1 ELSE 0
  /\ IF j.k = 1 THEN GoOn(p, [j EXCEPT !.k = 2])
     ELSE IF j.i + 1 = Periods THEN Return(p)
     ELSE GoOn(p, [j EXCEPT !.i = j.i + 1, !.k = 1])
  /\ UNCHANGED <<spinlock, motor, setup, led, calls, turned>>

(* turnOn and turnOff: one LED after the other.                            *)
Bug_Switched(cmd, l) == IF cmd = "LEDON" \/ l = 3 THEN 1 ELSE 0
Switched(cmd, l) == IF cmd = "LEDON" THEN 1 ELSE 0

Light(p) == LET j == job[p] IN
  /\ At(p, LedCmds)
  /\ led' = [led EXCEPT ![j.k] = Switched(j.cmd, j.k)]
  /\ IF j.k = 3 THEN Return(p) ELSE GoOn(p, [j EXCEPT !.k = j.k + 1])
  /\ UNCHANGED <<spinlock, motor, setup, speaker, calls, turned>>

(* pi2_exit sets the speaker and the LEDs low, frees the pins, and deletes *)
(* the device.                                                             *)
Exit ==
  /\ setup = Ready /\ setup' = Absent /\ \A p \in Procs : job[p] = None
  /\ speaker' = 0 /\ led' = [l \in 1 .. 3 |-> 0]
  /\ UNCHANGED <<cpu, spinlock, motor, job, calls, turned>>

(* pi2_init: cdev_add, ...                                                 *)
Load ==
  /\ setup = Absent /\ setup' = 1 /\ calls < MaxCalls /\ calls' = calls + 1
  /\ UNCHANGED <<cpu, spinlock, motor, speaker, led, job, turned>>

(* ... and gpio_request_one(..., GPIOF_OUT_INIT_LOW, ...) of each pin, which*)
(* may give up the processor.  A freed pin kept its value until here.      *)
InitPin ==
  /\ setup \in 1 .. 8 /\ setup' = setup + 1 /\ (SMP \/ cpu = Nobody)
  /\ IF setup \in 1 .. 3 THEN led' = [led EXCEPT ![setup] = 0] ELSE UNCHANGED led
  /\ IF setup \in 4 .. 7 THEN SetPin(setup - 3, 0) ELSE UNCHANGED motor
  /\ speaker' = IF setup = 8 THEN 0 ELSE speaker
  /\ UNCHANGED <<cpu, spinlock, job, calls, turned>>

Next ==
  \/ \E p \in Procs :
       Ioctl(p) \/ Coil(p) \/ SpeakerStep(p) \/ CycleEnd(p) \/ Tone(p) \/ Light(p)
  \/ Exit \/ Load \/ InitPin

Spec == Init /\ [][Next]_vars

-----------------------------------------------------------------------------
Jobs == [cmd : {"none"} \cup AllCmds, i : Nat, s : 1 .. 9,
         k : 0 .. 4, playNote : 0 .. 52, playDelay : {0, 1}]

MotorType ==
  coil \in [Pins -> {0, 1}] /\ field \in 1 .. 8 /\ angle \in Int /\ slipped \in BOOLEAN

TypeOK ==
  /\ cpu \in Procs \cup {Nobody} /\ spinlock = Nobody
  /\ MotorType
  /\ setup \in Absent .. Ready /\ speaker \in {0, 1} /\ led \in [1 .. 3 -> {0, 1}]
  /\ job \in [Procs -> Jobs] /\ calls \in Nat /\ turned \in Int

(* However opening, closing, reloading and the wrap of the half steps      *)
(* follow each other, the rotor never loses its position between two pins  *)
(* (pi2.c:26-67, 81-122, 147-207, 314-317).                                *)
NoSlip == ~slipped

(* While the door rests, it is where the calls so far have turned it, but  *)
(* for the one or two half steps before the start of the next cycle.       *)
DoorWhereCommanded ==
  (\A p \in Procs : job[p].cmd \notin DoorCmds) =>
    field \in {7, 8, 1} /\ angle = 8 * turned + Way(1, field)

(* Whoever moved the door at the same time, and where the rotor was lost,   *)
(* the coils are left next to the first half step of either direction once *)
(* the last of them has returned (pi2.c:57-66, 112-121, 245-275, 314-317). *)
RestsAtStart ==
  (\A p \in Procs : job[p].cmd \notin DoorCmds) => coil[2] = 0 /\ coil[3] = 0

(* The speaker is low whenever nobody plays, whoever played last and with  *)
(* whom (pi2.c:148-188, 200-206, 213-216).                                 *)
SilentAtRest ==
  (\A p \in Procs : job[p].cmd \notin {"SPEAKER", "DOORSPEAKER"}) => speaker = 0

(* The three LEDs agree whenever no call is switching them, whatever was   *)
(* loaded and switched before, if calls wait for pi2_init and, with SMP,   *)
(* one process has the light to itself (pi2.c:231-243, 309-311, 326-345).  *)
LightsAgree ==
  setup = Ready /\ (\A p \in Procs : job[p].cmd \notin LedCmds) =>
    \A l \in 1 .. 3 : led[l] = led[1]
=============================================================================
