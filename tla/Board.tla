------------------------------- MODULE Board --------------------------------
(***************************************************************************)
(* The sensor drivers and the LED timer, for one board.  c3_mod and ch2_mod*)
(* share LED1 and nothing else; a behaviour loads one or the other.        *)
(***************************************************************************)
EXTENDS SensorLine, TimerLed

boardVars == <<lineVars, lightVars, pin, isr, softirq, crashed>>

Init == PiInit /\ LineInit /\ LightsInit

Apart == loads' = 0 \/ lights' = 0

Next == \/ LineNext /\ UNCHANGED lightVars /\ Apart
        \/ LightsNext /\ UNCHANGED lineVars /\ Apart

(* The processor serves the handler, timers fire when their time is over,  *)
(* and raised soft interrupts run; so do a thread, a work queue, and the   *)
(* removal that waits for them.                                            *)
Fairness ==
  /\ WF_boardVars(ArmTimer /\ UNCHANGED lightVars)
  /\ WF_boardVars(TimerFires /\ UNCHANGED lightVars)
  /\ WF_boardVars(TimerRuns /\ UNCHANGED lightVars)
  /\ WF_boardVars(TaskletRuns /\ UNCHANGED lightVars)
  /\ WF_boardVars((AskStop \/ ThreadEnds \/ Flush) /\ UNCHANGED lightVars)
  /\ WF_boardVars(WorkRuns /\ UNCHANGED lightVars)
  /\ WF_boardVars(LightsTimer /\ UNCHANGED lineVars)

FairSpec == Init /\ [][Next]_boardVars /\ Fairness

PiType ==
  /\ pin \in [Leds -> {0, 1}] /\ isr \in {"idle", "arm"} /\ crashed \in BOOLEAN
  /\ softirq \subseteq {"led", "tasklet", "lights"}

TypeOK == PiType /\ LineType /\ LightsType

(* Nothing of a removed driver can still run: neither a handler, tasklet,  *)
(* timer function or item of a work queue of the line's drivers, nor       *)
(* ch2_mod's timer (c3_mod.c:94, pir_tasklet.c:57-59, kthreadNworkq.c:106- *)
(* 115, ch2_mod.c:72).                                                     *)
RemovedIsGone == NoRemovedCode /\ LightsTimerGone
=============================================================================
