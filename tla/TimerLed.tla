------------------------------ MODULE TimerLed ------------------------------
(***************************************************************************)
(* src/08/ch2_mod.c: three LEDs that a timer lights in turn, once a        *)
(* second.  The timer function arms the timer again; loading arms it       *)
(* before the pins are requested, and removal sets the pins low and frees  *)
(* them before it deletes the timer.                                       *)
(***************************************************************************)
EXTENDS Integers, FiniteSets, Pi

CONSTANT MaxLights   \* bound: how often the module is loaded

VARIABLES
  stage,     \* how far simple_timer_init or simple_timer_exit has come
  armed,     \* the timer is pending
  data,      \* my_timer.data
  write,     \* the pin my_timer_func sets next; 7 when only the timer is left to arm
  lights     \* how often the module was loaded

lightVars == <<stage, armed, data, write, lights>>

Gone    == 0
Request == 1 .. 3     \* gpio_request_one of LED1 .. LED3 is next
Loaded  == 4
SetLow  == 5 .. 7     \* gpio_set_value, gpio_free of LED1 .. LED3 is next
Delete  == 8          \* del_timer is next

LightsInit ==
  stage = Gone /\ armed = FALSE /\ data = LED1 /\ write = LED1 /\ lights = 0

Running == "lights" \in softirq

Arm ==
  /\ ProcessRuns /\ stage = Gone /\ ~Running /\ ~armed
  /\ lights < MaxLights /\ lights' = lights + 1
  /\ stage' = 1 /\ armed' = TRUE /\ data' = LED1
  /\ UNCHANGED <<write, pin, isr, softirq, crashed>>

RequestPin ==
  /\ ProcessRuns /\ stage \in Request /\ stage' = stage + 1
  /\ SetLed(3 + stage, 0)
  /\ UNCHANGED <<armed, data, write, lights, isr, softirq, crashed>>

(* The removal begins.                                                     *)
Remove ==
  /\ ProcessRuns /\ stage = Loaded /\ stage' = Loaded + 1
  /\ UNCHANGED <<armed, data, write, lights, pin, isr, softirq, crashed>>

FreePin ==
  /\ ProcessRuns /\ stage \in SetLow /\ stage' = stage + 1
  /\ SetLed(stage - 1, 0)
  /\ UNCHANGED <<armed, data, write, lights, isr, softirq, crashed>>

(* del_timer: it does not wait for a timer function that is running.  The  *)
(* module's memory goes with it.                                           *)
Bug_Disarmed == armed
Disarmed == FALSE

DeleteTimer ==
  /\ ProcessRuns /\ stage = Delete /\ stage' = Gone /\ armed' = Disarmed
  /\ data' = LED1 /\ write' = LED1
  /\ UNCHANGED <<lights, pin, isr, softirq, crashed>>

-----------------------------------------------------------------------------
(* The second is over: the kernel takes the timer off its list and calls   *)
(* my_timer_func.                                                          *)
Fires ==
  /\ SoftirqRuns /\ armed /\ ~Running /\ stage # Gone
  /\ armed' = FALSE /\ softirq' = softirq \cup {"lights"}
  /\ UNCHANGED <<stage, data, write, lights, pin, isr, crashed>>

Bug_Level(l) == IF l = data THEN 1 ELSE pin[l]
Level(l) == IF l = data THEN 1 ELSE 0

WriteLed ==
  /\ SoftirqRuns /\ Running /\ write \in Leds /\ write' = write + 1
  /\ SetLed(write, Level(write))
  /\ UNCHANGED <<stage, armed, data, lights, isr, softirq, crashed>>

Bug_Following(d) == 4 + (d % 2)
Following(d) == 4 + (d % 3)

ArmAgain ==
  /\ SoftirqRuns /\ Running /\ write = LED3 + 1
  /\ data' = Following(data) /\ armed' = TRUE /\ softirq' = softirq \ {"lights"}
  /\ write' = LED1
  /\ UNCHANGED <<stage, lights, pin, isr, crashed>>

LightsProcess == Arm \/ RequestPin \/ Remove \/ FreePin \/ DeleteTimer
LightsTimer   == Fires \/ WriteLed \/ ArmAgain

LightsNext == LightsProcess \/ LightsTimer

LightsSpec ==
  PiInit /\ LightsInit /\ [][LightsNext]_<<lightVars, pin, isr, softirq, crashed>>

-----------------------------------------------------------------------------
LightsType ==
  /\ stage \in Gone .. Delete /\ armed \in BOOLEAN /\ data \in Leds
  /\ write \in 4 .. 7 /\ lights \in Nat

(* Without SMP, whenever the timer fires during removal, no timer is left  *)
(* pending or running when the module is gone (ch2_mod.c:40-43, 65-72).    *)
LightsTimerGone == stage = Gone => ~armed /\ ~Running

(* Between two calls of my_timer_func at most one LED is lit, whatever was *)
(* lit when the module was loaded and wherever the timer fired in between  *)
(* (ch2_mod.c:19-37, 54-58).                                               *)
OneLit ==
  stage = Loaded /\ ~Running =>
    \A l, k \in Leds : pin[l] = 1 /\ pin[k] = 1 => l = k

(* While the module is loaded every lit LED is followed by the next one.   *)
LightsInTurn == \A l \in Leds :
  (stage = Loaded /\ pin[l] = 1) ~>
    (stage # Loaded \/ crashed \/ pin[4 + ((l - 3) % 3)] = 1)
=============================================================================
