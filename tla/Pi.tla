--------------------------------- MODULE Pi ---------------------------------
(***************************************************************************)
(* The board under the sensor and timer drivers: the pins of the LEDs, and *)
(* who may execute.  Without SMP an interrupt handler runs to its end, a   *)
(* timer function or a tasklet is interrupted by handlers only, and a      *)
(* process goes on when neither is left.  With SMP they all run at once,   *)
(* except that the handler of a line does not run beside itself.           *)
(***************************************************************************)

CONSTANT SMP      \* TRUE: multiprocessor kernel; FALSE: the kernel of the .ko files

ASSUME SMPType == SMP \in BOOLEAN

VARIABLES
  pin,      \* the values of the LEDs' pins
  isr,      \* the interrupt handler: "idle", or the place it has reached
  softirq,  \* the timer functions and tasklets that were raised and have not ended
  crashed   \* the kernel hit a BUG, or ran code that was removed

LED1 == 4
LED2 == 5
LED3 == 6
Leds == {LED1, LED2, LED3}

PiInit ==
  pin = [l \in Leds |-> 0] /\ isr = "idle" /\ softirq = {} /\ crashed = FALSE

ProcessRuns == ~crashed /\ (SMP \/ (isr = "idle" /\ softirq = {}))
SoftirqRuns == ~crashed /\ (SMP \/ isr = "idle")

SetLed(l, v) == pin' = [pin EXCEPT ![l] = v]
=============================================================================
