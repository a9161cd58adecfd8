----------------------------- MODULE SensorLine -----------------------------
(***************************************************************************)
(* The drivers of the PIR sensor's line, GPIO 17: src/10/c3_mod.c, which   *)
(* lights LED1 for two seconds at every falling edge; src/15, which        *)
(* reports the edges; src/16, which leaves the report to a tasklet; and    *)
(* src/17, which leaves it to a work queue, lights LED1 for good, and has  *)
(* a kernel thread.  Any of them may be loaded beside the others.  None    *)
(* asks for a shared line, so the second request_irq fails, and the error  *)
(* path then frees the line that the first one holds.                      *)
(*                                                                         *)
(* Each step of loading and removal ends at a call that may sleep, where   *)
(* another process may go on.                                              *)
(***************************************************************************)
EXTENDS Integers, FiniteSets, Pi

CONSTANTS
  None,        \* no driver
  MaxFiles,    \* bound: open files of a driver
  MaxEdges,    \* bound: edges of the sensor
  MaxLoads     \* bound: drivers loaded

Devices == {"c3_mod", "simple_sensor"}
Drivers == Devices \cup {"pir_tasklet", "kthreadNworkq"}

ASSUME LineConstants ==
  None \notin Drivers /\ MaxFiles \in Nat /\ MaxEdges \in Nat /\ MaxLoads \in Nat

VARIABLES
  place,     \* how far the loading or the removal of each driver has come
  handler,   \* the driver whose handler is on the line
  depth,     \* how often the line is disabled
  files,     \* the open files of each driver
  timer,     \* my_timer of c3_mod is pending
  level,     \* what the sensor says
  edges,     \* edges so far
  loads,     \* drivers loaded so far
  works,     \* items on the work queue of kthreadNworkq
  closed,    \* history: a file was closed since the handler was installed
  quiet      \* history: c3_mod was removed after use, and no file opened since

lineVars == <<place, handler, depth, files, timer, level, edges, loads, closed, quiet, works>>

(* "out", loading: "added", "mapped", "busy", then "in", and removal:      *)
(* "stopping", "deleted".  Of kthreadNworkq, loading goes on from "in":    *)
(* "started", "ready", and removal is "freed", "asked", "stopped".         *)
Serving == {"added", "mapped", "busy", "in", "stopping"}  \* the device can be opened
Threaded == {"started", "ready", "freed", "asked", "stopped"}

LineInit ==
  /\ place = [d \in Drivers |-> "out"] /\ handler = None /\ depth = 1
  /\ files = [d \in Drivers |-> 0] /\ timer = FALSE /\ level \in {0, 1}
  /\ edges = 0 /\ loads = 0 /\ closed = FALSE /\ quiet = FALSE /\ works = 0

Goes(d, from, to) == ProcessRuns /\ place[d] = from /\ place' = [place EXCEPT ![d] = to]

Unused(d) == files[d] = 0

-----------------------------------------------------------------------------
(* Loading.  init_timer, LED1, cdev_add.  A timer of an earlier load that  *)
(* is still pending fires, and ends the behaviour, before this.            *)
LedInit ==
  /\ Goes("c3_mod", "out", "added") /\ Unused("c3_mod")
  /\ loads < MaxLoads /\ loads' = loads + 1
  /\ ~timer /\ SetLed(LED1, 0) /\ quiet' = FALSE
  /\ UNCHANGED <<handler, depth, files, timer, level, edges, closed, isr, softirq, crashed, works>>

SensorInit ==
  /\ Goes("simple_sensor", "out", "added") /\ Unused("simple_sensor")
  /\ loads < MaxLoads /\ loads' = loads + 1
  /\ UNCHANGED <<handler, depth, files, timer, level, edges, closed, quiet, pin, isr, softirq, crashed, works>>

(* pir_tasklet and kthreadNworkq, which has created its work queue.        *)
PlainInit(d) ==
  /\ Goes(d, "out", "mapped")
  /\ loads < MaxLoads /\ loads' = loads + 1
  /\ UNCHANGED <<handler, depth, files, timer, level, edges, closed, quiet, pin, isr, softirq, crashed, works>>

(* irq_num is known; before, enable_irq and disable_irq concern line 0.    *)
MapIrq(d) ==
  /\ Goes(d, "added", "mapped")
  /\ UNCHANGED <<handler, depth, files, timer, level, edges, loads, closed, quiet, pin, isr, softirq, crashed, works>>

RequestIrq(d) ==
  /\ IF handler = None
     THEN /\ Goes(d, "mapped", "in")
          /\ handler' = d /\ depth' = 0 /\ closed' = FALSE
     ELSE Goes(d, "mapped", "busy") /\ UNCHANGED <<handler, depth, closed>>
  /\ UNCHANGED <<files, timer, level, edges, loads, quiet, pin, isr, softirq, crashed, works>>

(* free_irq(irq_num, NULL) takes off the handler whose dev_id is NULL:     *)
(* they all have that one.  It waits for a handler that is running.        *)
FreeIrq ==
  /\ isr = "idle"
  /\ handler' = None /\ depth' = IF handler = None THEN depth ELSE 1

RequestFailed(d) ==
  /\ Goes(d, "busy", "in") /\ FreeIrq
  /\ UNCHANGED <<files, timer, level, edges, loads, closed, quiet, pin, isr, softirq, crashed, works>>

-----------------------------------------------------------------------------
(* A process opens the device, and closes it.  enable_irq of a line that   *)
(* is not disabled only warns.                                             *)
Bug_Enabled(n) == n - 1
Enabled(n) == IF n > 0 THEN n - 1 ELSE 0

Open(d) ==
  /\ ProcessRuns /\ place[d] \in Serving /\ files[d] < MaxFiles
  /\ files' = [files EXCEPT ![d] = @ + 1] /\ quiet' = FALSE
  /\ depth' = IF place[d] = "added" THEN depth ELSE Enabled(depth)
  /\ UNCHANGED <<place, handler, timer, level, edges, loads, closed, pin, isr, softirq, crashed, works>>

Bug_Disabled(n) == IF n = 0 THEN 1 ELSE 0
Disabled(n) == n + 1

Release(d) ==
  /\ ProcessRuns /\ isr = "idle"
  /\ place[d] \in Serving \cup {"deleted"} /\ files[d] > 0
  /\ files' = [files EXCEPT ![d] = @ - 1]
  /\ depth' = IF place[d] = "added" THEN depth ELSE Disabled(depth)
  /\ closed' = (closed \/ place[d] # "added")
  /\ UNCHANGED <<place, handler, timer, level, edges, loads, quiet, pin, isr, softirq, crashed, works>>

-----------------------------------------------------------------------------
(* Removal, of a driver that no process has open.  c3_mod deletes its      *)
(* timer first: the handler may arm it again until free_irq.               *)
Bug_Deleted == timer
Deleted == FALSE

LedExit ==
  /\ Goes("c3_mod", "in", "stopping") /\ Unused("c3_mod")
  /\ timer' = Deleted
  /\ quiet' = (closed /\ handler = "c3_mod" /\ \A d \in Drivers : Unused(d))
  /\ UNCHANGED <<handler, depth, files, level, edges, loads, closed, pin, isr, softirq, crashed, works>>

DeleteDevice(d) ==
  /\ Goes(d, IF d = "c3_mod" THEN "stopping" ELSE "in", "deleted")
  /\ d = "simple_sensor" => Unused(d)
  /\ UNCHANGED <<handler, depth, files, timer, level, edges, loads, closed, quiet, pin, isr, softirq, crashed, works>>

(* tasklet_kill waits until the tasklet is neither scheduled nor running.  *)
TaskletExit ==
  /\ Goes("pir_tasklet", "in", "deleted") /\ "tasklet" \notin softirq
  /\ UNCHANGED <<handler, depth, files, timer, level, edges, loads, closed, quiet, pin, isr, softirq, crashed, works>>

Bug_Released == UNCHANGED <<handler, depth>>
Released == FreeIrq

Removed(d) ==
  /\ Goes(d, "deleted", "out") /\ Released
  /\ UNCHANGED <<files, timer, level, edges, loads, closed, quiet, pin, isr, softirq, crashed, works>>

-----------------------------------------------------------------------------
(* kthreadNworkq's loading goes on: its thread, which may not be had, and  *)
(* LED1.  Its removal: the irq, the thread, the work queue.                *)
Kt == "kthreadNworkq"

CreateThread ==
  /\ Goes(Kt, "in", "started") /\ crashed' \in BOOLEAN
  /\ UNCHANGED <<handler, depth, files, timer, level, edges, loads, closed, quiet, pin, isr, softirq, works>>

SetUpLed ==
  /\ Goes(Kt, "started", "ready") /\ SetLed(LED1, 0)
  /\ UNCHANGED <<handler, depth, files, timer, level, edges, loads, closed, quiet, isr, softirq, crashed, works>>

ThreadExit ==
  /\ Goes(Kt, "ready", "freed") /\ Released
  /\ UNCHANGED <<files, timer, level, edges, loads, closed, quiet, pin, isr, softirq, crashed, works>>

(* kthread_stop asks the thread to end, and waits for it.                  *)
AskStop ==
  /\ Goes(Kt, "freed", "asked")
  /\ UNCHANGED <<handler, depth, files, timer, level, edges, loads, closed, quiet, pin, isr, softirq, crashed, works>>

Bug_ShouldStop == FALSE
ShouldStop == place[Kt] = "asked"

ThreadEnds ==
  /\ Goes(Kt, "asked", "stopped") /\ ShouldStop
  /\ UNCHANGED <<handler, depth, files, timer, level, edges, loads, closed, quiet, pin, isr, softirq, crashed, works>>

WorkRuns ==
  /\ ProcessRuns /\ works > 0 /\ works' = works - 1
  /\ UNCHANGED <<place, handler, depth, files, timer, level, edges, loads, closed, quiet, pin, isr, softirq, crashed>>

(* flush_workqueue waits for the items; then the queue is destroyed.       *)
Flush ==
  /\ Goes(Kt, "stopped", "out") /\ works = 0
  /\ UNCHANGED <<handler, depth, files, timer, level, edges, loads, closed, quiet, pin, isr, softirq, crashed, works>>

-----------------------------------------------------------------------------
(* The edges each driver asks for: 0 falling, 1 rising.                    *)
Trigger(d) == IF d = "simple_sensor" THEN {0, 1} ELSE {0}

(* The handlers.  c3_mod's goes on with ArmTimer; kthreadNworkq's queues   *)
(* an item unless it finds no memory for one.                              *)
LedIsr     == SetLed(LED1, 1) /\ isr' = "arm" /\ UNCHANGED <<softirq, works>>
SensorIsr  == UNCHANGED <<pin, isr, softirq, works>>
TaskletIsr == softirq' = softirq \cup {"tasklet"} /\ UNCHANGED <<pin, isr, works>>
PirIsr     == SetLed(LED1, 1) /\ works' \in {works, works + 1} /\ UNCHANGED <<isr, softirq>>

(* The sensor's pin changes.  A line that is disabled loses the edge.      *)
Edge ==
  /\ ~crashed /\ isr = "idle" /\ edges < MaxEdges /\ edges' = edges + 1
  /\ level' = 1 - level
  /\ IF handler # None /\ depth = 0 /\ 1 - level \in Trigger(handler)
     THEN \/ handler = "c3_mod" /\ LedIsr
          \/ handler = "simple_sensor" /\ SensorIsr
          \/ handler = "pir_tasklet" /\ TaskletIsr
          \/ handler = "kthreadNworkq" /\ PirIsr
     ELSE UNCHANGED <<pin, isr, softirq, works>>
  /\ UNCHANGED <<place, handler, depth, files, timer, loads, closed, quiet, crashed>>

(* add_timer of a timer that is pending is a BUG.                          *)
ArmTimer ==
  /\ ~crashed /\ isr = "arm" /\ isr' = "idle"
  /\ crashed' = timer /\ timer' = TRUE
  /\ UNCHANGED <<place, handler, depth, files, level, edges, loads, closed, quiet, pin, softirq, works>>

(* Two seconds later; the code of a removed driver is not there any more.  *)
TimerFires ==
  /\ SoftirqRuns /\ timer /\ "led" \notin softirq
  /\ timer' = FALSE
  /\ IF place["c3_mod"] = "out"
     THEN crashed' = TRUE /\ UNCHANGED softirq
     ELSE softirq' = softirq \cup {"led"} /\ UNCHANGED crashed
  /\ UNCHANGED <<place, handler, depth, files, level, edges, loads, closed, quiet, pin, isr, works>>

Bug_TimerFunc == UNCHANGED pin
TimerFunc == SetLed(LED1, 0)

TimerRuns ==
  /\ SoftirqRuns /\ "led" \in softirq /\ place["c3_mod"] # "out"
  /\ softirq' = softirq \ {"led"} /\ TimerFunc
  /\ UNCHANGED <<lineVars, isr, crashed>>

(* pir_tasklet_func: the report.                                           *)
TaskletRuns ==
  /\ SoftirqRuns /\ "tasklet" \in softirq /\ place["pir_tasklet"] # "out"
  /\ softirq' = softirq \ {"tasklet"}
  /\ UNCHANGED <<lineVars, pin, isr, crashed>>

LineProcess ==
  \/ LedInit \/ SensorInit \/ PlainInit("pir_tasklet") \/ PlainInit(Kt)
  \/ LedExit \/ TaskletExit
  \/ CreateThread \/ SetUpLed \/ ThreadExit \/ AskStop \/ Flush
  \/ \E d \in Drivers : RequestIrq(d) \/ RequestFailed(d) \/ Removed(d)
  \/ \E d \in Devices : MapIrq(d) \/ Open(d) \/ Release(d) \/ DeleteDevice(d)

LineNext == LineProcess \/ ThreadEnds \/ WorkRuns \/ Edge \/ ArmTimer \/ TimerFires \/ TimerRuns \/ TaskletRuns

LineSpec == PiInit /\ LineInit /\ [][LineNext]_<<lineVars, pin, isr, softirq, crashed>>

-----------------------------------------------------------------------------
LineType ==
  /\ place \in [Drivers -> {"out", "deleted"} \cup Serving \cup Threaded]
  /\ handler \in Drivers \cup {None} /\ depth \in Nat /\ files \in [Drivers -> Nat]
  /\ level \in {0, 1} /\ edges \in Nat /\ loads \in Nat
  /\ works \in Nat /\ timer \in BOOLEAN /\ closed \in BOOLEAN /\ quiet \in BOOLEAN

(* However loading, failed requests and removal of the drivers interleave, *)
(* the handler on the line, a scheduled tasklet, a running timer function  *)
(* and the items of the work queue belong to a driver that is loaded       *)
(* (c3_mod.c:74-78, 94; pir_tasklet.c:47-51, 57-59; kthreadNworkq.c:83-87, *)
(* 106-115).                                                               *)
NoRemovedCode ==
  /\ handler # None => place[handler] # "out"
  /\ "tasklet" \in softirq => place["pir_tasklet"] # "out"
  /\ "led" \in softirq => place["c3_mod"] # "out"
  /\ works > 0 => place[Kt] # "out"

(* After a close, while nobody has the device of a driver open, the line   *)
(* is off, in whatever order files were opened and closed, before or after *)
(* the driver's irq_num was known (c3_mod.c:23, 29, 70-74).                *)
ClosedIsOff ==
  handler # None /\ closed /\ (\A d \in Drivers : Unused(d)) => depth > 0

(* A c3_mod that was used, closed and removed leaves no timer behind, even *)
(* though its exit deletes the timer before it frees the irq               *)
(* (c3_mod.c:88, 94).                                                      *)
RemovedQuietly == place["c3_mod"] = "out" /\ quiet => ~timer /\ isr # "arm"

(* The light that c3_mod's handler switched on goes out again while c3_mod *)
(* is loaded, even if an edge comes between the expiry of the timer and    *)
(* my_timer_func (c3_mod.c:38-50).                                         *)
LightGoesOut ==
  isr = "arm" ~> (place["c3_mod"] # "in" \/ crashed \/ pin[LED1] = 0)

(* The removal of kthreadNworkq ends: the thread notices that it is to     *)
(* stop, and no edge can keep the queue from running dry, since the irq is *)
(* freed first (kthreadNworkq.c:66, 106-115).                              *)
RemovalEnds == place[Kt] = "freed" ~> (place[Kt] = "out" \/ crashed)
=============================================================================
