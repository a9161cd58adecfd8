---------------------------- MODULE BoardProofs -----------------------------
(***************************************************************************)
(* Theorems about the sensor line and the LED timer for any number of      *)
(* edges, open files and loads; with and without SMP unless they say so.   *)
(***************************************************************************)
EXTENDS Board, TLAPS

(* The sensor line.  The line is a driver's from request_irq to free_irq.  *)
Owned == handler # None => place[handler] \in
  IF handler = "kthreadNworkq" THEN {"in", "started", "ready"} ELSE {"in", "stopping", "deleted"}

(* Only the installed handler queues items, and the flush waits for them.  *)
Queued == works > 0 => place["kthreadNworkq"] \in {"in"} \cup Threaded

(* Without SMP a soft interrupt ends before the removal of its driver.     *)
Raised == ~SMP => /\ "tasklet" \in softirq => place["pir_tasklet"] # "out"
                  /\ "led" \in softirq => place["c3_mod"] # "out"

(* Once a file was closed, the line is on for a file that is still open.   *)
OnForFile == handler # None /\ closed /\ depth = 0 =>
  \E d \in Devices : place[d] # "added" /\ files[d] > 0

(* disable_irq and free_irq wait for the handler.                          *)
Waited == depth > 0 => isr = "idle"

StaysQuiet == quiet =>
  /\ ~timer /\ isr = "idle" /\ (handler = "c3_mod" => depth > 0)
  /\ \A d \in Drivers : Unused(d)
  /\ place["c3_mod"] \in {"stopping", "deleted", "out"}

Unloaded == loads = 0 =>
  /\ handler = None /\ ~timer /\ isr = "idle" /\ "led" \notin softirq /\ works = 0
  /\ \A d \in Drivers : place[d] = "out"

LineSound == LineType /\ Owned /\ Queued /\ Raised /\ OnForFile /\ Waited /\ StaysQuiet /\ Unloaded

(* The LED timer.  While its function runs the pins it has set are right.  *)
Lit == lights > 0 =>
  /\ Running => \A l \in Leds : l < write /\ pin[l] = 1 => l = data
  /\ ~Running => /\ write = LED1
                 /\ \A l, k \in Leds : pin[l] = 1 /\ pin[k] = 1 => l = k

Unlit == lights = 0 =>
  /\ pin[LED2] = 0 /\ pin[LED3] = 0
  /\ stage = Gone /\ ~armed /\ ~Running /\ write = LED1

Exclusive == loads = 0 \/ lights = 0

LightsSound == /\ LightsType /\ Exclusive /\ Lit /\ Unlit
               /\ ~SMP => LightsTimerGone

Sound == PiType /\ LineSound /\ LightsSound

LEMMA SoundInit == Init => Sound
<1> SUFFICES ASSUME Init PROVE Sound
  OBVIOUS
<1> USE DEF Init, PiInit, LineInit, LightsInit
<1>1. PiType
  BY DEF PiType
<1>2. LineType
  BY LineConstants DEF LineType, Serving
<1>3. Owned /\ Queued /\ Raised /\ OnForFile /\ StaysQuiet
  BY DEF Owned, Queued, Raised, OnForFile, StaysQuiet
<1>3a. Waited
  BY DEF Waited
<1>3b. Unloaded
  BY DEF Unloaded
<1>4. LightsSound
  <2>1. LightsType
    <3>1. stage = 0 /\ data = LED1 /\ write = 4 /\ armed \in BOOLEAN /\ lights \in Nat
      BY DEF Gone, LED1
    <3> HIDE DEF Init, PiInit, LineInit, LightsInit
    <3>2. QED
      BY <3>1 DEF LightsType, Gone, Delete, Leds
  <2>2. lights = 0 /\ ~armed /\ "lights" \notin softirq
    OBVIOUS
  <2>3. Unlit
    BY <2>2 DEF Unlit, Running, Gone, Leds
  <2>4. QED
    BY <2>1, <2>2, <2>3 DEF LightsSound, Exclusive, Lit, LightsTimerGone, Running
<1>5. QED
  BY <1>1, <1>2, <1>3, <1>3a, <1>3b, <1>4 DEF Sound, LineSound

-----------------------------------------------------------------------------
(* What a step of the sensor line has to leave alone.                      *)
LEMMA LineFrame ==
  ASSUME Sound, Apart, UNCHANGED lightVars, Running' <=> Running,
         loads' \in Nat, loads <= loads', loads = 0 /\ loads' = 0 => UNCHANGED pin,
         pin'[LED2] = pin[LED2], pin'[LED3] = pin[LED3]
  PROVE  LightsSound'
<1>1. LightsSound /\ LineSound /\ UNCHANGED <<stage, armed, data, write, lights>>
  BY DEF Sound, lightVars
<1>2. LightsType' /\ (~SMP => LightsTimerGone')
  BY <1>1 DEF LightsSound, LightsType, LightsTimerGone
<1>3. Exclusive'
  BY <1>1 DEF Apart, Exclusive
<1>4. Unlit'
  BY <1>1 DEF LightsSound, Unlit
<1>5. lights > 0 => UNCHANGED pin
  BY <1>1 DEF LightsSound, Exclusive, LightsType, LineSound, LineType, Apart
<1>6. Lit'
  BY <1>1, <1>5 DEF LightsSound, Lit
<1>7. QED
  BY <1>2, <1>3, <1>4, <1>6 DEF LightsSound

(* And a step of the LED timer.                                            *)
LEMMA LightsFrame ==
  ASSUME Sound, UNCHANGED <<lineVars, isr, crashed>>,
         "led" \in softirq' <=> "led" \in softirq,
         "tasklet" \in softirq' <=> "tasklet" \in softirq
  PROVE  LineSound'
<1>1. LineSound /\ UNCHANGED <<place, handler, depth, files, timer, level, edges>>
      /\ UNCHANGED <<loads, closed, quiet, works>>
  BY DEF Sound, lineVars
<1>2. LineType' /\ Owned' /\ Queued' /\ OnForFile'
  BY <1>1 DEF LineSound, LineType, Owned, Queued, OnForFile
<1>3. Raised' /\ Waited' /\ StaysQuiet' /\ Unloaded'
  BY <1>1 DEF LineSound, Raised, Waited, StaysQuiet, Unused, Unloaded
<1>4. QED
  BY <1>2, <1>3 DEF LineSound

(* The steps that only kthreadNworkq makes.                                *)
ThreadNext ==
  CreateThread \/ SetUpLed \/ ThreadExit \/ AskStop \/ ThreadEnds \/ WorkRuns \/ Flush

LEMMA ThreadStep ==
  ASSUME Sound, Apart, UNCHANGED lightVars, ThreadNext
  PROVE  Sound'
<1> USE LineConstants DEF Drivers, Devices, Kt
<1>a. PiType /\ LineSound /\ LineType
  BY DEF Sound, LineSound
<1> USE <1>a DEF ThreadNext, CreateThread, SetUpLed, ThreadExit, AskStop, ThreadEnds, WorkRuns,
               Flush, Goes, ProcessRuns, Released, FreeIrq
<1>1. PiType'
  BY DEF PiType, SetLed, Leds, LED1
<1>2. LineType'
  BY DEF LineType, Threaded
<1>3. Raised'
  BY DEF LineSound, Raised
<1>4. Owned' /\ Queued'
  BY DEF LineSound, LineType, Owned, Queued, Threaded
<1>5. OnForFile' /\ Waited'
  BY DEF LineSound, LineType, OnForFile, Owned, Waited
<1>6. StaysQuiet' /\ Unloaded'
  BY DEF LineSound, LineType, Unused, StaysQuiet, Waited, Unloaded
<1>7. LightsSound'
  BY LineFrame DEF LineSound, LineType, PiType, Running, SetLed, Unloaded,
    Leds, LED1, LED2, LED3
<1>8. QED
  BY <1>1, <1>2, <1>3, <1>4, <1>5, <1>6, <1>7 DEF Sound, LineSound

LEMMA LineStep ==
  ASSUME Sound, Apart, UNCHANGED lightVars, LineNext
  PROVE  Sound'
<1> USE LineConstants DEF Drivers, Devices
<1>a. PiType /\ LineSound /\ LineType
  BY DEF Sound, LineSound
<1>1. CASE LedInit
  <2> USE <1>a, <1>1 DEF LedInit, Goes, ProcessRuns
  <2>1. PiType'
    BY DEF PiType, SetLed, Leds, LED1
  <2>2. LineType'
    <3>1. timer' \in BOOLEAN /\ closed' \in BOOLEAN /\ quiet' \in BOOLEAN
      BY DEF LineType
    <3>2. /\ place' \in [Drivers -> {"out", "deleted"} \cup Serving \cup Threaded]
          /\ files' \in [Drivers -> Nat] /\ depth' \in Nat /\ handler' \in Drivers \cup {None}
          /\ level' \in {0, 1} /\ edges' \in Nat /\ loads' \in Nat /\ works' \in Nat
      BY DEF LineType, Serving, Threaded
    <3>3. QED
      BY <3>1, <3>2 DEF LineType
  <2>3. Raised'
    BY DEF LineSound, Raised
  <2>4. Owned' /\ Queued'
    BY DEF LineSound, LineType, Owned, Queued, Threaded
  <2>5. OnForFile' /\ Waited'
    BY DEF LineSound, LineType, Unused, OnForFile, Owned, Waited, PiType
  <2>6. StaysQuiet' /\ Unloaded'
    BY DEF LineSound, LineType, Unused, StaysQuiet, OnForFile, Waited,
      Unloaded
  <2>7. LightsSound'
    BY LineFrame DEF LineSound, LineType, PiType, Running, SetLed,
      Unloaded, Leds, LED1, LED2, LED3
  <2>8. QED
    BY <2>1, <2>2, <2>3, <2>4, <2>5, <2>6, <2>7 DEF Sound, LineSound
<1>2. CASE SensorInit
  <2> USE <1>a, <1>2 DEF SensorInit, Goes, ProcessRuns
  <2>1. PiType'
    BY DEF PiType, SetLed, Leds, LED1
  <2>2. LineType'
    BY DEF LineSound, LineType, Serving, Threaded
  <2>3. Raised'
    BY DEF LineSound, Raised
  <2>4. Owned' /\ Queued'
    BY DEF LineSound, LineType, Owned, Queued, Threaded
  <2>5. OnForFile' /\ Waited'
    BY DEF LineSound, LineType, Unused, OnForFile, Owned, Waited, PiType
  <2>6. StaysQuiet' /\ Unloaded'
    BY DEF LineSound, LineType, Unused, StaysQuiet, OnForFile, Waited,
      Unloaded
  <2>7. LightsSound'
    BY LineFrame DEF LineSound, LineType, PiType, Running, SetLed,
      Unloaded, Leds, LED1, LED2, LED3
  <2>8. QED
    BY <2>1, <2>2, <2>3, <2>4, <2>5, <2>6, <2>7 DEF Sound, LineSound
<1>3. ASSUME NEW d \in {"pir_tasklet", "kthreadNworkq"}, PlainInit(d) PROVE Sound'
  <2> USE <1>a, <1>3 DEF PlainInit, Goes, ProcessRuns
  <2>1. PiType'
    BY DEF PiType, SetLed, Leds, LED1
  <2>2. LineType'
    BY DEF LineSound, LineType, Serving, Threaded
  <2>3. Raised'
    BY DEF LineSound, Raised
  <2>4. Owned' /\ Queued'
    BY DEF LineSound, LineType, Owned, Queued, Threaded
  <2>5. OnForFile' /\ Waited'
    BY DEF LineSound, LineType, Unused, OnForFile, Owned, Waited, PiType
  <2>6. StaysQuiet' /\ Unloaded'
    BY DEF LineSound, LineType, Unused, StaysQuiet, OnForFile, Waited,
      Unloaded
  <2>7. LightsSound'
    BY LineFrame DEF LineSound, LineType, PiType, Running, SetLed,
      Unloaded, Leds, LED1, LED2, LED3
  <2>8. QED
    BY <2>1, <2>2, <2>3, <2>4, <2>5, <2>6, <2>7 DEF Sound, LineSound
<1>4. CASE LedExit
  <2> USE <1>a, <1>4 DEF LedExit, Deleted, Goes, ProcessRuns
  <2>1. PiType'
    BY DEF PiType, SetLed, Leds, LED1
  <2>2. LineType'
    BY DEF LineSound, LineType, Serving, Threaded
  <2>3. Raised'
    BY DEF LineSound, Raised
  <2>4. Owned' /\ Queued'
    BY DEF LineSound, LineType, Owned, Queued, Threaded
  <2>5. OnForFile' /\ Waited'
    BY DEF LineSound, LineType, Unused, OnForFile, Owned, Waited, PiType
  <2>6. StaysQuiet' /\ Unloaded'
    BY DEF LineSound, LineType, Unused, StaysQuiet, OnForFile, Waited,
      Unloaded
  <2>7. LightsSound'
    BY LineFrame DEF LineSound, LineType, PiType, Running, SetLed,
      Unloaded, Leds, LED1, LED2, LED3
  <2>8. QED
    BY <2>1, <2>2, <2>3, <2>4, <2>5, <2>6, <2>7 DEF Sound, LineSound
<1>5. CASE TaskletExit
  <2> USE <1>a, <1>5 DEF TaskletExit, Goes, ProcessRuns
  <2>1. PiType'
    BY DEF PiType, SetLed, Leds, LED1
  <2>2. LineType'
    BY DEF LineSound, LineType, Serving, Threaded
  <2>3. Raised'
    BY DEF LineSound, Raised
  <2>4. Owned' /\ Queued'
    BY DEF LineSound, LineType, Owned, Queued, Threaded
  <2>5. OnForFile' /\ Waited'
    BY DEF LineSound, LineType, Unused, OnForFile, Owned, Waited, PiType
  <2>6. StaysQuiet' /\ Unloaded'
    BY DEF LineSound, LineType, Unused, StaysQuiet, OnForFile, Waited,
      Unloaded
  <2>7. LightsSound'
    BY LineFrame DEF LineSound, LineType, PiType, Running, SetLed,
      Unloaded, Leds, LED1, LED2, LED3
  <2>8. QED
    BY <2>1, <2>2, <2>3, <2>4, <2>5, <2>6, <2>7 DEF Sound, LineSound
<1>6. ASSUME NEW d \in Drivers, RequestIrq(d) PROVE Sound'
  <2> USE <1>a, <1>6 DEF RequestIrq, Goes, ProcessRuns
  <2>1. PiType'
    BY DEF PiType, SetLed, Leds, LED1
  <2>2. LineType'
    <3>1. timer' \in BOOLEAN /\ closed' \in BOOLEAN /\ quiet' \in BOOLEAN
      BY DEF LineType
    <3>2. /\ place' \in [Drivers -> {"out", "deleted"} \cup Serving \cup Threaded]
          /\ files' \in [Drivers -> Nat] /\ depth' \in Nat /\ handler' \in Drivers \cup {None}
          /\ level' \in {0, 1} /\ edges' \in Nat /\ loads' \in Nat /\ works' \in Nat
      BY DEF LineType, Serving, Threaded
    <3>3. QED
      BY <3>1, <3>2 DEF LineType
  <2>3. Raised'
    BY DEF LineSound, Raised
  <2>4. Owned' /\ Queued'
    BY DEF LineSound, LineType, Owned, Queued, Threaded
  <2>5. OnForFile' /\ Waited'
    BY DEF LineSound, LineType, Unused, OnForFile, Owned, Waited, PiType
  <2>6. StaysQuiet' /\ Unloaded'
    BY DEF LineSound, LineType, Unused, StaysQuiet, OnForFile, Waited,
      Unloaded
  <2>7. LightsSound'
    BY LineFrame DEF LineSound, LineType, PiType, Running, SetLed,
      Unloaded, Leds, LED1, LED2, LED3
  <2>8. QED
    BY <2>1, <2>2, <2>3, <2>4, <2>5, <2>6, <2>7 DEF Sound, LineSound
<1>7. ASSUME NEW d \in Drivers, RequestFailed(d) PROVE Sound'
  <2> USE <1>a, <1>7 DEF RequestFailed, FreeIrq, Goes, ProcessRuns
  <2>1. PiType'
    BY DEF PiType, SetLed, Leds, LED1
  <2>2. LineType'
    BY DEF LineSound, LineType, Serving, Threaded
  <2>3. Raised'
    BY DEF LineSound, Raised
  <2>4. Owned' /\ Queued'
    BY DEF LineSound, LineType, Owned, Queued, Threaded
  <2>5. OnForFile' /\ Waited'
    BY DEF LineSound, LineType, Unused, OnForFile, Owned, Waited, PiType
  <2>6. StaysQuiet' /\ Unloaded'
    BY DEF LineSound, LineType, Unused, StaysQuiet, OnForFile, Waited,
      Unloaded
  <2>7. LightsSound'
    BY LineFrame DEF LineSound, LineType, PiType, Running, SetLed,
      Unloaded, Leds, LED1, LED2, LED3
  <2>8. QED
    BY <2>1, <2>2, <2>3, <2>4, <2>5, <2>6, <2>7 DEF Sound, LineSound
<1>8. ASSUME NEW d \in Drivers, Removed(d) PROVE Sound'
  <2> USE <1>a, <1>8 DEF Removed, Released, FreeIrq, Goes, ProcessRuns
  <2>1. PiType'
    BY DEF PiType, SetLed, Leds, LED1
  <2>2. LineType'
    BY DEF LineSound, LineType, Serving, Threaded
  <2>3. Raised'
    BY DEF LineSound, Raised
  <2>4. Owned' /\ Queued'
    BY DEF LineSound, LineType, Owned, Queued, Threaded
  <2>5. OnForFile' /\ Waited'
    BY DEF LineSound, LineType, Unused, OnForFile, Owned, Waited, PiType
  <2>6. StaysQuiet' /\ Unloaded'
    BY DEF LineSound, LineType, Unused, StaysQuiet, OnForFile, Waited,
      Unloaded
  <2>7. LightsSound'
    BY LineFrame DEF LineSound, LineType, PiType, Running, SetLed,
      Unloaded, Leds, LED1, LED2, LED3
  <2>8. QED
    BY <2>1, <2>2, <2>3, <2>4, <2>5, <2>6, <2>7 DEF Sound, LineSound
<1>9. ASSUME NEW d \in Devices, MapIrq(d) PROVE Sound'
  <2> USE <1>a, <1>9 DEF MapIrq, Goes, ProcessRuns
  <2>1. PiType'
    BY DEF PiType, SetLed, Leds, LED1
  <2>2. LineType'
    BY DEF LineSound, LineType, Serving, Threaded
  <2>3. Raised'
    BY DEF LineSound, Raised
  <2>4. Owned' /\ Queued'
    BY DEF LineSound, LineType, Owned, Queued, Threaded
  <2>5. OnForFile' /\ Waited'
    BY DEF LineSound, LineType, Unused, OnForFile, Owned, Waited, PiType
  <2>6. StaysQuiet' /\ Unloaded'
    BY DEF LineSound, LineType, Unused, StaysQuiet, OnForFile, Waited,
      Unloaded
  <2>7. LightsSound'
    BY LineFrame DEF LineSound, LineType, PiType, Running, SetLed,
      Unloaded, Leds, LED1, LED2, LED3
  <2>8. QED
    BY <2>1, <2>2, <2>3, <2>4, <2>5, <2>6, <2>7 DEF Sound, LineSound
<1>10. ASSUME NEW d \in Devices, Open(d) PROVE Sound'
  <2> USE <1>a, <1>10 DEF Open, Enabled, Serving, ProcessRuns
  <2>1. PiType'
    BY DEF PiType, SetLed, Leds, LED1
  <2>2. LineType'
    <3>1. timer' \in BOOLEAN /\ closed' \in BOOLEAN /\ quiet' \in BOOLEAN
      BY DEF LineType
    <3>2. /\ place' \in [Drivers -> {"out", "deleted"} \cup Serving \cup Threaded]
          /\ files' \in [Drivers -> Nat] /\ depth' \in Nat /\ handler' \in Drivers \cup {None}
          /\ level' \in {0, 1} /\ edges' \in Nat /\ loads' \in Nat /\ works' \in Nat
      BY DEF LineType
    <3>3. QED
      BY <3>1, <3>2 DEF LineType
  <2>3. Raised'
    BY DEF LineSound, Raised
  <2>4. Owned' /\ Queued'
    BY DEF LineSound, LineType, Owned, Queued, Threaded
  <2>5. OnForFile' /\ Waited'
    BY DEF LineSound, LineType, Unused, OnForFile, Owned, Waited, PiType
  <2>6. StaysQuiet' /\ Unloaded'
    BY DEF LineSound, LineType, Unused, StaysQuiet, OnForFile, Waited,
      Unloaded
  <2>7. LightsSound'
    BY LineFrame DEF LineSound, LineType, PiType, Running, SetLed,
      Unloaded, Leds, LED1, LED2, LED3
  <2>8. QED
    BY <2>1, <2>2, <2>3, <2>4, <2>5, <2>6, <2>7 DEF Sound, LineSound
<1>11. ASSUME NEW d \in Devices, Release(d) PROVE Sound'
  <2> USE <1>a, <1>11 DEF Release, Disabled, Serving, ProcessRuns
  <2>1. PiType'
    BY DEF PiType, SetLed, Leds, LED1
  <2>2. LineType'
    BY DEF LineSound, LineType
  <2>3. Raised'
    BY DEF LineSound, Raised
  <2>4. Owned' /\ Queued'
    BY DEF LineSound, LineType, Owned, Queued, Threaded
  <2>5. OnForFile' /\ Waited'
    BY DEF LineSound, LineType, Unused, OnForFile, Owned, Waited, PiType
  <2>6. StaysQuiet' /\ Unloaded'
    BY DEF LineSound, LineType, Unused, StaysQuiet, OnForFile, Waited,
      Unloaded
  <2>7. LightsSound'
    BY LineFrame DEF LineSound, LineType, PiType, Running, SetLed,
      Unloaded, Leds, LED1, LED2, LED3
  <2>8. QED
    BY <2>1, <2>2, <2>3, <2>4, <2>5, <2>6, <2>7 DEF Sound, LineSound
<1>12. ASSUME NEW d \in Devices, DeleteDevice(d) PROVE Sound'
  <2> USE <1>a, <1>12 DEF DeleteDevice, Goes, ProcessRuns
  <2>1. PiType'
    BY DEF PiType, SetLed, Leds, LED1
  <2>2. LineType'
    BY DEF LineSound, LineType, Serving, Threaded
  <2>3. Raised'
    BY DEF LineSound, Raised
  <2>4. Owned' /\ Queued'
    BY DEF LineSound, LineType, Owned, Queued, Threaded
  <2>5. OnForFile' /\ Waited'
    BY DEF LineSound, LineType, Unused, OnForFile, Owned, Waited, PiType
  <2>6. StaysQuiet' /\ Unloaded'
    BY DEF LineSound, LineType, Unused, StaysQuiet, OnForFile, Waited,
      Unloaded
  <2>7. LightsSound'
    BY LineFrame DEF LineSound, LineType, PiType, Running, SetLed,
      Unloaded, Leds, LED1, LED2, LED3
  <2>8. QED
    BY <2>1, <2>2, <2>3, <2>4, <2>5, <2>6, <2>7 DEF Sound, LineSound
<1>13. CASE Edge
  <2> USE <1>a, <1>13 DEF Edge, LedIsr, SensorIsr, TaskletIsr, PirIsr, Trigger
  <2>1. PiType'
    BY DEF PiType, SetLed, Leds, LED1
  <2>2. LineType'
    BY DEF LineSound, LineType, Serving, Threaded
  <2>3. Raised'
    BY DEF LineSound, Raised, Owned
  <2>4. Owned' /\ Queued'
    <3>1. Owned'
      BY DEF LineSound, Owned
    <3>2. CASE works' = works
      BY <3>1, <3>2 DEF LineSound, Queued
    <3>3. CASE works' # works
      <4>1. handler = "kthreadNworkq"
        BY <3>3 DEF LineSound, LineType
      <4>2. QED
        BY <3>1, <4>1 DEF LineSound, Owned, Queued, Threaded, LineType
    <3>4. QED
      BY <3>1, <3>2, <3>3
  <2>5. OnForFile' /\ Waited'
    BY DEF LineSound, LineType, Unused, OnForFile, Owned, Waited, PiType
  <2>6. StaysQuiet' /\ Unloaded'
    BY DEF LineSound, LineType, Unused, StaysQuiet, OnForFile, Waited,
      Unloaded
  <2>7. LightsSound'
    BY LineFrame DEF LineSound, LineType, PiType, Running, SetLed,
      Unloaded, Leds, LED1, LED2, LED3
  <2>8. QED
    BY <2>1, <2>2, <2>3, <2>4, <2>5, <2>6, <2>7 DEF Sound, LineSound
<1>14. CASE ArmTimer
  <2> USE <1>a, <1>14 DEF ArmTimer
  <2>1. PiType'
    BY DEF PiType, LineType
  <2>2. LineType'
    BY DEF LineSound, LineType, Serving, Threaded
  <2>3. Raised'
    BY DEF LineSound, Raised
  <2>4. Owned' /\ Queued'
    BY DEF LineSound, LineType, Owned, Queued, Threaded
  <2>5. OnForFile' /\ Waited'
    BY DEF LineSound, LineType, Unused, OnForFile, Owned, Waited, PiType
  <2>6. StaysQuiet' /\ Unloaded'
    BY DEF LineSound, LineType, Unused, StaysQuiet, OnForFile, Waited,
      Unloaded
  <2>7. LightsSound'
    BY LineFrame DEF LineSound, LineType, PiType, Running, SetLed,
      Unloaded, Leds, LED1, LED2, LED3
  <2>8. QED
    BY <2>1, <2>2, <2>3, <2>4, <2>5, <2>6, <2>7 DEF Sound, LineSound
<1>15. CASE TimerFires
  <2> USE <1>a, <1>15 DEF TimerFires, SoftirqRuns
  <2>1. PiType'
    BY DEF PiType, SetLed, Leds, LED1
  <2>2. LineType'
    BY DEF LineSound, LineType, Serving, Threaded
  <2>3. Raised'
    BY DEF LineSound, Raised
  <2>4. Owned' /\ Queued'
    BY DEF LineSound, LineType, Owned, Queued, Threaded
  <2>5. OnForFile' /\ Waited'
    BY DEF LineSound, LineType, Unused, OnForFile, Owned, Waited, PiType
  <2>6. StaysQuiet' /\ Unloaded'
    BY DEF LineSound, LineType, Unused, StaysQuiet, OnForFile, Waited,
      Unloaded
  <2>7. LightsSound'
    BY LineFrame DEF LineSound, LineType, PiType, Running, SetLed,
      Unloaded, Leds, LED1, LED2, LED3
  <2>8. QED
    BY <2>1, <2>2, <2>3, <2>4, <2>5, <2>6, <2>7 DEF Sound, LineSound
<1>16. CASE TimerRuns
  <2> USE <1>a, <1>16 DEF TimerRuns, TimerFunc, SoftirqRuns, lineVars
  <2>1. PiType'
    BY DEF PiType, SetLed, Leds, LED1
  <2>2. LineType'
    BY DEF LineSound, LineType, Serving, Threaded
  <2>3. Raised'
    BY DEF LineSound, Raised
  <2>4. Owned' /\ Queued'
    BY DEF LineSound, LineType, Owned, Queued, Threaded
  <2>5. OnForFile' /\ Waited'
    BY DEF LineSound, LineType, Unused, OnForFile, Owned, Waited, PiType
  <2>6. StaysQuiet' /\ Unloaded'
    BY DEF LineSound, LineType, Unused, StaysQuiet, OnForFile, Waited,
      Unloaded
  <2>7. LightsSound'
    BY LineFrame DEF LineSound, LineType, PiType, Running, SetLed,
      Unloaded, Leds, LED1, LED2, LED3
  <2>8. QED
    BY <2>1, <2>2, <2>3, <2>4, <2>5, <2>6, <2>7 DEF Sound, LineSound
<1>17. CASE TaskletRuns
  <2> USE <1>a, <1>17 DEF TaskletRuns, SoftirqRuns, lineVars
  <2>1. PiType'
    BY DEF PiType, SetLed, Leds, LED1
  <2>2. LineType'
    BY DEF LineSound, LineType, Serving, Threaded
  <2>3. Raised'
    BY DEF LineSound, Raised
  <2>4. Owned' /\ Queued'
    BY DEF LineSound, LineType, Owned, Queued, Threaded
  <2>5. OnForFile' /\ Waited'
    BY DEF LineSound, LineType, Unused, OnForFile, Owned, Waited, PiType
  <2>6. StaysQuiet' /\ Unloaded'
    BY DEF LineSound, LineType, Unused, StaysQuiet, OnForFile, Waited,
      Unloaded
  <2>7. LightsSound'
    BY LineFrame DEF LineSound, LineType, PiType, Running, SetLed,
      Unloaded, Leds, LED1, LED2, LED3
  <2>8. QED
    BY <2>1, <2>2, <2>3, <2>4, <2>5, <2>6, <2>7 DEF Sound, LineSound
<1>18. CASE ThreadNext
  BY <1>18, ThreadStep
<1>19. QED
  BY <1>1, <1>2, <1>3, <1>4, <1>5, <1>6, <1>7, <1>8, <1>9, <1>10, <1>11, <1>12, <1>13,
    <1>14, <1>15, <1>16, <1>17, <1>18
  DEF LineNext, LineProcess, ThreadNext, Kt

LEMMA LightsStep ==
  ASSUME Sound, Apart, UNCHANGED lineVars, LightsNext
  PROVE  Sound'
<1>a. PiType /\ LightsSound /\ LightsType
  BY DEF Sound, LightsSound
<1>b. Exclusive'
  BY DEF Apart, Exclusive
<1>1. CASE Arm
  <2> USE <1>a, <1>1 DEF Arm, ProcessRuns
  <2>1. PiType'
    BY DEF PiType, SetLed, Leds, LED1, LED2, LED3, Request, SetLow, LightsType
  <2>2. LineSound'
    BY LightsFrame 
  <2>3. LightsType' /\ (~SMP => LightsTimerGone')
    BY DEF LightsSound, LightsType, LightsTimerGone, Running, Gone, Request,
      Loaded, SetLow, Delete, Leds, LED1, LED2, LED3
  <2>4. Unlit'
    BY DEF LightsSound, LightsType, Unlit, Running, SetLed,
      Gone, Request, Loaded, SetLow, Delete, LED1, LED2, LED3
  <2>5. Lit'
    BY DEF LightsSound, LightsType, PiType, Lit, Unlit, Running,
      SetLed, Gone, Request, Loaded, SetLow, Delete, Leds, LED1, LED2, LED3
  <2>6. QED
    BY <1>b, <2>1, <2>2, <2>3, <2>4, <2>5 DEF Sound, LightsSound
<1>2. CASE RequestPin
  <2> USE <1>a, <1>2 DEF RequestPin, ProcessRuns
  <2>1. PiType'
    BY DEF PiType, SetLed, Leds, LED1, LED2, LED3, Request, SetLow, LightsType
  <2>2. LineSound'
    BY LightsFrame 
  <2>3. LightsType' /\ (~SMP => LightsTimerGone')
    BY DEF LightsSound, LightsType, LightsTimerGone, Running, Gone, Request,
      Loaded, SetLow, Delete, Leds, LED1, LED2, LED3
  <2>4. Unlit'
    BY DEF LightsSound, LightsType, Unlit, Running, SetLed,
      Gone, Request, Loaded, SetLow, Delete, LED1, LED2, LED3
  <2>5. Lit'
    BY DEF LightsSound, LightsType, PiType, Lit, Unlit, Running,
      SetLed, Gone, Request, Loaded, SetLow, Delete, Leds, LED1, LED2, LED3
  <2>6. QED
    BY <1>b, <2>1, <2>2, <2>3, <2>4, <2>5 DEF Sound, LightsSound
<1>3. CASE Remove
  <2> USE <1>a, <1>3 DEF Remove, ProcessRuns
  <2>1. PiType'
    BY DEF PiType, SetLed, Leds, LED1, LED2, LED3, Request, SetLow, LightsType
  <2>2. LineSound'
    BY LightsFrame 
  <2>3. LightsType' /\ (~SMP => LightsTimerGone')
    BY DEF LightsSound, LightsType, LightsTimerGone, Running, Gone, Request,
      Loaded, SetLow, Delete, Leds, LED1, LED2, LED3
  <2>4. Unlit'
    BY DEF LightsSound, LightsType, Unlit, Running, SetLed,
      Gone, Request, Loaded, SetLow, Delete, LED1, LED2, LED3
  <2>5. Lit'
    BY DEF LightsSound, LightsType, PiType, Lit, Unlit, Running,
      SetLed, Gone, Request, Loaded, SetLow, Delete, Leds, LED1, LED2, LED3
  <2>6. QED
    BY <1>b, <2>1, <2>2, <2>3, <2>4, <2>5 DEF Sound, LightsSound
<1>4. CASE FreePin
  <2> USE <1>a, <1>4 DEF FreePin, ProcessRuns
  <2>1. PiType'
    BY DEF PiType, SetLed, Leds, LED1, LED2, LED3, Request, SetLow, LightsType
  <2>2. LineSound'
    BY LightsFrame 
  <2>3. LightsType' /\ (~SMP => LightsTimerGone')
    BY DEF LightsSound, LightsType, LightsTimerGone, Running, Gone, Request,
      Loaded, SetLow, Delete, Leds, LED1, LED2, LED3
  <2>4. Unlit'
    BY DEF LightsSound, LightsType, Unlit, Running, SetLed,
      Gone, Request, Loaded, SetLow, Delete, LED1, LED2, LED3
  <2>5. Lit'
    BY DEF LightsSound, LightsType, PiType, Lit, Unlit, Running,
      SetLed, Gone, Request, Loaded, SetLow, Delete, Leds, LED1, LED2, LED3
  <2>6. QED
    BY <1>b, <2>1, <2>2, <2>3, <2>4, <2>5 DEF Sound, LightsSound
<1>5. CASE DeleteTimer
  <2> USE <1>a, <1>5 DEF DeleteTimer, Disarmed, ProcessRuns
  <2>1. PiType'
    BY DEF PiType, SetLed, Leds, LED1, LED2, LED3, Request, SetLow, LightsType
  <2>2. LineSound'
    BY LightsFrame 
  <2>3. LightsType' /\ (~SMP => LightsTimerGone')
    <3>0. stage' = 0 /\ data' = LED1 /\ write' = 4 /\ armed' \in BOOLEAN
          /\ lights' \in Nat
      BY DEF LightsType, Gone, LED1
    <3>1. LightsType'
      BY <3>0 DEF LightsType, Gone, Delete, Leds
    <3>2. ~SMP => softirq' = {} /\ armed' = FALSE
      OBVIOUS
    <3>3. QED
      BY <3>1, <3>2 DEF LightsTimerGone, Running
  <2>4. Unlit'
    BY DEF LightsSound, LightsType, Unlit, Running, SetLed,
      Gone, Request, Loaded, SetLow, Delete, LED1, LED2, LED3
  <2>5. Lit'
    BY DEF LightsSound, LightsType, PiType, Lit, Unlit, Running,
      SetLed, Gone, Request, Loaded, SetLow, Delete, Leds, LED1, LED2, LED3
  <2>6. QED
    BY <1>b, <2>1, <2>2, <2>3, <2>4, <2>5 DEF Sound, LightsSound
<1>6. CASE Fires
  <2> USE <1>a, <1>6 DEF Fires, SoftirqRuns
  <2>1. PiType'
    BY DEF PiType, SetLed, Leds, LED1, LED2, LED3, Request, SetLow, LightsType
  <2>2. LineSound'
    BY LightsFrame 
  <2>3. LightsType' /\ (~SMP => LightsTimerGone')
    BY DEF LightsSound, LightsType, LightsTimerGone, Running, Gone, Request,
      Loaded, SetLow, Delete, Leds, LED1, LED2, LED3
  <2>4. Unlit'
    BY DEF LightsSound, LightsType, Unlit, Running, SetLed,
      Gone, Request, Loaded, SetLow, Delete, LED1, LED2, LED3
  <2>5. Lit'
    BY DEF LightsSound, LightsType, PiType, Lit, Unlit, Running,
      SetLed, Gone, Request, Loaded, SetLow, Delete, Leds, LED1, LED2, LED3
  <2>6. QED
    BY <1>b, <2>1, <2>2, <2>3, <2>4, <2>5 DEF Sound, LightsSound
<1>7. CASE WriteLed
  <2> USE <1>a, <1>7 DEF WriteLed, Level, SoftirqRuns
  <2>1. PiType'
    BY DEF PiType, SetLed, Leds, LED1, LED2, LED3, Request, SetLow, LightsType
  <2>2. LineSound'
    BY LightsFrame 
  <2>3. LightsType' /\ (~SMP => LightsTimerGone')
    BY DEF LightsSound, LightsType, LightsTimerGone, Running, Gone, Request,
      Loaded, SetLow, Delete, Leds, LED1, LED2, LED3
  <2>4. Unlit'
    BY DEF LightsSound, LightsType, Unlit, Running, SetLed,
      Gone, Request, Loaded, SetLow, Delete, LED1, LED2, LED3
  <2>5. Lit'
    BY DEF LightsSound, LightsType, PiType, Lit, Unlit, Running,
      SetLed, Gone, Request, Loaded, SetLow, Delete, Leds, LED1, LED2, LED3
  <2>6. QED
    BY <1>b, <2>1, <2>2, <2>3, <2>4, <2>5 DEF Sound, LightsSound
<1>8. CASE ArmAgain
  <2> USE <1>a, <1>8 DEF ArmAgain, Following, SoftirqRuns
  <2>1. PiType'
    BY DEF PiType, SetLed, Leds, LED1, LED2, LED3, Request, SetLow, LightsType
  <2>2. LineSound'
    BY LightsFrame 
  <2>3. LightsType' /\ (~SMP => LightsTimerGone')
    BY DEF LightsSound, LightsType, LightsTimerGone, Running, Gone, Request,
      Loaded, SetLow, Delete, Leds, LED1, LED2, LED3
  <2>4. Unlit'
    BY DEF LightsSound, LightsType, Unlit, Running, SetLed,
      Gone, Request, Loaded, SetLow, Delete, LED1, LED2, LED3
  <2>5. Lit'
    BY DEF LightsSound, LightsType, PiType, Lit, Unlit, Running,
      SetLed, Gone, Request, Loaded, SetLow, Delete, Leds, LED1, LED2, LED3
  <2>6. QED
    BY <1>b, <2>1, <2>2, <2>3, <2>4, <2>5 DEF Sound, LightsSound
<1>9. QED
  BY <1>1, <1>2, <1>3, <1>4, <1>5, <1>6, <1>7, <1>8
  DEF LightsNext, LightsProcess, LightsTimer

-----------------------------------------------------------------------------
LEMMA SoundAlways == FairSpec => []Sound
<1>1. Sound /\ [Next]_boardVars => Sound'
  <2> SUFFICES ASSUME Sound, [Next]_boardVars PROVE Sound'
    OBVIOUS
  <2>1. CASE LineNext /\ UNCHANGED lightVars /\ Apart
    BY <2>1, LineStep
  <2>2. CASE LightsNext /\ UNCHANGED lineVars /\ Apart
    BY <2>2, LightsStep
  <2>3. CASE UNCHANGED boardVars
    <3>1. UNCHANGED <<lineVars, stage, armed, data, write, lights, pin, isr, softirq, crashed>>
      BY <2>3 DEF boardVars, lightVars
    <3>2. LineSound'
      BY <3>1, LightsFrame
    <3>3. PiType' /\ LightsType' /\ Exclusive'
      BY <3>1 DEF Sound, PiType, LightsSound, LightsType, Exclusive, lineVars
    <3>4. Lit' /\ Unlit' /\ (~SMP => LightsTimerGone')
      BY <3>1 DEF Sound, LightsSound, Lit, Unlit, LightsTimerGone, Running
    <3>5. QED
      BY <3>2, <3>3, <3>4 DEF Sound, LightsSound
  <2>4. QED
    BY <2>1, <2>2, <2>3 DEF Next
<1>2. QED
  BY <1>1, SoundInit, PTL DEF FairSpec

(* Every variable of the sensor line and of the LED timer keeps its type.  *)
THEOREM TypeCorrect == FairSpec => []TypeOK
<1>1. Sound => TypeOK
  BY DEF Sound, LineSound, LightsSound, TypeOK
<1>2. QED
  BY <1>1, SoundAlways, PTL

(* After a close the line is off while no file is open.                    *)
THEOREM LineIsOff == FairSpec => []ClosedIsOff
<1>1. Sound => ClosedIsOff
  BY DEF Sound, LineSound, LineType, OnForFile, ClosedIsOff, Unused, Drivers, Devices
<1>2. QED
  BY <1>1, SoundAlways, PTL

(* A c3_mod that was used, closed and removed leaves no timer behind.      *)
THEOREM RemovedIsQuiet == FairSpec => []RemovedQuietly
<1>1. Sound => RemovedQuietly
  BY DEF Sound, LineSound, StaysQuiet, RemovedQuietly
<1>2. QED
  BY <1>1, SoundAlways, PTL

(* Without SMP no handler, tasklet, timer function or queued work of a     *)
(* removed driver is left behind, nor the timer that arms itself.          *)
THEOREM NothingRemovedRuns == ASSUME ~SMP PROVE FairSpec => []RemovedIsGone
<1>1. Sound => NoRemovedCode
  BY DEF Sound, LineSound, Owned, Queued, Threaded, Raised, NoRemovedCode, Kt
<1>2. Sound => LightsTimerGone
  BY DEF Sound, LightsSound
<1>3. QED
  BY <1>1, <1>2, SoundAlways, PTL DEF RemovedIsGone

(* At most one of the LEDs that the timer lights in turn is lit.           *)
THEOREM OneIsLit == FairSpec => []OneLit
<1>1. Sound => OneLit
  BY DEF Sound, LightsSound, LightsType, Lit, Unlit, OneLit, Loaded, Gone
<1>2. QED
  BY <1>1, SoundAlways, PTL

=============================================================================
