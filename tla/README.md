# A verification of the Raspberry Pi drivers of Embedded-Software-System-Practice

The repository is a course's worth of loadable Linux 4.9 modules for a
Raspberry Pi, one directory each, and one final project. Most of them are a
character device over a few GPIO pins. What they do is small; when they do it
is not: processes, an interrupt handler and timers work on the same lists,
counters and pins, with a spin lock, a wait queue, or nothing between them.
This directory models the drivers that have such behaviour in TLA+, checks
them with TLC and proves the main results with TLAPS.

## 1. The system

Every directory is a module of its own; `*.mod.c`, `*.cmd`, `*.o` and `*.ko`
are build products. The `.ko` files carry the vermagic
`4.9.59 mod_unload modversions ARMv6 p2v8`: a kernel without SMP and without
preemption. The sources use spin locks and so are meant for SMP as well.
Both kernels are modelled, by the constant `SMP`.

| Component | State it keeps | Operations | Hard behaviour |
|---|---|---|---|
| Blocking device, `src/11`, `src/12` | `my_data`, `my_wq`, `my_lock` | read (waits; `src/12` with a timeout), write | the wait looks at `my_data` before the lock is taken; wake-ups, timeouts |
| PIR message queue, `src/14` | list of queues, per queue a list of messages, `fd`, `size`; `my_wq`, `ku_pir_lock` | create, close, flush, read, write; interrupt handler; load, removal | the handler changes the lists without a lock; a read sleeps with the lock held; flush and close take no lock; a descriptor that is no queue's is dereferenced; the device is available before its lock and list are set up; removal frees nothing |
| Door controller, `src/project` | the pins: 4 coils, speaker, 3 LEDs | six ioctl commands, load, removal | no lock; half steps of one call must fit those of the one before; the device is available before the pins are set up |
| Stepping motor, `src/20` | 4 coils | turns once when loaded | the order of the half steps |
| Sensor with LED timer, `src/10`; sensor, `src/15`; tasklet, `src/16` | irq and its depth, LED, timer / tasklet | open, close, interrupt, timer, removal | `add_timer` on a pending timer; unbalanced `enable_irq`; order of removal |
| LED timer, `src/08` | three LEDs, a timer that arms itself | timer, removal | removal frees the pins before the timer is deleted |
| RCU list, `src/13` | a list | read under the lock or under RCU, load, removal | readers from before the list exists until after it is freed |
| Temperature sensor, `src/19` | `dht11_data[5]` | reads 85 pulses | indices; lost pulses, singly where a turn samples the pin twice |
| Work queue and thread, `src/17` | irq, a kernel thread, a work queue, LED | interrupt, work item, thread, load, removal | the handler queues work while the module is removed; removal waits for the thread and the queue; `kthread_create` may fail |
| Message queue of `src/09` | | | does not compile (undeclared members and ioctl numbers, no Makefile) |
| Mailbox, `src/06` | a buffer under a spin lock | read, write | `cdev_add` without `cdev_init`, so every open fails and no handler runs |
| Counter, `src/04` | `number` | three commands, each `number++` | `number++` without a lock |
| `src/01`, `02`, `03`, `05`, `07`, `18` | nothing that outlives a call | log messages, pin writes or a list at load time | none |

The parts interact through the kernel only: processes call file operations,
the GPIO line of the PIR sensor raises interrupts, `wake_up` reaches sleepers
through a wait queue. The user-space programs (`ku_pir_lib.c`, `pi2_app.c`,
the readers and writers of 11 and 12) wrap one call each and appear in the
models as processes that call at any time.

## 2. The modules

| Module | Models | Used by |
|---|---|---|
| `Kernel` | who may execute kernel code, spin locks (external) | `SimpleBlock`, `KuPir`, `Pi2`, `RcuList` |
| `WaitQueue` | `wait_event`, `wake_up` (external) | `SimpleBlock`, `KuPir` |
| `SimpleBlock` | `src/11`, `src/12` | `MCSimpleBlock`, `SimpleBlockProofs` |
| `Semaphore` | what a producer/consumer device promises (abstract) | `SimpleBlock`, by refinement |
| `KuPir` | `src/14/ku_pir.c` | `MCKuPir`, `KuPirProofs`, `KuPirListProofs`, `KuPirQueueProofs` |
| `MessageQueue` | what a queue driver promises (abstract) | `KuPir`, by refinement |
| `StepMotor` | the half steps of `src/20/motor.c`, shared by `pi2.c`; the rotor | `Pi2` |
| `Pi2` | `src/project/pi2.c` | `MCPi2`, `Pi2Proofs` |
| `Pi` | pins, interrupt handlers and soft interrupts (external) | `SensorLine`, `TimerLed` |
| `SensorLine` | `src/10`, `src/15`, `src/16`, `src/17`, which share the sensor's line | `Board` |
| `TimerLed` | `src/08/ch2_mod.c` | `Board` |
| `Board` | the drivers above on one board, with fairness | `BoardProofs` |
| `RcuList` | `src/13/simple_rcu.c` | `RcuListProofs` |
| `SharedList` | what a list under RCU promises its readers (abstract) | `RcuList`, by refinement |
| `Dht11` | `src/19/dht11.c` and the sensor it listens to | `Dht11Proofs` |

### Kernel and WaitQueue

`Runs(p)` says that process `p` may execute. With SMP that is always so.
Without, `cpu` names the process that keeps the processor until it sleeps,
returns to user mode, or reaches a point where the kernel may reschedule
(`might_sleep`: `kmalloc(GFP_KERNEL)`, `copy_to_user`, `wait_event`); there the
driver's action is followed by `GiveUpCpu`, in `KuPir` as a choice. `SpinLock`
takes `spinlock` with SMP and does nothing without. `wait_event` is
`prepare_to_wait`, the test of the condition, and `schedule`, as three steps,
and a `wake_up` between the second and the third makes the sleep return at
once. The test that `wait_event` makes before it joins the queue is covered:
being on the queue for the moment of a test has no effect.

### SimpleBlock

`my_data` is updated by a load (`Load`) into a register `reg[p]` and a store
(`ReadStore`, `WriteStore`), so that lost updates are possible. `pc[p]` is the
place in the call. `Timed` chooses between `src/11` and `src/12`; `expired` is
the set of readers whose two seconds are over. `ReadReturn` is the second look
at `my_data`, which a read returns and which no lock covers. `produced` and
`consumed` are history.

### KuPir

The list of messages is modelled store by store: `list_add_tail` is `Link`,
`LinkHead`, `LinkNew`, `LinkPrev`; `list_del` is `Del`, `DelNext`, `DelPrev`;
`size++` is `SizeLoad`, `SizeStore`. The same actions serve clients and the
interrupt handler (`Isr`), which has a `pc` and locals `reg[Isr]` like a client.
`mem` says which objects are allocated; a step that follows a pointer to
nothing or to freed memory sets `fault` and ends the behaviour (`Oops`).

A call names any descriptor of `Fds` (`Call`), whether a queue has it, had it, or
never will. `Gets` is the lookup, made where the code makes it: for a read or a
write after the lock. If it finds nothing, `GetNothing` (close, flush) or the next
step (`Oops`) dereferences null, as lines 149, 155, 176 and 213 do. The
history field `named` keeps whether a queue had the descriptor when the call was
made: if none had, the oops is a `"badfd"`, otherwise a `"null"`.

`pc[Isr]` also says how far the module is: `"gone"` before `Load`; `"added"` once
the device can be called, until `Setup` initialises the lock, the wait queue and
the list; `"off"` until `RequestIrq`, or `RequestFails`, which leaves it `"deaf"`;
and `"gone"` again after `Exit`, which leaves queues and messages allocated. Without
SMP loading does not sleep before it asks for the line, so no call comes before
`Setup`; with SMP one may, unless `Polite`, and then finds null pointers or loses
its lock. `RequestFails` frees, as the code does, a line that is another driver's;
what that does to the other driver is in `SensorLine`. A `"deaf"` driver
works, but never hears the sensor. In turn, the failed loading of another driver
takes this one's line; that is left out, the driver then goes on as if no edge came.

`Quiet = TRUE` keeps the handler out of calls, to show what the code does when
no interrupt disturbs it.

Abstractions: the list of queues is a sequence that one step changes (the
handler only reads it, and without SMP no client is interrupted by another
there); with SMP nothing protects it, or `q_fd`, from two clients that create or
close, so `PirCalls` lets one client create there, and close only if it is alone;
freed memory is not handed out again; `kmalloc` succeeds; time stamps are left out;
user memory is valid, but for the descriptor in it, which is any number.

### StepMotor and Pi2

A call of `pi2_ioctl` goes pin by pin. `job[p]` holds the command and the
locals: `i` cycles done, `s` the half step (9: the end of the cycle), `k` the
pin (0: the test of the speaker that `forwardSpeaker` makes first; of a light
call, the LED), `playNote` and `playDelay`. The rotor is external: it follows
the field of the coils the short way round, and slips when the coils form a
pattern that is no half step or one on the opposite side. `turned` counts
finished cycles. `setup` is how far `pi2_init` has come. `Turn` and `Periods`
stand for 512 cycles and 800 periods of the tone. `Exit` is one step: the code
deletes the device last (`pi2.c:343`), and a call that began before it, while
the pins are freed, is left out with all calls that a removal catches.

### Pi, SensorLine, TimerLed and Board

`Pi` has the LEDs' pins, the interrupt handler that runs (`isr`) and the soft
interrupts that were raised (`softirq`: timer functions and the tasklet).
Without SMP a handler runs to its end, a soft interrupt is interrupted by
handlers only, and a process goes on when there is neither.

In `SensorLine` any of the four drivers may be loaded beside the others.
`place[d]` says how far its loading or removal has come; a step ends at a call
that may sleep. `handler` is the driver that has the line, `depth` the kernel's
count of `disable_irq`, 1 for a line without a handler. `RequestIrq` fails for a
line that is taken, and `RequestFailed` then frees it, as the code does. Before
`MapIrq` a driver's `irq_num` is 0 and its open and close concern another line.
`Edge` runs the handler if the line is on and the driver asked for that edge.
`crashed` is the `BUG` of `add_timer`, the call of a removed timer function, or
`wake_up_process(NULL)`. `works` counts the items on the work queue of `src/17`;
its removal is `ThreadExit`, `AskStop`, `Flush`, between which its thread ends
(`ThreadEnds`) and items run (`WorkRuns`). Line 109 of `src/17` names
`test_task1`, which nothing declares; the model reads it as `test_task`, the
variable that lines 26 and 89-110 use for the thread. `closed` and `quiet` are
history.

`TimerLed` sets the three LEDs pin by pin (`write`), so that the loading and
removal of the module may be interrupted anywhere, and arms the timer again.

`Board` joins the two. They share the pin `LED1` and nothing else; a behaviour
uses one or the other.

### RcuList

`list_add_rcu` is `Fill`, `Publish`, `Back`; `list_del_rcu` is `Delete`, then
`Free` does `kfree` and the next turn of the loop. `Read` begins an ioctl,
with the lock or without, `First` and `ShowEntry` walk. `mem` says what is
allocated, `fault` that freed memory or a null pointer was followed. `Polite`
keeps readers away from the list before `INIT_LIST_HEAD` and during removal.
`listed` and `snapshot` are history, which the proofs use.

`ReadsAreAtomic` says that this implements `SharedList`, whose reads take no time.
The abstract list is `Entries`, what a walk from `mylist.next` meets now; the answer
of a call, `Answer(p)`, is what it has printed followed by all it would still meet.
It is fixed by `First`, and no store of `list_add_rcu` may change it after that.

### Dht11

A turn of the loop in `dht11_read` is one action, `Turn`, on a pulse that is
counted as short, long or endless (the count reached 255). It samples the pin
twice: line 30 waits for the level to change, line 37 reads it again. Which pulse
the next turn counts follows from both. In time, it is the next one (`Clean`). If the
loop was held up while it counted, an even number of pulses went by as if the level
had not changed; if it was held up between the two samples, any number did, one
included, after which the low pulses are counted as bits and the high ones between
them. `Lose` is both, and as the loop counts its own rounds, not time, the count may
come out either way. `Misread` is a wrong count alone; in `Stop` the rest of the
answer is missed. In `Glitch` the other level appears for a moment: the pulse
counts as three if line 37 still sees it, and as two if not. `Bits` stands for the
8 bits of a byte.

## 3. What is checked

| Run | Instance | Shows |
|---|---|---|
| `BlockSmp` | SMP, 2 readers, 2 writers, 3 writes | types; no update is lost; readers overdraw by at most one; no wake-up is lost; a sleeper beside an item looks again |
| `BlockTimed` | SMP, `src/12`, 1 reader, 2 writers, 4 writes | with one reader the device is a semaphore; what a read returns is what it left or more; every read returns |
| `PirSolo` | UP, 1 client with every call, on a descriptor with and without a queue, reloads, 2 queues, 3 messages, 3 edges, handler at any instruction | types; no freed memory is touched; delivery once and in order; no edge is missed for good |
| `PirQuiet` | UP, an owner and a writer, any of 2 descriptors, reloads, 2 queues, 3 messages, 1 edge, handler between calls | `size` is the number of messages; no oops but for a descriptor that had no queue; descriptors differ; the queues are first-in first-out |
| `PirSmp` | SMP, two readers one of which writes, any of 2 descriptors, 4 messages | the lock excludes; FIFO; no reader is stranded, and a reader beside a message returns |
| `PirSizeRace` | UP, 1 reader, 3 edges | violation: `size` differs from the number of messages |
| `Pi2Up` | UP, 2 processes with every command, calls before the pins are set up, reloads, 3 calls, 6 cycles a turn | types and counters; no slip; the door rests where the calls turned it |
| `Pi2Smp` | SMP, one process moves the door, one plays and switches, 6 cycles a turn, 3 calls | the speaker is low at rest; the LEDs agree |
| `Pi2Overlap` | SMP, two processes move the door at once, one each way, calls before the pins are set up, 2 calls | the coils rest next to the first half step |
| `Board` | UP, 4 drivers on the line, 1 file each, 3 edges, 3 loads; or the LED timer, 2 loads | types; no removed code stays reachable; closed is off; quiet removal; at most one LED, in turn; the light goes out; a removal that waits for a thread and a work queue ends |
| `Dht11` | bytes of 2 bits, 2 values, 2 reads, 3 faults a read | what is printed lost one pulse at most, and was sent if it lost none; a clean answer is printed; the bits fit |
| `RcuSmp` | SMP, 2 readers, 3 entries, 2 loads, polite | nothing dangling is followed; the list implements one with atomic reads; all is freed |

Bounds, and why they are enough:

* `MaxWrites`, `MaxEdges`, `MaxCalls` and the sets `Queues` and `Msgs` bound the
  length of a behaviour. Two readers and two writers are the smallest instance
  with every race of the blocking device; the theorems hold for any number.
* The list operations of `KuPir` touch an entry and its two neighbours, so
  three messages give first, middle and last; two queues give a handler that
  goes on to a second queue.
* `Spare` leaves messages to the handler in `PirSmp`: without it writes could use
  up `Msgs` and the handler would stop in the middle, which the code does not.
* Three calls reach every pair of directions with a reload or a third call in
  between. The rotor's state is its field, so longer sequences repeat.
  `Turn = 6` makes 60 cycles, past the 53 at which `playNote` wraps. In `Pi2Overlap`
  two calls meet at any two pins, one of ten cycles and one of one; the theorem holds
  for any number of them.
* Three loads let two drivers meet on the line and one of them be loaded again.
  The line's depth counts the files of all devices together, so one file of each
  of the two devices makes it 2. Three edges hold two falling ones: one to arm
  the timer, queue an item or schedule the tasklet, and one on top of it.
* The modules that `PirSolo` and `PirQuiet` load again start with the queues and
  messages the last load left, so `Queues` and `Msgs` end that too.
* Descriptors 0 and 1 are those of the first two queues. Each is no queue's before
  that is created, after it is closed, and after a reload.
* Three entries give a list with a first, a middle and a last; the second load
  starts from the pointers and ids that the first one left.
* Two bits a byte give all cases of `i % 2`, `j / Bits` and the checksum's
  overflow; one misread bit is all that the checksum is sure to find, and three
  faults are two lost pulses, one more than a printed answer can have, and
  a misread one.
* `CHECK_DEADLOCK FALSE` everywhere: all readers may sleep with no writer to
  come, the bounds end behaviours, and an oops ends the model.

Fairness. `BlockSmp`, `BlockTimed` and `PirSmp` assume that a call that was
made goes on (strong fairness: the scheduler, the ticket spin lock of ARM and
the wait queue starve nobody), that timers fire and that a pending interrupt
is served. Nobody has to call, and no edge has to come. `Board` assumes (weak
fairness) that a handler that runs goes on, that armed timers fire and that
raised soft interrupts run; the kernel does all three without being asked. For
`RemovalEnds` it assumes that a removal that has begun goes on when it can, that
the thread, which sleeps a second at a time (`kthreadNworkq.c:69`), looks again
whether it should stop, and that queued items run. No edge has to come, and
edges may come at any time.

What the violation says. `PirSizeRace`: the handler interrupts `size--` of a
read between its load and its store, increments, and is overwritten; `size`
is then smaller than the list for good. `ku_pir.c:36` calls it the number of
messages.

Limits met while modelling, where the code gives no guarantee and the runs
leave the case out:

* Two readers of one queue without SMP: the lock is empty and `copy_to_user`
  may sleep, so both may get the same message and free it twice.
* On a multiprocessor with two readers, what a read of the blocking device
  returns may be a negative number although it got an item (`simple_block.c:26`):
  the value is read again after the unlock. `ReturnsWhatIsLeft` is stated for one
  reader, or without SMP. Nothing is claimed of what a write returns.
* A message that the handler appends while `list_del` removes the only one of the
  list (`ku_pir.c:187`) may be unlinked with it. `head.prev` still points to it then,
  so later messages hang on it, out of reach of the head, and a read that finds
  `size > 0` copies from a null pointer. `PirSolo` with `NoOops` shows it; so
  `NoOops` and FIFO are stated for `Quiet`, and of the handler inside calls only that
  what is read is in order and was not freed.
* A call with a descriptor that is no queue's, because it was closed, is of an
  earlier load, or is any number, is an oops in every operation but create
  (`ku_pir.c:88, 100, 147-155, 175-176, 206-213`); one process alone gets there by
  reading after its close. The model contains these calls. `NoOops` says that
  there is no other oops; it does not say that this one is right.
* A call that is made between `cdev_add` and `INIT_LIST_HEAD` (`ku_pir.c:295-304`)
  follows a null pointer on a multiprocessor. The theorems and runs with SMP assume
  `Polite`; with `Polite = FALSE` and `NoOops`, `PirSmp` finds it in four states.
* A failed `request_irq` leaves the driver loaded without a handler
  (`ku_pir.c:309-316`).
* write does not call `wake_up` (`ku_pir.c:213-218`); without SMP it passes a
  sleeping reader's lock, and that reader sleeps on until the next edge.
* close under a sleeping reader, close or flush beside another call on a
  multiprocessor, and create on a multiprocessor are unprotected.
* A queue that nobody reads grows with every edge (`ku_pir.c:249`): `ku_pir.h:4`
  defines `KUPIR_MAX_MSG` as 10, and nothing looks at it.
* Removal of `ku_pir` frees no queue and no message (`ku_pir.c:319-329`); they stay
  allocated for good.
* Two processes that move the door at once on a multiprocessor mix their
  patterns, and the rotor slips and stays where it slipped to (`RestsAtStart` claims
  the coils only); two that switch the light leave some LEDs on and some off.
* LEDs and speaker may be set low by `pi2_init` after an early call switched
  them on; for the motor alone an early call is harmless (`Pi2Up`).
* `DOOROPEN` turns 3600 degrees and `DOORCLOSE` 360; the door does not close by
  closing once. `DoorWhereCommanded` states the position, not that it is shut.
* No driver sets `.owner`, so the kernel does not keep a module whose file is
  open. The models exclude removal during a call.
* `c3_mod`: a second falling edge within two seconds is a `BUG` of `add_timer`
  (`c3_mod.c:48`); `LightGoesOut` speaks of the time up to it. A `c3_mod` that was
  never opened has its line on, and an edge between `del_timer` and `free_irq`
  (88, 94) leaves a timer that fires in removed code; `RemovedQuietly` is about
  one that was opened and closed. Its LED may stay lit after the removal.
* A driver whose `request_irq` fails frees the line of the other, which goes on
  without interrupts.
* `kthreadNworkq.c:95` calls `wake_up_process(NULL)` after a `kthread_create` that
  failed; the model stops there (`crashed`). Its handler may be called before
  `LED1` is requested, and the light is then set low again (97-98). Nothing
  switches this light off.
* On a multiprocessor `ch2_mod`'s timer may arm itself after `del_timer`, and
  `pir_tasklet`'s handler may schedule the tasklet after `tasklet_kill`.
* `simple_rcu.c` on a multiprocessor: a read before `INIT_LIST_HEAD` follows a
  null pointer (86, 90), and one beside the removal follows freed memory, for
  there is no grace period (108-109). `RcuSmp` with `Polite = FALSE` shows both.
* `dht11.c`: one pulse that is lost between the two samples of a turn (30, 37)
  turns the low pulses into bits, all 1; there are still 40, and the sum may
  agree: 90, 0, 38, 127, 255 is printed for an answer that begins with 90, 0, 38
  and a 0 and loses the pulse after it. `GoodIsSent` claims what was
  sent for answers that lost none.
* When a pulse is split, 41 bits may be stored in 40 places, and what is printed
  may be wrong; `GoodIsSent` and `BitsFit` exclude split pulses.
* A file that stays open over a removal and is closed later runs code that is
  gone; that is left out, like every call that outlives its module.
* `insertData` of `ku_pir_lib.c:88` takes the 5 that write returns for an error.

## 4. What is proved

All theorems hold for any values of the constants that satisfy the named
assumptions; nothing depends on the bounds.

`SimpleBlockProofs`. The inductive invariant adds to `TypeOK` that, with SMP,
the processes at `load` or `store` hold the lock (so there is at most one),
and without SMP a process inside an update keeps the processor; that a
register loaded is still equal to `my_data`; and that a reader past its
test holds a claim on an item. From it: `TypeCorrect`, `UpdatesConserved`,
`WakeupNotLost`, `OverdraftIsBounded` (by counting the readers past the test)
and `ImplementsSemaphore` and `ReturnsAreTrue`, which assume `~SMP` or one
reader: after its unlock only writers may have changed `my_data`, upwards.

`KuPirProofs`. `TypeCorrect` needs that the locals hold what the place in the
call says (`Allocated`). `SensorIsSettled` holds since every edge raises an
interrupt and the handler reads the pin after it has cleared it; a reload starts
from the level the pin then has.
`LockIsExclusive` (in its statement) and `NobodyStranded` assume SMP and `Polite`:
a call that has the lock before `Setup` loses it. The latter needs that a
sleeper holds the lock and that only the handler increments `size` meanwhile.
`DescriptorsDiffer` assumes the UP kernel: the process between `kmalloc` and
`q_fd++` keeps the processor, and every descriptor in use is below `q_fd`.

`KuPirListProofs` proves `NoUseAfterFree` and `DeliveredInOrder`: no list operation
touches memory that was freed, and the reads of a queue return what was appended
to it, once and in order. Without SMP this holds although the handler appends
between any two instructions of a client. The theorems assume `OneAtATime`, which
says which calls may meet:

* without SMP, one client, the owner, makes any call; the others only create
  queues, and also insert if the owner closes nothing. That is how the library is
  meant to be used: `ku_pir_open` gives its caller a queue and a descriptor of
  its own (`ku_pir_lib.c:14-28`), and the caller reads and closes by it.
* with SMP, any number of clients read and write, under the lock, and one of them
  (`PirCalls`) creates, which before its last step works on a queue that nobody else
  knows; the handler stays out of calls (`Quiet`), and calls wait for `Setup`
  (`Polite`).

It does not say which descriptors they name, or when. A call whose descriptor was no
queue's may still find one, created since, or be at a place with no queue
(`Astray`), where its next step is the oops; every other call has one in the list.

Both cases are needed: without them the limits of section 3 (two readers,
close or flush beside another call, the handler beside a call on another
processor) are counterexamples. The runs `PirSolo`, `PirQuiet` and `PirSmp` are instances.

The invariant is `Typed /\ Orderly /\ ListInv`. `Orderly` says which client holds
the lock or the processor at which place, and where the handler can be then.
`ListInv` says that each queue `q` has a set `S[q]` of messages which a traversal
meets, oldest first (`Threads`), linked backwards too (`Doubly`), and that what
was read was appended before all of `S[q]`. A set is needed since the handler
may append while a client is between two stores of `list_del` or `list_add_tail`:
then `head.prev` and the last `next` disagree, and a message appended meanwhile
is reached from the head only after the client's next store, or, behind a
`list_del` of the only message, never. `CutOk` and `JoinOk` say for each of these places
which pointers are still owed, with the set `u` of the messages that hang on a
message not linked yet; `HandlerOk` does so for the handler's own append, which
no client interrupts, so that it counts as one step (`Rear`, `Known`). `Apart`
says that no two contexts have the same new message or queue, `HistoryOk` that
no message is in two queues or twice in one.

`KuPirQueueProofs` keeps the handler out of calls (`Quiet`) in the case without SMP as
well. Then `Exact` holds: the list of a queue is a sequence of distinct messages
linked by `next` (`ChainOk`), `head.prev` is its last element (`TailOk`) and `size`
its length (`CountOk`), each but for the stores that the one context at work on the
queue still owes (`WorkOk`). From it follow `SizeIsMessageCount`, `NoOops` and
the refinement `FifoSpec` of `MessageQueue`. `NothingFaults` is about calls that
name a queue: between the lookup, or the call itself, and the last use another client
may run and flush, the handler may append, or a reader sleep, and yet the
queue is still in the list when a step needs it (`RestOk`) and a reader that is
woken finds a message (`CountOk`). A call that named none is `Astray` or has found
a queue since. For the refinement, `LinkPrev` appends to the abstract queue,
`Copy` takes its first message, `DelPrev` drops the first message in a flush
and is a stutter in a read, the lookup of `close` ends the queue, `Load` begins
anew, and every other store is a stutter. The abstract contents are what
`Traversal` finds; `TraversalIs` shows that this is the sequence of `ChainOk`.
`Quiet` is needed: `PirSizeRace` is the counterexample.

`Pi2Proofs`. `TypeCorrect` carries `Placed`, where in a call the locals may be.
`SpeakerIsSilent`: the speaker is on only while some call owes to switch it
off (`Owes`: a half period of the tone, or one of the half steps 1-2 and 5-6
of a cycle with sound). It holds for SMP too, for any number of processes.

`LedsAgree` assumes that calls wait for `pi2_init` and that light calls do not
overlap: `~SMP`, or one process issues them (`Sole`). Its invariant says which
LEDs the call in progress and `pi2_init` have set already (`SoFar`, `Lowered`).

`NeverSlips` and `DoorIsThere` make the same assumption about the calls that move
the door, `SoleMover`; without SMP they do not need that calls wait for
`pi2_init`. Between such calls the field is at half step 7, 8 or 1, the coils are
dark or show it, and the rotor is where `turned` puts it (`Near`). Inside a cycle
the pins below `k` are those of half step `s`, the others still those of the one
before, and the field is one of the two (`Between`). Changing one pin between two
neighbours in the order the code does gives one of the two, never a third
pattern (`CoilMoves`). The first half step of a cycle leaves the pins 2 and 3 low
in either direction, and so does setting the pins up; with those two low the field
stays at 7, 8 or 1, so a change of direction or a reload is harmless (`NearStep`).

`CoilsRestAtStart` needs no such assumption. A coil of the middle half steps, 2 or 3,
is on only while some call has still to switch it off (`Cleared`): each call that is
not past that pin of the last half step writes a 0 to it before it returns, whatever
the others write meanwhile. So the last one to return leaves both dark.

`BoardProofs`. The invariant says whose the line is (`Owned`); that after a close
the line is on only for a file that is still open (`OnForFile`); that
`disable_irq` and `free_irq` wait for the handler (`Waited`); and that after a
quiet removal nothing can arm the timer (`StaysQuiet`). For the lights it says
which pins are right while the timer function runs (`Lit`). `TypeCorrect`,
`LineIsOff`, `RemovedIsQuiet` and `OneIsLit` hold for both kernels;
`NothingRemovedRuns` assumes `~SMP`, where a soft interrupt ends before the
removal goes on. Its part about the work queue needs that the irq is freed
before the flush (`Owned`, `Queued`).

`RcuListProofs`. The listed entries are linked from the newest to the oldest
(`Linear`), loading or removal stands at a known place of the list (`Placed`),
reads run beside `list_add_rcu` only (`Apart`, `Holds`), and a walk has printed the
ids from the newest it saw down to its cursor (`Walks`). All theorems assume
`Polite` or `~SMP`: without SMP the processor is kept where reads would be
harmful, whoever reads when. They hold for any length of the list. `SnapshotsRead`
says with the history variables that a finished walk has printed every entry that was
listed when it began, newest first (`ReadsSnapshot`, which no run repeats:
`ReadsAreAtomic` says it without history, and of unfinished reads too).

`ReadsTakeNoTime` is the refinement `ReadsAreAtomic` of `SharedList`. The mapping
follows pointers, so its value in a state is computed first: `WalkedIs` shows that
a walk from the newest of `n` linked entries meets `Newest(n)`, by the least place
at which it would differ, since `Walked` is a recursive function. With it
`EntriesAre` gives the abstract list, `Newest(listed)`, and `AnswersAre` the answer of
a walking call, `Newest(snapshot[p])` wherever its cursor is. The invariant needs
`Resting` besides: while the module is not loaded the head points to no entry, and
a call that does not walk points nowhere or to the head. `Publish` is the abstract
`Add`, `Delete` is `Remove`, `Read` is `Call`, `First` is `Look`; every other step
is a stutter, `Fill`, `ShowEntry` and `Free` among them.

`Dht11Proofs`. The bits stored are a function of the pulses counted (`Counted`),
and without split pulses the sensor has sent at least as many pulses as were
counted (`Ahead`), so the wire is idle before the bit that would not fit: `BitsFit`,
whether pulses are lost in pairs or singly.

`GoodIsSent` and `CleanIsGood` (an undisturbed answer is printed) rest on `Answered`.
Until the answer ends the sensor is ahead of the loop by just the pulses lost
(`InStep`), so turns and lost pulses together are at most `Pulses`; the last bit
needs all but one of them, hence an answer that is printed has lost one at most.
That this one cannot be excluded is said in section 3. As long as none was lost or
split, the bytes stored so far are those of the answer, or, after one misread
pulse, those of the answer but for one bit (`Decoded`). Two lemmas carry the
arithmetic. `DecodeStep` says what `dht11_data[j / 8] <<= 1` and the conditional
`|= 1` make of the bits before.
`ChecksumNotices` says that one changed bit changes the sum of the four bytes,
modulo 2^Bits, by a power of two that is not a multiple of 2^Bits, so it does not add up.
They hold for any width of a byte. TLAPS cannot instantiate the library's
induction rule; `NatSetInduction` states induction for a set of numbers, from the
least element of what is missing, and powers and divisions are proved with it.

Only model-checked: the liveness properties `SleeperLooksAgain`, `TimedReadReturns`,
`ReadReturns`, `LightGoesOut`, `LightsInTurn` and `RemovalEnds`. They follow
from fairness, which TLAPS does not reason about (`ENABLED`). All other properties of
the passing runs are theorems; what each assumes is said above.

## 5. Not modelled

* `src/09`: `ku_ipc.c` and `ku_ipc_lib.c` do not compile (unbalanced braces,
  undeclared members and ioctl numbers) and there is no Makefile or `.ko`, so
  there is no behaviour to translate.
* `src/06`: `cdev_add` without `cdev_init`; every open fails, so no handler runs.
* `src/04`: one counter without a lock, whose load and store hazard is that of
  `SimpleBlock` without `my_lock`. `src/05` builds and frees a list while it is
  loaded and removed, with the list code of `src/13` and nothing beside it.
* `src/01`, `02`, `03`, `07`, `18`: messages in the log or a few pin writes, no state
  that outlives a call.
* `src/20` beyond its half steps: it turns the motor once when loaded, with the
  functions that `Pi2` checks.
* Loading and removal of `src/11` and `src/12`, which keep nothing; the removal of
  `src/19`, which frees a pin.
* Failing `cdev_add`, `kmalloc` in `src/14`, `create_workqueue`, and pins that
  another module holds: the code does not handle them, or only logs them.

## 6. What is left

1. `NoUseAfterFree` on a multiprocessor beside flush and close, which needs a
   description of the calls that an application may overlap.
2. The delivery of `KuPir` beside the handler as a refinement: messages appended
   while `list_del` removes the only message are lost, so the abstract queue
   would have to allow for that loss.
