# Verification of the practice mini-projects

The repository is a collection of small concurrent systems: a C++ actor runtime
and the structures it is built from, five Linux kernel drivers, and a camera
pipeline for a Jetson Nano. What they share is that their whole difficulty lies
in interleaving: atomics, mutexes and condition variables, timers, work queues,
kernel threads and shutdown. This directory holds TLA+ specifications of them,
TLC configurations that check the specifications on small instances, and TLAPS
proofs about the ones whose argument is subtle enough to need one.

## The system: inventory

### C++ (src/cpp_practice_mini_projects)

| part | state | operations | talks to | what is hard | what makes it correct |
|---|---|---|---|---|---|
| `simple_mpmc_queue/mpmc_queue_bounded.h` | `enq_tail`, `deq_head`, a sequence number and storage per cell | `try_push` (copy, move), `try_emplace`, `try_pop`, destructor | mailbox of every actor, profiler buffer | lock-free; cell contents are written between two atomics; laps | one owner per cell, FIFO, honest answers "full" and "empty", destructor destroys what is live |
| `simple_ThreadPool/simple_thread_pool.h` | task queue, stop flag, one mutex, one condition variable shared by workers and submitters | worker loop, `pushTask` (waits 20 ms), `tryPush`, `stopPool`, destructor | runs the actor runtime's drains | who is woken by `notify_one`; stop racing push; join | accepted tasks run once, capacity, workers end, destructor ends |
| `simple_actor_model_cpp/actor_model_threadpool_version.h` | registry of slots, an actor's mailbox, `is_draining`, `alive`, cleanup queue, generations | `send`, `addToMailbox`, `drainMailbox`, `handleMsg`, failure and restart, `stopActor`, `unregisterActor`, `spawn`, destructor | the pool, the queue, a cleanup thread | an actor is drained by pool threads, notified by senders, stopped and destroyed by the cleanup thread, all at once | one drain at a time, every delivered message handled, failure never blocks the supervisor |
| `simple_actor_model_cpp/actor_model.h` | the earlier runtime: one dispatcher thread per actor, a semaphore per mailbox, `actor_pool_`, weak registry, cleanup queue | `send` with and without a reply, the dispatcher's loop, failure and its notice, restart, `stopActor`, `spawn`, both destructors | the queue, a cleanup thread | actors and system are shared; whoever lets go last destroys, and a destructor joins threads | no dispatcher asleep beside mail, no thread joined twice, by itself or never, destruction ends, failed actors replaced |
| `simple_actor_model_cpp/actor_model_logger_tracer.h` | profiler ring, flusher thread | `log`, `record`, enable, disable | the queue | shutdown of the flusher | nothing recorded before disable is lost |
| `simple_lock_free_queue/lock_free_queue.h` | `head`, `tail`, ring | SPSC push (copy, move), pop, `size` | | memory order, old values of the other side's index | no slot read and written at once, FIFO, `size` can be relied on |
| `simple_list_implementation/simple_list.h` | doubly linked list | push, pop, insert, emplace, erase, clear | | pointer surgery at the ends | links agree both ways, length |

### Drivers (src/Drivers_pract)

| part | state | operations | talks to | what is hard | what makes it correct |
|---|---|---|---|---|---|
| `drivers/chardev_blocking_io` | kfifo, reader and writer wait queues, `terminating`, `active_refs` | open, release, read, write, poll, ioctl TERM, init, exit | several processes | sleeping readers and writers against termination and unload | no lost wake-up, bytes in order, poll agrees with read and write |
| `drivers/simple_wd_timer` | armed, expired, owner, pet and expiry counters, timer, recovery work | open, write (pet), read (status), ioctl, timer expiry, recovery, unload | kernel timer, workqueue | pet racing expiry, arm racing disarm, unload | an armed watchdog has a pending timer; expiry is final until disarm |
| `drivers/telemetry_simple` | ring, `available`, producer thread, session counters | open, read, release, producer loop, pause/stop | kthread, reader | index and counter are separate; thread may end by itself | samples in order, never more available than stored, stop ends the thread |
| `drivers/gpio_led` | mode, LED state, commit work, blink work, button irq and debounce work | sysfs stores, brightness_set, irq, workers, probe, remove | LED core, irq, workqueue | mode changes against three asynchronous writers | after a mode change the old mode does not drive the LED; remove leaves it off |
| `gpio_led_blinking_drv` | the earlier driver, global state | same idea | | | |

### Camera pipeline (src/Jetson_Nano_pract/Jetson_usbcam_pipeline)

| part | state | operations | talks to | what is hard | what makes it correct |
|---|---|---|---|---|---|
| `frame_shared_state.h`, `producer.h`, `consumer.h`, `pipeline_stats.h`, `main.cpp` | latest frame, stop flag, counters | publish, get_latest, capture loop with retries, inference loop, periodic logger, shutdown | a producer, a consumer and a logger thread | latest-wins hand-over, stop while blocked | each frame counted once, shutdown ends, a published frame is not rewritten |

Not modelled at all: build directories (generated), experiments and traces,
images and journals, `visual_tracer_prog.py`, device trees, and
`image_classifier.h` (numeric work on a network's output).

## Modules

| module | what it is |
|---|---|
| `BoundedFifo` | a bounded FIFO queue whose operations are atomic: what the mailbox promises |
| `MpmcQueue` | `mpmc_queue_bounded.h`, one atomic access per step |
| `MpmcQueueProofs` | type correctness, the inductive invariant, the safety properties, the refinement of `BoundedFifo` |
| `ThreadPool`, `ThreadPoolProofs` | `simple_thread_pool.h`: workers, submitters, owner |
| `ActorSystem`, `ActorSystemProofs` | `actor_model_threadpool_version.h`: senders, workers, cleanup thread, owner |
| `Telemetry` | `telemetry_simple`: the ring, the producer thread, the one-owner session |
| `ChrdevBlkIo`, `ChrdevBlkIoProofs` | `chardev_blocking_io`: blocking I/O, poll, termination, unload |
| `Watchdog`, `WatchdogProofs` | `simple_wd_timer`: arm, ping, expiry, recovery, disarm, unload |
| `GpioLed`, `GpioLedProofs` | `gpio_led`: changes of mode, the three work items, the button, removal |
| `SpscQueue` | `lock_free_queue.h` under the C++ memory model; it implements `BoundedFifo` |
| `ActorThreads`, `ActorThreadsProofs` | `actor_model.h`: dispatchers, shared ownership, stopping, restart, destruction |
| `CameraPipeline` | `Jetson_usbcam_pipeline`: capture, inference, statistics, logger, shutdown |
| `ProducerConsumerProofs` | the proofs about `SpscQueue`, `Telemetry` and `CameraPipeline`, the three hand-overs from one producer to one consumer without a lock |
| `MC...` | what TLC needs beside a module: the symmetry of the threads and values |

A step of a model is the largest piece of code no other thread can look into:
one atomic access where the code uses atomics or plain shared fields, a critical
section where it uses a lock. A notification or wake-up that the code issues
after it has unlocked is a step of its own, because what happens between the
unlock and the notification is where wake-ups get lost. Local computation,
logging and the content of messages are left out. `SpscQueue` models the memory
orders of its source; the other models assume sequentially consistent memory.

One module proves things of three, so the names of `Telemetry` and
`CameraPipeline` that every module has (`Init`, `Next`, `Spec`, `TypeOK`) begin
with `Tel` and `Cam`, and a few actions name what they act on (`ReadFrame`,
`PushRecord`).

A definition whose name begins with `Slip` is a changed form of the definition
after it, with a plausible bug in it. No specification uses one; it shows that
the property it is meant for would notice.

### MpmcQueue

The variables are the header's fields: `enq_tail`, `deq_head`, the sequence
number `seq` and the storage `mem` of every cell. `pc` says which access comes
next, `pos` is the local `tail` or `head`. A *ticket* is a value of one of the
two counters; ticket t lives in cell `t & mask_`, whose number is t when the
cell is free for that ticket's producer, t + 1 when it holds its item, and t +
Capacity when its consumer has left. `Push` begins `try_push(T&&)` and
`try_emplace` (which retry for ever) or `try_push(const T&)` (which gives up
after `SpinLimit` retries, `bounded`); the load of the counter, the load of the
cell's number, the compare-and-swap, the construction in the cell and the store
that publishes are steps, and so are the mirror images in `try_pop`. The weak
compare-and-swap may fail for no reason. The destructor's test is
`HasActiveData`, of which `LiveObjects` says that it is exact.

`MpmcQueueProofs` maps the ring to `BoundedFifo`: the queue is the list of items
of the tickets from `deq_head` to `enq_tail`, where the item of a ticket drawn
and not yet constructed is the one its producer holds. A push takes effect when
its compare-and-swap succeeds, and so does a pop.

### ThreadPool

`taskList` and `stop_pool` are the pool's; `waitSet` holds who is blocked on the
one condition variable, which workers waiting for a task and submitters waiting
for room share. `pushTask` and `stopPool` notify after they unlock (`notify`,
`notifyAll`), `tryPush` while it holds the lock. A waiter leaves the set when it
is notified, when its 20 ms are over, or for no reason, and looks at its
predicate again in a later step. A worker's section is two steps because it
reads `stop_pool` twice (line 49 and line 52) and the destructor writes it
without the lock; between the two nobody else can lock (`Unlocked`). `patient`
is the set of submitters that call `pushTask`, chosen in `Init`: the actor
runtime uses `tryPush` only, and what holds of it is said of `patient = {}`.
Running tasks may push tasks.

### ActorSystem

Slots, registry, mailboxes and flags as in the header; the pool and the mailbox
are taken at their word, as the modules above establish it: a bounded queue of
drain requests that refuses when stopped, a mailbox whose push reserves a place
and later publishes in it. `send` is `Send`, `AddToMailbox`, `Reserve`,
`Publish`, `Kick` (the compare-and-swap on `is_draining_`), `Notify`;
`drainMailbox` is `Drain`, `Loop`, `PopNext`, `HandleMsg`, `Clear`, `Recheck`,
`Repop`, `Recas`, `Renotify` and the late message; `NotifyFailure` puts the slot
in the cleanup queue; `TakeFailed`, `Erase`, `StopActor`, `Spin`, `Reset`,
`Respawn` are the cleanup thread. `registerActor` is two steps under
`registry_lock_`: `Install` sets `is_valid`, and `Link`, later, tells the actor
its system (`linked`) and enters its name. In between, only who takes no lock
can meet the actor. Of the race on the `weak_ptr` itself, which `lock()` reads
while it is stored, the two plain outcomes are modelled: no system, or the
system. In a system nobody owns any more, that step is `Terminate`. A task may
throw what is no `std::exception` (`Foreign`): it leaves `drainMailbox` from
wherever it is and ends in the pool. `lost` is a history: it records that a
thread had the right to drain, or a failure to report, and told nobody, because
the actor did not know its system or such an exception took the thread away.
The owner destroys: stop the pool, queue the
sentinel, join the cleanup thread, unregister every actor, join the pool. A
thread may hold a raw pointer to an actor that is destroyed meanwhile: each slot
has an incarnation number `life`, each thread remembers in `ref` the one it
works with, and a thread that goes on with one that is gone is sent to
"undefined" (`Stray`) and left there. `Direct` clients use the actor without the
registry's lock, as `send` through a handle does.

### Telemetry

Each shared access of `ring_push`, `ring_pop` and the count between them is a
step. The producer thread is one control variable, `thread`, since there is one
at most; a read waits, sizes itself by `available`, then pops that many records
one by one. Release wakes, stops and joins the thread, then resets the ring and
gives up ownership. A thread that has returned before `kthread_stop` is called
may be gone altogether (`Reap`), since nobody holds a reference to its
`task_struct`; the call is then "undefined" and nothing is promised of it. A
record is its sequence number. `MaxSeq` ends the generation of records so that
the state space is finite. Looking at the condition and going to sleep are one
step because `wait_event` looks after it has joined the wait queue.

### ChrdevBlkIo

One device. A section under `state_lock` is a step; the wake-up after the unlock
is another, and `wait_event` is three: join the queue, look at the condition
(without the lock), sleep. Of the kfifo only the number of bytes is kept. A
`poll` joins both queues and reports readiness under the lock. `O_NONBLOCK` is a
choice made at the test that uses it. A copy to or from user space may fault
after part of the bytes: `read` loses them, `write` returns an error though they
entered. `Terminate` is the ioctl, whose two wake-ups are steps of their own.
The exit function waits for `active_refs` to become 0 and then frees; the kernel
lets it start while files are open only when the unload is forced, and the
code's first step is written for that case, so `Forced = TRUE` is the instance
that is run.

### Watchdog

`armed` and `expired` are atomics read one at a time; timer, recovery work and
delayed panic work are pending or not, and running or not. The three cancelling
calls wait for what runs. Time is left out: a pending timer may expire at any
moment, so what holds does so for every timeout and every speed of pings.
`nowayout` is the module's parameter, chosen in `Init`. `overlap` says whether
two threads may be inside arming or disarming at once: the code has no lock
against it, and what depends on it says so. The owner check at the head of each
call cannot fail, because only the owning file is ever open, and is not
modelled.

### GpioLed

`mode` is written under `mode_lock` and read without it, `led_state_enabled`
written under `state_lock` and read without it; each such access is a step.
`gpio_led_set_state` is `SetState` and `QueueCommit`, inlined at its five
callers. A work item is `pending`, running, or both, and never runs twice at the
same time, so the commit's mutex, which nobody else takes, is left out. The
cancelling calls wait for the work and take it from the queue in one step: while
they wait, the kernel refuses to queue it. An override of the mode does nothing
before it takes `mode_lock` and therefore begins there. `storing` says who is in
`custom_blink_store`, for whom `device_remove_file` waits. Which features probe
could set up is chosen in `Init`, and so is `alone`: whether calls, and presses
of the button, come one at a time.

### SpscQueue

`head`, `tail` and `ring` are the header's. What makes the queue hard is what a
side may believe of the other, so a load of the other side's index returns any
value the index has had since this side saw it last (`Loads`; `headSeen`,
`tailSeen`). `writable` and `readable` are the slots whose last use by the other
side happens before whatever this side does next: an acquire load that returns h
adds the slots the other side had finished with when it stored h, a relaxed load
adds none. The test, the write or move, and the store of each operation are
steps. `PushCopy` and `PushMove` are the two pushes, which differ in the order
of their load of `head` only. `size()` is called by the producer or by the
consumer; a third thread would combine two unrelated old values, and no promise
could be made.

### ActorThreads

An actor lives as long as a `shared_ptr` to it: `refs` says which thread holds
which, beside `pool`; `sysrefs` who holds the system. `LetGo` and `LetGoSystem`
drop one, and the thread that drops the last is in `~Actor` (`stop`) or in
`~ActorSystem` (`system`) before it goes on with its own code (`Free`); the
destruction in `unregisterActor` happens under the registry's lock (`locked`).
`stopActor` is `StopBegin` and `Join`. `addToMailbox` is `AddCheck`, `Push`,
`GiveUp`, `Publish` and `Signal`, run by clients and, for replies and notices,
by dispatchers; `push` draws a ticket and publishes it later, as `MpmcQueue`
does. The dispatcher `disp` goes through `checkMailbox`: `Acquire` of a token,
`Pop`, the task's `Return` or `Throw`, the two stores of a failure, `logFailure`
with its `Notice`, the drain after the loop, and `Report`. The cleanup thread is
`Take`, `Erase`, `Respawn`, `Settled`. `spawn` is `Construct`, `SetSystem` and
`Place`, run by one client, as the comment at line 391 demands, and by the
cleanup thread. Where the code terminates or is undefined, `crash` says why and
the model stops: a thread joined twice, by itself, or never; `shared_from_this`
with no owner; an index outside the pool. The id of a replacement is not
initialised (line 359): it is `Wild` until `Take` uses it, which then chooses
from `Indeterminate`.

### CameraPipeline

The four threads of the build with statistics: `producer` (`Producer::run`),
`consumer` (`Consumer::runInference`, the one `main` starts), `logger` and
`main`, each a control variable. A frame is its sequence number. Publishing and
taking the latest frame are single atomic accesses; recording a frame and taking
the window away are sections under the statistics' mutex. `pixels` says which
capture the producer's matrix holds: `cv::Mat` shares its pixels when it is
copied and a read fills the matrix it is given, which is OpenCV's behaviour and
not in this repository. Of the statistics the frames shown and dropped and the
last sequence number are kept; `logged` adds up what the windows printed. `Show`
may find that q was pressed. `MaxFrames` is the number of frames the camera
delivers before every read fails; reads may fail before that too.

## What the runs check

| run | instance | shows |
|---|---|---|
| `mpmc_safety` | 2 producers, 2 consumers, 2 cells, 3 tickets | one thread per cell, nothing constructed over a live object, the destructor destroys exactly what is live, the ring implements the FIFO, "full" and "empty" are true when they are answered |
| `pool` | 2 workers, 1 submitter, 3 tasks, capacity 2, every way to end | each accepted task in one place and run, nothing left behind, no worker asleep beside work, `pushTask` returns, stop and destructor end |
| `actor_safety` | 1 actor, 2 workers, 2 senders (1 direct), 3 messages of which 2 fail and 1 of them with any exception, destruction | but for what was `lost`: no message stranded, a failure reported once; a message in one place, one owner of `is_draining_` and room in the pool until a task throws |
| `actor_liveness` | 2 actors, 2 workers, 1 direct sender, 1 message that fails with any exception | accepted messages are handled; replacement and destruction end, unless `is_draining_` was left set or the failure was lost |
| `actor_concurrent` | 1 actor, nothing fails | **violated**: see below |
| `telemetry` | 2 processes, a ring of 2 records, reads of 2, 5 records | records in order and of the reader's own session, the count follows the indices, reads and closes return, unless the thread was gone before it was stopped |
| `chrdev` | 2 processes, 2 bytes, forced unload | no lost wake-up, the device freed only when nobody has it open, termination ends every blocked call |
| `wdt` | 2 threads, with and without nowayout and overlap | an armed watchdog watches, an old expiry cannot bring down a new arming, an expiry leads to its recovery, nothing runs after exit |
| `gpio` | 2 users, of whom and the removal 2 at a time, both optional features with and without | the GPIO line follows the state, a blinking LED goes on blinking, only the mode's controller changes the LED while calls come one at a time |
| `spsc` | 2 items, capacity 2 | no data race where the code acquires, the ring implements the FIFO whatever old values its loads return, `size` can be relied on by either side, both sides go on transferring |
| `actor_threads` | 1 place in the pool and 1 replacement, 1 client, mailbox of 2, 3 messages, replies and throws | no dispatcher asleep beside mail unless pushes overlapped, no bad join while nothing throws or is answered, destruction by the program ends, a failed actor is replaced |
| `camera` | 5 frames, 5 forgiven failures | every frame counted once, as shown or dropped, in the lifetime's figures and in one window; when the camera fails or q is pressed every thread ends |

### Why the bounds are enough to be of use

The ring's hard case is a lap: a thread holding a number from one lap meets a
cell of the next. Three tickets over two cells reach it, with two threads at
each end contending. The proofs then lift the safety properties to every
instance. The pool needs two workers to have one asleep while the other works,
and a queue shorter than the number of tasks to have waiting submitters. One
actor suffices for the drain protocol, since actors share only the pool and the
cleanup thread; two failing messages let a replacement fail too, and the
liveness run has two actors so that one can hold up the other. In `Telemetry`
five records over three cells wrap the indices, and two processes make a second
session follow a first. Two processes are a reader and a writer, or a caller and
a closer, of the character device; its proofs are for any number. Two threads of
the watchdog's owner are the two sides of any overlap. Two calls under way in
`gpio_led` (`MaxCalls`), beside three work items and an interrupt, are a store
against a change of mode, two of either, or one against the removal. Five frames
let the consumer miss several in a row, before and after a window is taken away,
and reach every number of forgiven failures. In `SpscQueue` three slots are
enough for an index to be seen one step old, a lap old, or not at all; its
proofs are for any capacity. `ActorThreads` has one place in the pool, so that a
reply or a notice goes to the actor itself or to its replacement. Instances with
two places and one client, and with one place, two clients and two messages
(684 thousand states), were also run to the end with the same results; they take
longer than the run may.

### Fairness

Threads that are inside a call run (weak fairness of their steps); nobody is
made to begin a call, to send, to open, to destroy or to unload, and no task or
signal is made to come. The queue has safety properties only: it is lock-free,
so that one call may lose every race to others and promises no progress of its
own. The pool's waits have no fairness beyond notification and the 20 ms
timeout: spurious wake-ups are possible and never counted on. `Telemetry` needs
the producer thread and the processes inside calls, `ChrdevBlkIo` each process's
own steps and exit, `Watchdog` the timer callback that has begun and the queued
works, not the expiry itself. `GpioLed` has safety properties only. In
`CameraPipeline` every thread runs: a read returns, a classification ends, and
so does the wait for a key, which has a timeout. In `SpscQueue` both sides call
again when they are refused, as the loops of `lock_free_queue.cpp` do, and a
thread that keeps loading comes to see a store, which the C++ standard asks for
within a reasonable time. In `ActorThreads` dispatchers, the cleanup thread and
clients inside a call run, and tasks return or throw; no client is obliged to
send, stop or let go of anything.

## Where code and documents disagree

- **Two tasks of one actor at once** (`actor_concurrent`). `drainMailbox`
  handles the late message after it has given up `is_draining_` and asked for
  another drain.

Some formulas are defined and listed in no configuration, because they do not
hold or hold only under conditions the code does not provide. To see the
counterexample add one to its module's configuration.

- `MpmcQueue`: `LiveObjects` with `Capacity = 1`, where the comment at line 105
  takes the equal numbers to mean "if slot is empty": a full cell's number, t +
  1, equals the number of a cell free for the next ticket, so that a push
  constructs over a live item. Capacity 1 is the default of both `spawn`s.
- `SpscQueue`: `CopyOrdered`: the copying push loads `head` relaxed (line 90),
  though its comment says that it acquires (line 88). Formally its write of the
  slot races with the consumer's move out of it.
- `ActorThreads`: `TokensCount`, the comment at line 84 without a condition: the
  dispatcher that is woken for a later message may find the oldest cell not yet
  published and pop nothing; the token is used up and a message waits until
  another comes. `Survives` and `Ended` without their conditions: a dispatcher
  whose temporary `shared_ptr` is the last runs the destructor that joins the
  dispatcher itself (`selfjoin`), or waits for the cleanup thread, which in turn
  joins the dispatcher; a `stopActor` or `~Actor` between the two stores of a
  failure joins nothing (`unjoined`); after a throw the cleanup thread may
  respawn in a system that nobody holds (`nosystem`), or use an uninitialised id
  outside the pool (`wild`).
- `ThreadPool`: `QueuedRuns` without `AcceptedRuns`' condition: one notification
  on the condition variable that workers and `pushTask` callers share may wake a
  submitter, which sleeps again, while the task waits beside sleeping workers.
  The actor runtime, which uses `tryPush`, is not affected. `TakesTask` (the
  destructor clears `stop_pool` before it sets it again, so that a worker's two
  reads may differ, and the worker calls `front()` of an empty queue),
  `DestructorStopsPool` (the destructor stops only a pool that was stopped
  before, line 160; in another, workers that sleep stay asleep and the join
  waits for them).
- `ActorSystem`: `Replaced` and `DestructorEnds` (a drain request may come to
  nothing: the pool refuses it, the system can no longer be locked, or the
  worker that takes it finds the actor invalid after its failure; `is_draining_`
  then stays set and `stopActor` spins for ever), `NoneStray` (a sender or a
  worker goes on with a destroyed actor), `CleanerEndsWell` (the cleanup thread
  respawns an actor of a system nobody owns any more, and `shared_from_this`
  throws). `OneDrain` holds only until a task throws, as it says. `NothingLost`,
  in two ways. `registerActor` sets `is_valid` (line 378) before
  `setActorSystem` (379): a send by id, which takes no lock, or a worker with a
  request left from the actor before, wins `is_draining_` in between, finds
  `owning_system_` empty (219, 281) and tells nobody, and the flag stays set; a
  failure met there (252) is never reported, and the actor never replaced. And
  `handleMsg` catches `std::exception` only (244): anything else a task throws
  leaves `drainMailbox` with `is_draining_` set, and the pool swallows it
  (`simple_thread_pool.h`, line 65). Either way a living actor takes messages
  until its mailbox is full and handles none.
- `Telemetry`: `ReadGetsRecords`: a reader waits for the index to move, and the
  record is counted only afterwards, so it may still return `-ENODATA`.
  `available` may for a moment exceed what the ring holds. `StopsInTime`: the
  wake-up in release (line 194) lets the producer return at line 95 before
  `kthread_stop` is called (199), and nothing holds the `task_struct` it is
  given. `kthread_stop` wakes the thread itself, but as long as
  `shutdown_session` ends the thread, it may end before it is stopped.
- `ChrdevBlkIo`: `FreedUntouched`: after a forced unload `release` may still be
  about to wake `term_wq` of the freed device, and `open` about to take its
  lock.
- `GpioLed`: `OnlyActive` without `OnlyActiveAlone`'s condition, though the
  source says "Only the active controller policy is allowed to change the state
  of LED" (line 31): the mode is changed last, so that a press or a store that
  comes after the old mode's work was cancelled queues it again, and a user who
  has read the mode may set the brightness after it changed. `DarkWhenRemoved`:
  remove cancels the commit that its change of mode has just queued, and its own
  "Turn off led gpio" then finds the state already off and commits nothing.
  `QuietWhenRemoved`: or else it queues a commit that runs after the memory is
  freed; so does an override, whose file is never removed. A default mode other
  than manual in the device tree has no effect, because probe reads it (line
  540) before it sets the features up (lines 549, 552).
- `CameraPipeline`: `FrameImmutable`, though `frame.h` says "Frame should be
  immutable by design" (line 9): a published frame shares its pixels with the
  matrix the next capture writes to (`producer.h`, lines 60 and 80), while the
  consumer clones and classifies it. `AllLogged`: the frames of the last window
  are printed nowhere but in the lifetime's figures, when the logger finds its
  flag down before it waits for another period.
- `Watchdog`: `Watching` without the condition of `ArmedAlone`: disarming
  between the last two statements of an arming leaves the flag set and no timer
  pending. `GoneQuietly`
  without `~nowayout` (exit then cancels nothing). A ping that has read `armed`
  succeeds though the timer expires before it is set, where the readme says that
  expiry must not accept pets afterwards; the policy may be changed between
  expiry and recovery; after a close under nowayout nobody can open the device
  again.

## What is proved

All proofs are checked by TLAPS for every value of the constants that satisfies
the modules' assumptions.

**MpmcQueue** (`Capacity \in Nat \ {0}`; any sets of threads and items).
`TypeCorrect` holds for every capacity. `Invariance` and what follows from it
assume Capacity > 1, as they must. The safety properties are not inductive by
themselves: that two producers are not in one cell depends on what the cell's
number says about the ticket it is for. The invariant says so for every ticket
of the window `deq_head .. enq_tail` (and for the `Capacity` places before and
after): `Window` bounds it, `Queued` and `Vacant` give the number and the
content of the cell at each stage of a ticket, `Past` bounds what any thread may
still remember, `ProducerOK` and `ConsumerOK` tie each thread's position to its
ticket. `Exclusive`, `Live` and, as an action property, `Refusals` follow. That
the destructor is exact (in `Live`) takes one lemma more, that every cell is the
cell of some ticket among the `Capacity` from `deq_head`.
`Implements` shows that each step is a step of `BoundedFifo` or a stutter.

**ThreadPool** (any capacity but 0, any tasks and submitters, a finite set of
workers that is not empty, every way to end). `TasksAreKept` is all of
`TasksKept`. That an accepted task is in one place is an invariant about pairs,
`Queued` and `Held`: no two places in the queue and no two threads have the same
task; counting comes last. That nothing is left behind is `Left`: a worker
leaves only a pool that takes no more tasks from outside (`Closed`), and the
last to leave leaves an empty queue, since a running task that pushes another
has its own worker still to look. `NoIdleWorker`, about a pool used through
`tryPush`, is inductive beside these: every push leaves a notification that
wakes a sleeper or finds none.

**ActorSystem** (any number of actors, messages and mailbox places; finite sets
of workers and senders, any of whom may be direct). Its invariant follows three
things from hand to hand, since what goes wrong in this code would be one of
them held twice or by nobody.

- A message: `Carried` says which thread has it at which place in its code, and
  `Boxed` that it is otherwise in one mailbox, once. `TypeCorrect` needs
  `Carried`, because a worker's message is a message only where it has one.
- The report of a failure: `Reports` says that an actor is failed exactly when
  one worker is about to report it, or it is in the cleanup queue, or the
  cleanup thread is at it, or its failure was `lost`, and that no two of these
  are the case (`OnePlace`). It rests on `Stopped`: an actor that failed, or is
  being removed, is not alive, so nobody can fail it a second time.
- The right to drain: `Bounded` counts who has it, threads in a drain and
  requests in the pool. A slot whose actor is its n-th has n - 1 of them at
  most, and one more while `is_draining_` is set, because a thread that wins the
  flag while the actor is being removed leaves a request that the next actor
  meets. While no task has thrown (`Calm`) every actor is the first of its slot,
  so that one right is all there is; and one request for each actor is never
  more than the pool holds, by counting. `Owned` is the converse: the flag of a
  living actor is set only while somebody has the right, or once it was `lost`.
  A right that was lost is found again only by whoever wins the flag next
  (`Found`), and that one has it.

`NoneStranded` follows `is_draining_` between worker and sender: whoever gives
the right up looks at the mailbox again, whoever finds the flag set leaves the
message to an owner who is there, by `Owned`, unless the right was `lost`, and a
request that is made is noted in the pool. The last needs the count: the pool
has room for four requests of each actor. Many replacements may leave more than
that behind; then the pool, full of requests for other actors, refuses one (line
454), nobody makes it again, `is_draining_` stays set and the message is
stranded. `NotStranded` therefore has the condition `FewReplaced`, that no actor
was replaced more than three times, and `Bounded` shows that so many are safe.
The code bounds the replacements by nothing. (With room for one request of each
of two actors TLC finds a message stranded after one replacement; with the
code's room it takes many more tasks than an instance can have.)
`OnceOnly` is `Once`, from `Carried` and `Boxed`, `Reports`, and `Calm` with
`Bounded`.

**ChrdevBlkIo** (any finite set of processes, any size). `Counted` says that
`active_refs` is the number of processes between the two critical sections of
open and release, which needs the cardinality lemmas; with `ExitWoken` and the
shape of exit's control it gives `FreedOnlyUnused`. `SleepersWoken` is
`NoLostWakeup` itself with what makes it inductive: who is on which queue, and
which wake-ups every section that changes the state still owes.

**Watchdog** (any set of threads, both values of `nowayout`). `ExitIsQuiet`
rests on the order of exit's cancellations: once the timer is gone nothing
schedules the recovery, and once that is gone nothing schedules the panic.
`ArmedWatches` holds without overlap: `Alone` says that one
thread at most arms or disarms, `Cancelled` what each stage of an arming has
already cancelled, `Fresh` that a watchdog armed and not expired has no old
recovery under way.

**GpioLed** (any users, any number of calls at once). `LineAgrees` rests on
`Agrees`, which says of the state the line is going to show, once the commit
that runs is over, what `HwAgrees` says of the line. `BlinkKept` rests on who
wrote the duration last: `Zeroed` says that while a change of mode away from
blinking is past zeroing it, the duration is zero or a store waits for
`mode_lock`, and `Timed` that a duration belongs to blink mode or to a change
into it. `ActiveAlone` needs `Gone`: between the switching off of the LED and
the change of mode, the old mode's work is neither queued nor running, which
holds only while nobody else is in the driver.

**SpscQueue** (any capacity but 0, any items). `Round` says that from `headSeen`
one meets `head`, then `tailSeen`, then `tail`: each side sees the other too far
back, never too far on, so that what it believes free or filled is.
`ProducerKnows` and `ConsumerKnows` carry that from the test to the use of the
slot, with the ordering of the slot where the load acquired, which is
`RaceFree`; `Filled` says that every slot inside holds an item. `Refinement` and
`SizesTrusted` follow step by step from the same invariant. The first lemmas
settle the arithmetic round the ring.

**CameraPipeline** (any number of frames and of forgiven failures).
`FramesAccounted` rests on `Newer`, the frame about to be recorded is newer than
all that were, and on `HandedOn`, each window begins with the last frame of the
one before.

**Telemetry** (any number of processes, a ring of two cells or more, reads of
any length). `TelTypeCorrect` and `RecordsTrue`, which is `RingTrue`: the reader
gets records of its own session, in order, and the count follows the indices by
one at most. The ring has no lock, and is safe because it has one writer and one
reader: `Sessions` says that one process is in the driver at a time, and that
the thread lives while that process uses the device, or is about to stop it, and
at no other time, so that release resets a ring nobody is at. `Pushing` and
`Popping` say that what each side has found, room or a record, is still there
when it acts on it, since the other side only makes more of it; `Uncounted` and
`Overcounted` in them are the two places where index and count differ.
`Numbered` and `Sequence` say that the records between the indices are
consecutive, up to the thread's next.

**ActorThreads** (any number of actors, places, messages and mailbox places, any
finite set of clients; threads and actors have distinct identities, and an
uninitialised id may be any of the values given, inside the pool or not). All
three invariants, from one that is inductive (`IInv`).

- `NeverAsleepBesideMail` is `Woken`, and counts: the messages of a mailbox are
  no more than the tokens of its semaphore, the senders between ticket and
  release, and the dispatcher about to pop. The step that could break it is a
  pop that finds nothing although there is mail, because the token is used up.
  `Mailed` says that the cell it met is one whose sender is still about to
  publish, and that, unless pushes overlapped, no other message is behind it:
  that sender's release is still to come.
- `StoppedInAnyOrder` is `Survives`, and holds while no task has thrown and no
  reply was asked for (`Calm`); then it follows who owns what (`Ownership`).
  `Stopped`: who stops an actor holds it, or has just let go of the last
  reference and is alone with it. `JoinedOnce`: an actor that is not alive was
  joined, or whoever cleared its flag is about to; so `~Actor` never finds a
  dispatcher that nobody joined, and nobody joins one twice. `Dispatchers`: a
  dispatcher may be the last to hold the system, and then it destroys the actors
  of the pool, but only after it left its loop because somebody is stopping its
  own actor; so it never joins itself. `Spawning` and `Constructed` keep a new
  actor held until it has its place.

The condition of `Survives` cannot be dropped, see above; nor can that of
`Woken`.

Every invariant that a passing run checks is a theorem, and so are the
refinements and the action properties. Checked by TLC only: the liveness
properties (`PoolServes`, `ActorsServed`, `CallsReturn`, `Unblocked`,
`Recovers`, `KeepsMoving`, `Ended`, `Restored`, `Ends`), since TLAPS has no
practical reach to liveness under fairness, nor to ENABLED.

## What is not modelled

Parts without a module: the earlier `gpio_led_blinking_drv`, the list, the
profiler, the statistics of telemetry; see the plan. Of the camera pipeline:
`Consumer::run`, which `main` does not start, the counters of empty polls and
failed reads, latencies, and the processing of images. Of the earlier actor
runtime: names that are taken or empty, actors without a name, `spawn` at an
index and `unregisterActor` called by the program. Within modelled parts: memory
orders outside `SpscQueue`; in `ActorSystem` replies and a `shared_ptr` to the
system released last by a worker (both are in `ActorThreads`); more than one
device of a driver; that `kfifo_to_user` and `kfifo_from_user`, which may sleep,
are called under a spinlock; probe errors and module initialisation, which run
before anything is concurrent; statistics counters; `get_ub_size` and other
sizing arithmetic.

## Plan

Done: the two queues and their refinements; the pool; the two actor runtimes;
telemetry; the character device, the watchdog, the LED and the camera pipeline;
the proofs of all their invariants.

Next, in this order:

1. The ring of `Telemetry` as another refinement of `BoundedFifo`.
2. The profiler as a client of `BoundedFifo`, in place of a weaker run.

The project keeps a small set of runs, each with a question of its own, and each
new module takes the place of something weaker: properties of one module that
are about one hazard are merged into one with named parts. The overlap of
`gpio_led`'s changes of mode (`OnlyActive`) would be the next run to have.
