----------------------------- MODULE ThreadPool ------------------------------
(***************************************************************************)
(* simple_thread_pool.h: a bounded task queue, a fixed set of workers, and *)
(* one mutex and one condition variable that workers waiting for a task    *)
(* and submitters waiting for room share.                                  *)
(*                                                                         *)
(* What a thread does between locking and unlocking mtx is one step, but   *)
(* for a worker: it reads stop_pool twice, and the destructor writes it    *)
(* without the mutex, so a worker holds mtx from one read to the other.    *)
(* pushTask and stopPool notify after they unlock, so their notification   *)
(* is a step of its own.  A waiting thread leaves the wait set when it is  *)
(* notified, times out, or wakes for no reason, and then looks at its      *)
(* predicate again in a later step.                                        *)
(***************************************************************************)
EXTENDS Integers, Sequences, FiniteSets

CONSTANTS
  Workers,      \* the worker threads
  Submitters,   \* threads that call pushTask or tryPush
  Owner,        \* the thread that stops and destroys the pool
  Tasks,        \* the tasks that will ever be submitted
  NoTask,       \* "holds none"
  Capacity,     \* capacity: the most tasks queued
  Ending        \* what the owner does: "stop", "destroy", "stop and destroy", or "any"

\* A pool has workers (its users make it with four or more): without one
\* nothing would ever run.
ASSUME PoolAssumption == /\ Capacity \in Nat \ {0}
                         /\ IsFiniteSet(Workers) /\ Workers # {}
                         /\ Ending \in {"stop", "destroy", "stop and destroy", "any"}
                         /\ NoTask \notin Tasks
                         /\ Owner \notin Workers \union Submitters
                         /\ Workers \intersect Submitters = {}

VARIABLES
  taskList,    \* the queue
  stop_pool,
  pc,          \* where each thread stands
  mine,        \* the task a worker runs or a submitter is pushing
  waitSet,     \* threads blocked on cond_
  expired,     \* submitters whose 20 ms are over
  patient,     \* the submitters that call pushTask; the others call tryPush
  state        \* of each task: "new", "offered", "queued", "running", "done", "refused"

vars == <<taskList, stop_pool, pc, mine, waitSet, expired, patient, state>>

Threads == Workers \union Submitters \union {Owner}

TypeOK ==
  /\ taskList \in Seq(Tasks) /\ Len(taskList) <= Capacity
  /\ stop_pool \in BOOLEAN
  /\ pc \in [Threads -> {"check", "wait", "passed", "run", "exited", "undefined",
                         "idle", "notify",
                         "stop", "notifyAll", "use", "exchange",
                         "restop", "renotify", "join", "destroyed"}]
  /\ mine \in [Workers \union Submitters -> Tasks \union {NoTask}]
  /\ waitSet \subseteq Workers \union Submitters
  /\ expired \subseteq Submitters /\ patient \subseteq Submitters
  /\ state \in [Tasks -> {"new", "offered", "queued", "running", "done", "refused"}]

Init ==
  /\ taskList = <<>>
  /\ stop_pool = FALSE
  /\ pc = [t \in Threads |-> IF t \in Workers THEN "check"
                             ELSE IF t = Owner THEN "use" ELSE "idle"]
  /\ mine = [t \in Workers \union Submitters |-> NoTask]
  /\ waitSet = {} /\ expired = {}
  /\ patient \in SUBSET Submitters
  /\ state = [k \in Tasks |-> "new"]

\* A slip: tells nobody.
SlipNotifyOne == UNCHANGED waitSet

\* notify_one: one blocked thread, whoever it is, looks at its predicate again.
NotifyOne ==
  IF waitSet = {} THEN UNCHANGED waitSet
  ELSE \E t \in waitSet : waitSet' = waitSet \ {t}

Room == Len(taskList) < Capacity
InUse == pc[Owner] \in {"use", "stop", "notifyAll", "exchange"}
Unlocked == \A w \in Workers : pc[w] # "passed"

\* The task, accepted, is the last in the queue.
Accept(k) == /\ taskList' = Append(taskList, k)
             /\ state' = [state EXCEPT ![k] = "queued"]

-----------------------------------------------------------------------------
(* Plausible slips, each the changed form of the definition it is named    *)
(* after; the properties are run against them.                             *)

\* tells somebody only when the queue was empty
SlipTryPush(k) ==
  /\ state[k] = "new" /\ Unlocked
  /\ \/ /\ stop_pool \/ ~Room
        /\ state' = [state EXCEPT ![k] = "refused"]
        /\ UNCHANGED <<taskList, waitSet>>
     \/ /\ ~stop_pool /\ Room
        /\ Accept(k)
        /\ IF taskList = <<>> THEN NotifyOne ELSE UNCHANGED waitSet

\* leaves as soon as the pool is stopped
SlipWorkerExit(w) ==
  /\ pc[w] = "passed"
  /\ stop_pool
  /\ pc' = [pc EXCEPT ![w] = "exited"]
  /\ UNCHANGED <<taskList, stop_pool, mine, waitSet, expired, state, patient>>

\* takes being woken for having room
SlipPushAccept(s) ==
  /\ s \in Submitters /\ pc[s] = "check" /\ Unlocked
  /\ ~stop_pool
  /\ Accept(mine[s])
  /\ pc' = [pc EXCEPT ![s] = "notify"]
  /\ mine' = [mine EXCEPT ![s] = NoTask]
  /\ UNCHANGED <<stop_pool, waitSet, expired, patient>>

OwnerStep(from, to) == pc[Owner] = from /\ pc' = [pc EXCEPT ![Owner] = to]

\* notify_one for notify_all
SlipStopNotify ==
  /\ OwnerStep("notifyAll", "exchange") \/ OwnerStep("renotify", "join")
  /\ NotifyOne
  /\ UNCHANGED <<taskList, stop_pool, mine, expired, state, patient>>

-----------------------------------------------------------------------------
(* Workers                                                                 *)

\* Nothing to do and not stopped: wait.  (A thread in "wait" but not in
\* waitSet has been woken and is about to lock mtx.)
WorkerWait(w) ==
  /\ pc[w] = "check" /\ Unlocked
  /\ taskList = <<>> /\ ~stop_pool
  /\ pc' = [pc EXCEPT ![w] = "wait"]
  /\ waitSet' = waitSet \union {w}
  /\ UNCHANGED <<taskList, stop_pool, mine, expired, state, patient>>

WorkerWoken(w) ==
  /\ pc[w] = "wait" /\ w \notin waitSet
  /\ pc' = [pc EXCEPT ![w] = "check"]
  /\ UNCHANGED <<taskList, stop_pool, mine, waitSet, expired, state, patient>>

\* The predicate of cond_.wait holds.
WorkerPass(w) ==
  /\ pc[w] = "check" /\ Unlocked
  /\ taskList # <<>> \/ stop_pool
  /\ pc' = [pc EXCEPT ![w] = "passed"]
  /\ UNCHANGED <<taskList, stop_pool, mine, waitSet, expired, state, patient>>

WorkerExit(w) ==
  /\ pc[w] = "passed"
  /\ stop_pool /\ taskList = <<>>
  /\ pc' = [pc EXCEPT ![w] = "exited"]
  /\ UNCHANGED <<taskList, stop_pool, mine, waitSet, expired, state, patient>>

WorkerTake(w) ==
  /\ pc[w] = "passed"
  /\ taskList # <<>>
  /\ pc' = [pc EXCEPT ![w] = "run"]
  /\ mine' = [mine EXCEPT ![w] = Head(taskList)]
  /\ taskList' = Tail(taskList)
  /\ state' = [state EXCEPT ![Head(taskList)] = "running"]
  /\ UNCHANGED <<stop_pool, waitSet, expired, patient>>

\* stop_pool was set for the first read and is not for the second: front() and
\* pop() of an empty std::queue, after which nothing is known of the thread.
WorkerTakeNothing(w) ==
  /\ pc[w] = "passed"
  /\ ~stop_pool /\ taskList = <<>>
  /\ pc' = [pc EXCEPT ![w] = "undefined"]
  /\ UNCHANGED <<taskList, stop_pool, mine, waitSet, expired, state, patient>>

\* The task returns or throws; the handler makes that the same.
WorkerDone(w) ==
  /\ pc[w] = "run"
  /\ pc' = [pc EXCEPT ![w] = "check"]
  /\ state' = [state EXCEPT ![mine[w]] = "done"]
  /\ mine' = [mine EXCEPT ![w] = NoTask]
  /\ UNCHANGED <<taskList, stop_pool, waitSet, expired, patient>>

\* cond_.wait may return without a notification.
Spurious(t) ==
  /\ t \in waitSet
  /\ waitSet' = waitSet \ {t}
  /\ UNCHANGED <<taskList, stop_pool, pc, mine, expired, state, patient>>

-----------------------------------------------------------------------------
(* tryPush, from outside and from inside a running task                    *)

TryPush(k) ==
  /\ state[k] = "new" /\ Unlocked
  /\ \/ /\ stop_pool \/ ~Room
        /\ state' = [state EXCEPT ![k] = "refused"]
        /\ UNCHANGED <<taskList, waitSet>>
     \/ /\ ~stop_pool /\ Room
        /\ Accept(k)
        /\ NotifyOne

SubmitterTryPush(s) ==
  /\ InUse /\ pc[s] = "idle" /\ s \notin patient
  /\ \E k \in Tasks : TryPush(k)
  /\ UNCHANGED <<stop_pool, pc, mine, expired, patient>>

WorkerTryPush(w) ==
  /\ pc[w] = "run"
  /\ \E k \in Tasks : TryPush(k)
  /\ UNCHANGED <<stop_pool, pc, mine, expired, patient>>

-----------------------------------------------------------------------------
(* pushTask                                                                *)

PushTask(s) ==
  /\ InUse /\ pc[s] = "idle" /\ s \in patient
  /\ \E k \in Tasks :
       /\ state[k] = "new"
       /\ state' = [state EXCEPT ![k] = "offered"]
       /\ mine' = [mine EXCEPT ![s] = k]
  /\ pc' = [pc EXCEPT ![s] = "check"]
  /\ expired' = expired \ {s}
  /\ UNCHANGED <<taskList, stop_pool, waitSet, patient>>

PushAccept(s) ==
  /\ s \in Submitters /\ pc[s] = "check" /\ Unlocked
  /\ Room /\ ~stop_pool
  /\ Accept(mine[s])
  /\ pc' = [pc EXCEPT ![s] = "notify"]
  /\ mine' = [mine EXCEPT ![s] = NoTask]
  /\ UNCHANGED <<stop_pool, waitSet, expired, patient>>

PushNotify(s) ==
  /\ pc[s] = "notify"
  /\ NotifyOne
  /\ pc' = [pc EXCEPT ![s] = "idle"]
  /\ UNCHANGED <<taskList, stop_pool, mine, expired, state, patient>>

\* "thread pool is stopped", or "Timeout! Queue is full."
PushThrow(s) ==
  /\ s \in Submitters /\ pc[s] = "check" /\ Unlocked
  /\ stop_pool \/ (~Room /\ s \in expired)
  /\ state' = [state EXCEPT ![mine[s]] = "refused"]
  /\ mine' = [mine EXCEPT ![s] = NoTask]
  /\ pc' = [pc EXCEPT ![s] = "idle"]
  /\ UNCHANGED <<taskList, stop_pool, waitSet, expired, patient>>

PushWait(s) ==
  /\ s \in Submitters /\ pc[s] = "check" /\ Unlocked
  /\ ~Room /\ ~stop_pool /\ s \notin expired
  /\ pc' = [pc EXCEPT ![s] = "wait"]
  /\ waitSet' = waitSet \union {s}
  /\ UNCHANGED <<taskList, stop_pool, mine, expired, state, patient>>

\* The 20 ms pass, wherever the submitter stands.
PushTimeout(s) ==
  /\ pc[s] \in {"check", "wait"} /\ s \notin expired
  /\ expired' = expired \union {s}
  /\ waitSet' = waitSet \ {s}
  /\ UNCHANGED <<taskList, stop_pool, pc, mine, state, patient>>

PushWoken(s) ==
  /\ s \in Submitters /\ pc[s] = "wait" /\ s \notin waitSet
  /\ pc' = [pc EXCEPT ![s] = "check"]
  /\ UNCHANGED <<taskList, stop_pool, mine, waitSet, expired, state, patient>>

-----------------------------------------------------------------------------
(* The owner: stopPool and the destructor                                  *)

CallStop ==
  /\ Ending # "destroy"
  /\ OwnerStep("use", "stop")
  /\ UNCHANGED <<taskList, stop_pool, mine, waitSet, expired, state, patient>>

StopSet ==
  /\ Unlocked
  /\ OwnerStep("stop", "notifyAll") \/ OwnerStep("restop", "renotify")
  /\ stop_pool' = TRUE
  /\ UNCHANGED <<taskList, mine, waitSet, expired, state, patient>>

StopNotify ==
  /\ OwnerStep("notifyAll", "exchange") \/ OwnerStep("renotify", "join")
  /\ waitSet' = {}
  /\ UNCHANGED <<taskList, stop_pool, mine, expired, state, patient>>

\* A pool that is never stopped goes straight to its destructor.
CallDestructor ==
  /\ Ending \in {"destroy", "any"}
  /\ OwnerStep("use", "exchange")
  /\ UNCHANGED <<taskList, stop_pool, mine, waitSet, expired, state, patient>>

\* No call may be under way when the destructor runs (any object's rule).
DtorExchange ==
  /\ Ending # "stop"
  /\ \A s \in Submitters : pc[s] = "idle"
  /\ IF stop_pool THEN OwnerStep("exchange", "restop")
                  ELSE OwnerStep("exchange", "join")
  /\ stop_pool' = FALSE
  /\ UNCHANGED <<taskList, mine, waitSet, expired, state, patient>>

DtorJoined ==
  /\ \A w \in Workers : pc[w] = "exited"
  /\ OwnerStep("join", "destroyed")
  /\ UNCHANGED <<taskList, stop_pool, mine, waitSet, expired, state, patient>>

-----------------------------------------------------------------------------
WorkerStep(w) == \/ WorkerWait(w) \/ WorkerWoken(w) \/ WorkerPass(w)
                 \/ WorkerExit(w) \/ WorkerTake(w) \/ WorkerTakeNothing(w)

PushStep(s) == \/ PushAccept(s) \/ PushNotify(s) \/ PushThrow(s)
               \/ PushWait(s) \/ PushWoken(s)

OwnerNext == \/ StopSet \/ StopNotify \/ DtorExchange \/ DtorJoined

\* The owner is done, or an idle pool waits for a call that never comes.
Quiet == /\ \/ pc[Owner] \in {"use", "exchange", "destroyed"}
            \/ pc[Owner] = "join" /\ Ending \in {"destroy", "any"}
            \/ \E w \in Workers : pc[w] = "undefined"
         /\ UNCHANGED vars

Next ==
  \/ \E w \in Workers : WorkerStep(w) \/ WorkerDone(w) \/ WorkerTryPush(w)
  \/ \E s \in Submitters : SubmitterTryPush(s) \/ PushTask(s)
                             \/ PushStep(s) \/ PushTimeout(s)
  \/ \E t \in Workers \union Submitters : Spurious(t)
  \/ CallStop \/ CallDestructor \/ OwnerNext
  \/ Quiet

Spec == Init /\ [][Next]_vars

\* Threads run, tasks end, time passes.  Nobody has to call anything, and
\* nothing wakes a waiting thread but a notification or its timeout.
Fairness ==
  /\ \A w \in Workers : WF_vars(WorkerStep(w)) /\ WF_vars(WorkerDone(w))
  /\ \A s \in Submitters : WF_vars(PushStep(s)) /\ WF_vars(PushTimeout(s))
  /\ WF_vars(OwnerNext)

FairSpec == Spec /\ Fairness
-----------------------------------------------------------------------------
(* Properties                                                              *)

\* A worker that is not waiting will look at the queue before it waits.
Alert(t) == \/ pc[t] \in {"check", "passed"}
            \/ pc[t] = "wait" /\ t \notin waitSet

\* No worker sleeps beside work it should do: while one sleeps, each queued
\* task has a worker on its way to the queue or a notification on its way to
\* the wait set.  (True of the runtime's own use of the pool, tryPush only.)
NoIdleWorker ==
  patient = {} /\ (\E w \in Workers : w \in waitSet) =>
    Len(taskList) <= Cardinality({w \in Workers : Alert(w)})
                       + Cardinality({s \in Submitters : pc[s] = "notify"})

\* A worker that goes to the queue finds a task there.
TakesTask == \A w \in Workers : pc[w] # "undefined"

\* When the last worker has left, no accepted task is left behind, whatever
\* raced with the stop.
NothingLeftBehind ==
  (\A w \in Workers : pc[w] = "exited") =>
    taskList = <<>> /\ \A k \in Tasks : state[k] \notin {"queued", "running"}

\* Each task is in one place only: queued once, or run by one worker.
RunOnce ==
  \A k \in Tasks :
    Cardinality({i \in 1 .. Len(taskList) : taskList[i] = k})
      + Cardinality({w \in Workers : mine[w] = k})
      = IF state[k] \in {"queued", "running"} THEN 1 ELSE 0

\* An accepted task is neither lost nor run twice, nor left beside a worker that
\* sleeps.
TasksKept == NothingLeftBehind /\ RunOnce /\ NoIdleWorker

Undefined == \E w \in Workers : pc[w] = "undefined"

\* An accepted task is run, where nobody calls pushTask.
AcceptedRuns ==
  \A k \in Tasks :
    (state[k] = "queued" /\ patient = {}) ~> (state[k] = "done" \/ Undefined)

\* "Wait until there is a task in the queue": an accepted task is run.
QueuedRuns ==
  \A k \in Tasks : (state[k] = "queued") ~> (state[k] = "done" \/ Undefined)

\* pushTask returns, with a place in the queue or with an exception; once
\* stopped, every worker leaves, and a destructor that finds the pool stopped
\* joins them; unless a worker went to an empty queue.
CallsReturn ==
  /\ \A s \in Submitters : (pc[s] # "idle") ~> (pc[s] = "idle" \/ Undefined)
  /\ (pc[Owner] = "notifyAll") ~> (Undefined \/ \A w \in Workers : pc[w] = "exited")
  /\ (pc[Owner] = "restop") ~> (Undefined \/ pc[Owner] = "destroyed")

\* Whatever is asked of the pool is done: tasks are run, calls return, and a stop
\* ends the workers.
PoolServes == AcceptedRuns /\ CallsReturn

\* "Stop the pool and notify all worker threads": the destructor ends.
DestructorStopsPool == (pc[Owner] = "join") ~> (pc[Owner] = "destroyed")
=============================================================================
