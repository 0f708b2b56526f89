-------------------------- MODULE ThreadPoolProofs --------------------------
(***************************************************************************)
(* TypeOK and TasksKept of ThreadPool, for any set of workers, submitters  *)
(* and tasks and any capacity.                                             *)
(*                                                                         *)
(* Counting comes last: the invariant says that no two places hold the     *)
(* same task, and that a worker leaves only a pool that takes no more      *)
(* tasks from outside.                                                     *)
(***************************************************************************)
EXTENDS ThreadPool, FiniteSetTheorems, SequenceTheorems, TLAPS

\* Where each kind of thread can stand.
Places ==
    /\ \A w \in Workers :
            pc[w] \in {"check", "wait", "passed", "run", "exited", "undefined"}
    /\ \A s \in Submitters : pc[s] \in {"idle", "check", "wait", "notify"}
    /\ \A s \in Submitters \ patient : pc[s] = "idle"
    /\ \A t \in waitSet : pc[t] = "wait"

\* The tasks in the queue are those in state "queued", each there once.
Queued ==
    /\ \A i \in 1 .. Len(taskList) : state[taskList[i]] = "queued"
    /\ \A i, j \in 1 .. Len(taskList) : taskList[i] = taskList[j] => i = j
    /\ \A k \in Tasks :
            state[k] = "queued" => \E i \in 1 .. Len(taskList) : taskList[i] = k

\* A worker that runs holds its task, a submitter the one it offers, and no two
\* threads hold the same.
Held ==
    /\ \A w \in Workers : IF pc[w] = "run"
                          THEN mine[w] \in Tasks /\ state[mine[w]] = "running"
                          ELSE mine[w] = NoTask
    /\ \A s \in Submitters : IF pc[s] \in {"check", "wait"}
                             THEN mine[s] \in Tasks /\ state[mine[s]] = "offered"
                             ELSE mine[s] = NoTask
    /\ \A t, u \in Workers \union Submitters :
            mine[t] = mine[u] /\ mine[t] # NoTask => t = u
    /\ \A k \in Tasks : state[k] = "running" => \E w \in Workers : mine[w] = k

\* The pool takes no more tasks from outside.
Closed == \/ stop_pool
          \/ ~InUse /\ \A s \in Submitters : pc[s] = "idle"

\* A worker leaves a closed pool only, and the last one an empty queue.
Left ==
    /\ (\E w \in Workers : pc[w] = "exited") => Closed
    /\ (\A w \in Workers : pc[w] = "exited") => taskList = <<>>

IInv == TypeOK /\ Places /\ Queued /\ Held /\ Left /\ NoIdleWorker

\* Workers, submitters and the owner are different threads.
LEMMA Kinds ==
    /\ Owner \notin Workers /\ Owner \notin Submitters
    /\ \A w \in Workers : w \notin Submitters
    /\ NoTask \notin Tasks
  BY PoolAssumption

LEMMA Positive == Capacity \in Nat
  BY PoolAssumption

LEMMA Initially == Init => IInv
  <1> SUFFICES ASSUME Init PROVE IInv
    OBVIOUS
  <1> USE DEF Init, Threads
  <1>0. /\ \A w \in Workers : pc[w] = "check"
        /\ \A s \in Submitters : pc[s] = "idle"
        /\ \A t \in Workers \union Submitters : mine[t] = NoTask
        /\ \A k \in Tasks : state[k] = "new"
    BY Kinds
  <1>1. TypeOK
    <2>1. pc \in [Threads -> {"check", "use", "idle"}]
      OBVIOUS
    <2>2. state \in [Tasks -> {"new"}] /\ mine \in [Workers \union Submitters -> {NoTask}]
      OBVIOUS
    <2>3. taskList \in Seq(Tasks) /\ Len(taskList) = 0
      BY EmptySeq
    <2>4. Len(taskList) <= Capacity
      BY <2>3, Positive
    <2>5. stop_pool \in BOOLEAN /\ waitSet = {} /\ expired = {}
          /\ patient \subseteq Submitters
      OBVIOUS
    <2>6. QED
      BY <2>1, <2>2, <2>3, <2>4, <2>5 DEF TypeOK
  <1>2. Places /\ Queued /\ Held
    <2>1. Places
      BY <1>0 DEF Places
    <2>2. Queued
      <3>1. 1 .. Len(taskList) = {}
        BY EmptySeq
      <3>2. QED
        BY <1>0, <3>1 DEF Queued
    <2>3. Held
      BY <1>0 DEF Held
    <2>4. QED
      BY <2>1, <2>2, <2>3
  <1>3. Left
    BY DEF Left
  <1>4. NoIdleWorker
    BY DEF NoIdleWorker
  <1>5. QED
    BY <1>1, <1>2, <1>3, <1>4 DEF IInv

-----------------------------------------------------------------------------
(* Typing                                                                  *)

\* Whoever is notified, the wait set only shrinks.
LEMMA Shrinks ==
    ASSUME NotifyOne PROVE waitSet' \subseteq waitSet
  BY DEF NotifyOne

\* The queue has a length, and room for more or none.
LEMMA Length ==
    ASSUME TypeOK
    PROVE  /\ taskList \in Seq(Tasks) /\ Len(taskList) \in Nat /\ Capacity \in Nat
           /\ Len(taskList) <= Capacity
  <1>1. Capacity \in Nat
    BY Positive
  <1>2. taskList \in Seq(Tasks) /\ Len(taskList) <= Capacity
    BY DEF TypeOK
  <1>3. Len(taskList) \in Nat
    BY <1>2
  <1>4. QED
    BY <1>1, <1>2, <1>3

\* The first of a non-empty queue is one of the tasks, and what remains is a
\* queue of tasks, one place shorter, in the same order.
LEMMA Front ==
    ASSUME TypeOK, taskList # <<>>
    PROVE  /\ Head(taskList) \in Tasks /\ Head(taskList) = taskList[1]
           /\ Tail(taskList) \in Seq(Tasks)
           /\ Len(taskList) \in Nat \ {0}
           /\ Len(Tail(taskList)) = Len(taskList) - 1
           /\ \A i \in 1 .. Len(taskList) - 1 : Tail(taskList)[i] = taskList[i + 1]
  BY DEF TypeOK

\* A task accepted stands behind all the others.
LEMMA Back ==
    ASSUME TypeOK, NEW k \in Tasks, Accept(k)
    PROVE  /\ taskList' \in Seq(Tasks)
           /\ Len(taskList) \in Nat /\ Len(taskList') = Len(taskList) + 1
           /\ taskList'[Len(taskList) + 1] = k
           /\ \A i \in 1 .. Len(taskList) : taskList'[i] = taskList[i]
           /\ state' = [state EXCEPT ![k] = "queued"]
  BY DEF TypeOK, Accept

LEMMA TypeStep ==
    ASSUME IInv, Next PROVE TypeOK'
  <1> USE DEF Threads
  <1>0. TypeOK /\ Places /\ Held
    BY DEF IInv
  <1>1. ASSUME NEW w \in Workers, WorkerTake(w) PROVE TypeOK'
    <2>1. taskList # <<>>
      BY <1>1 DEF WorkerTake
    <2>2. taskList' \in Seq(Tasks) /\ Len(taskList') <= Capacity
      BY <1>0, <1>1, <2>1, Front, Length DEF WorkerTake
    <2>3. state' = [state EXCEPT ![Head(taskList)] = "running"]
          /\ mine' = [mine EXCEPT ![w] = Head(taskList)] /\ Head(taskList) \in Tasks
          /\ pc' = [pc EXCEPT ![w] = "run"]
          /\ UNCHANGED <<stop_pool, waitSet, expired, patient>>
      BY <1>0, <1>1, <2>1, Front DEF WorkerTake
    <2>4. QED
      BY <1>0, <2>2, <2>3 DEF TypeOK
  <1>2. ASSUME NEW w \in Workers,
               \/ WorkerWait(w) \/ WorkerWoken(w) \/ WorkerPass(w) \/ WorkerExit(w)
               \/ WorkerTakeNothing(w)
        PROVE  TypeOK'
    BY <1>0, <1>2 DEF TypeOK, WorkerWait, WorkerWoken, WorkerPass, WorkerExit,
       WorkerTakeNothing
  <1>3. ASSUME NEW w \in Workers, WorkerDone(w) PROVE TypeOK'
    BY <1>0, <1>3 DEF TypeOK, WorkerDone
  <1>4. ASSUME NEW k \in Tasks, TryPush(k),
               UNCHANGED <<stop_pool, pc, mine, expired, patient>>
        PROVE  TypeOK'
    <2>1. CASE UNCHANGED <<taskList, waitSet>> /\ state' = [state EXCEPT ![k] = "refused"]
      BY <1>0, <1>4, <2>1 DEF TypeOK
    <2>2. CASE Room /\ Accept(k) /\ NotifyOne
      <3>1. taskList' \in Seq(Tasks) /\ Len(taskList') <= Capacity
        BY <1>0, <2>2, Back, Length DEF Room
      <3>2. waitSet' \subseteq waitSet /\ state' = [state EXCEPT ![k] = "queued"]
        BY <2>2, Shrinks DEF Accept
      <3>3. QED
        BY <1>0, <1>4, <3>1, <3>2 DEF TypeOK
    <2>3. QED
      BY <1>4, <2>1, <2>2 DEF TryPush
  <1>5. ASSUME NEW s \in Submitters, PushTask(s) PROVE TypeOK'
    <2>1. PICK k \in Tasks : state' = [state EXCEPT ![k] = "offered"]
                              /\ mine' = [mine EXCEPT ![s] = k]
      BY <1>5 DEF PushTask
    <2>2. pc' = [pc EXCEPT ![s] = "check"] /\ expired' = expired \ {s}
          /\ UNCHANGED <<taskList, stop_pool, waitSet, patient>>
      BY <1>5 DEF PushTask
    <2>3. QED
      BY <1>0, <2>1, <2>2 DEF TypeOK
  <1>6. ASSUME NEW s \in Submitters, PushAccept(s) PROVE TypeOK'
    <2>1. mine[s] \in Tasks
      BY <1>0, <1>6 DEF Held, PushAccept
    <2>2. taskList' \in Seq(Tasks) /\ Len(taskList') <= Capacity
      BY <1>0, <1>6, <2>1, Back, Length DEF PushAccept, Room
    <2>3. state' = [state EXCEPT ![mine[s]] = "queued"]
          /\ mine' = [mine EXCEPT ![s] = NoTask] /\ pc' = [pc EXCEPT ![s] = "notify"]
          /\ UNCHANGED <<stop_pool, waitSet, expired, patient>>
      BY <1>6 DEF PushAccept, Accept
    <2>4. QED
      BY <1>0, <2>1, <2>2, <2>3 DEF TypeOK
  <1>7. ASSUME NEW s \in Submitters, PushNotify(s) PROVE TypeOK'
    BY <1>0, <1>7, Shrinks DEF TypeOK, PushNotify
  <1>8. ASSUME NEW s \in Submitters, PushThrow(s) PROVE TypeOK'
    BY <1>0, <1>8 DEF TypeOK, PushThrow
  <1>9. ASSUME NEW s \in Submitters, PushWait(s) \/ PushTimeout(s) \/ PushWoken(s)
        PROVE  TypeOK'
    BY <1>0, <1>9 DEF TypeOK, PushWait, PushTimeout, PushWoken
  <1>10. ASSUME NEW t \in Workers \union Submitters, Spurious(t) PROVE TypeOK'
    BY <1>0, <1>10 DEF TypeOK, Spurious
  <1>11. ASSUME CallStop \/ CallDestructor \/ OwnerNext PROVE TypeOK'
    BY <1>0, <1>11 DEF TypeOK, CallStop, CallDestructor, OwnerNext, OwnerStep, StopSet,
       StopNotify, DtorExchange, DtorJoined
  <1>12. ASSUME Quiet PROVE TypeOK'
    BY <1>0, <1>12 DEF TypeOK, Quiet, vars
  <1>13. QED
    BY <1>1, <1>2, <1>3, <1>4, <1>5, <1>6, <1>7, <1>8, <1>9, <1>10, <1>11, <1>12
       DEF Next, WorkerStep, PushStep, WorkerTryPush, SubmitterTryPush

-----------------------------------------------------------------------------
(* Where threads stand                                                     *)

LEMMA PlacesStep ==
    ASSUME IInv, Next PROVE Places'
  <1> USE Kinds DEF Threads
  <1>0. TypeOK /\ Places
    BY DEF IInv
  <1>1. ASSUME NEW w \in Workers, WorkerStep(w) \/ WorkerDone(w) PROVE Places'
    <2>1. CASE WorkerWait(w) \/ WorkerWoken(w) \/ WorkerPass(w)
      BY <1>0, <2>1 DEF TypeOK, Places, WorkerWait, WorkerWoken, WorkerPass
    <2>2. CASE WorkerExit(w) \/ WorkerTake(w)
      BY <1>0, <2>2 DEF TypeOK, Places, WorkerExit, WorkerTake
    <2>3. CASE WorkerTakeNothing(w) \/ WorkerDone(w)
      BY <1>0, <2>3 DEF TypeOK, Places, WorkerTakeNothing, WorkerDone
    <2>4. QED
      BY <1>1, <2>1, <2>2, <2>3 DEF WorkerStep
  <1>2. ASSUME NEW k \in Tasks, TryPush(k),
               UNCHANGED <<stop_pool, pc, mine, expired, patient>>
        PROVE  Places'
    <2>1. waitSet' \subseteq waitSet
      BY <1>2, Shrinks DEF TryPush
    <2>2. QED
      BY <1>0, <1>2, <2>1 DEF Places
  <1>3. ASSUME NEW s \in Submitters, PushTask(s) PROVE Places'
    BY <1>0, <1>3 DEF TypeOK, Places, PushTask
  <1>4. ASSUME NEW s \in Submitters, PushStep(s) \/ PushTimeout(s) PROVE Places'
    <2>1. s \in patient \/ pc[s] = "idle"
      BY <1>0 DEF Places
    <2>2. CASE PushNotify(s)
      BY <1>0, <2>2, Shrinks DEF TypeOK, Places, PushNotify
    <2>3. CASE PushAccept(s) \/ PushThrow(s) \/ PushWait(s) \/ PushTimeout(s) \/ PushWoken(s)
      BY <1>0, <2>1, <2>3 DEF TypeOK, Places, PushAccept, PushThrow, PushWait,
         PushTimeout, PushWoken
    <2>4. QED
      BY <1>4, <2>2, <2>3 DEF PushStep
  <1>5. ASSUME NEW t \in Workers \union Submitters, Spurious(t) PROVE Places'
    BY <1>0, <1>5 DEF Places, Spurious
  <1>6. ASSUME CallStop \/ CallDestructor \/ OwnerNext PROVE Places'
    <2>1. /\ waitSet' \subseteq waitSet /\ patient' = patient
          /\ \A t \in Workers \union Submitters : pc'[t] = pc[t]
      BY <1>0, <1>6 DEF TypeOK, CallStop, CallDestructor, OwnerNext, OwnerStep, StopSet,
         StopNotify, DtorExchange, DtorJoined
    <2>2. waitSet \subseteq Workers \union Submitters
      BY <1>0 DEF TypeOK
    <2>3. QED
      BY <1>0, <2>1, <2>2 DEF Places
  <1>7. ASSUME Quiet PROVE Places'
    BY <1>0, <1>7 DEF Places, Quiet, vars
  <1>8. QED
    BY <1>1, <1>2, <1>3, <1>4, <1>5, <1>6, <1>7
       DEF Next, WorkerTryPush, SubmitterTryPush

-----------------------------------------------------------------------------
(* The queue and the threads that hold a task                              *)

\* A task that is not in the queue, and does not get there.
LEMMA Recolored ==
    ASSUME TypeOK, Queued, NEW k \in Tasks, NEW v, UNCHANGED taskList,
           state' = [state EXCEPT ![k] = v], state[k] # "queued", v # "queued"
    PROVE  Queued'
  BY DEF TypeOK, Queued

\* A task that was not in the queue is, at its end.
LEMMA Enqueued ==
    ASSUME TypeOK, Queued, NEW k \in Tasks, Accept(k), state[k] # "queued"
    PROVE  Queued'
  <1> DEFINE n == Len(taskList)
  <1>1. /\ n \in Nat /\ Len(taskList') = n + 1 /\ taskList'[n + 1] = k
        /\ \A i \in 1 .. n : taskList'[i] = taskList[i]
        /\ state' = [state EXCEPT ![k] = "queued"]
    BY Back
  <1>2. \A i \in 1 .. n : taskList[i] \in Tasks /\ taskList[i] # k
    BY DEF TypeOK, Queued
  <1>3. \A i \in 1 .. n + 1 : i \in 1 .. n \/ i = n + 1
    BY <1>1
  <1>4. /\ state'[k] = "queued" /\ \A j \in Tasks : j # k => state'[j] = state[j]
    BY <1>1 DEF TypeOK
  <1>5. \A i \in 1 .. n + 1 : state'[taskList'[i]] = "queued"
    BY <1>1, <1>2, <1>3, <1>4 DEF Queued
  <1>6. \A i, j \in 1 .. n + 1 : taskList'[i] = taskList'[j] => i = j
    BY <1>1, <1>2, <1>3 DEF Queued
  <1>7. \A j \in Tasks : state'[j] = "queued" => \E i \in 1 .. n + 1 : taskList'[i] = j
    <2>1. SUFFICES ASSUME NEW j \in Tasks, j # k, state[j] = "queued"
                   PROVE  \E i \in 1 .. n + 1 : taskList'[i] = j
      BY <1>1, <1>4
    <2>2. PICK i \in 1 .. n : taskList[i] = j
      BY <2>1 DEF Queued
    <2>3. i \in 1 .. n + 1 /\ taskList'[i] = j
      BY <1>1, <2>2
    <2>4. QED
      BY <2>3
  <1>8. QED
    BY <1>1, <1>5, <1>6, <1>7 DEF Queued

LEMMA QueuedStep ==
    ASSUME IInv, Next PROVE Queued'
  <1>0. TypeOK /\ Places /\ Queued /\ Held
    BY DEF IInv
  <1>1. ASSUME NEW w \in Workers, WorkerTake(w) PROVE Queued'
    <2> DEFINE n == Len(taskList)
    <2>1. taskList # <<>>
      BY <1>1 DEF WorkerTake
    <2>2. /\ taskList' = Tail(taskList) /\ state' = [state EXCEPT ![taskList[1]] = "running"]
          /\ taskList[1] \in Tasks
          /\ n \in Nat \ {0} /\ Len(taskList') = n - 1
          /\ \A i \in 1 .. n - 1 : taskList'[i] = taskList[i + 1]
      BY <1>0, <1>1, <2>1, Front DEF WorkerTake
    <2>3. \A i \in 1 .. n - 1 : i + 1 \in 1 .. n /\ i + 1 # 1
      BY <2>2
    <2>4. \A i \in 1 .. n : taskList[i] \in Tasks
      BY <1>0 DEF TypeOK
    <2>5. \A i \in 1 .. n - 1 : taskList'[i] \in Tasks /\ taskList'[i] # taskList[1]
                                  /\ state[taskList'[i]] = "queued"
      <3>1. 1 \in 1 .. n
        BY <2>2
      <3>2. QED
        BY <1>0, <2>2, <2>3, <2>4, <3>1 DEF Queued
    <2>6. \A i \in 1 .. n - 1 : state'[taskList'[i]] = "queued"
      BY <1>0, <2>2, <2>5 DEF TypeOK
    <2>7. ASSUME NEW i \in 1 .. n - 1, NEW j \in 1 .. n - 1, taskList'[i] = taskList'[j]
          PROVE  i = j
      <3>1. taskList[i + 1] = taskList[j + 1] /\ i + 1 \in 1 .. n /\ j + 1 \in 1 .. n
        BY <2>2, <2>3, <2>7
      <3>2. i + 1 = j + 1
        BY <1>0, <3>1 DEF Queued
      <3>3. QED
        BY <3>2
    <2>8. ASSUME NEW k \in Tasks, state'[k] = "queued"
          PROVE  \E i \in 1 .. n - 1 : taskList'[i] = k
      <3>1. k # taskList[1] /\ state[k] = "queued"
        BY <1>0, <2>2, <2>8 DEF TypeOK
      <3>2. PICK i \in 1 .. n : taskList[i] = k
        BY <1>0, <3>1 DEF Queued
      <3>3. i # 1 /\ i - 1 \in 1 .. n - 1 /\ (i - 1) + 1 = i
        BY <2>2, <3>1, <3>2
      <3>4. taskList'[i - 1] = k
        BY <2>2, <3>2, <3>3
      <3>5. QED
        BY <3>3, <3>4
    <2>9. QED
      BY <2>2, <2>6, <2>7, <2>8 DEF Queued
  <1>2. ASSUME NEW w \in Workers, WorkerDone(w) PROVE Queued'
    <2>1. mine[w] \in Tasks /\ state[mine[w]] = "running"
      BY <1>0, <1>2 DEF Held, WorkerDone
    <2>2. UNCHANGED taskList /\ state' = [state EXCEPT ![mine[w]] = "done"]
      BY <1>2 DEF WorkerDone
    <2>3. QED
      BY <1>0, <2>1, <2>2, Recolored
  <1>3. ASSUME NEW k \in Tasks, TryPush(k) PROVE Queued'
    <2>1. state[k] = "new"
      BY <1>3 DEF TryPush
    <2>2. CASE Accept(k)
      BY <1>0, <2>1, <2>2, Enqueued
    <2>3. CASE UNCHANGED taskList /\ state' = [state EXCEPT ![k] = "refused"]
      BY <1>0, <2>1, <2>3, Recolored
    <2>4. QED
      BY <1>3, <2>2, <2>3 DEF TryPush
  <1>4. ASSUME NEW s \in Submitters, PushTask(s) PROVE Queued'
    <2>1. PICK k \in Tasks : state[k] = "new" /\ state' = [state EXCEPT ![k] = "offered"]
                              /\ UNCHANGED taskList
      BY <1>4 DEF PushTask
    <2>2. QED
      BY <1>0, <2>1, Recolored
  <1>5. ASSUME NEW s \in Submitters, PushAccept(s) \/ PushThrow(s) PROVE Queued'
    <2>1. mine[s] \in Tasks /\ state[mine[s]] = "offered"
      BY <1>0, <1>5 DEF Held, PushAccept, PushThrow
    <2>2. CASE Accept(mine[s])
      BY <1>0, <2>1, <2>2, Enqueued
    <2>3. CASE UNCHANGED taskList /\ state' = [state EXCEPT ![mine[s]] = "refused"]
      BY <1>0, <2>1, <2>3, Recolored
    <2>4. QED
      BY <1>5, <2>2, <2>3 DEF PushAccept, PushThrow
  <1>6. ASSUME UNCHANGED <<taskList, state>> PROVE Queued'
    BY <1>0, <1>6 DEF Queued
  <1>7. QED
    BY <1>1, <1>2, <1>3, <1>4, <1>5, <1>6 DEF Next, WorkerStep, PushStep, OwnerNext,
       WorkerTryPush, SubmitterTryPush, WorkerWait, WorkerWoken, WorkerPass, WorkerExit,
       WorkerTakeNothing, PushNotify, PushWait, PushTimeout, PushWoken, Spurious,
       CallStop, CallDestructor, StopSet, StopNotify, DtorExchange, DtorJoined, Quiet, vars

\* A thread takes up or lays down its task; no other thread moves.
LEMMA HeldStep ==
    ASSUME IInv, Next PROVE Held'
  <1> USE Kinds DEF Threads
  <1>0. TypeOK /\ Places /\ Queued /\ Held
    BY DEF IInv
  <1>1. ASSUME NEW w \in Workers, WorkerTake(w) PROVE Held'
    <2>1. PICK k \in Tasks : /\ state[k] = "queued"
                             /\ pc' = [pc EXCEPT ![w] = "run"]
                             /\ mine' = [mine EXCEPT ![w] = k]
                             /\ state' = [state EXCEPT ![k] = "running"]
      <3>1. taskList # <<>>
        BY <1>1 DEF WorkerTake
      <3>2. 1 \in 1 .. Len(taskList) /\ Head(taskList) = taskList[1] /\ taskList[1] \in Tasks
        BY <1>0, <3>1, Front
      <3>3. QED
        BY <1>0, <1>1, <3>2 DEF WorkerTake, Queued
    <2>2. \A t \in Workers \union Submitters : mine[t] # k
      BY <1>0, <2>1 DEF Held
    <2>3. /\ \A t \in Workers \union Submitters :
               t # w => pc'[t] = pc[t] /\ mine'[t] = mine[t]
          /\ pc'[w] = "run" /\ mine'[w] = k /\ state'[k] = "running"
          /\ \A j \in Tasks : j # k => state'[j] = state[j]
      BY <1>0, <2>1 DEF TypeOK
    <2>4. \A t, u \in Workers \union Submitters :
             mine'[t] = mine'[u] /\ mine'[t] # NoTask => t = u
      BY <1>0, <2>2, <2>3 DEF Held
    <2>5. \A j \in Tasks : state'[j] = "running" => \E v \in Workers : mine'[v] = j
      <3>1. pc[w] # "run" /\ mine[w] = NoTask
        BY <1>0, <1>1 DEF WorkerTake, Held
      <3>2. QED
        BY <1>0, <2>1, <2>3, <3>1 DEF Held
    <2>6. QED
      BY <1>0, <2>1, <2>2, <2>3, <2>4, <2>5 DEF Held
  <1>2. ASSUME NEW w \in Workers, WorkerDone(w) PROVE Held'
    <2>1. mine[w] \in Tasks /\ state[mine[w]] = "running" /\ mine[w] # NoTask
      BY <1>0, <1>2 DEF Held, WorkerDone
    <2>2. \A t \in Workers \union Submitters : t # w => mine[t] # mine[w]
      BY <1>0, <2>1 DEF Held
    <2>3. QED
      BY <1>0, <1>2, <2>1, <2>2 DEF TypeOK, Held, WorkerDone
  <1>3. ASSUME NEW k \in Tasks, TryPush(k), UNCHANGED <<pc, mine>> PROVE Held'
    <2>1. state[k] = "new" /\ (\/ state' = [state EXCEPT ![k] = "queued"]
                               \/ state' = [state EXCEPT ![k] = "refused"])
      BY <1>3 DEF TryPush, Accept
    <2>2. \A t \in Workers \union Submitters : mine[t] # k
      BY <1>0, <2>1 DEF Held
    <2>3. state'[k] # "running" /\ \A j \in Tasks : j # k => state'[j] = state[j]
      BY <1>0, <2>1 DEF TypeOK
    <2>4. QED
      BY <1>0, <1>3, <2>2, <2>3 DEF Held
  <1>4. ASSUME NEW s \in Submitters, PushTask(s) PROVE Held'
    <2>1. PICK k \in Tasks : /\ state[k] = "new"
                             /\ state' = [state EXCEPT ![k] = "offered"]
                             /\ mine' = [mine EXCEPT ![s] = k]
      BY <1>4 DEF PushTask
    <2>2. pc' = [pc EXCEPT ![s] = "check"]
      BY <1>4 DEF PushTask
    <2>3. \A t \in Workers \union Submitters : mine[t] # k
      BY <1>0, <2>1 DEF Held
    <2>4. QED
      BY <1>0, <2>1, <2>2, <2>3 DEF TypeOK, Held
  <1>5. ASSUME NEW s \in Submitters, PushAccept(s) \/ PushThrow(s) PROVE Held'
    <2>1. mine[s] \in Tasks /\ state[mine[s]] = "offered" /\ mine[s] # NoTask
      BY <1>0, <1>5 DEF Held, PushAccept, PushThrow
    <2>2. /\ mine' = [mine EXCEPT ![s] = NoTask]
          /\ \/ pc' = [pc EXCEPT ![s] = "notify"]
             \/ pc' = [pc EXCEPT ![s] = "idle"]
          /\ \/ state' = [state EXCEPT ![mine[s]] = "queued"]
             \/ state' = [state EXCEPT ![mine[s]] = "refused"]
      BY <1>5 DEF PushAccept, PushThrow, Accept
    <2>3. \A t \in Workers \union Submitters : t # s => mine[t] # mine[s]
      BY <1>0, <2>1 DEF Held
    <2>4. QED
      BY <1>0, <2>1, <2>2, <2>3 DEF TypeOK, Held
  <1>6. ASSUME UNCHANGED <<mine, state>>,
               \A w \in Workers : pc'[w] = "run" <=> pc[w] = "run",
               \A s \in Submitters : pc'[s] \in {"check", "wait"} <=> pc[s] \in {"check", "wait"}
        PROVE  Held'
    BY <1>0, <1>6 DEF Held
  <1>7. ASSUME NEW w \in Workers,
               \/ WorkerWait(w) \/ WorkerWoken(w) \/ WorkerPass(w) \/ WorkerExit(w)
               \/ WorkerTakeNothing(w)
        PROVE  Held'
    BY <1>0, <1>6, <1>7 DEF TypeOK, WorkerWait, WorkerWoken, WorkerPass, WorkerExit,
       WorkerTakeNothing
  <1>8. ASSUME NEW s \in Submitters,
               PushNotify(s) \/ PushWait(s) \/ PushTimeout(s) \/ PushWoken(s)
        PROVE  Held'
    BY <1>0, <1>6, <1>8 DEF TypeOK, PushNotify, PushWait, PushTimeout, PushWoken
  <1>9. ASSUME CallStop \/ CallDestructor \/ OwnerNext PROVE Held'
    BY <1>0, <1>6, <1>9 DEF TypeOK, CallStop, CallDestructor, OwnerNext, OwnerStep,
       StopSet, StopNotify, DtorExchange, DtorJoined
  <1>10. ASSUME UNCHANGED <<pc, mine, state>> PROVE Held'
    BY <1>6, <1>10
  <1>11. QED
    BY <1>1, <1>2, <1>3, <1>4, <1>5, <1>7, <1>8, <1>9, <1>10 DEF Next, WorkerStep,
       PushStep, WorkerTryPush, SubmitterTryPush, Spurious, Quiet, vars

-----------------------------------------------------------------------------
(* Leaving                                                                 *)

\* A pool that takes no more tasks from outside never does again.
LEMMA StaysClosed ==
    ASSUME IInv, Next, Closed PROVE Closed'
  <1> USE Kinds DEF Threads
  <1>0. TypeOK /\ Places
    BY DEF IInv
  <1>1. ASSUME NEW w \in Workers, WorkerStep(w) \/ WorkerDone(w) PROVE Closed'
    BY <1>0, <1>1 DEF TypeOK, Closed, InUse, WorkerStep, WorkerWait, WorkerWoken,
       WorkerPass, WorkerExit, WorkerTake, WorkerTakeNothing, WorkerDone
  <1>2. ASSUME UNCHANGED <<stop_pool, pc>> PROVE Closed'
    BY <1>2 DEF Closed, InUse
  <1>3. ASSUME NEW s \in Submitters,
               PushTask(s) \/ PushStep(s) \/ PushTimeout(s)
        PROVE  Closed'
    <2>1. stop_pool' = stop_pool /\ pc'[Owner] = pc[Owner]
      BY <1>0, <1>3 DEF TypeOK, PushTask, PushStep, PushAccept, PushNotify, PushThrow,
         PushWait, PushTimeout, PushWoken
    <2>2. CASE stop_pool
      BY <2>1, <2>2 DEF Closed
    <2>3. CASE ~InUse /\ pc[s] = "idle"
      BY <1>3, <2>3, <1>2 DEF PushTask, PushStep, PushAccept, PushNotify, PushThrow,
         PushWait, PushTimeout, PushWoken
    <2>4. QED
      BY <2>2, <2>3 DEF Closed
  <1>4. ASSUME CallStop \/ CallDestructor \/ OwnerNext PROVE Closed'
    BY <1>0, <1>4 DEF TypeOK, Closed, InUse, CallStop, CallDestructor, OwnerNext,
       OwnerStep, StopSet, StopNotify, DtorExchange, DtorJoined
  <1>5. QED
    BY <1>1, <1>2, <1>3, <1>4 DEF Next, WorkerTryPush, SubmitterTryPush, Spurious,
       Quiet, vars

LEMMA LeftStep ==
    ASSUME IInv, Next PROVE Left'
  <1> USE Kinds DEF Threads
  <1>0. TypeOK /\ Places /\ Left
    BY DEF IInv
  <1>1. ASSUME UNCHANGED taskList \/ (\E w \in Workers : pc'[w] # "exited"),
               \A w \in Workers : pc'[w] = "exited" => pc[w] = "exited"
        PROVE  Left'
    BY <1>0, <1>1, StaysClosed DEF Left
  <1>2. ASSUME NEW w \in Workers, WorkerExit(w) PROVE Left'
    BY <1>0, <1>2 DEF Left, Closed, WorkerExit
  <1>3. ASSUME NEW w \in Workers,
               \/ WorkerWait(w) \/ WorkerWoken(w) \/ WorkerPass(w) \/ WorkerTake(w)
               \/ WorkerTakeNothing(w) \/ WorkerDone(w) \/ WorkerTryPush(w)
        PROVE  Left'
    BY <1>0, <1>1, <1>3 DEF TypeOK, WorkerWait, WorkerWoken, WorkerPass, WorkerTake,
       WorkerTakeNothing, WorkerDone, WorkerTryPush
  <1>4. ASSUME NEW s \in Submitters,
               SubmitterTryPush(s) \/ PushTask(s) \/ PushStep(s) \/ PushTimeout(s)
        PROVE  Left'
    <2>1. \A w \in Workers : pc'[w] = pc[w]
      BY <1>0, <1>4 DEF TypeOK, SubmitterTryPush, PushTask, PushStep, PushAccept,
         PushNotify, PushThrow, PushWait, PushTimeout, PushWoken
    <2>2. CASE UNCHANGED taskList
      BY <1>1, <2>1, <2>2
    <2>3. CASE \A w \in Workers : pc[w] = "exited"
      <3>1. Closed
        <4>1. \E w \in Workers : TRUE
          BY PoolAssumption
        <4>2. QED
          BY <1>0, <2>3, <4>1 DEF Left
      <3>2. UNCHANGED taskList
        BY <1>4, <3>1 DEF Closed, SubmitterTryPush, TryPush, PushTask, PushStep,
           PushAccept, PushNotify, PushThrow, PushWait, PushTimeout, PushWoken
      <3>3. QED
        BY <1>1, <2>1, <3>2
    <2>4. CASE \E w \in Workers : pc[w] # "exited"
      BY <1>1, <2>1, <2>4
    <2>5. QED
      BY <2>3, <2>4
  <1>5. ASSUME CallStop \/ CallDestructor \/ OwnerNext PROVE Left'
    BY <1>0, <1>1, <1>5 DEF TypeOK, CallStop, CallDestructor, OwnerNext, OwnerStep,
       StopSet, StopNotify, DtorExchange, DtorJoined
  <1>6. ASSUME UNCHANGED <<taskList, pc>> PROVE Left'
    BY <1>1, <1>6
  <1>7. QED
    BY <1>2, <1>3, <1>4, <1>5, <1>6 DEF Next, WorkerStep, Spurious, Quiet, vars

-----------------------------------------------------------------------------
(* No worker sleeps beside work                                            *)

Alerts == {w \in Workers : Alert(w)}
Notifiers == {s \in Submitters : pc[s] = "notify"}

\* Where everybody calls tryPush, only workers wait, and nobody is between
\* pushing a task and notifying.
LEMMA OnlyWorkers ==
    ASSUME IInv, patient = {}
    PROVE  waitSet \subseteq Workers /\ Notifiers = {}
  BY DEF IInv, TypeOK, Places, Notifiers

\* Sets of workers can be counted.
LEMMA Counts ==
    ASSUME NEW S, S \subseteq Workers
    PROVE  IsFiniteSet(S) /\ Cardinality(S) \in Nat
  <1>1. IsFiniteSet(Workers)
    BY PoolAssumption
  <1>2. IsFiniteSet(S)
    BY <1>1, FS_Subset
  <1>3. QED
    BY <1>2, FS_CardinalityType

\* What NoIdleWorker comes to while everybody calls tryPush.
LEMMA Asleep ==
    ASSUME Notifiers = {}, NoIdleWorker, patient = {}, NEW w \in Workers, w \in waitSet
    PROVE  Len(taskList) <= Cardinality(Alerts)
  <1>1. Len(taskList) <= Cardinality(Alerts) + Cardinality(Notifiers)
    BY DEF NoIdleWorker, Alerts, Notifiers
  <1>2. Cardinality(Notifiers) = 0
    BY FS_EmptySet
  <1>3. Cardinality(Alerts) \in Nat
    BY Counts DEF Alerts
  <1>4. QED
    BY <1>1, <1>2, <1>3

LEMMA IdleStep ==
    ASSUME IInv, Next, TypeOK', Places' PROVE NoIdleWorker'
  <1> USE Kinds DEF Threads
  <1>0. TypeOK /\ Places
    BY DEF IInv
  <1>p. patient' = patient
    BY DEF Next, WorkerStep, WorkerWait, WorkerWoken, WorkerPass, WorkerExit, WorkerTake,
       WorkerTakeNothing, WorkerDone, WorkerTryPush, SubmitterTryPush, PushTask, PushStep,
       PushAccept, PushNotify, PushThrow, PushWait, PushTimeout, PushWoken, Spurious,
       CallStop, CallDestructor, OwnerNext, StopSet, StopNotify, DtorExchange, DtorJoined,
       Quiet, vars
  <1> SUFFICES ASSUME patient = {}, NEW z \in Workers, z \in waitSet'
               PROVE  Len(taskList') <= Cardinality(Alerts')
    <2>1. patient = {} => Notifiers' = {}
      BY <1>p DEF Places, Notifiers
    <2>2. Notifiers' = {} => Cardinality(Notifiers') = 0
      BY FS_EmptySet
    <2>3. Cardinality(Alerts') \in Nat
      BY Counts DEF Alerts
    <2>4. QED
      BY <1>p, <2>1, <2>2, <2>3 DEF NoIdleWorker, Notifiers, Alerts
  <1>1. waitSet \subseteq Workers /\ Len(taskList) \in Nat /\ Cardinality(Alerts) \in Nat
        /\ Notifiers = {} /\ IsFiniteSet(Alerts)
    <2>1. Alerts \subseteq Workers
      BY DEF Alerts
    <2>2. QED
      BY <1>0, <2>1, OnlyWorkers, Counts, Length
  <1>2. (\E w \in Workers : w \in waitSet) => Len(taskList) <= Cardinality(Alerts)
    BY <1>1, Asleep DEF IInv
  <1>3. IsFiniteSet(Alerts') /\ Cardinality(Alerts') \in Nat
    BY Counts DEF Alerts
  <1>4. Alerts \subseteq Alerts' => Cardinality(Alerts) <= Cardinality(Alerts')
    BY <1>1, <1>3, FS_Subset
  <1>5. ASSUME waitSet' \subseteq waitSet, UNCHANGED taskList, Alerts \subseteq Alerts'
        PROVE  Len(taskList') <= Cardinality(Alerts')
    BY <1>1, <1>2, <1>3, <1>4, <1>5
  <1>6. ASSUME taskList' = <<>> PROVE Len(taskList') <= Cardinality(Alerts')
    <2>1. Len(taskList') = 0
      BY <1>6
    <2>2. QED
      BY <2>1, <1>3
  <1>7. ASSUME NEW w \in Workers, WorkerWoken(w) \/ WorkerPass(w) \/ WorkerDone(w)
        PROVE  Len(taskList') <= Cardinality(Alerts')
    <2>1. UNCHANGED <<waitSet, taskList>> /\ \A v \in Workers : Alert(v) => Alert(v)'
      BY <1>0, <1>7 DEF TypeOK, Alert, WorkerWoken, WorkerPass, WorkerDone
    <2>2. Alerts \subseteq Alerts'
      BY <2>1 DEF Alerts
    <2>3. QED
      BY <1>5, <2>1, <2>2
  <1>8. ASSUME NEW w \in Workers,
               WorkerWait(w) \/ WorkerExit(w) \/ WorkerTakeNothing(w)
        PROVE  Len(taskList') <= Cardinality(Alerts')
    BY <1>6, <1>8 DEF WorkerWait, WorkerExit, WorkerTakeNothing
  <1>9. ASSUME NEW w \in Workers, WorkerTake(w)
        PROVE  Len(taskList') <= Cardinality(Alerts')
    <2>1. Len(taskList') = Len(taskList) - 1
      BY <1>0, <1>9, Front DEF WorkerTake
    <2>2. w \in Alerts /\ Alerts' = Alerts \ {w}
      BY <1>0, <1>9 DEF TypeOK, Alerts, Alert, WorkerTake
    <2>3. Cardinality(Alerts') = Cardinality(Alerts) - 1
      BY <1>1, <2>2, FS_RemoveElement
    <2>4. Len(taskList) <= Cardinality(Alerts)
      BY <1>2, <1>9 DEF WorkerTake
    <2>5. QED
      BY <1>1, <2>1, <2>3, <2>4
  <1>10. ASSUME NEW k \in Tasks, TryPush(k), UNCHANGED pc
         PROVE  Len(taskList') <= Cardinality(Alerts')
    <2>1. CASE UNCHANGED <<taskList, waitSet>>
      <3>1. Alerts' = Alerts
        BY <1>10, <2>1 DEF Alerts, Alert
      <3>2. QED
        BY <1>5, <2>1, <3>1
    <2>2. CASE Accept(k) /\ NotifyOne
      <3>1. Len(taskList') = Len(taskList) + 1
        BY <1>0, <2>2, Back
      <3>2. PICK t \in waitSet : waitSet' = waitSet \ {t}
        BY <2>2 DEF NotifyOne
      <3>3. pc[t] = "wait" /\ t \in Workers
        BY <1>0, <1>1 DEF Places
      <3>4. t \notin Alerts /\ Alerts' = Alerts \union {t}
        BY <1>10, <3>2, <3>3 DEF Alerts, Alert
      <3>5. Cardinality(Alerts') = Cardinality(Alerts) + 1
        BY <1>1, <3>4, FS_AddElement
      <3>6. QED
        BY <1>1, <1>2, <3>1, <3>3, <3>5
    <2>3. QED
      BY <1>10, <2>1, <2>2 DEF TryPush
  <1>11. ASSUME NEW s \in Submitters, PushTask(s) \/ PushStep(s) \/ PushTimeout(s)
         PROVE  FALSE
    BY <1>0, <1>11 DEF Places, PushTask, PushStep, PushAccept, PushNotify, PushThrow,
       PushWait, PushTimeout, PushWoken
  <1>12. ASSUME CallStop \/ CallDestructor \/ OwnerNext
         PROVE  Len(taskList') <= Cardinality(Alerts')
    <2>1. CASE StopNotify
      BY <2>1 DEF StopNotify
    <2>2. CASE CallStop \/ CallDestructor \/ StopSet \/ DtorExchange \/ DtorJoined
      <3>1. UNCHANGED <<waitSet, taskList>> /\ \A w \in Workers : pc'[w] = pc[w]
        BY <1>0, <2>2 DEF TypeOK, CallStop, CallDestructor, OwnerStep, StopSet,
           DtorExchange, DtorJoined
      <3>2. Alerts \subseteq Alerts'
        BY <3>1 DEF Alerts, Alert
      <3>3. QED
        BY <1>5, <3>1, <3>2
    <2>3. QED
      BY <1>12, <2>1, <2>2 DEF OwnerNext
  <1>13. ASSUME waitSet' \subseteq waitSet, UNCHANGED <<taskList, pc>>
         PROVE  Len(taskList') <= Cardinality(Alerts')
    <2>1. Alerts \subseteq Alerts'
      BY <1>13 DEF Alerts, Alert
    <2>2. QED
      BY <1>5, <1>13, <2>1
  <1>14. QED
    BY <1>7, <1>8, <1>9, <1>10, <1>11, <1>12, <1>13 DEF Next, WorkerStep, WorkerTryPush,
       SubmitterTryPush, Spurious, Quiet, vars

-----------------------------------------------------------------------------
(* The invariant, and what it says of single tasks                         *)

LEMMA Inductive == Spec => []IInv
  <1>1. IInv /\ [Next]_vars => IInv'
    <2>1. CASE Next
      <3>1. IInv => TypeOK' /\ Places'
        BY <2>1, TypeStep, PlacesStep
      <3>2. QED
        BY <2>1, <3>1, QueuedStep, HeldStep, LeftStep, IdleStep DEF IInv
    <2>2. CASE UNCHANGED vars
      BY <2>2 DEF vars, IInv, TypeOK, Places, Queued, Held, Left, Closed, InUse,
         NoIdleWorker, Alert
    <2>3. QED
      BY <2>1, <2>2
  <1>2. QED
    BY Initially, <1>1, PTL DEF Spec

\* A set in which there is no second member, counted.
LEMMA AtMostOne ==
    ASSUME NEW S, \A x, y \in S : x = y
    PROVE  Cardinality(S) = IF S = {} THEN 0 ELSE 1
  <1>1. CASE S = {}
    BY <1>1, FS_EmptySet
  <1>2. CASE S # {}
    <2>1. PICK x \in S : S = {x}
      BY <1>2
    <2>2. QED
      BY <1>2, <2>1, FS_Singleton
  <1>3. QED
    BY <1>1, <1>2

LEMMA Once == IInv => RunOnce
  <1> SUFFICES ASSUME IInv, NEW k \in Tasks
               PROVE  Cardinality({i \in 1 .. Len(taskList) : taskList[i] = k})
                        + Cardinality({w \in Workers : mine[w] = k})
                        = IF state[k] \in {"queued", "running"} THEN 1 ELSE 0
    BY DEF RunOnce
  <1> DEFINE Q == {i \in 1 .. Len(taskList) : taskList[i] = k}
             R == {w \in Workers : mine[w] = k}
  <1>0. Queued /\ Held
    BY DEF IInv
  <1>1. (\A i, j \in Q : i = j) /\ (Q # {} <=> state[k] = "queued")
    BY <1>0 DEF Queued
  <1>2. (\A v, w \in R : v = w) /\ (R # {} <=> state[k] = "running")
    BY <1>0, Kinds DEF Held
  <1>3. Cardinality(Q) = (IF state[k] = "queued" THEN 1 ELSE 0)
    BY <1>1, AtMostOne
  <1>4. Cardinality(R) = (IF state[k] = "running" THEN 1 ELSE 0)
    BY <1>2, AtMostOne
  <1>5. QED
    BY <1>3, <1>4

LEMMA NothingLeft == IInv => NothingLeftBehind
  <1> SUFFICES ASSUME IInv, \A w \in Workers : pc[w] = "exited"
               PROVE  taskList = <<>> /\ \A k \in Tasks : state[k] \notin {"queued", "running"}
    BY DEF NothingLeftBehind
  <1>0. Queued /\ Held /\ taskList = <<>>
    BY DEF IInv, Left
  <1>1. 1 .. Len(taskList) = {}
    BY <1>0
  <1>2. QED
    BY <1>0, <1>1, Kinds DEF Queued, Held

-----------------------------------------------------------------------------
\* The queue never holds more than `capacity` tasks, which pushTask (line 119)
\* and tryPush (line 137) look at under mtx; and every variable has its type.
THEOREM TypeCorrect == Spec => []TypeOK
  <1>1. IInv => TypeOK
    BY DEF IInv
  <1>2. QED
    BY Inductive, <1>1, PTL

\* An accepted task is in the queue once or run by one worker, none is left when
\* the last worker returns (line 53), and where everybody calls tryPush no worker
\* sleeps in cond_.wait (line 48) while more tasks are queued than workers are on
\* their way to the queue.
THEOREM TasksAreKept == Spec => []TasksKept
  <1>1. IInv => TasksKept
    BY Once, NothingLeft DEF IInv, TasksKept
  <1>2. QED
    BY Inductive, <1>1, PTL
=============================================================================
