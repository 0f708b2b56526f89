---------------------------- MODULE GpioLedProofs ----------------------------
(***************************************************************************)
(* TypeOK, HwAgrees, BlinkGoesOn and OnlyActiveAlone of GpioLed, for any   *)
(* set of users and any number of calls under way at once.                 *)
(*                                                                         *)
(* What HwAgrees says of the line is inductive once it is said of the      *)
(* state the line is going to show when the running commit is over.  That  *)
(* the blink goes on depends on who wrote the duration last: a change of   *)
(* mode that is past zeroing it, or a store that waits for mode_lock.      *)
(***************************************************************************)
EXTENDS GpioLed, TLAPS

\* The line shows the state, or the running commit is about to make it so.
Shown ==
    \/ commit = "idle" /\ hw = led_state_enabled
    \/ commit = "on" /\ led_state_enabled
    \/ commit = "off" /\ ~led_state_enabled

Agrees ==
    \/ pc[Remover] \in Removing
    \/ CommitDue \/ "commit" \in pending
    \/ Shown

Locked == Changing \ {"lock"}
Past == {"cancel", "off", "off_commit", "apply"}
Stores(u) == storing[u] /\ new_mode[u] = "blink"

\* A store of a duration waits for mode_lock; it is in its change of mode.
Waits == \E u \in Users : pc[u] = "lock" /\ Stores(u)
Blinks == \E u \in Users : pc[u] \in Changing /\ Stores(u)

Holds == \A t \in Callers : pc[t] \in Locked => mode_lock = t

Storers == \A t \in Callers : storing[t] => sysfs_custom_blinker /\ t # Remover

\* A change away from blink mode has zeroed the duration; who wrote it since
\* waits for the lock.
Zeroed ==
    mode = "blink" /\ (\E t \in Callers : pc[t] \in Past)
        => blink_duration_ms = 0 \/ Waits

\* A duration belongs to blink mode, or to a change into it.
Timed == blink_duration_ms > 0 => mode = "blink" \/ Blinks

GoesOn ==
    mode = "blink" /\ blink_duration_ms > 0 =>
        \/ pc[Remover] \in Removing
        \/ Blinks
        \/ \E u \in Users : pc[u] = "schedule"
        \/ Blinker \in pending
        \/ pc[Blinker] # "out"

Blinking == Holds /\ Storers /\ Zeroed /\ Timed /\ GoesOn

\* One call at a time, and no press during a call.
One == \A t, u \in Callers : pc[t] # "out" /\ pc[u] # "out" => t = u
Idle == irq # "idle" => \A u \in Callers : pc[u] = "out"

\* The work of the old mode has gone when the LED is switched off.
Gone ==
    mode # "manual" /\ (\E t \in Callers : pc[t] \in {"off", "off_commit", "apply"})
        => Worker \notin pending /\ pc[Worker] = "out"

Alone == One /\ Idle /\ Gone /\ OnlyActive

IInv == TypeOK /\ Agrees /\ Blinking /\ (alone => Alone)

Due == {"commit", "off_commit", "last_commit"}

LEMMA Initially == Init => IInv
  <1> SUFFICES ASSUME Init PROVE IInv
    OBVIOUS
  <1>0. /\ \A t \in Threads : pc[t] = "out"
        /\ \A t \in Callers : ~storing[t]
        /\ Callers \subseteq Threads /\ Users \subseteq Callers
        /\ Blinker \in Threads /\ Button \in Threads
    BY DEF Init, Callers, Threads, Workers
  <1>1. TypeOK /\ Agrees
    BY DEF Init, CreateCustomBlinker, SetUpButton, TypeOK, Agrees, Shown, Modes
  <1>2. Blinking
    BY <1>0 DEF Init, Blinking, Holds, Storers, Zeroed, Timed, GoesOn, Locked, Past,
       Changing
  <1>3. Alone
    BY <1>0 DEF Init, Alone, One, Idle, Gone, OnlyActive
  <1> QED BY <1>1, <1>2, <1>3 DEF IInv

----------------------------------------------------------------------------
(* Types                                                                   *)

LEMMA UserTypes ==
    ASSUME TypeOK, NEW u \in Users, UserStep(u)
    PROVE  TypeOK'
  <1>0. u \in Callers /\ u \in Threads /\ u # Remover
    BY ThreadsAssumption DEF Callers, Threads
  <1>1. CASE Override(u)
    BY <1>0, <1>1 DEF TypeOK, Override, Enters, TakesLock, Goto, Modes, Changing,
       Removing, probed, line
  <1>2. CASE StoreBlink(u)
    BY <1>0, <1>2 DEF TypeOK, StoreBlink, Enters, Goto, Modes, Changing, probed, led, line
  <1>3. CASE ScheduleBlink(u)
    BY <1>0, <1>3 DEF TypeOK, ScheduleBlink, Goto, Queue, probed, led, line
  <1>4. CASE SetBrightness(u)
    BY <1>0, <1>4 DEF TypeOK, SetBrightness, Enters, Goto, probed, change, line
  <1>5. CASE BrightnessSet(u)
    BY <1>0, <1>5 DEF TypeOK, BrightnessSet, SetState, Goto, probed, change, line
  <1>6. CASE BrightnessCommit(u)
    BY <1>0, <1>6 DEF TypeOK, BrightnessCommit, QueueCommit, Goto, Queue, probed, led,
       change, line
  <1> QED BY <1>1, <1>2, <1>3, <1>4, <1>5, <1>6 DEF UserStep

LEMMA ChangeTypes ==
    ASSUME TypeOK, NEW t \in Callers, ChangeMode(t)
    PROVE  TypeOK'
  <1>0. t \in Threads
    BY DEF Threads
  <1>a. Caller(t) \in {"out", "schedule"} \cup Removing
    BY DEF Caller, Removing
  <1>1. CASE SameMode(t)
    BY <1>0, <1>a, <1>1 DEF TypeOK, SameMode, Returns, Goto, Modes, probed, led, line
  <1>2. CASE OtherMode(t)
    BY <1>0, <1>2 DEF TypeOK, OtherMode, TakesLock, Goto, Modes, Changing, probed, line
  <1>3. CASE StopBlinking(t)
    BY <1>0, <1>3 DEF TypeOK, StopBlinking, Goto, Changing, probed, led, change, line
  <1>4. CASE CancelWorker(t)
    BY <1>0, <1>4 DEF TypeOK, CancelWorker, CancelSync, Goto, Changing, probed, led,
       change, line
  <1>5. CASE TurnOff(t)
    BY <1>0, <1>5 DEF TypeOK, TurnOff, SetState, Goto, Changing, probed, change, line
  <1>6. CASE TurnOffCommit(t)
    BY <1>0, <1>6 DEF TypeOK, TurnOffCommit, QueueCommit, Goto, Queue, Changing, probed,
       led, change, line
  <1>7. CASE Apply(t)
    BY <1>0, <1>a, <1>7 DEF TypeOK, Apply, Returns, Goto, Modes, probed, led, line
  <1> QED BY <1>1, <1>2, <1>3, <1>4, <1>5, <1>6, <1>7 DEF ChangeMode

LEMMA WorkTypes ==
    ASSUME TypeOK,
           \/ \E w \in Workers : WorkerStep(w)
           \/ BlinkAgain \/ Press \/ PressSchedule \/ CommitRead \/ CommitWrite
    PROVE  TypeOK'
  <1>0. Workers \subseteq Threads /\ Blinker \in Workers
    BY DEF Workers, Threads
  <1>1. ASSUME NEW w \in Workers, WorkerStep(w) PROVE TypeOK'
    <2>0. AfterToggle(w) \in {"out", "again"}
      BY DEF AfterToggle
    <2>1. CASE Starts(w)
      BY <1>0, <2>1 DEF TypeOK, Starts, Goto, probed, led, change, line
    <2>2. CASE ReadsState(w)
      BY <1>0, <2>2 DEF TypeOK, ReadsState, Goto, probed, change, line
    <2>3. CASE Toggles(w)
      BY <1>0, <2>0, <2>3 DEF TypeOK, Toggles, SetState, Goto, probed, change, line
    <2>4. CASE TogglesCommit(w)
      BY <1>0, <2>0, <2>4 DEF TypeOK, TogglesCommit, QueueCommit, Goto, Queue, probed,
         led, change, line
    <2> QED BY <1>1, <2>1, <2>2, <2>3, <2>4 DEF WorkerStep
  <1>2. CASE BlinkAgain
    BY <1>0, <1>2 DEF TypeOK, BlinkAgain, Goto, Queue, probed, led, change, line
  <1>3. CASE Press \/ PressSchedule
    BY <1>3 DEF TypeOK, Press, PressSchedule, Queue, probed, led, change, line
  <1>4. CASE CommitRead
    BY <1>4 DEF TypeOK, CommitRead, probed, led, change
  <1>5. CASE CommitWrite
    BY <1>5 DEF TypeOK, CommitWrite, probed, led, change
  <1> QED BY <1>1, <1>2, <1>3, <1>4, <1>5

LEMMA RemoveTypes ==
    ASSUME TypeOK, RemoveStep
    PROVE  TypeOK'
  <1>0. Remover \in Callers /\ Remover \in Threads
    BY DEF Callers, Threads
  <1>1. CASE Remove
    BY <1>0, <1>1 DEF TypeOK, Remove, Enters, Goto, Modes, Changing, probed, led, line
  <1>2. CASE RemoveCommit \/ RemoveButton \/ RemoveBlink
    BY <1>0, <1>2 DEF TypeOK, RemoveCommit, RemoveButton, RemoveBlink, CancelSync, Goto,
       Removing, probed, led, change, line
  <1>3. CASE RemoveBlinkFile
    BY <1>0, <1>3 DEF TypeOK, RemoveBlinkFile, Goto, Removing, probed, change, line
  <1>4. CASE RemoveOff
    BY <1>0, <1>4 DEF TypeOK, RemoveOff, SetState, Goto, Removing, probed, change, line
  <1>5. CASE RemoveOffCommit
    BY <1>0, <1>5 DEF TypeOK, RemoveOffCommit, QueueCommit, Goto, Queue, Removing,
       probed, led, change, line
  <1> QED BY <1>1, <1>2, <1>3, <1>4, <1>5 DEF RemoveStep

LEMMA Types ==
    ASSUME TypeOK, [Next]_vars
    PROVE  TypeOK'
  <1>1. CASE UNCHANGED vars
    BY <1>1 DEF TypeOK, vars, probed, led, change, line
  <1> QED BY <1>1, UserTypes, ChangeTypes, WorkTypes, RemoveTypes DEF Next

----------------------------------------------------------------------------
(* The line and the state                                                  *)

\* A step after which what was owed is still owed, and that touches neither
\* the state nor the line.
LEMMA StillOwed ==
    ASSUME Agrees,
           pc[Remover] \in Removing => pc'[Remover] \in Removing,
           \A t \in Threads : pc[t] \in Due => pc'[t] \in Due \/ "commit" \in pending',
           "commit" \in pending => "commit" \in pending',
           UNCHANGED <<led_state_enabled, commit, hw>>
    PROVE  Agrees'
  BY DEF Agrees, CommitDue, Shown, Due

\* A step of a thread that goes from one place to another, neither of them
\* after a change of the state.
LEMMA Walks ==
    ASSUME TypeOK, Agrees, NEW t \in Threads, NEW from, NEW to,
           Goto(t, from, to),
           from \notin Due \/ "commit" \in pending',
           t = Remover /\ from \in Removing => to \in Removing,
           "commit" \in pending => "commit" \in pending',
           UNCHANGED <<led_state_enabled, commit, hw>>
    PROVE  Agrees'
  <1>1. /\ pc[t] = from /\ pc'[t] = to
        /\ \A u \in Threads : u # t => pc'[u] = pc[u]
    BY DEF Goto, TypeOK
  <1>2. Remover \in Threads
    BY DEF Callers, Threads
  <1> QED BY <1>1, <1>2, StillOwed

\* gpio_led_set_state: who changes the state owes a commit.
LEMMA Sets ==
    ASSUME TypeOK, Agrees, NEW t \in Threads, NEW from, NEW queue, NEW done,
           SetState(t, from, queue, done),
           queue \in Due, from \notin Due,
           t = Remover /\ from \in Removing => queue \in Removing /\ done \in Removing,
           UNCHANGED <<pending, commit, hw>>
    PROVE  Agrees'
  <1>1. CASE led_state_enabled # value[t]
    <2>1. pc'[t] = queue
      BY <1>1 DEF SetState, Goto, TypeOK
    <2> QED BY <2>1 DEF Agrees, CommitDue, Due
  <1>2. CASE led_state_enabled = value[t]
    <2>1. Goto(t, from, done) /\ led_state_enabled' = led_state_enabled
      BY <1>2 DEF SetState
    <2> QED BY <2>1, Walks
  <1> QED BY <1>1, <1>2

LEMMA UserAgrees ==
    ASSUME TypeOK, Agrees, NEW u \in Users, UserStep(u)
    PROVE  Agrees'
  <1>0. u \in Threads /\ u # Remover
    BY ThreadsAssumption DEF Callers, Threads
  <1>1. CASE Override(u) \/ StoreBlink(u) \/ SetBrightness(u)
    <2>1. PICK to : Goto(u, "out", to)
      BY <1>1 DEF Override, Enters, TakesLock, StoreBlink, SetBrightness
    <2>2. UNCHANGED <<led_state_enabled, commit, hw, pending>>
      BY <1>1 DEF Override, StoreBlink, SetBrightness, led, line
    <2> QED BY <1>0, <2>1, <2>2, Walks DEF Due
  <1>2. CASE ScheduleBlink(u)
    BY <1>0, <1>2, Walks DEF ScheduleBlink, Queue, Due, led, line
  <1>3. CASE BrightnessSet(u)
    BY <1>0, <1>3, Sets DEF BrightnessSet, Due, line
  <1>4. CASE BrightnessCommit(u)
    BY <1>0, <1>4, Walks DEF BrightnessCommit, QueueCommit, Queue, led, line
  <1> QED BY <1>1, <1>2, <1>3, <1>4 DEF UserStep

LEMMA ChangeAgrees ==
    ASSUME TypeOK, Agrees, NEW t \in Callers, ChangeMode(t)
    PROVE  Agrees'
  <1>0. t \in Threads
    BY DEF Threads
  <1>1. CASE SameMode(t) \/ OtherMode(t) \/ StopBlinking(t) \/ Apply(t)
    <2>1. \E from \in {"lock", "duration", "apply"} : \E to : Goto(t, from, to)
      BY <1>1 DEF SameMode, Returns, OtherMode, TakesLock, StopBlinking, Apply, Goto
    <2>2. UNCHANGED <<led_state_enabled, commit, hw, pending>>
      BY <1>1 DEF SameMode, OtherMode, StopBlinking, Apply, led, line
    <2> QED BY <1>0, <2>1, <2>2, Walks DEF Due, Removing
  <1>2. CASE CancelWorker(t)
    <2>1. "commit" \in pending => "commit" \in pending'
      BY <1>2, ThreadsAssumption DEF CancelWorker, CancelSync, Worker
    <2> QED BY <1>0, <1>2, <2>1, Walks DEF CancelWorker, Due, Removing, led, line
  <1>3. CASE TurnOff(t)
    BY <1>0, <1>3, Sets DEF TurnOff, Due, Removing, line
  <1>4. CASE TurnOffCommit(t)
    BY <1>0, <1>4, Walks DEF TurnOffCommit, QueueCommit, Queue, Removing, led, line
  <1> QED BY <1>1, <1>2, <1>3, <1>4 DEF ChangeMode

LEMMA WorkAgrees ==
    ASSUME TypeOK, Agrees,
           \/ \E w \in Workers : WorkerStep(w)
           \/ BlinkAgain \/ Press \/ PressSchedule \/ CommitRead \/ CommitWrite
    PROVE  Agrees'
  <1>0. \A w \in Workers : w \in Threads /\ w # Remover /\ w # "commit"
    BY ThreadsAssumption DEF Workers, Threads
  <1>1. ASSUME NEW w \in Workers, WorkerStep(w) PROVE Agrees'
    <2>1. CASE Starts(w)
      BY <1>0, <2>1, Walks DEF Starts, Due, led, line
    <2>2. CASE ReadsState(w)
      BY <1>0, <2>2, Walks DEF ReadsState, Due, line
    <2>3. CASE Toggles(w)
      BY <1>0, <2>3, Sets DEF Toggles, Due, line
    <2>4. CASE TogglesCommit(w)
      BY <1>0, <2>4, Walks DEF TogglesCommit, QueueCommit, Queue, led, line
    <2> QED BY <1>1, <2>1, <2>2, <2>3, <2>4 DEF WorkerStep
  <1>2. CASE BlinkAgain
    BY <1>0, <1>2, Walks DEF BlinkAgain, Workers, Queue, Due, led, line
  <1>3. CASE Press \/ PressSchedule
    BY <1>3, StillOwed DEF Press, PressSchedule, Queue, led, line
  <1>4. CASE CommitRead
    BY <1>4 DEF TypeOK, CommitRead, Agrees, Shown, led
  <1>5. CASE CommitWrite
    BY <1>5 DEF TypeOK, CommitWrite, Agrees, CommitDue, Shown, led
  <1> QED BY <1>1, <1>2, <1>3, <1>4, <1>5

\* After its change of mode remove is where HwAgrees says nothing.
LEMMA RemoveAgrees ==
    ASSUME TypeOK, Agrees, RemoveStep
    PROVE  Agrees'
  <1>0. Remover \in Threads
    BY DEF Callers, Threads
  <1>1. CASE Remove
    BY <1>0, <1>1, Walks DEF Remove, Due, Removing, led, line
  <1>2. CASE ~Remove
    <2>1. pc'[Remover] \in Removing
      BY <1>0, <1>2 DEF TypeOK, RemoveStep, RemoveCommit, RemoveButton, RemoveBlink,
         RemoveBlinkFile, RemoveOff, RemoveOffCommit, SetState, QueueCommit, Goto,
         Removing
    <2> QED BY <2>1 DEF Agrees
  <1> QED BY <1>1, <1>2

----------------------------------------------------------------------------
(* The blink                                                               *)

\* A step of a thread changes the place of that thread only.
LEMMA OnePlace ==
    ASSUME TypeOK, NEW t \in Threads, NEW from, NEW to, Goto(t, from, to)
    PROVE  /\ pc[t] = from /\ pc'[t] = to
           /\ \A u \in Threads : u # t => pc'[u] = pc[u]
  BY DEF Goto, TypeOK


\* A step in which no store and no change of mode begins, ends or gets past
\* zeroing the duration, and which leaves the blink work in place if it matters.
LEMMA Frame ==
    ASSUME TypeOK, Blinking,
           \A t \in Callers : /\ pc'[t] \in Locked => pc[t] \in Locked
                              /\ pc'[t] \in Past => pc[t] \in Past,
           \A u \in Users : /\ pc[u] = "lock" => pc'[u] = "lock"
                            /\ pc[u] \in Changing => pc'[u] \in Changing
                            /\ pc[u] = "schedule" => pc'[u] = "schedule",
           pc[Remover] \in Removing => pc'[Remover] \in Removing,
           Blinker \in pending \/ pc[Blinker] # "out" =>
               \/ Blinker \in pending' \/ pc'[Blinker] # "out"
               \/ mode # "blink" \/ blink_duration_ms = 0 \/ Blinks,
           UNCHANGED <<mode, blink_duration_ms, change, sysfs_custom_blinker>>
    PROVE  Blinking'
  <1>1. /\ Waits => Waits'
        /\ Blinks => Blinks'
        /\ UNCHANGED <<mode_lock, new_mode, storing>>
    BY DEF Waits, Blinks, Stores, change
  <1>2. Holds' /\ Storers'
    BY <1>1 DEF Blinking, Holds, Storers
  <1>3. Zeroed'
    BY <1>1 DEF Blinking, Zeroed
  <1>4. Timed'
    BY <1>1 DEF Blinking, Timed
  <1>5. GoesOn'
    <2> SUFFICES ASSUME mode = "blink", blink_duration_ms > 0 PROVE GoesOn'
      BY DEF GoesOn
    <2>1. blink_duration_ms # 0
      OBVIOUS
    <2> QED BY <1>1, <2>1 DEF Blinking, GoesOn
  <1> QED BY <1>2, <1>3, <1>4, <1>5 DEF Blinking

\* The same, of a step of one thread.
LEMMA FrameOf ==
    ASSUME TypeOK, Blinking, NEW t \in Threads, NEW from, NEW to, Goto(t, from, to),
           t \in Callers => /\ to \in Locked => from \in Locked
                            /\ to \in Past => from \in Past,
           t \in Users => /\ from # "lock" /\ from # "schedule"
                          /\ from \in Changing => to \in Changing,
           t = Remover /\ from \in Removing => to \in Removing,
           t = Blinker /\ to = "out" =>
               Blinker \in pending' \/ mode # "blink" \/ blink_duration_ms = 0,
           Blinker \in pending =>
               \/ Blinker \in pending' \/ (t = Blinker /\ to # "out")
               \/ mode # "blink" \/ blink_duration_ms = 0 \/ Blinks,
           UNCHANGED <<mode, blink_duration_ms, change, sysfs_custom_blinker>>
    PROVE  Blinking'
  <1>1. /\ pc[t] = from /\ pc'[t] = to
        /\ \A u \in Threads : u # t => pc'[u] = pc[u]
    BY OnePlace
  <1>2. Users \subseteq Callers /\ Callers \subseteq Threads /\ Blinker \in Threads
        /\ Remover \in Callers
    BY DEF Callers, Threads, Workers
  <1>3. \A v \in Callers : /\ pc'[v] \in Locked => pc[v] \in Locked
                           /\ pc'[v] \in Past => pc[v] \in Past
    BY <1>1, <1>2
  <1>4. \A u \in Users : /\ pc[u] = "lock" => pc'[u] = "lock"
                         /\ pc[u] \in Changing => pc'[u] \in Changing
                         /\ pc[u] = "schedule" => pc'[u] = "schedule"
    BY <1>1, <1>2
  <1>5. pc[Remover] \in Removing => pc'[Remover] \in Removing
    BY <1>1, <1>2
  <1>6. Blinker \in pending \/ pc[Blinker] # "out" =>
            \/ Blinker \in pending' \/ pc'[Blinker] # "out"
            \/ mode # "blink" \/ blink_duration_ms = 0 \/ Blinks
    BY <1>1, <1>2
  <1> QED BY <1>3, <1>4, <1>5, <1>6, Frame

\* A thread takes mode_lock: nobody else is past zeroing, nor is it.
LEMMA Takes ==
    ASSUME TypeOK, Blinking, NEW t \in Callers, pc[t] \in {"out", "lock"}, TakesLock(t),
           \A u \in Callers : u # t \/ pc[t] = "lock" => new_mode'[u] = new_mode[u],
           UNCHANGED <<mode, blink_duration_ms, storing, pending, sysfs_custom_blinker>>
    PROVE  Blinking'
  <1>0. /\ t \in Threads /\ Users \subseteq Callers /\ Callers \subseteq Threads
        /\ t # Blinker /\ Nobody \notin Callers /\ Blinker \in Threads
        /\ Remover \in Callers
    BY ThreadsAssumption DEF Callers, Threads, Workers
  <1>1. PICK to \in Locked : Goto(t, pc[t], to) /\ (mode = "blink" => to = "duration")
    <2>1. mode \in {"manual", "button", "blink"}
      BY DEF TypeOK, Modes
    <2>2. CASE mode = "blink"
      BY <2>2 DEF TakesLock, Locked, Changing
    <2>3. CASE mode = "button"
      BY <2>3 DEF TakesLock, Locked, Changing
    <2>4. CASE mode = "manual"
      BY <2>4 DEF TakesLock, Locked, Changing
    <2> QED BY <2>1, <2>2, <2>3, <2>4
  <1>2. pc'[t] = to /\ \A u \in Threads : u # t => pc'[u] = pc[u]
    BY <1>0, <1>1, OnePlace
  <1>3. \A u \in Callers : pc[u] \notin Locked
    BY <1>0 DEF TakesLock, Blinking, Holds
  <1>4. Blinks => Blinks'
    BY <1>0, <1>2 DEF Blinks, Stores, Locked, Changing
  <1>5. Holds' /\ Storers'
    BY <1>0, <1>2, <1>3 DEF TakesLock, Blinking, Holds, Storers
  <1>6. Zeroed'
    BY <1>0, <1>1, <1>2, <1>3 DEF Zeroed, Past, Locked, Changing
  <1>7. Timed'
    BY <1>4 DEF Blinking, Timed
  <1>8. GoesOn'
    BY <1>0, <1>2, <1>4 DEF Blinking, GoesOn, Removing
  <1> QED BY <1>5, <1>6, <1>7, <1>8 DEF Blinking

LEMMA UserBlinking ==
    ASSUME TypeOK, Blinking, NEW u \in Users, UserStep(u)
    PROVE  Blinking'
  <1>0. u \in Callers /\ u \in Threads /\ u # Remover /\ u # Blinker
    BY ThreadsAssumption DEF Callers, Threads
  <1>1. CASE Override(u)
    <2>1. /\ pc[u] = "out" /\ TakesLock(u)
          /\ \A v \in Callers : v # u => new_mode'[v] = new_mode[v]
          /\ UNCHANGED <<mode, blink_duration_ms, storing, pending, sysfs_custom_blinker>>
      BY <1>1 DEF TypeOK, Override, Enters, probed
    <2> QED BY <1>0, <2>1, Takes
  <1>2. CASE StoreBlink(u)
    <2>1. /\ pc'[u] = "lock" /\ \A v \in Threads : v # u => pc'[v] = pc[v]
          /\ storing'[u] /\ \A v \in Callers : v # u => storing'[v] = storing[v]
          /\ \A v \in Callers : v # u => new_mode'[v] = new_mode[v]
          /\ blink_duration_ms' = 0 \/ new_mode'[u] = "blink"
          /\ blink_duration_ms' \in {0, 1}
          /\ sysfs_custom_blinker /\ UNCHANGED <<mode, mode_lock, sysfs_custom_blinker>>
      BY <1>0, <1>2, OnePlace DEF TypeOK, StoreBlink, probed
    <2>2. blink_duration_ms' = 0 \/ (Waits' /\ Blinks')
      BY <2>1 DEF Waits, Blinks, Stores, Changing
    <2>3. Holds' /\ Storers'
      BY <1>0, <2>1 DEF Blinking, Holds, Storers, Callers, Threads, Locked
    <2>4. Zeroed' /\ Timed' /\ GoesOn'
      BY <2>1, <2>2 DEF Zeroed, Timed, GoesOn
    <2> QED BY <2>3, <2>4 DEF Blinking
  <1>3. CASE ScheduleBlink(u)
    <2>1. /\ pc[u] = "schedule" /\ pc'[u] = "out"
          /\ \A v \in Threads : v # u => pc'[v] = pc[v]
          /\ ~storing'[u] /\ \A v \in Callers : v # u => storing'[v] = storing[v]
          /\ Blinker \in pending'
          /\ UNCHANGED <<mode, mode_lock, new_mode, blink_duration_ms,
                         sysfs_custom_blinker>>
      BY <1>0, <1>3, OnePlace DEF TypeOK, ScheduleBlink, Queue, probed
    <2>2. (Waits => Waits') /\ (Blinks => Blinks')
      BY <1>0, <2>1 DEF Waits, Blinks, Stores, Changing, Callers, Threads
    <2>3. Holds' /\ Storers'
      BY <1>0, <2>1 DEF Blinking, Holds, Storers, Callers, Threads, Locked, Changing
    <2>4. Zeroed'
      BY <1>0, <2>1, <2>2 DEF Blinking, Zeroed, Callers, Threads, Past
    <2>5. Timed' /\ GoesOn'
      BY <2>1, <2>2 DEF Blinking, Timed, GoesOn
    <2> QED BY <2>3, <2>4, <2>5 DEF Blinking
  <1>4. CASE SetBrightness(u)
    BY <1>0, <1>4, FrameOf DEF SetBrightness, Locked, Past, Changing, Removing, probed
  <1>5. CASE BrightnessSet(u)
    <2>1. PICK to \in {"commit", "out"} : Goto(u, "set", to)
      BY <1>5 DEF BrightnessSet, SetState
    <2> QED BY <1>0, <1>5, <2>1, FrameOf DEF BrightnessSet, Locked, Past, Changing,
               Removing, probed
  <1>6. CASE BrightnessCommit(u)
    BY <1>0, <1>6, FrameOf DEF BrightnessCommit, QueueCommit, Queue, Locked, Past,
       Changing, Removing, probed
  <1> QED BY <1>1, <1>2, <1>3, <1>4, <1>5, <1>6 DEF UserStep

LEMMA ChangeBlinking ==
    ASSUME TypeOK, Blinking, NEW t \in Callers, ChangeMode(t)
    PROVE  Blinking'
  <1>0. /\ t \in Threads /\ Users \subseteq Callers /\ Callers \subseteq Threads
        /\ t # Blinker /\ Nobody \notin Callers /\ Remover \in Callers
        /\ t \in Users \/ t = Remover
    BY ThreadsAssumption DEF Callers, Threads, Workers
  <1>a. blink_duration_ms \in {0, 1}
    BY DEF TypeOK
  <1>1. CASE SameMode(t) \/ Apply(t)
    <2>1. /\ pc[t] \in {"lock", "apply"} /\ pc'[t] = Caller(t)
          /\ \A v \in Threads : v # t => pc'[v] = pc[v]
          /\ storing'[t] = (Caller(t) = "schedule")
          /\ \A v \in Callers : v # t => storing'[v] = storing[v]
          /\ \A v \in Callers : v # t => new_mode'[v] = new_mode[v]
          /\ UNCHANGED <<blink_duration_ms, pending, sysfs_custom_blinker>>
      BY <1>0, <1>1, OnePlace DEF TypeOK, SameMode, Apply, Returns, probed
    <2>2. Caller(t) \notin Changing
      BY DEF Caller, Changing
    <2>3. \A v \in Callers : v # t => pc[v] \notin Locked
      BY <1>0, <1>1 DEF Blinking, Holds, SameMode, Apply, Locked, Changing
    <2>4. \A v \in Callers : pc'[v] \notin Locked
      BY <1>0, <2>1, <2>2, <2>3 DEF Locked
    <2>5. /\ Holds' /\ Zeroed'
          /\ Storers'
      BY <1>0, <2>1, <2>4 DEF Blinking, Holds, Storers, Zeroed, Caller, Past, Locked,
         Changing
    <2>6. \A v \in Users : v # t /\ pc[v] \in Changing /\ Stores(v) => Blinks'
      BY <1>0, <2>1 DEF Blinks, Stores
    <2>7. pc[t] \in Changing /\ Stores(t) /\ t # Remover => mode' = "blink"
                                                           /\ pc'[t] = "schedule"
      BY <1>1, <2>1 DEF Blinking, Storers, Stores, SameMode, Apply, Caller, led
    <2>8. blink_duration_ms > 0 =>
             \/ SameMode(t) /\ mode = "blink"
             \/ \E v \in Users : pc[v] \in Changing /\ Stores(v)
      <3>1. CASE SameMode(t)
        BY <3>1 DEF Blinking, Timed, Blinks
      <3>2. CASE Apply(t) /\ mode = "blink"
        BY <3>2, <1>a DEF Blinking, Zeroed, Apply, Past, Waits, Changing
      <3>3. CASE Apply(t) /\ mode # "blink"
        BY <3>3 DEF Blinking, Timed, Blinks
      <3> QED BY <1>1, <3>1, <3>2, <3>3
    <2>9. Timed'
      BY <1>0, <2>1, <2>6, <2>7, <2>8, ThreadsAssumption DEF Timed, SameMode
    <2>10. GoesOn'
      <3> SUFFICES ASSUME mode' = "blink", blink_duration_ms > 0 PROVE GoesOn'
        BY <2>1 DEF GoesOn
      <3>1. CASE \E v \in Users : pc[v] \in Changing /\ Stores(v)
        BY <1>0, <2>6, <2>7, <3>1, ThreadsAssumption DEF GoesOn
      <3>2. CASE SameMode(t) /\ mode = "blink" /\ ~Blinks
        <4>1. \/ pc[Remover] \in Removing
              \/ \E u \in Users : pc[u] = "schedule"
              \/ Blinker \in pending
              \/ pc[Blinker] # "out"
          BY <3>2 DEF Blinking, GoesOn
        <4> QED BY <1>0, <2>1, <3>2, <4>1 DEF GoesOn, Removing, Threads, Workers
      <3> QED BY <2>8, <3>1, <3>2 DEF Blinks
    <2> QED BY <2>5, <2>9, <2>10 DEF Blinking
  <1>2. CASE OtherMode(t)
    BY <1>2, Takes DEF OtherMode, probed
  <1>3. CASE StopBlinking(t)
    <2>1. /\ pc[t] = "duration" /\ pc'[t] = "cancel"
          /\ \A v \in Threads : v # t => pc'[v] = pc[v]
          /\ blink_duration_ms' = 0
          /\ UNCHANGED <<mode_lock, storing, sysfs_custom_blinker>>
      BY <1>0, <1>3, OnePlace DEF StopBlinking, change, probed
    <2>2. Holds' /\ Storers'
      BY <1>0, <2>1 DEF Blinking, Holds, Storers, Locked, Changing
    <2> QED BY <2>1, <2>2 DEF Blinking, Zeroed, Timed, GoesOn
  <1>4. CASE CancelWorker(t)
    <2>1. Blinker \in pending =>
             Blinker \in pending' \/ mode # "blink" \/ blink_duration_ms = 0 \/ Blinks
      <3>1. CASE mode = "blink"
        BY <1>4, <3>1 DEF CancelWorker, Goto, Blinking, Zeroed, Past, Waits, Blinks,
           Changing
      <3>2. CASE mode # "blink"
        BY <3>2
      <3> QED BY <3>1, <3>2
    <2> QED BY <1>0, <1>4, <2>1, FrameOf DEF CancelWorker, Locked, Past, Changing,
               Removing, probed
  <1>5. CASE TurnOff(t)
    <2>1. PICK to \in {"off_commit", "apply"} : Goto(t, "off", to)
      BY <1>5 DEF TurnOff, SetState
    <2> QED BY <1>0, <1>5, <2>1, FrameOf DEF TurnOff, Locked, Past, Changing, Removing,
               probed
  <1>6. CASE TurnOffCommit(t)
    BY <1>0, <1>6, FrameOf DEF TurnOffCommit, QueueCommit, Queue, Locked, Past,
       Changing, Removing, probed
  <1> QED BY <1>1, <1>2, <1>3, <1>4, <1>5, <1>6 DEF ChangeMode

LEMMA WorkBlinking ==
    ASSUME TypeOK, Blinking,
           \/ \E w \in Workers : WorkerStep(w)
           \/ BlinkAgain \/ Press \/ PressSchedule \/ CommitRead \/ CommitWrite
    PROVE  Blinking'
  <1>0. /\ \A w \in Workers : w \in Threads /\ w \notin Callers /\ w # "commit"
        /\ Users \subseteq Callers /\ Remover \in Callers /\ Blinker \in Workers
    BY ThreadsAssumption DEF Callers, Workers, Threads
  <1>a. blink_duration_ms \in {0, 1}
    BY DEF TypeOK
  <1>1. ASSUME NEW w \in Workers, WorkerStep(w) PROVE Blinking'
    <2>1. CASE Starts(w)
      <3>1. PICK to \in {"read", "out"} :
               /\ Goto(w, "out", to)
               /\ w = Blinker /\ mode = "blink" => to = "read"
        BY <2>1 DEF Starts, Worker
      <3> QED BY <1>0, <2>1, <3>1, FrameOf DEF Starts, Locked, Past, Changing, probed
    <2>2. CASE ReadsState(w)
      BY <1>0, <2>2, FrameOf DEF ReadsState, Locked, Past, Changing, probed
    <2>3. CASE Toggles(w)
      <3>1. PICK to \in {"commit", "again", "out"} :
               Goto(w, "set", to) /\ (w = Blinker => to # "out")
        BY <2>3 DEF Toggles, SetState, AfterToggle
      <3> QED BY <1>0, <2>3, <3>1, FrameOf DEF Toggles, Locked, Past, Changing, probed
    <2>4. CASE TogglesCommit(w)
      BY <1>0, <2>4, FrameOf DEF TogglesCommit, QueueCommit, Queue, AfterToggle, Locked,
         Past, Changing, probed
    <2> QED BY <1>1, <2>1, <2>2, <2>3, <2>4 DEF WorkerStep
  <1>2. CASE BlinkAgain
    <2>1. Blinker \in pending' \/ blink_duration_ms = 0
      BY <1>2, <1>a DEF BlinkAgain, Queue
    <2> QED BY <1>0, <1>2, <2>1, FrameOf DEF BlinkAgain, Locked, Past, Changing, probed
  <1>3. CASE Press \/ PressSchedule \/ CommitRead \/ CommitWrite
    <2>1. /\ UNCHANGED <<pc, mode, blink_duration_ms, change, sysfs_custom_blinker>>
          /\ Blinker \in pending => Blinker \in pending'
      BY <1>0, <1>3 DEF Press, PressSchedule, CommitRead, CommitWrite, Queue, probed
    <2> QED BY <2>1, Frame
  <1> QED BY <1>1, <1>2, <1>3

LEMMA RemoveBlinking ==
    ASSUME TypeOK, Blinking, RemoveStep
    PROVE  Blinking'
  <1>0. /\ Remover \in Threads /\ Remover \notin Users /\ Remover # Blinker
        /\ "commit" # Blinker /\ Blinker # Button
    BY ThreadsAssumption DEF Callers, Threads
  <1>1. CASE Remove
    <2>1. /\ pc[Remover] = "out" /\ pc'[Remover] = "lock"
          /\ \A v \in Threads : v # Remover => pc'[v] = pc[v]
          /\ \A v \in Users : new_mode'[v] = new_mode[v]
          /\ UNCHANGED <<mode, mode_lock, blink_duration_ms, storing, pending,
                         sysfs_custom_blinker>>
      BY <1>0, <1>1, OnePlace DEF TypeOK, Remove, probed, Callers
    <2>2. (Waits => Waits') /\ (Blinks => Blinks')
      BY <1>0, <2>1 DEF Waits, Blinks, Stores, Callers, Threads
    <2>3. Holds' /\ Storers'
      BY <2>1 DEF Blinking, Holds, Storers, Callers, Threads, Locked, Changing
    <2>4. Zeroed' /\ Timed'
      BY <2>1, <2>2 DEF Blinking, Zeroed, Timed, Callers, Threads, Past
    <2>5. GoesOn'
      BY <1>0, <2>1, <2>2 DEF Blinking, GoesOn, Callers, Threads, Workers, Removing
    <2> QED BY <2>3, <2>4, <2>5 DEF Blinking
  <1>2. CASE ~Remove
    <2>1. pc[Remover] \in Removing /\ pc'[Remover] \in Removing
          /\ \A v \in Threads : v # Remover => pc'[v] = pc[v]
      BY <1>0, <1>2 DEF TypeOK, RemoveStep, RemoveCommit, RemoveButton, RemoveBlink,
         RemoveBlinkFile, RemoveOff, RemoveOffCommit, SetState, QueueCommit, Goto,
         Removing
    <2>2. UNCHANGED <<mode, blink_duration_ms, change, sysfs_custom_blinker>>
      BY <1>2 DEF RemoveStep, RemoveCommit, RemoveButton, RemoveBlink,
         RemoveBlinkFile, RemoveOff, RemoveOffCommit, probed
    <2>3. (Waits => Waits') /\ (Blinks => Blinks')
      BY <1>0, <2>1, <2>2 DEF Waits, Blinks, Stores, change, Callers, Threads
    <2>4. Holds' /\ Storers' /\ Zeroed' /\ Timed'
      BY <2>1, <2>2, <2>3 DEF Blinking, Holds, Storers, Zeroed, Timed, change, Callers,
         Threads, Locked, Past, Changing, Removing
    <2> QED BY <2>1, <2>4 DEF Blinking, GoesOn
  <1> QED BY <1>1, <1>2

----------------------------------------------------------------------------
(* Calls one at a time                                                     *)

\* A call that is under way, or begins, is the only one.
LEMMA OnlyCall ==
    ASSUME alone, Alone, NEW t \in Callers, pc[t] # "out" \/ Enters(t)
    PROVE  irq = "idle" /\ \A v \in Callers : v # t => pc[v] = "out"
  BY DEF Alone, One, Idle, Enters

\* A step of the only call that keeps the mode.
LEMMA CallStep ==
    ASSUME TypeOK, alone, Alone, NEW t \in Callers, NEW from, NEW to,
           Goto(t, from, to), from # "out" \/ Enters(t),
           to \in {"off", "off_commit", "apply"} /\ mode # "manual"
               => Worker \notin pending' /\ pc[Worker] = "out",
           to = "set" => mode = "manual",
           UNCHANGED <<mode, irq>>
    PROVE  Alone'
  <1>0. /\ t \in Threads /\ Callers \subseteq Threads /\ Users \subseteq Callers
        /\ Workers \subseteq Threads /\ t \notin Workers
    BY ThreadsAssumption DEF Callers, Threads, Workers
  <1>1. /\ pc[t] = from /\ pc'[t] = to
        /\ \A v \in Threads : v # t => pc'[v] = pc[v]
    BY <1>0, OnePlace
  <1>2. irq = "idle" /\ \A v \in Callers : v # t => pc[v] = "out" /\ pc'[v] = "out"
    BY <1>0, <1>1, OnlyCall
  <1>3. One' /\ Idle'
    BY <1>2 DEF One, Idle
  <1>4. Worker' = Worker /\ Worker \in Workers
    BY DEF Worker, Workers
  <1>5. Gone'
    BY <1>0, <1>1, <1>2, <1>4 DEF Gone
  <1>6. OnlyActive'
    BY <1>0, <1>1, <1>2 DEF Alone, OnlyActive, Workers
  <1> QED BY <1>3, <1>5, <1>6 DEF Alone

LEMMA UserAlone ==
    ASSUME TypeOK, alone, Alone, NEW u \in Users, UserStep(u)
    PROVE  Alone'
  <1>0. u \in Callers
    BY DEF Callers
  <1>1. CASE Override(u)
    <2>1. PICK to : Goto(u, "out", to) /\ to # "set"
                    /\ (to \in {"off", "off_commit", "apply"} => mode = "manual")
      <3>1. mode \in {"manual", "button", "blink"} /\ pc[u] = "out"
        BY <1>1 DEF TypeOK, Modes, Override, Enters
      <3>2. CASE mode = "blink"
        BY <1>1, <3>1, <3>2 DEF Override, TakesLock
      <3>3. CASE mode = "button"
        BY <1>1, <3>1, <3>3 DEF Override, TakesLock
      <3>4. CASE mode = "manual"
        BY <1>1, <3>1, <3>4 DEF Override, TakesLock
      <3> QED BY <3>1, <3>2, <3>3, <3>4
    <2> QED BY <1>0, <1>1, <2>1, CallStep DEF Override
  <1>2. CASE StoreBlink(u)
    BY <1>0, <1>2, CallStep DEF StoreBlink
  <1>3. CASE ScheduleBlink(u)
    BY <1>0, <1>3, CallStep DEF ScheduleBlink
  <1>4. CASE SetBrightness(u)
    BY <1>0, <1>4, CallStep DEF SetBrightness
  <1>5. CASE BrightnessSet(u)
    <2>1. PICK to \in {"commit", "out"} : Goto(u, "set", to)
      BY <1>5 DEF BrightnessSet, SetState
    <2> QED BY <1>0, <1>5, <2>1, CallStep DEF BrightnessSet
  <1>6. CASE BrightnessCommit(u)
    BY <1>0, <1>6, CallStep DEF BrightnessCommit, QueueCommit
  <1> QED BY <1>1, <1>2, <1>3, <1>4, <1>5, <1>6 DEF UserStep

LEMMA ChangeAlone ==
    ASSUME TypeOK, alone, Alone, NEW t \in Callers, ChangeMode(t)
    PROVE  Alone'
  <1>a. Caller(t) \in {"cancel_commit", "schedule", "out"}
    BY DEF Caller
  <1>b. Worker \in {Blinker, Button} /\ "commit" # Worker
    BY ThreadsAssumption DEF Worker
  <1>1. CASE SameMode(t)
    BY <1>1, <1>a, CallStep DEF SameMode, Returns
  <1>2. CASE OtherMode(t)
    <2>1. PICK to : Goto(t, "lock", to) /\ to # "set"
                    /\ (to \in {"off", "off_commit", "apply"} => mode = "manual")
      <3>1. mode \in {"manual", "button", "blink"} /\ pc[t] = "lock"
        BY <1>2 DEF TypeOK, Modes, OtherMode
      <3>2. CASE mode = "blink"
        BY <1>2, <3>1, <3>2 DEF OtherMode, TakesLock
      <3>3. CASE mode = "button"
        BY <1>2, <3>1, <3>3 DEF OtherMode, TakesLock
      <3>4. CASE mode = "manual"
        BY <1>2, <3>1, <3>4 DEF OtherMode, TakesLock
      <3> QED BY <3>1, <3>2, <3>3, <3>4
    <2> QED BY <1>2, <2>1, CallStep DEF OtherMode
  <1>3. CASE StopBlinking(t)
    BY <1>3, CallStep DEF StopBlinking
  <1>4. CASE CancelWorker(t)
    <2>1. Worker \notin pending' /\ pc[Worker] = "out"
      BY <1>4, <1>b DEF CancelWorker, CancelSync
    <2> QED BY <1>4, <2>1, CallStep DEF CancelWorker
  <1>5. CASE TurnOff(t) \/ TurnOffCommit(t)
    <2>1. PICK from \in {"off", "off_commit"}, to \in {"off_commit", "apply"} :
             Goto(t, from, to)
      BY <1>5 DEF TurnOff, TurnOffCommit, SetState, QueueCommit
    <2>2. mode # "manual" => Worker \notin pending' /\ pc[Worker] = "out"
      BY <1>5, <1>b, <2>1 DEF Alone, Gone, TurnOff, TurnOffCommit, QueueCommit, Queue,
         Goto
    <2> QED BY <1>5, <2>1, <2>2, CallStep DEF TurnOff, TurnOffCommit
  \* Whoever worked for the old mode has gone before the mode changes.
  <1>6. CASE Apply(t)
    <2>0. /\ t \in Threads /\ Callers \subseteq Threads /\ Users \subseteq Callers
          /\ Workers \subseteq Threads /\ t \notin Workers
          /\ Blinker \in Workers /\ Button \in Workers
      BY ThreadsAssumption DEF Callers, Threads, Workers
    <2>1. /\ pc[t] = "apply" /\ pc'[t] = Caller(t)
          /\ \A v \in Threads : v # t => pc'[v] = pc[v]
      BY <1>6, <2>0, OnePlace DEF Apply, Returns
    <2>2. irq = "idle" /\ \A v \in Callers : v # t => pc[v] = "out" /\ pc'[v] = "out"
      BY <2>0, <2>1, OnlyCall
    <2>3. One' /\ Idle'
      BY <1>6, <2>2 DEF One, Idle, Apply
    <2>4. Gone'
      BY <1>a, <2>1, <2>2 DEF Gone
    <2>5. pc[Blinker] \notin {"read", "set"} /\ pc[Button] \notin {"read", "set"}
      BY <2>1 DEF Alone, Gone, OnlyActive, Worker
    <2>6. OnlyActive'
      BY <1>a, <2>0, <2>1, <2>2, <2>5 DEF OnlyActive
    <2> QED BY <2>3, <2>4, <2>6 DEF Alone
  <1> QED BY <1>1, <1>2, <1>3, <1>4, <1>5, <1>6 DEF ChangeMode

LEMMA RemoveAlone ==
    ASSUME TypeOK, alone, Alone, RemoveStep
    PROVE  Alone'
  <1>1. Remover \in Callers
    BY DEF Callers
  <1>2. PICK from \in {"out"} \cup Removing, to \in {"lock"} \cup Removing :
           Goto(Remover, from, to) /\ (from # "out" \/ Enters(Remover))
    BY DEF RemoveStep, Remove, RemoveCommit, RemoveButton, RemoveBlink, RemoveBlinkFile,
       RemoveOff, RemoveOffCommit, SetState, QueueCommit, Removing
  <1>3. UNCHANGED <<mode, irq>>
    BY DEF RemoveStep, Remove, RemoveCommit, RemoveButton, RemoveBlink, RemoveBlinkFile,
       RemoveOff, RemoveOffCommit
  <1> QED BY <1>1, <1>2, <1>3, CallStep DEF Removing

LEMMA WorkAlone ==
    ASSUME TypeOK, alone, Alone,
           \/ \E w \in Workers : WorkerStep(w)
           \/ BlinkAgain \/ Press \/ PressSchedule \/ CommitRead \/ CommitWrite
    PROVE  Alone'
  <1>0. /\ Callers \subseteq Threads /\ Users \subseteq Callers /\ Workers \subseteq Threads
        /\ \A w \in Workers : w \notin Callers /\ w # "commit"
        /\ Blinker \in Workers /\ Button \in Workers /\ Blinker # Button
    BY ThreadsAssumption DEF Callers, Threads, Workers
  <1>1. mode' = mode /\ Worker' = Worker /\ Worker \in Workers
    BY DEF WorkerStep, Starts, ReadsState, Toggles, TogglesCommit, BlinkAgain, Press,
       PressSchedule, CommitRead, CommitWrite, Worker, Workers
  <1>2. \A v \in Callers : pc'[v] = pc[v]
    BY <1>0 DEF TypeOK, WorkerStep, Starts, ReadsState, Toggles, TogglesCommit,
       BlinkAgain, Press, PressSchedule, CommitRead, CommitWrite, SetState, QueueCommit,
       Goto
  <1>3. One'
    BY <1>2 DEF Alone, One
  <1>4. Idle'
    BY <1>2 DEF Alone, Idle, WorkerStep, Starts, ReadsState, Toggles, TogglesCommit,
       BlinkAgain, Press, PressSchedule, CommitRead, CommitWrite
  <1>5. \A w \in Workers : pc'[w] \in {"read", "set"} =>
            \/ pc[w] \in {"read", "set"}
            \/ w = Worker /\ mode # "manual"
    BY <1>0 DEF TypeOK, WorkerStep, Starts, ReadsState, Toggles, TogglesCommit,
       BlinkAgain, Press, PressSchedule, CommitRead, CommitWrite, SetState, QueueCommit,
       Goto, AfterToggle
  <1>6. OnlyActive'
    BY <1>0, <1>1, <1>2, <1>5 DEF TypeOK, Alone, OnlyActive, Worker, Modes
  <1>7. Gone'
    <2> SUFFICES ASSUME mode # "manual",
                        NEW t \in Callers, pc[t] \in {"off", "off_commit", "apply"}
                 PROVE  Worker \notin pending' /\ pc'[Worker] = "out"
      BY <1>1, <1>2 DEF Gone
    <2>1. Worker \notin pending /\ pc[Worker] = "out" /\ irq = "idle"
      BY DEF Alone, Gone, Idle
    <2>2. ASSUME NEW w \in Workers, WorkerStep(w) PROVE w # Worker
      BY <2>1, <2>2 DEF WorkerStep, Starts, ReadsState, Toggles, TogglesCommit,
         SetState, QueueCommit, Goto
    <2>3. pc'[Worker] = "out"
      BY <1>0, <1>1, <2>1, <2>2 DEF TypeOK, WorkerStep, Starts, ReadsState, Toggles,
         TogglesCommit, BlinkAgain, Press, PressSchedule, CommitRead, CommitWrite,
         SetState, QueueCommit, Goto
    <2>4. Worker \notin pending'
      BY <1>0, <1>1, <2>1 DEF WorkerStep, Starts, ReadsState, Toggles, TogglesCommit,
         BlinkAgain, Press, PressSchedule, CommitRead, CommitWrite, SetState,
         QueueCommit, Queue, Goto
    <2> QED BY <2>3, <2>4
  <1> QED BY <1>3, <1>4, <1>6, <1>7 DEF Alone

----------------------------------------------------------------------------
LEMMA Invariance == Spec => []IInv
  <1>1. Init => IInv
    BY Initially
  <1>2. IInv /\ [Next]_vars => IInv'
    <2> SUFFICES ASSUME IInv, [Next]_vars PROVE IInv'
      OBVIOUS
    <2>1. TypeOK'
      BY Types DEF IInv
    <2>2. CASE UNCHANGED vars
      <3>1. Agrees'
        BY <2>2 DEF IInv, Agrees, CommitDue, Shown, vars, led, change, line
      <3>2. Blinking'
        BY <2>2 DEF IInv, Blinking, Holds, Storers, Zeroed, Timed, GoesOn, Waits, Blinks,
           Stores, vars, probed, change
      <3>3. (alone => Alone)'
        BY <2>2 DEF IInv, Alone, One, Idle, Gone, OnlyActive, Worker, vars, probed
      <3> QED BY <2>1, <3>1, <3>2, <3>3 DEF IInv
    <2>3. CASE Next
      <3>1. Agrees'
        BY <2>3, UserAgrees, ChangeAgrees, WorkAgrees, RemoveAgrees DEF IInv, Next
      <3>2. Blinking'
        BY <2>3, UserBlinking, ChangeBlinking, WorkBlinking, RemoveBlinking DEF IInv, Next
      <3>3. alone' = alone
        BY <2>3 DEF Next, UserStep, ChangeMode, WorkerStep, RemoveStep, Override,
           StoreBlink, ScheduleBlink, SetBrightness, BrightnessSet, BrightnessCommit,
           SameMode, OtherMode, StopBlinking, CancelWorker, TurnOff, TurnOffCommit,
           Apply, Starts, ReadsState, Toggles, TogglesCommit, BlinkAgain, Press,
           PressSchedule, CommitRead, CommitWrite, Remove, RemoveCommit, RemoveButton,
           RemoveBlink, RemoveBlinkFile, RemoveOff, RemoveOffCommit, probed
      <3>4. (alone => Alone)'
        BY <2>3, <3>3, UserAlone, ChangeAlone, WorkAlone, RemoveAlone DEF IInv, Next
      <3> QED BY <2>1, <3>1, <3>2, <3>4 DEF IInv
    <2> QED BY <2>2, <2>3
  <1> QED BY <1>1, <1>2, PTL DEF Spec

\* The driver's state keeps its types: the blink duration never goes negative.
THEOREM TypeCorrect == Spec => []TypeOK
  <1>1. IInv => TypeOK
    BY DEF IInv
  <1> QED BY <1>1, Invariance, PTL

\* The line shows the state when no commit is queued, running or due: no change
\* of gpio_led_set_state is left without the commit that follows it.
THEOREM LineAgrees == Spec => []HwAgrees
  <1>1. IInv => HwAgrees
    BY DEF IInv, TypeOK, Agrees, Shown, HwAgrees
  <1> QED BY <1>1, Invariance, PTL

\* A blinking LED goes on blinking: stores, changes of mode and the blink work
\* may follow each other in any order.
THEOREM BlinkKept == Spec => []BlinkGoesOn
  <1>1. IInv => BlinkGoesOn
    BY DEF IInv, Blinking, GoesOn, Blinks, Stores, BlinkGoesOn, BlinkDue
  <1> QED BY <1>1, Invariance, PTL

\* Only the controller of the mode changes the LED, while calls and presses do
\* not overlap.
THEOREM ActiveAlone == Spec => []OnlyActiveAlone
  <1>1. IInv => OnlyActiveAlone
    BY DEF IInv, Alone, OnlyActiveAlone
  <1> QED BY <1>1, Invariance, PTL
=============================================================================
