--------------------------- MODULE WatchdogProofs ---------------------------
(***************************************************************************)
(* TypeOK, GoneQuietly and ArmedAlone of Watchdog, for any set of threads. *)
(*                                                                         *)
(* The invariant says how far the two cancellations have come: what a      *)
(* thread that arms, or exit, has cancelled is not started again behind    *)
(* it, because the callback schedules the recovery only if it has seen the *)
(* watchdog armed.                                                         *)
(***************************************************************************)
EXTENDS Watchdog, TLAPS

\* Only an open file is in use, and it keeps the module loaded.
Use ==
    /\ owner # "open" => \A t \in Threads : pc[t] = "out"
    /\ exit # "loaded" => owner # "open"

\* How far exit has come.  Once it has set the flag the callback ends at once.
Exiting ==
    /\ exit \in Disarming => ~nowayout
    /\ ~nowayout /\ exit \in Cancels \cup {"unloaded"} => ~armed
    /\ ~nowayout /\ exit \in {"recovery", "panic", "unloaded"} =>
            ~timer /\ callback = "none"
    /\ ~nowayout /\ exit \in {"panic", "unloaded"} => ~work /\ recovery = "none"
    /\ ~nowayout /\ exit = "unloaded" => ~panic_work

\* One thread at a time arms or disarms.
Alone ==
    \A t, u \in Threads :
        pc[t] \in Arming \cup Disarming /\ pc[u] \in Arming \cup Disarming => t = u

\* How far a thread that arms or disarms has come.
Stage(t) ==
    /\ pc[t] = "arm_timer" => ~armed \/ callback = "disarm"
    /\ pc[t] \in {"arm_recovery", "arm_panic", "clear", "set"} =>
            ~armed /\ callback \in {"none", "start"}
    /\ pc[t] \in {"arm_panic", "clear"} => ~work /\ recovery = "none"
    /\ pc[t] = "clear" => ~panic_work
    /\ pc[t] = "set" => ~expired
    /\ pc[t] \in Cancels => ~armed

Cancelled == \A t \in Threads : Stage(t)

\* An armed watchdog that has expired is about to be disarmed by its callback;
\* one that is armed has its timer, its callback, or a thread about to set it.
Armed ==
    /\ armed /\ expired => callback = "disarm"
    /\ armed => \/ timer
                \/ callback \in {"start", "expire", "disarm"}
                \/ \E t \in Threads : pc[t] = "start"

\* Without an expiry there is no panic to come.
Fresh == ~expired => ~panic_work /\ recovery # "policy"

AInv == Alone /\ Cancelled /\ Armed /\ Fresh

IInv == TypeOK /\ Use /\ Exiting /\ (~overlap => AInv)

LEMMA Initially == Init => IInv
  BY DEF Init, IInv, TypeOK, Use, Exiting, AInv, Alone, Cancelled, Stage, Armed, Fresh,
     Policies, Arming, Disarming, Cancels

\* A step of a thread changes the place of that thread only.
LEMMA OnePlace ==
    ASSUME TypeOK, NEW t \in Threads, ThreadNext(t)
    PROVE  /\ \A u \in Threads : u # t => pc'[u] = pc[u]
           /\ pc' \in [Threads -> {"out", "ping", "policy", "read", "asleep"}
                                    \cup Arming \cup Disarming]
  BY DEF TypeOK, ThreadNext, Goto, Ping, PingTimer, Read, ReadCheck, Interrupted,
     SetPolicy, StorePolicy, Arm, Disarm, DisarmFlag, DeleteTimer, DeleteRecovery,
     DeletePanic, ArmClear, ArmSet, ArmStart, Arming, Disarming, Cancels

LEMMA ThreadBasics ==
    ASSUME IInv, NEW t \in Threads, ThreadNext(t)
    PROVE  TypeOK' /\ Use' /\ Exiting'
  <1>0. TypeOK /\ Use /\ Exiting
    BY DEF IInv
  <1>1. owner = "open" /\ exit = "loaded" /\ UNCHANGED <<owner, exit, calm>>
    <2>1. pc[t] # "out" \/ owner = "open"
      BY DEF ThreadNext, Calls, At, Ping, PingTimer, Read, ReadCheck, Interrupted,
         SetPolicy, StorePolicy, Arm, Disarm, DisarmFlag, DeleteTimer,
         DeleteRecovery, DeletePanic, ArmClear, ArmSet, ArmStart
    <2>2. UNCHANGED <<owner, exit, calm>>
      BY DEF ThreadNext, Ping, PingTimer, Read, ReadCheck, Interrupted,
         SetPolicy, StorePolicy, Arm, Disarm, DisarmFlag, DeleteTimer,
         DeleteRecovery, DeletePanic, ArmClear, ArmSet, ArmStart
    <2>3. QED
      BY <2>1, <2>2, <1>0 DEF Use
  <1>2. TypeOK'
    <2>1. /\ armed' \in BOOLEAN /\ expired' \in BOOLEAN /\ timer' \in BOOLEAN
          /\ work' \in BOOLEAN /\ panic_work' \in BOOLEAN
      BY <1>0 DEF TypeOK, ThreadNext, Ping, PingTimer, Read, ReadCheck,
       Interrupted, SetPolicy, StorePolicy, Arm, Disarm, DisarmFlag, DeleteTimer,
       DeleteRecovery, DeletePanic, ArmClear, ArmSet, ArmStart, CancelTimer,
       CancelRecovery, CancelPanic, flags, works
    <2>2. panicked' = panicked /\ callback' = callback /\ recovery' = recovery
          /\ policy' \in Policies
      BY <1>0 DEF TypeOK, ThreadNext, Ping, PingTimer, Read, ReadCheck,
       Interrupted, SetPolicy, StorePolicy, Arm, Disarm, DisarmFlag, DeleteTimer,
       DeleteRecovery, DeletePanic, ArmClear, ArmSet, ArmStart, flags, works
    <2>3. QED
      BY <1>0, <1>1, <2>1, <2>2, OnePlace DEF TypeOK, calm
  <1>3. Use' /\ Exiting'
    BY <1>1 DEF Use, Exiting, Disarming, Cancels, calm
  <1>4. QED
    BY <1>2, <1>3

\* The calls that neither arm nor disarm, and the ones that begin to.
LEMMA CallsKeep ==
    ASSUME TypeOK, AInv, ~overlap, NEW t \in Threads,
           \/ Ping(t) \/ PingTimer(t) \/ Read(t) \/ ReadCheck(t) \/ Interrupted(t)
           \/ SetPolicy(t) \/ StorePolicy(t) \/ Arm(t) \/ Disarm(t)
    PROVE  AInv'
  <1> USE DEF AInv, Goto, Calls, At, calm, flags, works
  <1>0. UNCHANGED <<armed, expired, callback, work, recovery, panic_work>>
          /\ (timer => timer') /\ pc[t] # "start" /\ ThreadNext(t)
    BY DEF Ping, PingTimer, Read, ReadCheck, Interrupted, SetPolicy, StorePolicy, Arm,
       Disarm, ThreadNext, TypeOK
  <1>1. \A u \in Threads : u # t => pc'[u] = pc[u]
    BY <1>0, OnePlace
  <1>2. \/ pc'[t] \notin Arming \cup Disarming
        \/ /\ pc'[t] \in {"arm_timer", "disarm"}
           /\ pc'[t] = "arm_timer" => ~armed \/ expired
           /\ \A u \in Threads : pc[u] \notin Arming \cup Disarming
    BY DEF Ping, PingTimer, Read, ReadCheck, Interrupted, SetPolicy, StorePolicy, Arm,
       Disarm, TypeOK, Busy, Arming, Disarming, Cancels
  <1>3. Alone'
    BY <1>1, <1>2 DEF Alone
  <1>4. Cancelled'
    BY <1>0, <1>1, <1>2 DEF Cancelled, Stage, Armed, Arming, Disarming, Cancels
  <1>5. Armed' /\ Fresh'
    BY <1>0, <1>1 DEF Armed, Fresh
  <1>6. QED
    BY <1>3, <1>4, <1>5

\* The steps of a thread that arms or disarms.
LEMMA ArmingKeeps ==
    ASSUME TypeOK, AInv, ~overlap, NEW t \in Threads,
           \/ DisarmFlag(t) \/ DeleteTimer(t) \/ DeleteRecovery(t) \/ DeletePanic(t)
           \/ ArmClear(t) \/ ArmSet(t) \/ ArmStart(t)
    PROVE  AInv'
  <1> USE DEF AInv, Goto, At, calm, flags, works
  <1>0. \A u \in Threads : u # t => pc'[u] = pc[u]
    BY OnePlace DEF ThreadNext
  <1>1. pc[t] \in Arming \cup Disarming
    BY DEF DisarmFlag, DeleteTimer, DeleteRecovery, DeletePanic, ArmClear, ArmSet,
       ArmStart, Arming, Disarming, Cancels
  <1>2. \A u \in Threads : u # t => pc[u] \notin Arming \cup Disarming
    BY <1>1 DEF Alone
  <1>3. Alone'
    BY <1>0, <1>2 DEF Alone
  <1>4. SUFFICES Cancelled' /\ Armed' /\ Fresh'
    BY <1>3
  <1>5. \A u \in Threads : u # t => pc'[u] \notin Arming \cup Disarming
    BY <1>0, <1>2
  <1>6. CASE DisarmFlag(t)
    BY <1>5, <1>6 DEF DisarmFlag, Cancelled, Stage, Armed, Fresh, TypeOK, Arming, Disarming, Cancels
  <1>7. CASE DeleteTimer(t)
    <2>1. callback = "none" /\ ~armed /\ armed' = armed
      BY <1>7 DEF DeleteTimer, CancelTimer, Cancelled, Stage, Cancels
    <2>2. QED
      BY <1>5, <1>7, <2>1 DEF DeleteTimer, CancelTimer, Cancelled, Stage, Armed, Fresh, TypeOK,
         Arming, Disarming, Cancels
  <1>8. CASE DeleteRecovery(t)
    BY <1>5, <1>8 DEF DeleteRecovery, CancelRecovery, Cancelled, Stage, Armed, Fresh, TypeOK,
       Arming, Disarming, Cancels
  <1>9. CASE DeletePanic(t)
    BY <1>5, <1>9 DEF DeletePanic, CancelPanic, Cancelled, Stage, Armed, Fresh, TypeOK,
       Arming, Disarming, Cancels
  <1>10. CASE ArmClear(t)
    BY <1>5, <1>10 DEF ArmClear, Cancelled, Stage, Armed, Fresh, TypeOK, Arming, Disarming, Cancels
  <1>11. CASE ArmSet(t)
    BY <1>5, <1>11 DEF ArmSet, Cancelled, Stage, Armed, Fresh, TypeOK, Arming, Disarming, Cancels
  <1>12. CASE ArmStart(t)
    BY <1>5, <1>12 DEF ArmStart, Cancelled, Stage, Armed, Fresh, TypeOK, Arming, Disarming, Cancels
  <1>13. QED
    BY <1>6, <1>7, <1>8, <1>9, <1>10, <1>11, <1>12

\* The timer's callback and the two works.
LEMMA KernelKeeps ==
    ASSUME IInv, Expire \/ Callback \/ Recover \/ TriggerPanic
    PROVE  IInv'
  <1> USE DEF calm, flags, works
  <1>0. TypeOK /\ Use /\ Exiting
    BY DEF IInv
  <1>1. UNCHANGED <<owner, exit, calm>>
    BY DEF Expire, Callback, SeeArmed, SetExpired, ClearArmed, WakeReaders,
       ScheduleRecovery, Recover, StartRecovery, SeeExpired, FollowPolicy, TriggerPanic
  <1>2. TypeOK'
    <2>1. pc' \in [Threads -> {"out", "ping", "policy", "read", "asleep"}
                                \cup Arming \cup Disarming]
      BY <1>0 DEF TypeOK, Expire, Callback, SeeArmed, SetExpired, ClearArmed,
       WakeReaders, ScheduleRecovery, Recover, StartRecovery, SeeExpired,
       FollowPolicy, TriggerPanic, CallbackAt
    <2>2. panic_work' \in BOOLEAN /\ panicked' \in BOOLEAN
      BY <1>0 DEF TypeOK, Expire, Callback, SeeArmed, SetExpired, ClearArmed,
       WakeReaders, ScheduleRecovery, Recover, StartRecovery, SeeExpired,
       FollowPolicy, TriggerPanic, CallbackAt
    <2>3. /\ armed' \in BOOLEAN /\ expired' \in BOOLEAN /\ timer' \in BOOLEAN
          /\ work' \in BOOLEAN /\ policy' = policy
      BY <1>0 DEF TypeOK, Expire, Callback, SeeArmed, SetExpired, ClearArmed,
       WakeReaders, ScheduleRecovery, Recover, StartRecovery, SeeExpired,
       FollowPolicy, TriggerPanic, CallbackAt
    <2>4. /\ callback' \in {"none", "start", "expire", "disarm", "wake", "schedule"}
          /\ recovery' \in {"none", "start", "policy"}
      BY <1>0 DEF TypeOK, Expire, Callback, SeeArmed, SetExpired, ClearArmed,
       WakeReaders, ScheduleRecovery, Recover, StartRecovery, SeeExpired,
       FollowPolicy, TriggerPanic, CallbackAt
    <2>5. QED
      BY <1>0, <1>1, <2>1, <2>2, <2>3, <2>4 DEF TypeOK
  <1>3. \A t \in Threads :
            /\ pc[t] = "out" => pc'[t] = "out"
            /\ pc'[t] = pc[t] \/ (pc[t] = "asleep" /\ pc'[t] = "read")
    BY <1>0 DEF TypeOK, Expire, Callback, SeeArmed, SetExpired, ClearArmed,
       WakeReaders, ScheduleRecovery, Recover, StartRecovery, SeeExpired,
       FollowPolicy, TriggerPanic, CallbackAt
  <1>4. Use'
    BY <1>0, <1>1, <1>3 DEF Use
  <1>5. Exiting'
    BY <1>0, <1>1 DEF Exiting, Disarming, Cancels, Expire, Callback, SeeArmed,
       SetExpired, ClearArmed, WakeReaders, ScheduleRecovery, Recover,
       StartRecovery, SeeExpired, FollowPolicy, TriggerPanic, CallbackAt
  <1>6. ASSUME ~overlap PROVE AInv'
    <2>0. AInv
      BY <1>6 DEF IInv
    <2>1. Alone'
      BY <2>0, <1>3 DEF AInv, Alone, Arming, Disarming, Cancels
    <2>2. \A t \in Threads : pc'[t] = pc[t] \/ pc'[t] = "read"
      BY <1>3
    <2>3. \A t \in Threads : pc[t] = "start" => pc'[t] = "start"
      BY <1>3
    <2>4. Cancelled'
      <3> SUFFICES ASSUME NEW t \in Threads PROVE Stage(t)'
        BY DEF Cancelled
      <3>1. CASE pc'[t] = "read"
        BY <3>1 DEF Stage, Cancels
      <3>2. CASE pc'[t] = pc[t]
        <4>1. Stage(t)
          BY <2>0 DEF AInv, Cancelled
        <4>2. QED
          BY <4>1, <3>2, <1>0 DEF Stage, TypeOK, Expire, Callback, SeeArmed, SetExpired,
           ClearArmed, WakeReaders, ScheduleRecovery, Recover, StartRecovery,
           SeeExpired, FollowPolicy, TriggerPanic, CallbackAt, Cancels
      <3>3. QED
        BY <3>1, <3>2, <2>2
    <2>5. Armed'
      BY <2>0, <2>3, <1>0 DEF AInv, Armed, TypeOK, Expire, Callback, SeeArmed, SetExpired,
         ClearArmed, WakeReaders, ScheduleRecovery, Recover, StartRecovery,
         SeeExpired, FollowPolicy, TriggerPanic, CallbackAt
    <2>6. Fresh'
      BY <2>0, <1>0 DEF AInv, Fresh, TypeOK, Expire, Callback, SeeArmed, SetExpired,
         ClearArmed, WakeReaders, ScheduleRecovery, Recover, StartRecovery,
         SeeExpired, FollowPolicy, TriggerPanic, CallbackAt
    <2>7. QED
      BY <2>1, <2>4, <2>5, <2>6 DEF AInv
  <1>7. QED
    BY <1>1, <1>2, <1>4, <1>5, <1>6 DEF IInv

\* Opening, closing, and the exit function.
LEMMA ModuleKeeps ==
    ASSUME IInv, Open \/ Release \/ Unload \/ Exit
    PROVE  IInv'
  <1> USE DEF calm, flags, works
  <1>0. TypeOK /\ Use /\ Exiting
    BY DEF IInv
  <1>1. pc' = pc /\ UNCHANGED calm
    BY DEF Open, Release, Unload, Exit, ExitFlag, ExitTimer, ExitRecovery, ExitPanic
  <1>2. TypeOK'
    <2>1. /\ armed' \in BOOLEAN /\ expired' \in BOOLEAN /\ timer' \in BOOLEAN
          /\ work' \in BOOLEAN /\ panic_work' \in BOOLEAN /\ policy' = policy
          /\ panicked' = panicked /\ callback' = callback /\ recovery' = recovery
      BY <1>0 DEF TypeOK, Open, Release, Unload, Exit, ExitFlag, ExitTimer,
       ExitRecovery, ExitPanic, CancelTimer, CancelRecovery, CancelPanic
    <2>2. /\ owner' \in {"nobody", "open", "closed"}
          /\ exit' \in {"loaded", "unloaded"} \cup Disarming
      BY <1>0 DEF TypeOK, Open, Release, Unload, Exit, ExitFlag, ExitTimer,
       ExitRecovery, ExitPanic, Disarming, Cancels
    <2>3. QED
      BY <1>0, <1>1, <2>1, <2>2 DEF TypeOK
  <1>3. Use' /\ Exiting'
    BY <1>0 DEF TypeOK, Use, Exiting, Open, Release, Unload, Exit, ExitFlag, ExitTimer,
       ExitRecovery, ExitPanic, CancelTimer, CancelRecovery, CancelPanic,
       Disarming, Cancels
  <1>4. ASSUME ~overlap PROVE AInv'
    <2>0. AInv
      BY <1>4 DEF IInv
    <2>1. CASE Open \/ Release \/ Unload
      BY <2>0, <2>1 DEF AInv, Alone, Cancelled, Stage, Armed, Fresh, Open, Release, Unload
    <2>2. CASE Exit
      <3>1. \A t \in Threads : pc'[t] = "out"
        BY <2>2, <1>0, <1>1 DEF Exit, ExitFlag, ExitTimer, ExitRecovery, ExitPanic, Use
      <3>2. Alone' /\ Cancelled'
        BY <3>1 DEF Alone, Cancelled, Stage, Arming, Disarming, Cancels
      <3>3. armed' => armed /\ timer' = timer
        BY <2>2, <1>0 DEF Exit, ExitFlag, ExitTimer, ExitRecovery, ExitPanic, Exiting,
           Disarming, Cancels
      <3>4. UNCHANGED <<expired, callback, recovery>> /\ (panic_work' => panic_work)
        BY <2>2 DEF Exit, ExitFlag, ExitTimer, ExitRecovery, ExitPanic, CancelPanic
      <3>5. Armed' /\ Fresh'
        BY <3>3, <3>4, <2>0, <1>1 DEF AInv, Armed, Fresh
      <3>6. QED
        BY <3>2, <3>5 DEF AInv
    <2>3. QED
      BY <2>1, <2>2
  <1>5. QED
    BY <1>1, <1>2, <1>3, <1>4 DEF IInv

LEMMA Inductive == IInv /\ [Next]_vars => IInv'
  <1> SUFFICES ASSUME IInv, [Next]_vars PROVE IInv'
    OBVIOUS
  <1>1. ASSUME NEW t \in Threads, ThreadNext(t) PROVE IInv'
    <2>1. overlap' = overlap
      BY <1>1 DEF ThreadNext, Ping, PingTimer, Read, ReadCheck, Interrupted,
         SetPolicy, StorePolicy, Arm, Disarm, DisarmFlag, DeleteTimer,
         DeleteRecovery, DeletePanic, ArmClear, ArmSet, ArmStart, calm
    <2>2. ~overlap => AInv'
      BY <1>1, CallsKeep, ArmingKeeps DEF ThreadNext, IInv
    <2>3. QED
      BY <1>1, <2>1, <2>2, ThreadBasics DEF IInv
  <1>2. CASE Expire \/ Callback \/ Recover \/ TriggerPanic
    BY <1>2, KernelKeeps
  <1>3. CASE Open \/ Release \/ Unload \/ Exit
    BY <1>3, ModuleKeeps
  <1>4. CASE UNCHANGED vars
    BY <1>4 DEF vars, calm, flags, works, IInv, TypeOK, Use, Exiting, AInv, Alone,
       Cancelled, Stage, Armed, Fresh
  <1>5. QED
    BY <1>1, <1>2, <1>3, <1>4 DEF Next

----------------------------------------------------------------------------
(* The theorems                                                            *)

THEOREM Invariance == Spec => []IInv
  BY Initially, Inductive, PTL DEF Spec

\* The watchdog's state keeps its types: the callback, the works and the exit
\* function are always at one of their steps, and the policy is a known one.
THEOREM TypeCorrect == Spec => []TypeOK
  <1>1. IInv => TypeOK
    BY DEF IInv
  <1>2. QED
    BY <1>1, Invariance, PTL

\* After an exit without nowayout no timer, callback or work of the module is
\* pending or running.
THEOREM ExitIsQuiet == Spec => []GoneQuietly
  <1>1. IInv => GoneQuietly
    BY DEF IInv, Exiting, GoneQuietly, Quiet
  <1>2. QED
    BY <1>1, Invariance, PTL

\* While its owner arms and disarms one call at a time, an armed watchdog has
\* its timer running or its expiry under way, and nothing left from before its
\* arming brings it down.
THEOREM ArmedWatches == Spec => []ArmedAlone
  <1>1. IInv /\ ~overlap => Watching
    BY DEF IInv, AInv, Armed, Watching, Arming
  <1>2. IInv /\ ~overlap => Unharmed
    BY DEF IInv, AInv, Fresh, Unharmed
  <1>3. IInv => ArmedAlone
    BY <1>1, <1>2 DEF ArmedAlone
  <1>4. QED
    BY <1>3, Invariance, PTL
=============================================================================
