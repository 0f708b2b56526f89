------------------------------ MODULE Watchdog ------------------------------
(***************************************************************************)
(* The software watchdog, drivers/simple_wd_timer/src/sw_wd_timer_mod.c,   *)
(* one of its devices.                                                     *)
(*                                                                         *)
(* The file that opened the device may be used by several threads at once. *)
(* Against them run the timer's callback, in an interrupt, the recovery    *)
(* work and the delayed panic work, on other CPUs.  Only owner_lock is a   *)
(* lock; armed and expired are atomics read and written one at a time, so  *)
(* every access is a step.                                                 *)
(*                                                                         *)
(* Time is left out: a pending timer may run out at any moment, whenever   *)
(* it was last set.  So are the number of pings, the length of the         *)
(* timeout and of the delay before the panic.                              *)
(***************************************************************************)
EXTENDS Integers, FiniteSets

CONSTANT Threads    \* that share the file

VARIABLES
    nowayout,       \* the module's parameter
    overlap,        \* may two threads arm or disarm at the same time?
    owner,          \* nobody, an open file, or one closed under nowayout
    armed, expired, \* the two atomics
    timer,          \* is detect_expiry pending?
    callback,       \* where its callback is
    work,           \* is recovery_work pending?
    recovery,       \* where that work is when it runs
    panic_work,     \* is the delayed work pending?
    panicked,       \* the kernel has panicked, and stands still
    policy,         \* recovery_policy
    pc,             \* where each thread is
    exit            \* where the exit function is

calm == <<nowayout, overlap>>
flags == <<armed, expired>>
works == <<work, recovery, panic_work, panicked>>
vars == <<calm, owner, flags, timer, callback, works, policy, pc, exit>>

Policies == {"panic", "log", "delayed_panic"}

\* sw_wd_timer_disarm without its flag, and the start of an arming.
Cancels == {"timer", "recovery", "panic"}
Arming == {"arm_timer", "arm_recovery", "arm_panic", "clear", "set", "start"}
Disarming == {"disarm"} \cup Cancels

TypeOK ==
    /\ nowayout \in BOOLEAN /\ overlap \in BOOLEAN
    /\ owner \in {"nobody", "open", "closed"}
    /\ armed \in BOOLEAN /\ expired \in BOOLEAN
    /\ timer \in BOOLEAN /\ work \in BOOLEAN
    /\ panic_work \in BOOLEAN /\ panicked \in BOOLEAN
    /\ callback \in {"none", "start", "expire", "disarm", "wake", "schedule"}
    /\ recovery \in {"none", "start", "policy"}
    /\ policy \in Policies
    /\ pc \in [Threads -> {"out", "ping", "policy", "read", "asleep"}
                            \cup Arming \cup Disarming]
    /\ exit \in {"loaded", "unloaded"} \cup Disarming

Init ==
    /\ nowayout \in BOOLEAN /\ overlap \in BOOLEAN
    /\ owner = "nobody"
    /\ armed = FALSE /\ expired = FALSE
    /\ timer = FALSE /\ work = FALSE
    /\ panic_work = FALSE /\ panicked = FALSE
    /\ callback = "none" /\ recovery = "none"
    /\ policy = "log"
    /\ pc = [t \in Threads |-> "out"]
    /\ exit = "loaded"

Goto(t, l) == pc' = [pc EXCEPT ![t] = l]

----------------------------------------------------------------------------
(* The file.  Only the file that owns the device is ever open, so the test *)
(* for the owner at the head of every call cannot fail.                    *)

Open ==
    /\ ~panicked
    /\ owner = "nobody"
    /\ exit = "loaded"
    /\ owner' = "open"
    /\ UNCHANGED <<calm, flags, timer, callback, works, policy, pc, exit>>

\* The last use of the file ends.  Nothing is disarmed.
Release ==
    /\ ~panicked
    /\ owner = "open"
    /\ \A t \in Threads : pc[t] = "out"
    /\ owner' = IF nowayout THEN "closed" ELSE "nobody"
    /\ UNCHANGED <<calm, flags, timer, callback, works, policy, pc, exit>>

\* A thread makes a call: it goes from "out" to a label.
Calls(t) ==
    /\ ~panicked
    /\ owner = "open"
    /\ pc[t] = "out"

At(t, l) == ~panicked /\ pc[t] = l

\* Another thread is arming or disarming, and calls do not overlap.
Busy == ~overlap /\ \E t \in Threads : pc[t] \in Arming \cup Disarming

----------------------------------------------------------------------------
(* write: a ping                                                           *)

\* The ping of a disarmed watchdog is refused.
Ping(t) ==
    /\ Calls(t)
    /\ armed
    /\ Goto(t, "ping")
    /\ UNCHANGED <<calm, owner, flags, timer, callback, works, policy, exit>>

PingTimer(t) ==
    /\ At(t, "ping")
    /\ timer' = TRUE
    /\ Goto(t, "out")
    /\ UNCHANGED <<calm, owner, flags, callback, works, policy, exit>>

----------------------------------------------------------------------------
(* read: waits for the expiry                                              *)

Read(t) ==
    /\ Calls(t)
    /\ Goto(t, "read")
    /\ UNCHANGED <<calm, owner, flags, timer, callback, works, policy, exit>>

ReadCheck(t) ==
    /\ At(t, "read")
    /\ Goto(t, IF expired THEN "out" ELSE "asleep")
    /\ UNCHANGED <<calm, owner, flags, timer, callback, works, policy, exit>>

Interrupted(t) ==
    /\ At(t, "asleep")
    /\ Goto(t, "out")
    /\ UNCHANGED <<calm, owner, flags, timer, callback, works, policy, exit>>

----------------------------------------------------------------------------
(* ioctl                                                                   *)

\* WD_SET_RECOVERY_POLICY, of a watchdog that is not armed.
SetPolicy(t) ==
    /\ Calls(t)
    /\ ~armed
    /\ Goto(t, "policy")
    /\ UNCHANGED <<calm, owner, flags, timer, callback, works, policy, exit>>

\* Stores any number.
SlipStorePolicy(t) ==
    /\ At(t, "policy")
    /\ policy' \in Policies \cup {"max"}
    /\ Goto(t, "out")
    /\ UNCHANGED <<calm, owner, flags, timer, callback, works, exit>>

StorePolicy(t) ==
    /\ At(t, "policy")
    /\ policy' \in Policies
    /\ Goto(t, "out")
    /\ UNCHANGED <<calm, owner, flags, timer, callback, works, exit>>

\* WD_ARM: EBUSY while it is armed and has not expired.
Arm(t) ==
    /\ Calls(t)
    /\ ~Busy
    /\ ~armed \/ expired
    /\ Goto(t, "arm_timer")
    /\ UNCHANGED <<calm, owner, flags, timer, callback, works, policy, exit>>

\* WD_DISARM has no effect under nowayout.
Disarm(t) ==
    /\ Calls(t)
    /\ ~Busy
    /\ ~nowayout
    /\ Goto(t, "disarm")
    /\ UNCHANGED <<calm, owner, flags, timer, callback, works, policy, exit>>

DisarmFlag(t) ==
    /\ At(t, "disarm")
    /\ armed' = FALSE
    /\ Goto(t, "timer")
    /\ UNCHANGED <<calm, owner, expired, timer, callback, works, policy, exit>>

----------------------------------------------------------------------------
(* The three cancellations, each of which waits for what already runs:     *)
(* timer_delete_sync, cancel_work_sync, cancel_delayed_work_sync.  The     *)
(* panic, once it runs, does not end.                                      *)

\* Does not wait for a callback that runs.
SlipCancelTimer == timer' = FALSE

CancelTimer == callback = "none" /\ timer' = FALSE

\* Does not wait for a recovery that runs.
SlipCancelRecovery == work' = FALSE

CancelRecovery == recovery = "none" /\ work' = FALSE

CancelPanic == panic_work' = FALSE

DeleteTimer(t) ==
    /\ \/ At(t, "arm_timer") /\ Goto(t, "arm_recovery")
       \/ At(t, "timer") /\ Goto(t, "recovery")
    /\ CancelTimer
    /\ UNCHANGED <<calm, owner, flags, callback, works, policy, exit>>

DeleteRecovery(t) ==
    /\ \/ At(t, "arm_recovery") /\ Goto(t, "arm_panic")
       \/ At(t, "recovery") /\ Goto(t, "panic")
    /\ CancelRecovery
    /\ UNCHANGED <<calm, owner, flags, timer, callback, recovery, panic_work,
                   panicked, policy, exit>>

DeletePanic(t) ==
    /\ \/ At(t, "arm_panic") /\ Goto(t, "clear")
       \/ At(t, "panic") /\ Goto(t, "out")
    /\ CancelPanic
    /\ UNCHANGED <<calm, owner, flags, timer, callback, work, recovery,
                   panicked, policy, exit>>

ArmClear(t) ==
    /\ At(t, "clear")
    /\ expired' = FALSE
    /\ Goto(t, "set")
    /\ UNCHANGED <<calm, owner, armed, timer, callback, works, policy, exit>>

ArmSet(t) ==
    /\ At(t, "set")
    /\ armed' = TRUE
    /\ Goto(t, "start")
    /\ UNCHANGED <<calm, owner, expired, timer, callback, works, policy, exit>>

\* Forgets the timer.
SlipArmStart(t) ==
    /\ At(t, "start")
    /\ Goto(t, "out")
    /\ UNCHANGED <<calm, owner, flags, timer, callback, works, policy, exit>>

ArmStart(t) ==
    /\ At(t, "start")
    /\ timer' = TRUE
    /\ Goto(t, "out")
    /\ UNCHANGED <<calm, owner, flags, callback, works, policy, exit>>

----------------------------------------------------------------------------
(* sw_wd_timer_handle_expire, the timer's callback                         *)

Expire ==
    /\ ~panicked
    /\ timer /\ callback = "none"
    /\ timer' = FALSE
    /\ callback' = "start"
    /\ UNCHANGED <<calm, owner, flags, works, policy, pc, exit>>

CallbackAt(l) == ~panicked /\ callback = l

SeeArmed ==
    /\ CallbackAt("start")
    /\ callback' = IF armed THEN "expire" ELSE "none"
    /\ UNCHANGED <<calm, owner, flags, timer, works, policy, pc, exit>>

SetExpired ==
    /\ CallbackAt("expire")
    /\ expired' = TRUE
    /\ callback' = IF expired THEN "none" ELSE "disarm"
    /\ UNCHANGED <<calm, owner, armed, timer, works, policy, pc, exit>>

ClearArmed ==
    /\ CallbackAt("disarm")
    /\ armed' = FALSE
    /\ callback' = "wake"
    /\ UNCHANGED <<calm, owner, expired, timer, works, policy, pc, exit>>

WakeReaders ==
    /\ CallbackAt("wake")
    /\ pc' = [t \in Threads |-> IF pc[t] = "asleep" THEN "read" ELSE pc[t]]
    /\ callback' = "schedule"
    /\ UNCHANGED <<calm, owner, flags, timer, works, policy, exit>>

ScheduleRecovery ==
    /\ CallbackAt("schedule")
    /\ work' = TRUE
    /\ callback' = "none"
    /\ UNCHANGED <<calm, owner, flags, timer, recovery, panic_work, panicked,
                   policy, pc, exit>>

----------------------------------------------------------------------------
(* sw_wd_timer_handle_recovery and sw_wd_timer_trigger_panic, in workers   *)

StartRecovery ==
    /\ ~panicked
    /\ work /\ recovery = "none"
    /\ work' = FALSE
    /\ recovery' = "start"
    /\ UNCHANGED <<calm, owner, flags, timer, callback, panic_work, panicked,
                   policy, pc, exit>>

SeeExpired ==
    /\ ~panicked
    /\ recovery = "start"
    /\ recovery' = IF expired THEN "policy" ELSE "none"
    /\ UNCHANGED <<calm, owner, flags, timer, callback, work, panic_work,
                   panicked, policy, pc, exit>>

\* Schedules no panic at once.
SlipFollowPolicy ==
    /\ ~panicked
    /\ recovery = "policy"
    /\ panic_work' = (panic_work \/ policy = "delayed_panic")
    /\ recovery' = "none"
    /\ UNCHANGED <<calm, owner, flags, timer, callback, work, panicked,
                   policy, pc, exit>>

FollowPolicy ==
    /\ ~panicked
    /\ recovery = "policy"
    /\ panic_work' = (panic_work \/ policy # "log")
    /\ recovery' = "none"
    /\ UNCHANGED <<calm, owner, flags, timer, callback, work, panicked,
                   policy, pc, exit>>

TriggerPanic ==
    /\ ~panicked
    /\ panic_work
    /\ panic_work' = FALSE
    /\ panicked' = TRUE
    /\ UNCHANGED <<calm, owner, flags, timer, callback, work, recovery, policy,
                   pc, exit>>

----------------------------------------------------------------------------
(* sw_wd_timer_exit: possible when no file is open.  Under nowayout        *)
(* sw_wd_timer_disarm returns at once and nothing is cancelled.            *)

Unload ==
    /\ ~panicked
    /\ exit = "loaded"
    /\ owner # "open"
    /\ exit' = IF nowayout THEN "unloaded" ELSE "disarm"
    /\ UNCHANGED <<calm, owner, flags, timer, callback, works, policy, pc>>

ExitFlag ==
    /\ ~panicked
    /\ exit = "disarm"
    /\ armed' = FALSE
    /\ exit' = "timer"
    /\ UNCHANGED <<calm, owner, expired, timer, callback, works, policy, pc>>

ExitTimer ==
    /\ ~panicked
    /\ exit = "timer"
    /\ CancelTimer
    /\ exit' = "recovery"
    /\ UNCHANGED <<calm, owner, flags, callback, works, policy, pc>>

ExitRecovery ==
    /\ ~panicked
    /\ exit = "recovery"
    /\ CancelRecovery
    /\ exit' = "panic"
    /\ UNCHANGED <<calm, owner, flags, timer, callback, recovery, panic_work,
                   panicked, policy, pc>>

ExitPanic ==
    /\ ~panicked
    /\ exit = "panic"
    /\ CancelPanic
    /\ exit' = "unloaded"
    /\ UNCHANGED <<calm, owner, flags, timer, callback, work, recovery,
                   panicked, policy, pc>>

----------------------------------------------------------------------------
Callback == SeeArmed \/ SetExpired \/ ClearArmed \/ WakeReaders \/ ScheduleRecovery
Recover == StartRecovery \/ SeeExpired \/ FollowPolicy
Exit == ExitFlag \/ ExitTimer \/ ExitRecovery \/ ExitPanic

ThreadNext(t) ==
    \/ Ping(t) \/ PingTimer(t)
    \/ Read(t) \/ ReadCheck(t) \/ Interrupted(t)
    \/ SetPolicy(t) \/ StorePolicy(t)
    \/ Arm(t) \/ Disarm(t) \/ DisarmFlag(t)
    \/ DeleteTimer(t) \/ DeleteRecovery(t) \/ DeletePanic(t)
    \/ ArmClear(t) \/ ArmSet(t) \/ ArmStart(t)

Next ==
    \/ Open \/ Release
    \/ \E t \in Threads : ThreadNext(t)
    \/ Expire \/ Callback
    \/ Recover \/ TriggerPanic
    \/ Unload \/ Exit

Spec == Init /\ [][Next]_vars

\* The kernel runs a callback that has begun and work that is queued.  No
\* thread has to call, and the timer may always be pinged in time.
FairSpec == Spec /\ WF_vars(Callback) /\ WF_vars(Recover) /\ WF_vars(TriggerPanic)

----------------------------------------------------------------------------
(* Properties                                                              *)

\* The kernel's own part is at rest.
Quiet ==
    /\ ~timer /\ callback = "none"
    /\ ~work /\ recovery = "none"
    /\ ~panic_work

\* Once the module is gone nothing of it runs: exit cancels the timer first,
\* then the work the timer schedules, then the work that schedules.  (Under
\* nowayout exit cancels nothing, and this does not hold.)
GoneQuietly == exit = "unloaded" /\ ~nowayout => Quiet

(***************************************************************************)
(* "If our watchdog is armed, and timeout expires without a ping ..., the  *)
(* system must not be left operational ... without triggering the          *)
(* configured recovery": while it is armed and nobody is inside a call,    *)
(* its timer is running or its callback is.                                *)
(***************************************************************************)
Watching ==
    armed /\ ~panicked /\ (\A t \in Threads : pc[t] \notin Arming \cup Disarming)
        => timer \/ callback # "none" \/ exit # "loaded"

(***************************************************************************)
(* A watchdog that has been armed again is not brought down by the expiry  *)
(* before: arming cancels the timer, the recovery and the panic, in this   *)
(* order, before it clears expired.                                        *)
(***************************************************************************)
Unharmed ==
    armed /\ ~expired => ~panic_work /\ recovery # "policy"

(***************************************************************************)
(* While no two threads arm or disarm at the same time, the armed watchdog *)
(* watches, and nothing left from before its arming brings it down.        *)
(***************************************************************************)
ArmedAlone == ~overlap => Watching /\ Unharmed

(***************************************************************************)
(* An expiry is followed by the recovery its policy asks for, unless the   *)
(* watchdog is armed or disarmed again, or the policy changed, before it.  *)
(* (An arming that overlaps another can clear expired just before the work *)
(* looks at it.)                                                           *)
(***************************************************************************)
Recovers ==
    ~overlap /\ callback = "schedule" /\ policy = "panic" ~>
        \/ panicked
        \/ policy # "panic"
        \/ exit # "loaded"
        \/ \E t \in Threads : pc[t] \in Arming \cup Disarming
=============================================================================
