------------------------------- MODULE GpioLed -------------------------------
(***************************************************************************)
(* The LED driver drivers/gpio_led/src/gpio_led.c: an LED that is driven   *)
(* by hand (brightness), by a button or by a blink work, whichever the     *)
(* mode says, and whose new state a work item commits to the GPIO line.    *)
(*                                                                         *)
(* The mode is read without a lock and written under mode_lock; the state  *)
(* is written under state_lock and read without.  Every such access is a   *)
(* step.  A work item is pending, runs, or both: it is queued once at most *)
(* and never runs twice at the same time, so the mutex of the commit,      *)
(* which nobody else takes, is left out.  Of the blink duration only its   *)
(* sign is kept, and a delayed work may start whenever it is pending.      *)
(***************************************************************************)
EXTENDS Integers, FiniteSets

CONSTANTS
    Users,          \* threads that use the sysfs files and the LED device
    Blinker,        \* custom_blinker_worker_func
    Button,         \* button_press_worker_func
    Remover,        \* the thread that unbinds the driver
    Nobody,         \* mode_lock is free
    MaxCalls        \* bound: the most calls under way at once

ASSUME ThreadsAssumption ==
    /\ {Blinker, Button, Remover, Nobody} \cap Users = {}
    /\ Blinker # Button /\ Remover \notin {Blinker, Button}
    /\ Nobody \notin {Blinker, Button, Remover}
    /\ "commit" \notin {Blinker, Button}
    /\ MaxCalls \in Nat

VARIABLES
    sysfs_custom_blinker, button_press_control,     \* what probe could set up
    alone,              \* do a call and a press of the button never overlap?
    mode,
    led_state_enabled,
    blink_duration_ms,  \* 1 stands for every positive duration
    mode_lock,          \* who holds it
    pending,            \* the works that are queued: Blinker, Button, "commit"
    pc,                 \* where each thread is
    value,              \* the state it is about to set
    new_mode,           \* the mode a thread changes to
    storing,            \* is it in custom_blink_store?
    irq,                \* where the button's interrupt thread is
    commit,             \* where the commit work is, and the state it has read
    hw                  \* the GPIO line

probed == <<sysfs_custom_blinker, button_press_control, alone>>
led == <<led_state_enabled, value>>
change == <<mode_lock, new_mode, storing>>
line == <<commit, hw>>
vars == <<probed, mode, led, blink_duration_ms, change, pending, pc, irq, line>>

Workers == {Blinker, Button}
Callers == Users \cup {Remover}
Threads == Callers \cup Workers
Modes == {"manual", "button", "blink"}

\* In gpio_led_change_mode.
Changing == {"lock", "duration", "cancel", "off", "off_commit", "apply"}
\* In gpio_led_remove, after the change of mode.
Removing == {"cancel_commit", "cancel_button", "cancel_blink", "remove_blink",
             "last", "last_commit", "removed"}

TypeOK ==
    /\ sysfs_custom_blinker \in BOOLEAN /\ button_press_control \in BOOLEAN
    /\ alone \in BOOLEAN
    /\ mode \in Modes
    /\ led_state_enabled \in BOOLEAN /\ hw \in BOOLEAN
    /\ blink_duration_ms \in {0, 1}
    /\ mode_lock \in Callers \cup {Nobody}
    /\ pending \subseteq {Blinker, Button, "commit"}
    /\ pc \in [Threads -> {"out", "read", "set", "commit", "again",
                           "schedule"} \cup Changing \cup Removing]
    /\ value \in [Threads -> BOOLEAN]
    /\ new_mode \in [Callers -> Modes]
    /\ storing \in [Callers -> BOOLEAN]
    /\ irq \in {"idle", "schedule"}
    /\ commit \in {"idle", "on", "off"}

\* Each feature may fail to be set up, and is then off.
CreateCustomBlinker == sysfs_custom_blinker \in BOOLEAN
SetUpButton == button_press_control \in BOOLEAN

\* probe ends in manual mode, whatever the device tree asks for: the features
\* are not set up yet when it parses the default mode.
Init ==
    /\ CreateCustomBlinker /\ SetUpButton
    /\ alone \in BOOLEAN
    /\ mode = "manual"
    /\ led_state_enabled = FALSE /\ hw = FALSE
    /\ blink_duration_ms = 0
    /\ mode_lock = Nobody
    /\ pending = {}
    /\ pc = [t \in Threads |-> "out"]
    /\ value = [t \in Threads |-> FALSE]
    /\ new_mode = [t \in Callers |-> "manual"]
    /\ storing = [t \in Callers |-> FALSE]
    /\ irq = "idle"
    /\ commit = "idle"

\* The device is there: its memory and its works are freed with it.
Bound == pc[Remover] # "removed"

Goto(t, from, to) == Bound /\ pc[t] = from /\ pc' = [pc EXCEPT ![t] = to]
Queue(w) == pending' = pending \cup {w}

----------------------------------------------------------------------------
(* gpio_led_set_state                                                      *)

\* Commits only what has been turned on.
SlipSetState(t, from, queue, done) ==
    /\ IF led_state_enabled # value[t] /\ value[t]
       THEN Goto(t, from, queue)
       ELSE Goto(t, from, done)
    /\ led_state_enabled' = value[t]
    /\ value' = [value EXCEPT ![t] = FALSE]

\* The section under state_lock: who changes the state goes on to queue the
\* commit.
SetState(t, from, queue, done) ==
    /\ IF led_state_enabled # value[t]
       THEN Goto(t, from, queue)
       ELSE Goto(t, from, done)
    /\ led_state_enabled' = value[t]
    /\ value' = [value EXCEPT ![t] = FALSE]

QueueCommit(t, from, done) ==
    /\ Goto(t, from, done)
    /\ Queue("commit")

----------------------------------------------------------------------------
(* What users call                                                         *)

\* A thread may enter the driver.
Enters(t) ==
    /\ Bound /\ pc[t] = "out"
    /\ Cardinality({u \in Callers : pc[u] # "out"}) < MaxCalls
    /\ alone => irq = "idle" /\ \A u \in Callers : pc[u] = "out"

\* Keeps a negative duration.
SlipStoreBlink(u) ==
    /\ Enters(u)
    /\ sysfs_custom_blinker /\ pc[Remover] \notin {"last", "last_commit"}
    /\ Goto(u, "out", "lock")
    /\ \E temp \in {-1, 0, 1} :
        /\ blink_duration_ms' = temp
        /\ new_mode' = [new_mode EXCEPT
                          ![u] = IF temp > 0 THEN "blink" ELSE "manual"]
    /\ storing' = [storing EXCEPT ![u] = TRUE]
    /\ UNCHANGED <<probed, mode, led, mode_lock, pending, irq, line>>

\* custom_blink_store: the duration is stored before the mode changes.
StoreBlink(u) ==
    /\ Enters(u)
    /\ sysfs_custom_blinker /\ pc[Remover] \notin {"last", "last_commit"}
    /\ Goto(u, "out", "lock")
    /\ \E temp \in {0, 1} :
        /\ blink_duration_ms' = temp
        /\ new_mode' = [new_mode EXCEPT
                          ![u] = IF temp > 0 THEN "blink" ELSE "manual"]
    /\ storing' = [storing EXCEPT ![u] = TRUE]
    /\ UNCHANGED <<probed, mode, led, mode_lock, pending, irq, line>>

\* cancel_delayed_work, which does not wait, and schedule_delayed_work: the
\* work ends up queued, whether or not it ran meanwhile and queued itself.
ScheduleBlink(u) ==
    /\ Goto(u, "schedule", "out")
    /\ Queue(Blinker)
    /\ storing' = [storing EXCEPT ![u] = FALSE]
    /\ UNCHANGED <<probed, mode, led, blink_duration_ms, mode_lock, new_mode, irq,
                   line>>

\* gpio_led_set_brightness, of the LED device registered with the blinker.
SetBrightness(u) ==
    /\ Enters(u)
    /\ sysfs_custom_blinker
    /\ mode = "manual"
    /\ Goto(u, "out", "set")
    /\ \E on \in BOOLEAN : value' = [value EXCEPT ![u] = on]
    /\ UNCHANGED <<probed, mode, led_state_enabled, blink_duration_ms, change,
                   pending, irq, line>>

BrightnessSet(u) ==
    /\ SetState(u, "set", "commit", "out")
    /\ UNCHANGED <<probed, mode, blink_duration_ms, change, pending, irq,
                   line>>

BrightnessCommit(u) ==
    /\ QueueCommit(u, "commit", "out")
    /\ UNCHANGED <<probed, mode, led, blink_duration_ms, change, irq, line>>

----------------------------------------------------------------------------
(* gpio_led_change_mode, called by users and by remove                     *)

\* Where the caller goes on.
Caller(t) ==
    IF t = Remover THEN "cancel_commit"
    ELSE IF storing[t] /\ new_mode[t] = "blink" THEN "schedule" ELSE "out"

Returns(t) ==
    /\ Goto(t, pc[t], Caller(t))
    /\ new_mode' = [new_mode EXCEPT ![t] = "manual"]
    /\ storing' = [storing EXCEPT ![t] = Caller(t) = "schedule"]

\* Nothing to do when the mode is the old one, not even to turn the LED off.
SameMode(t) ==
    /\ pc[t] = "lock" /\ mode_lock = Nobody
    /\ mode = new_mode[t]
    /\ Returns(t)
    /\ UNCHANGED <<probed, mode, led, blink_duration_ms, mode_lock, pending, irq,
                   line>>

TakesLock(t) ==
    /\ mode_lock = Nobody
    /\ mode_lock' = t
    /\ value' = [value EXCEPT ![t] = FALSE]
    /\ Goto(t, pc[t], CASE mode = "blink" -> "duration"
                        [] mode = "button" -> "cancel"
                        [] mode = "manual" -> "off")

OtherMode(t) ==
    /\ pc[t] = "lock"
    /\ mode # new_mode[t]
    /\ TakesLock(t)
    /\ UNCHANGED <<probed, mode, led_state_enabled, blink_duration_ms, new_mode,
                   storing, pending, irq, line>>

\* led_mode_override_store, which does nothing before it takes mode_lock, and
\* nothing at all when the mode is the old one.
Override(u) ==
    /\ Enters(u)
    /\ \E m \in Modes \ {mode} : new_mode' = [new_mode EXCEPT ![u] = m]
    /\ TakesLock(u)
    /\ UNCHANGED <<probed, mode, led_state_enabled, blink_duration_ms, storing,
                   pending, irq, line>>

\* Leaves the duration to the next mode.
SlipStopBlinking(t) ==
    /\ Goto(t, "duration", "cancel")
    /\ UNCHANGED <<probed, mode, led, blink_duration_ms, change, pending, irq,
                   line>>

StopBlinking(t) ==
    /\ Goto(t, "duration", "cancel")
    /\ blink_duration_ms' = 0
    /\ UNCHANGED <<probed, mode, led, change, pending, irq, line>>

\* The worker of the mode there is.
Worker == IF mode = "blink" THEN Blinker ELSE Button

\* Does not wait for the work that runs.
SlipCancelSync(w) == pending' = pending \ {w}

\* cancel_work_sync, cancel_delayed_work_sync
CancelSync(w) ==
    /\ IF w = "commit" THEN commit = "idle" ELSE pc[w] = "out"
    /\ pending' = pending \ {w}

CancelWorker(t) ==
    /\ Goto(t, "cancel", "off")
    /\ CancelSync(Worker)
    /\ UNCHANGED <<probed, mode, led, blink_duration_ms, change, irq, line>>

TurnOff(t) ==
    /\ SetState(t, "off", "off_commit", "apply")
    /\ UNCHANGED <<probed, mode, blink_duration_ms, change, pending, irq,
                   line>>

TurnOffCommit(t) ==
    /\ QueueCommit(t, "off_commit", "apply")
    /\ UNCHANGED <<probed, mode, led, blink_duration_ms, change, irq, line>>

\* A mode that probe could not set up is manual mode.
Apply(t) ==
    /\ pc[t] = "apply"
    /\ Returns(t)
    /\ mode' = IF \/ new_mode[t] = "blink" /\ ~sysfs_custom_blinker
                  \/ new_mode[t] = "button" /\ ~button_press_control
               THEN "manual" ELSE new_mode[t]
    /\ mode_lock' = Nobody
    /\ UNCHANGED <<probed, led, blink_duration_ms, pending, irq, line>>

----------------------------------------------------------------------------
(* The two workers                                                         *)

\* The work starts and looks at the mode, which is all it does when the mode
\* is not its own.
Starts(w) ==
    /\ w \in pending
    /\ Goto(w, "out", IF Worker = w /\ mode # "manual" THEN "read" ELSE "out")
    /\ pending' = pending \ {w}
    /\ UNCHANGED <<probed, mode, led, blink_duration_ms, change, irq, line>>

\* !priv->led_state_enabled, evaluated before state_lock is taken.
ReadsState(w) ==
    /\ Goto(w, "read", "set")
    /\ value' = [value EXCEPT ![w] = ~led_state_enabled]
    /\ UNCHANGED <<probed, mode, led_state_enabled, blink_duration_ms, change,
                   pending, irq, line>>

AfterToggle(w) == IF w = Blinker THEN "again" ELSE "out"

Toggles(w) ==
    /\ SetState(w, "set", "commit", AfterToggle(w))
    /\ UNCHANGED <<probed, mode, blink_duration_ms, change, pending, irq,
                   line>>

TogglesCommit(w) ==
    /\ QueueCommit(w, "commit", AfterToggle(w))
    /\ UNCHANGED <<probed, mode, led, blink_duration_ms, change, irq, line>>

\* The blink work queues itself while there is a duration.  (Whoever takes the
\* duration away under mode_lock then waits for this work.)
BlinkAgain ==
    /\ Goto(Blinker, "again", "out")
    /\ IF blink_duration_ms > 0 THEN Queue(Blinker) ELSE UNCHANGED pending
    /\ UNCHANGED <<probed, mode, led, blink_duration_ms, change, irq, line>>

----------------------------------------------------------------------------
(* The button's interrupt, real or forced through button_irq_sim           *)

\* The thread looks at the mode and ends there in any other.
Press ==
    /\ Bound
    /\ button_press_control
    /\ irq = "idle" /\ mode = "button"
    /\ alone => \A u \in Callers : pc[u] = "out"
    /\ irq' = "schedule"
    /\ UNCHANGED <<probed, mode, led, blink_duration_ms, change, pending, pc,
                   line>>

PressSchedule ==
    /\ Bound
    /\ irq = "schedule"
    /\ irq' = "idle"
    /\ Queue(Button)
    /\ UNCHANGED <<probed, mode, led, blink_duration_ms, change, pc, line>>

----------------------------------------------------------------------------
(* gpio_led_commit_hw_state                                                *)

\* The work starts and reads the state, without state_lock.
CommitRead ==
    /\ Bound
    /\ "commit" \in pending /\ commit = "idle"
    /\ pending' = pending \ {"commit"}
    /\ commit' = IF led_state_enabled THEN "on" ELSE "off"
    /\ UNCHANGED <<probed, mode, led, blink_duration_ms, change, pc, irq, hw>>

CommitWrite ==
    /\ Bound
    /\ commit \in {"on", "off"}
    /\ hw' = (commit = "on")
    /\ commit' = "idle"
    /\ UNCHANGED <<probed, mode, led, blink_duration_ms, change, pending, pc, irq>>

----------------------------------------------------------------------------
(* gpio_led_remove                                                         *)

Remove ==
    /\ Enters(Remover)
    /\ Goto(Remover, "out", "lock")
    /\ new_mode' = [new_mode EXCEPT ![Remover] = "manual"]
    /\ UNCHANGED <<probed, mode, led, blink_duration_ms, mode_lock, storing,
                   pending, irq, line>>

RemoveCommit ==
    /\ Goto(Remover, "cancel_commit", "cancel_button")
    /\ CancelSync("commit")
    /\ UNCHANGED <<probed, mode, led, blink_duration_ms, change, irq, line>>

RemoveButton ==
    /\ Goto(Remover, "cancel_button", "cancel_blink")
    /\ IF button_press_control THEN CancelSync(Button) ELSE UNCHANGED pending
    /\ UNCHANGED <<probed, mode, led, blink_duration_ms, change, irq, line>>

RemoveBlink ==
    /\ Goto(Remover, "cancel_blink", "remove_blink")
    /\ IF sysfs_custom_blinker THEN CancelSync(Blinker) ELSE UNCHANGED pending
    /\ UNCHANGED <<probed, mode, led, blink_duration_ms, change, irq, line>>

\* device_remove_file waits for the stores that are under way.
RemoveBlinkFile ==
    /\ \A u \in Users : ~storing[u]
    /\ Goto(Remover, "remove_blink", "last")
    /\ value' = [value EXCEPT ![Remover] = FALSE]
    /\ UNCHANGED <<probed, mode, led_state_enabled, blink_duration_ms, change,
                   pending, irq, line>>

RemoveOff ==
    /\ SetState(Remover, "last", "last_commit", "removed")
    /\ UNCHANGED <<probed, mode, blink_duration_ms, change, pending, irq,
                   line>>

RemoveOffCommit ==
    /\ QueueCommit(Remover, "last_commit", "removed")
    /\ UNCHANGED <<probed, mode, led, blink_duration_ms, change, irq, line>>

----------------------------------------------------------------------------
UserStep(u) ==
    \/ Override(u) \/ StoreBlink(u) \/ ScheduleBlink(u)
    \/ SetBrightness(u) \/ BrightnessSet(u) \/ BrightnessCommit(u)

ChangeMode(t) ==
    \/ SameMode(t) \/ OtherMode(t) \/ StopBlinking(t) \/ CancelWorker(t)
    \/ TurnOff(t) \/ TurnOffCommit(t) \/ Apply(t)

WorkerStep(w) ==
    \/ Starts(w) \/ ReadsState(w) \/ Toggles(w) \/ TogglesCommit(w)

RemoveStep ==
    \/ Remove \/ RemoveCommit \/ RemoveButton \/ RemoveBlink
    \/ RemoveBlinkFile \/ RemoveOff \/ RemoveOffCommit

Next ==
    \/ \E u \in Users : UserStep(u)
    \/ \E t \in Callers : ChangeMode(t)
    \/ \E w \in Workers : WorkerStep(w)
    \/ BlinkAgain
    \/ Press \/ PressSchedule
    \/ CommitRead \/ CommitWrite
    \/ RemoveStep

Spec == Init /\ [][Next]_vars

----------------------------------------------------------------------------
(* Properties                                                              *)

\* Somebody has changed the state and is still to queue the commit.
CommitDue ==
    \E t \in Threads : pc[t] \in {"commit", "off_commit", "last_commit"}

(***************************************************************************)
(* The line shows the state whenever no commit is queued, running or due:  *)
(* set_state queues one after every change it makes, and a commit queued   *)
(* while one runs is run again.  (Until remove cancels it.)                *)
(***************************************************************************)
HwAgrees ==
    \/ pc[Remover] \in Removing
    \/ CommitDue \/ "commit" \in pending \/ commit # "idle"
    \/ hw = led_state_enabled

\* A store is going to queue the blink work.
BlinkDue ==
    \E u \in Users :
        pc[u] = "schedule" \/ (storing[u] /\ new_mode[u] = "blink")

(***************************************************************************)
(* An LED that is to blink does: in blink mode with a duration, and with   *)
(* no store about to, the blink work is queued or runs, however the        *)
(* stores, changes of mode and the work itself followed each other, until  *)
(* remove cancels it.                                                      *)
(***************************************************************************)
BlinkGoesOn ==
    mode = "blink" /\ blink_duration_ms > 0 /\ ~BlinkDue
    /\ pc[Remover] \notin Removing
        => Blinker \in pending \/ pc[Blinker] # "out"

(***************************************************************************)
(* "Only the active controller policy is allowed to change the state of    *)
(* LED": who is about to change it does so in its own mode.                *)
(***************************************************************************)
OnlyActive ==
    /\ pc[Blinker] \in {"read", "set"} => mode = "blink"
    /\ pc[Button] \in {"read", "set"} => mode = "button"
    /\ \A u \in Users : pc[u] = "set" => mode = "manual"

\* That, while calls and presses do not overlap: a change of mode cancels the
\* work of the old mode and waits for it.  (It does not stop the interrupt or
\* a store from queueing the work again before the mode is changed.)
OnlyActiveAlone == alone => OnlyActive

\* "Turn off led gpio": the LED is dark when the driver is gone.  Remove may
\* cancel the commit of the change of mode, and then finds the state off.
DarkWhenRemoved == ~Bound /\ "commit" \notin pending => ~hw

\* Nothing of the driver is left to run when it is gone.  The commit of
\* remove's own set_state is.
QuietWhenRemoved == ~Bound => pending = {}
=============================================================================
