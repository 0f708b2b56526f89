---------------------------- MODULE ChrdevBlkIo ----------------------------
(***************************************************************************)
(* The character device with blocking and non-blocking reads and writes,   *)
(* drivers/chardev_blocking_io/src/chrdev_blk_io.c, one device of it.      *)
(*                                                                         *)
(* Every process may hold one open file and runs one call at a time; rmmod *)
(* runs the exit function.  A section under state_lock is one step, the    *)
(* wake-up that follows the unlock is another, and so is each part of      *)
(* wait_event: joining the queue, looking at the condition (without the    *)
(* lock), going to sleep.  Of the bytes in the kfifo only the number is    *)
(* kept.                                                                   *)
(*                                                                         *)
(* The kernel lets exit run while files are open only when the unload is   *)
(* forced; without that it first waits for every call to have returned.    *)
(* Step 1 of exit is written for the forced case, so Forced = TRUE is the  *)
(* interesting instance.                                                   *)
(***************************************************************************)
EXTENDS Integers, FiniteSets

CONSTANTS
    Procs,      \* the processes that use the device
    Cap,        \* FIFO_SIZE
    Forced      \* may the module be unloaded while it is in use?

ASSUME CapAssumption == Cap \in Nat \ {0}
ASSUME ProcsAssumption == IsFiniteSet(Procs)
ASSUME ForcedAssumption == Forced \in BOOLEAN

VARIABLES
    terminating,    \* the device's flag
    active_refs,    \* its count of open files
    len,            \* bytes in the kfifo
    pc,             \* where each process is
    call,           \* the call it is in: what it does, of how many bytes
    queued,         \* the processes on read_wq or write_wq
    exit            \* where the exit function is

vars == <<terminating, active_refs, len, pc, call, queued, exit>>

(***************************************************************************)
(* "poll_in" and "poll_out" are the calls of poll() that ask for POLLIN    *)
(* and for POLLOUT.                                                        *)
(***************************************************************************)
Ops == {"read", "write", "poll_in", "poll_out"}
Calls == [op : Ops, size : 0 .. Cap]

Waiting == {"top", "join", "check", "asleep"}
PCs == {"closed", "opening", "open", "wake", "term_read", "term_write",
        "closing"} \cup Waiting
ExitPCs == {"loaded", "wake_read", "wake_write", "join", "check", "asleep",
            "free", "unloaded"}

TypeOK ==
    /\ terminating \in BOOLEAN
    /\ active_refs \in 0 .. Cardinality(Procs)
    /\ len \in 0 .. Cap
    /\ pc \in [Procs -> PCs]
    /\ call \in [Procs -> Calls]
    /\ queued \subseteq Procs
    /\ exit \in ExitPCs

Idle == [op |-> "read", size |-> 0]

Init ==
    /\ terminating = FALSE
    /\ active_refs = 0
    /\ len = 0
    /\ pc = [p \in Procs |-> "closed"]
    /\ call = [p \in Procs |-> Idle]
    /\ queued = {}
    /\ exit = "loaded"

Goto(p, l) == pc' = [pc EXCEPT ![p] = l]

\* A call returns to the process.
Return(p) ==
    /\ Goto(p, "open")
    /\ call' = [call EXCEPT ![p] = Idle]

(***************************************************************************)
(* Can the call do its work?  The same test is made under the lock at the  *)
(* top of the loop and, with terminating, in wait_event without it.        *)
(***************************************************************************)
Able(c) ==
    \/ c.op \in {"read", "poll_in"} /\ len > 0
    \/ c.op = "write" /\ Cap - len >= c.size
    \/ c.op = "poll_out" /\ len < Cap

Ready(p) == terminating \/ Able(call[p])

\* poll registers on both queues, read and write on their own.
OnReadQueue(p) == call[p].op # "write"
OnWriteQueue(p) == call[p].op # "read"

WakeReaders == queued' = {p \in queued : ~OnReadQueue(p)}
WakeWriters == queued' = {p \in queued : ~OnWriteQueue(p)}

----------------------------------------------------------------------------
(* open and release                                                        *)

\* The kernel takes a reference to the module before it calls open.
StartOpen(p) ==
    /\ pc[p] = "closed"
    /\ exit = "loaded"
    /\ Goto(p, "opening")
    /\ UNCHANGED <<terminating, active_refs, len, call, queued, exit>>

\* Does not look at terminating.
SlipOpen(p) ==
    /\ pc[p] = "opening"
    /\ exit # "unloaded"
    /\ active_refs' = active_refs + 1
    /\ Goto(p, "open")
    /\ UNCHANGED <<terminating, len, call, queued, exit>>

Open(p) ==
    /\ pc[p] = "opening"
    /\ exit # "unloaded"
    /\ IF terminating
       THEN Goto(p, "closed") /\ UNCHANGED active_refs
       ELSE Goto(p, "open") /\ active_refs' = active_refs + 1
    /\ UNCHANGED <<terminating, len, call, queued, exit>>

Release(p) ==
    /\ pc[p] = "open"
    /\ active_refs' = active_refs - 1
    /\ Goto(p, IF active_refs = 1 THEN "closing" ELSE "closed")
    /\ UNCHANGED <<terminating, len, call, queued, exit>>

\* wake_up(&dev->term_wq): exit, if it sleeps there, looks again.
WakeExit(p) ==
    /\ pc[p] = "closing"
    /\ exit # "unloaded"
    /\ exit' = IF exit \in {"check", "asleep"} THEN "join" ELSE exit
    /\ Goto(p, "closed")
    /\ UNCHANGED <<terminating, active_refs, len, call, queued>>

----------------------------------------------------------------------------
(* read, write and poll                                                    *)

Start(p) ==
    /\ pc[p] = "open"
    /\ \E c \in Calls :
        /\ c.op \in {"poll_in", "poll_out"} => c.size = 0
        /\ call' = [call EXCEPT ![p] = c]
        \* poll registers before it looks, read and write look first
        /\ Goto(p, IF c.op \in {"poll_in", "poll_out"} THEN "join" ELSE "top")
    /\ UNCHANGED <<terminating, active_refs, len, queued, exit>>

\* -ENODEV once the device is terminating.
NoDevice(p) ==
    /\ pc[p] = "top"
    /\ terminating
    /\ Return(p)
    /\ UNCHANGED <<terminating, active_refs, len, queued, exit>>

(***************************************************************************)
(* kfifo_to_user takes at most what is there; when the copy faults it      *)
(* takes the bytes it managed to copy and the read returns -EFAULT.        *)
(***************************************************************************)
Read(p) ==
    /\ pc[p] = "top"
    /\ ~terminating
    /\ call[p].op = "read"
    /\ Able(call[p])
    /\ \E k \in 0 .. call[p].size :
        /\ k <= len
        /\ len' = len - k
    /\ Goto(p, "wake")
    /\ UNCHANGED <<terminating, active_refs, call, queued, exit>>

\* Looks for any room.
SlipWrite(p) ==
    /\ pc[p] = "top"
    /\ ~terminating
    /\ call[p].op = "write"
    /\ len < Cap
    /\ \E k \in 0 .. call[p].size : len' = len + k
    /\ Goto(p, "wake")
    /\ UNCHANGED <<terminating, active_refs, call, queued, exit>>

(***************************************************************************)
(* kfifo_from_user, the same way: all of the bytes, or on a fault those    *)
(* copied before it.                                                       *)
(***************************************************************************)
Write(p) ==
    /\ pc[p] = "top"
    /\ ~terminating
    /\ call[p].op = "write"
    /\ Able(call[p])
    /\ \E k \in 0 .. call[p].size : len' = len + k
    /\ Goto(p, "wake")
    /\ UNCHANGED <<terminating, active_refs, call, queued, exit>>

\* Wakes the queue the call itself would have waited on.
SlipWake(p) ==
    /\ pc[p] = "wake"
    /\ IF call[p].op = "read" THEN WakeReaders ELSE WakeWriters
    /\ Return(p)
    /\ UNCHANGED <<terminating, active_refs, len, exit>>

\* The wake-up after the unlock: a read wakes writers, a write readers.
Wake(p) ==
    /\ pc[p] = "wake"
    /\ IF call[p].op = "read" THEN WakeWriters ELSE WakeReaders
    /\ Return(p)
    /\ UNCHANGED <<terminating, active_refs, len, exit>>

\* -EAGAIN while the file has O_NONBLOCK set, which it may at any time.
Again(p) ==
    /\ pc[p] = "top"
    /\ ~Ready(p)
    /\ Return(p)
    /\ UNCHANGED <<terminating, active_refs, len, queued, exit>>

Block(p) ==
    /\ pc[p] = "top"
    /\ ~Ready(p)
    /\ Goto(p, "join")
    /\ UNCHANGED <<terminating, active_refs, len, call, queued, exit>>

\* prepare_to_wait, or poll_wait on the two queues.
Join(p) ==
    /\ pc[p] = "join"
    /\ queued' = queued \cup {p}
    /\ Goto(p, "check")
    /\ UNCHANGED <<terminating, active_refs, len, call, exit>>

(***************************************************************************)
(* The condition, looked at once the process is on its queue.  For a poll  *)
(* this is the driver's callback, and a true condition ends the call.      *)
(***************************************************************************)
Check(p) ==
    /\ pc[p] = "check"
    /\ IF Ready(p)
       THEN /\ queued' = queued \ {p}
            /\ IF call[p].op \in {"read", "write"}
               THEN Goto(p, "top") /\ UNCHANGED call
               ELSE Return(p)
       ELSE Goto(p, "asleep") /\ UNCHANGED <<queued, call>>
    /\ UNCHANGED <<terminating, active_refs, len, exit>>

\* A process taken off its queue runs again and looks again.
Awake(p) ==
    /\ pc[p] = "asleep"
    /\ p \notin queued
    /\ Goto(p, "join")
    /\ UNCHANGED <<terminating, active_refs, len, call, queued, exit>>

\* A signal ends the wait of a read, a write or a poll.
Signal(p) ==
    /\ pc[p] \in {"join", "asleep"}
    /\ queued' = queued \ {p}
    /\ Return(p)
    /\ UNCHANGED <<terminating, active_refs, len, exit>>

----------------------------------------------------------------------------
(* The ioctl CHRDEV_TERM                                                   *)

Terminate(p) ==
    /\ pc[p] = "open"
    /\ terminating' = TRUE
    /\ Goto(p, "term_read")
    /\ UNCHANGED <<active_refs, len, call, queued, exit>>

TermWakeReaders(p) ==
    /\ pc[p] = "term_read"
    /\ WakeReaders
    /\ Goto(p, "term_write")
    /\ UNCHANGED <<terminating, active_refs, len, call, exit>>

\* Wakes the readers only.
SlipTermWakeWriters(p) ==
    /\ pc[p] = "term_write"
    /\ Return(p)
    /\ UNCHANGED <<terminating, active_refs, len, queued, exit>>

TermWakeWriters(p) ==
    /\ pc[p] = "term_write"
    /\ WakeWriters
    /\ Return(p)
    /\ UNCHANGED <<terminating, active_refs, len, exit>>

----------------------------------------------------------------------------
(* chrdev_blk_exit                                                         *)

\* The module loader refuses to unload a module in use, unless forced to.
Unload ==
    /\ exit = "loaded"
    /\ Forced \/ \A p \in Procs : pc[p] = "closed"
    /\ terminating' = TRUE
    /\ exit' = "wake_read"
    /\ UNCHANGED <<active_refs, len, pc, call, queued>>

ExitWakeReaders ==
    /\ exit = "wake_read"
    /\ WakeReaders
    /\ exit' = "wake_write"
    /\ UNCHANGED <<terminating, active_refs, len, pc, call>>

ExitWakeWriters ==
    /\ exit = "wake_write"
    /\ WakeWriters
    /\ exit' = "join"
    /\ UNCHANGED <<terminating, active_refs, len, pc, call>>

ExitJoin ==
    /\ exit = "join"
    /\ exit' = "check"
    /\ UNCHANGED <<terminating, active_refs, len, pc, call, queued>>

\* wait_event(dev->term_wq, active_refs == 0)
ExitCheck ==
    /\ exit = "check"
    /\ exit' = IF active_refs = 0 THEN "free" ELSE "asleep"
    /\ UNCHANGED <<terminating, active_refs, len, pc, call, queued>>

ExitFree ==
    /\ exit = "free"
    /\ exit' = "unloaded"
    /\ UNCHANGED <<terminating, active_refs, len, pc, call, queued>>

----------------------------------------------------------------------------
\* What a process inside a call does without being asked.
Step(p) ==
    \/ Open(p) \/ WakeExit(p)
    \/ NoDevice(p) \/ Read(p) \/ Write(p) \/ Wake(p) \/ Again(p) \/ Block(p)
    \/ Join(p) \/ Check(p) \/ Awake(p)
    \/ TermWakeReaders(p) \/ TermWakeWriters(p)

Exit ==
    \/ ExitWakeReaders \/ ExitWakeWriters \/ ExitJoin \/ ExitCheck
    \/ ExitFree

Next ==
    \/ \E p \in Procs :
        \/ StartOpen(p) \/ Release(p) \/ Start(p) \/ Terminate(p) \/ Signal(p)
        \/ Step(p)
    \/ Unload
    \/ Exit

(***************************************************************************)
(* A process in a call is scheduled, and so is exit.  Nobody has to open,  *)
(* to call, to close, to send a signal or to unload.                       *)
(***************************************************************************)
Fairness ==
    /\ \A p \in Procs : WF_vars(Step(p))
    /\ WF_vars(Exit)

Spec == Init /\ [][Next]_vars /\ Fairness

----------------------------------------------------------------------------
(* Properties                                                              *)

\* Somebody has changed the state and is still to wake the queue of readers,
\* or of writers.
ReadersWoken ==
    \/ \E q \in Procs : pc[q] = "term_read"
    \/ \E q \in Procs : pc[q] = "wake" /\ call[q].op = "write"
    \/ exit = "wake_read"

WritersWoken ==
    \/ \E q \in Procs : pc[q] \in {"term_read", "term_write"}
    \/ \E q \in Procs : pc[q] = "wake" /\ call[q].op = "read"
    \/ exit \in {"wake_read", "wake_write"}

(***************************************************************************)
(* No lost wake-up, the readme's rule: a reader, a writer or a poller      *)
(* asleep on its queue while what it waits for is true is about to be      *)
(* woken, and so is exit once the last file is closed.  It relates wake_up *)
(* after the unlock in read, write, ioctl, release and exit to the         *)
(* condition wait_event reads without the lock.                            *)
(***************************************************************************)
NoLostWakeup ==
    /\ \A p \in Procs :
        pc[p] = "asleep" /\ p \in queued /\ Ready(p) =>
            \/ OnReadQueue(p) /\ ReadersWoken
            \/ OnWriteQueue(p) /\ WritersWoken
    /\ exit = "asleep" /\ active_refs = 0 => \E q \in Procs : pc[q] = "closing"

(***************************************************************************)
(* exit frees the device only when nobody has it open: open looks at       *)
(* terminating and counts itself under one lock, so after exit has set the *)
(* flag and seen the count 0 nobody gets in.  (A process in open before    *)
(* its lock, or in release after its decrement, may still be there under a *)
(* forced unload: see FreedUntouched.)                                     *)
(***************************************************************************)
FreedUnused ==
    exit \in {"free", "unloaded"} =>
        \A p \in Procs : pc[p] \in {"closed", "opening", "closing"}

(***************************************************************************)
(* Nobody is still to touch the device once it is freed.  Under a forced   *)
(* unload this does not hold: release calls wake_up(&dev->term_wq) after   *)
(* the decrement that lets exit go on, and open may be before its lock.    *)
(***************************************************************************)
FreedUntouched == exit = "unloaded" => \A p \in Procs : pc[p] = "closed"

(***************************************************************************)
(* Termination ends every blocked call (the readme's "sleeper processes    *)
(* must be unblocked on teardown"), and exit, once no file is open, ends.  *)
(***************************************************************************)
Unblocked ==
    /\ \A p \in Procs :
        terminating /\ pc[p] \in Waiting ~> pc[p] \notin Waiting
    /\ exit = "asleep" /\ active_refs = 0 ~> exit = "unloaded"
=============================================================================
