------------------------------ MODULE Telemetry ------------------------------
(***************************************************************************)
(* telemetry_simple: a device one process at a time can open, a kernel     *)
(* thread that produces a record a second while it is open, and the ring   *)
(* between the two (telemetry_ring.c), which uses no lock: an index at     *)
(* each end and a separate count of the records available.                 *)
(*                                                                         *)
(* Every shared access of the ring is a step.  wait_event looks at its     *)
(* condition after it has joined the wait queue, so looking and going to   *)
(* sleep is one step, and only a wake_up ends the sleep.  Memory is        *)
(* sequentially consistent here; the driver uses no barrier of its own.    *)
(*                                                                         *)
(* A file is released when its last use ends, so no read runs during       *)
(* telemetry_release and `shutdown_session` never ends a read; the module  *)
(* is not unloaded while a file is open.                                   *)
(***************************************************************************)
EXTENDS Integers

CONSTANTS
  Procs,       \* processes that use the device
  Size,        \* buf->capacity: one more than ring_init's argument
  MaxRead,     \* bound: the most records one read asks for
  MaxSeq       \* bound: no record is generated after MaxSeq of them

ASSUME TelemetryAssumption == /\ Size \in Nat \ {0, 1}
                              /\ MaxRead \in Nat \ {0}
                              /\ MaxSeq \in Nat

VARIABLES
  records, read_idx, write_idx, available,   \* struct telemetry_ring_buf
  seq_no,
  has_owner, shutdown_session,
  thread,           \* where producer_thread_fn stands, "none" without a thread
  should_stop,      \* kthread_stop has been called on it
  pc,               \* where each process stands
  want,             \* records the current read is still to pop
  got,              \* the record it popped last, 0 again when the read is over
  first             \* seq_no when the session began

ring_buf == <<records, read_idx, write_idx, available>>
session == <<has_owner, shutdown_session, should_stop, first>>
telVars == <<ring_buf, session, seq_no, thread, pc, want, got>>

Cells == 0 .. Size - 1

TelTypeOK ==
  /\ records \in [Cells -> Nat]
  /\ read_idx \in Cells /\ write_idx \in Cells
  /\ available \in 0 .. Size
  /\ seq_no \in Nat
  /\ has_owner \in BOOLEAN /\ shutdown_session \in BOOLEAN
  /\ should_stop \in BOOLEAN
  /\ thread \in {"none", "generate", "wait", "asleep", "copy", "publish",
                 "count", "wake", "sleep", "exited", "gone"}
  /\ pc \in [Procs -> {"closed", "opening", "open", "wait", "asleep", "size",
                       "copy", "advance", "uncount", "wake",
                       "wakeAll", "stop", "join", "reset", "disown", "undefined"}]
  /\ want \in [Procs -> 0 .. MaxRead]
  /\ got \in [Procs -> Nat]
  /\ first \in Nat

TelInit ==
  /\ records = [i \in Cells |-> 0]
  /\ read_idx = 0 /\ write_idx = 0 /\ available = 0
  /\ seq_no = 0
  /\ has_owner = FALSE /\ shutdown_session = FALSE /\ should_stop = FALSE
  /\ thread = "none"
  /\ pc = [p \in Procs |-> "closed"]
  /\ want = [p \in Procs |-> 0]
  /\ got = [p \in Procs |-> 0]
  /\ first = 0

Goto(p, from, to) == pc[p] = from /\ pc' = [pc EXCEPT ![p] = to]
Proceed(from, to) == thread = from /\ thread' = to

NextIdx(i) == (i + 1) % Size
Full == NextIdx(write_idx) = read_idx
Empty == write_idx = read_idx

\* wake_up: a sleeper looks at its condition again.
Awake(x) == IF x = "asleep" THEN "wait" ELSE x
WakeReaders == pc' = [p \in Procs |-> Awake(pc[p])]

-----------------------------------------------------------------------------
(* Plausible slips, each the changed form of the definition it is named    *)
(* after; the properties are run against them.                             *)

\* moves the index before the record is in its cell
SlipPushRecord ==
  /\ Proceed("copy", "publish")
  /\ write_idx' = NextIdx(write_idx)
  /\ UNCHANGED <<records, read_idx, available, session, seq_no, pc, want, got>>

\* the count is left as it was
SlipPopCount(p) ==
  /\ pc[p] = "uncount"
  /\ pc' = [pc EXCEPT ![p] = IF want[p] = 1 THEN "wake" ELSE "copy"]
  /\ want' = [want EXCEPT ![p] = want[p] - 1]
  /\ UNCHANGED <<ring_buf, session, seq_no, thread, got>>

\* waits for room only
SlipWaitForSpace ==
  /\ Proceed("wait", IF Full THEN "asleep"
                     ELSE IF shutdown_session THEN "exited" ELSE "copy")
  /\ UNCHANGED <<ring_buf, session, seq_no, pc, want, got>>

-----------------------------------------------------------------------------
(* producer_thread_fn and ring_push                                        *)

\* The thread generates a record, or finds that it is to stop.
Generate ==
  /\ IF should_stop THEN Proceed("generate", "exited") /\ UNCHANGED seq_no
     ELSE /\ seq_no < MaxSeq
          /\ Proceed("generate", "wait")
          /\ seq_no' = seq_no + 1
  /\ UNCHANGED <<ring_buf, session, pc, want, got>>

\* wait_event_interruptible(has_space_wq, ...).  No signal reaches the thread.
WaitForSpace ==
  /\ Proceed("wait", IF Full /\ ~shutdown_session THEN "asleep"
                     ELSE IF shutdown_session THEN "exited" ELSE "copy")
  /\ UNCHANGED <<ring_buf, session, seq_no, pc, want, got>>

\* ring_push: no room, or the record is copied ...
PushRecord ==
  /\ IF Full THEN Proceed("copy", "sleep") /\ UNCHANGED records
     ELSE /\ Proceed("copy", "publish")
          /\ records' = [records EXCEPT ![write_idx] = seq_no - 1]
  /\ UNCHANGED <<read_idx, write_idx, available, session, seq_no, pc, want, got>>

\* ... and published ...
PushIndex ==
  /\ Proceed("publish", "count")
  /\ write_idx' = NextIdx(write_idx)
  /\ UNCHANGED <<records, read_idx, available, session, seq_no, pc, want, got>>

\* ... and counted.
PushCount ==
  /\ Proceed("count", "wake")
  /\ available' = available + 1
  /\ UNCHANGED <<records, read_idx, write_idx, session, seq_no, pc, want, got>>

PushWake ==
  /\ Proceed("wake", "sleep")
  /\ WakeReaders
  /\ UNCHANGED <<ring_buf, session, seq_no, want, got>>

Slept ==
  /\ Proceed("sleep", "generate")
  /\ UNCHANGED <<ring_buf, session, seq_no, pc, want, got>>

\* The kernel frees the task_struct of a thread that has returned by itself, unless
\* kthread_stop holds it.
Reap ==
  /\ ~should_stop
  /\ Proceed("exited", "gone")
  /\ UNCHANGED <<ring_buf, session, seq_no, pc, want, got>>

-----------------------------------------------------------------------------
(* open                                                                    *)

\* Under ownership_lock; a second opener gets EBUSY and stays out.
Open(p) ==
  /\ ~has_owner
  /\ Goto(p, "closed", "opening")
  /\ has_owner' = TRUE
  /\ shutdown_session' = FALSE
  /\ first' = seq_no
  /\ UNCHANGED <<ring_buf, should_stop, seq_no, thread, want, got>>

\* producer_thread_set_and_run: kthread_create may fail, and a thread that is
\* still there is EBUSY.
StartProducer(p) ==
  /\ \/ /\ thread = "none"
        /\ Goto(p, "opening", "open")
        /\ thread' = "generate"
        /\ should_stop' = FALSE
        /\ UNCHANGED has_owner
     \/ /\ Goto(p, "opening", "closed")
        /\ has_owner' = FALSE
        /\ UNCHANGED <<thread, should_stop>>
  /\ UNCHANGED <<ring_buf, shutdown_session, first, seq_no, want, got>>

-----------------------------------------------------------------------------
(* read and ring_pop                                                       *)

Read(p) ==
  /\ Goto(p, "open", "wait")
  /\ \E n \in 1 .. MaxRead : want' = [want EXCEPT ![p] = n]
  /\ UNCHANGED <<ring_buf, session, seq_no, thread, got>>

WaitForData(p) ==
  /\ Goto(p, "wait", IF Empty THEN "asleep" ELSE "size")
  /\ UNCHANGED <<ring_buf, session, seq_no, thread, want, got>>

\* A signal ends the wait.
Interrupted(p) ==
  /\ Goto(p, "asleep", "open")
  /\ UNCHANGED <<ring_buf, session, seq_no, thread, want, got>>

\* min(records_available, requested): ENODATA when a record has been published
\* but not counted, ENOMEM when there is no buffer for them.
SizeRead(p) ==
  /\ LET n == IF available < want[p] THEN available ELSE want[p] IN
     \/ /\ n > 0
        /\ Goto(p, "size", "copy")
        /\ want' = [want EXCEPT ![p] = n]
     \/ /\ Goto(p, "size", "open")
        /\ UNCHANGED want
  /\ UNCHANGED <<ring_buf, session, seq_no, thread, got>>

\* ring_pop: nothing there (the loop ignores that), or the record is copied ...
PopCopy(p) ==
  /\ pc[p] = "copy"
  /\ IF Empty
     THEN /\ want' = [want EXCEPT ![p] = want[p] - 1]
          /\ pc' = [pc EXCEPT ![p] = IF want[p] = 1 THEN "wake" ELSE "copy"]
          /\ UNCHANGED got
     ELSE /\ got' = [got EXCEPT ![p] = records[read_idx]]
          /\ pc' = [pc EXCEPT ![p] = "advance"]
          /\ UNCHANGED want
  /\ UNCHANGED <<ring_buf, session, seq_no, thread>>

\* ... and its cell given back ...
PopIndex(p) ==
  /\ Goto(p, "advance", "uncount")
  /\ read_idx' = NextIdx(read_idx)
  /\ UNCHANGED <<records, write_idx, available, session, seq_no, thread, want, got>>

\* ... and uncounted.
PopCount(p) ==
  /\ pc[p] = "uncount"
  /\ available' = available - 1
  /\ pc' = [pc EXCEPT ![p] = IF want[p] = 1 THEN "wake" ELSE "copy"]
  /\ want' = [want EXCEPT ![p] = want[p] - 1]
  /\ UNCHANGED <<records, read_idx, write_idx, session, seq_no, thread, got>>

\* The statistics, the producer's wake-up, and copy_to_user, whose failure
\* loses the records and changes nothing else.
ReadWake(p) ==
  /\ Goto(p, "wake", "open")
  /\ thread' = Awake(thread)
  /\ got' = [got EXCEPT ![p] = 0]
  /\ UNCHANGED <<ring_buf, session, seq_no, want>>

-----------------------------------------------------------------------------
(* release                                                                 *)

Release(p) ==
  /\ Goto(p, "open", "wakeAll")
  /\ shutdown_session' = TRUE
  /\ UNCHANGED <<ring_buf, has_owner, should_stop, first, seq_no, thread, want, got>>

ReleaseWake(p) ==
  /\ Goto(p, "wakeAll", "stop")
  /\ thread' = Awake(thread)
  /\ UNCHANGED <<ring_buf, session, seq_no, want, got>>

\* kthread_stop takes a reference to the thread's task_struct, wakes the thread and
\* waits until it has ended.  Nobody held one before, so the task_struct of a thread
\* that has ended may be gone, and then what the call does is undefined.
StopThread(p) ==
  /\ IF thread = "gone"
     THEN Goto(p, "stop", "undefined") /\ UNCHANGED <<should_stop, thread>>
     ELSE /\ Goto(p, "stop", "join")
          /\ should_stop' = TRUE
          /\ thread' = Awake(thread)
  /\ UNCHANGED <<ring_buf, has_owner, shutdown_session, first, seq_no, want, got>>

JoinThread(p) ==
  /\ thread = "exited"
  /\ Goto(p, "join", "reset")
  /\ thread' = "none"
  /\ UNCHANGED <<ring_buf, session, seq_no, want, got>>

\* ring_reset
Reset(p) ==
  /\ Goto(p, "reset", "disown")
  /\ available' = 0 /\ read_idx' = 0 /\ write_idx' = 0
  /\ UNCHANGED <<records, session, seq_no, thread, want, got>>

Disown(p) ==
  /\ Goto(p, "disown", "closed")
  /\ has_owner' = FALSE
  /\ UNCHANGED <<ring_buf, shutdown_session, should_stop, first, seq_no, thread, want, got>>

-----------------------------------------------------------------------------
ProducerStep == \/ Generate \/ WaitForSpace \/ PushRecord \/ PushIndex \/ PushCount
                \/ PushWake \/ Slept

ProcStep(p) == \/ StartProducer(p) \/ WaitForData(p) \/ SizeRead(p)
               \/ PopCopy(p) \/ PopIndex(p) \/ PopCount(p) \/ ReadWake(p)
               \/ ReleaseWake(p) \/ StopThread(p) \/ JoinThread(p) \/ Reset(p)
               \/ Disown(p)

TelNext ==
  \/ ProducerStep
  \/ Reap
  \/ \E p \in Procs : Open(p) \/ Read(p) \/ Interrupted(p) \/ Release(p) \/ ProcStep(p)

TelSpec == TelInit /\ [][TelNext]_telVars

\* The thread and whoever is inside the driver run.  Nobody has to call it, and
\* no signal has to come.
TelFairness == WF_telVars(ProducerStep) /\ \A p \in Procs : WF_telVars(ProcStep(p))

TelFairSpec == TelSpec /\ TelFairness
-----------------------------------------------------------------------------
(* Properties                                                              *)

\* Records published and not yet given back.
Stored == IF write_idx >= read_idx THEN write_idx - read_idx
                                   ELSE write_idx + Size - read_idx
Cell(i) == IF read_idx + i < Size THEN read_idx + i ELSE read_idx + i - Size

\* The newest published record: all but one that the producer still holds.
Newest == IF thread \in {"wait", "asleep", "copy", "publish"} THEN seq_no - 2
          ELSE seq_no - 1

Live == thread \notin {"none", "exited", "gone"}

\* The ring holds the newest records of the session, each once and in order,
\* and none that the session before it left there; so a reader that pops them
\* gets consecutive numbers of its own session.
InOrder ==
  /\ Live => \A i \in 0 .. Size - 2 :
               i < Stored => /\ records[Cell(i)] = Newest - (Stored - 1 - i)
                             /\ records[Cell(i)] >= first
  /\ \A p \in Procs : pc[p] \in {"advance", "uncount"} => got[p] >= first

\* The separate count lags behind the indices by the record being pushed and
\* leads by the one being popped; so a read that has sized itself by the count
\* finds each of those records in the ring.
CountFollows ==
  /\ Live =>
       available = Stored - (IF thread = "count" THEN 1 ELSE 0)
                          + (IF \E p \in Procs : pc[p] = "uncount" THEN 1 ELSE 0)
  /\ \A p \in Procs : pc[p] = "copy" => Stored >= want[p]

\* What the indices and the count say of the ring is true between any two of the
\* stores that publish a record or give it back.
RingTrue == InOrder /\ CountFollows

\* A read returns, with records or with an error, while records are generated;
\* and closing the device returns, because the producer ends wherever it is: unless
\* the producer's task_struct is gone before kthread_stop, when nothing is promised.
CallsReturn ==
  \A p \in Procs :
    /\ (pc[p] = "wait") ~> (pc[p] = "open" \/ seq_no = MaxSeq)
    /\ (pc[p] = "wakeAll") ~> (pc[p] \in {"closed", "undefined"})

\* "stop producer thread and complete work before releasing ownership": whoever
\* stops the producer finds it there.
StopsInTime == \A p \in Procs : pc[p] # "undefined"

\* "Block until data is available in the ring": a read that has waited returns
\* records.
ReadGetsRecords == \A p \in Procs : pc[p] = "size" => available > 0
=============================================================================
