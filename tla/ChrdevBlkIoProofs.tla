------------------------- MODULE ChrdevBlkIoProofs -------------------------
(***************************************************************************)
(* NoLostWakeup and FreedUnused of ChrdevBlkIo, for any finite number of   *)
(* processes, any size of the kfifo, and a forced unload or none.          *)
(*                                                                         *)
(* The invariant adds three facts to them: only a process that has joined  *)
(* its queue is on it, exit runs after the flag is set, and active_refs    *)
(* counts the open files.                                                  *)
(***************************************************************************)
EXTENDS ChrdevBlkIo, FiniteSetTheorems, TLAPS

\* The processes that have the device open.
Holders == {p \in Procs : pc[p] \notin {"closed", "opening", "closing"}}

Counted == active_refs = Cardinality(Holders)

Shape ==
    /\ exit # "loaded" => terminating
    /\ exit \in {"free", "unloaded"} => active_refs = 0
    /\ \A p \in queued : pc[p] \in {"check", "asleep"}

\* The two halves of NoLostWakeup.
SleepersWoken ==
    \A p \in Procs :
        pc[p] = "asleep" /\ p \in queued /\ Ready(p) =>
            \/ OnReadQueue(p) /\ ReadersWoken
            \/ OnWriteQueue(p) /\ WritersWoken

ExitWoken ==
    exit = "asleep" /\ active_refs = 0 => \E q \in Procs : pc[q] = "closing"

IInv == TypeOK /\ Counted /\ Shape /\ SleepersWoken /\ ExitWoken

\* The steps of the processes, those that wait_event and the kernel's queues
\* make apart from the rest.
Process(p) ==
    \/ StartOpen(p) \/ Open(p) \/ Release(p) \/ WakeExit(p)
    \/ Start(p) \/ NoDevice(p) \/ Read(p) \/ Write(p) \/ Wake(p)
    \/ Again(p) \/ Block(p) \/ Join(p) \/ Check(p) \/ Awake(p) \/ Signal(p)
    \/ Terminate(p) \/ TermWakeReaders(p) \/ TermWakeWriters(p)

USE CapAssumption, ProcsAssumption, ForcedAssumption

----------------------------------------------------------------------------
(* Counting                                                                *)

LEMMA HoldersFinite ==
    /\ IsFiniteSet(Holders)
    /\ Cardinality(Holders) \in Nat
    /\ Cardinality(Holders) <= Cardinality(Procs)
    /\ Cardinality(Procs) \in Nat
  <1>1. Holders \subseteq Procs
    BY DEF Holders
  <1>2. QED
    BY <1>1, FS_Subset, FS_CardinalityType

\* A step of p that leaves it on the same side of the open keeps the count.
LEMMA HoldersKept ==
    ASSUME TypeOK, NEW p \in Procs, NEW l \in PCs, pc' = [pc EXCEPT ![p] = l],
           (pc[p] \in {"closed", "opening", "closing"})
             <=> (l \in {"closed", "opening", "closing"})
    PROVE  Holders' = Holders
  BY DEF Holders, TypeOK

LEMMA HoldersGrow ==
    ASSUME TypeOK, NEW p \in Procs, NEW l \in PCs, pc' = [pc EXCEPT ![p] = l],
           pc[p] \in {"closed", "opening", "closing"},
           l \notin {"closed", "opening", "closing"}
    PROVE  Cardinality(Holders') = Cardinality(Holders) + 1
  <1>1. Holders' = Holders \cup {p} /\ p \notin Holders
    BY DEF Holders, TypeOK
  <1>2. QED
    BY <1>1, HoldersFinite, FS_AddElement

LEMMA HoldersShrink ==
    ASSUME TypeOK, NEW p \in Procs, NEW l \in PCs, pc' = [pc EXCEPT ![p] = l],
           pc[p] \notin {"closed", "opening", "closing"},
           l \in {"closed", "opening", "closing"}
    PROVE  Cardinality(Holders') = Cardinality(Holders) - 1
  <1>1. Holders' = Holders \ {p} /\ p \in Holders
    BY DEF Holders, TypeOK
  <1>2. QED
    BY <1>1, HoldersFinite, FS_RemoveElement

LEMMA NobodyHolds ==
    ASSUME Counted, active_refs = 0
    PROVE  Holders = {}
  BY HoldersFinite, FS_EmptySet DEF Counted

----------------------------------------------------------------------------
(* The inductive invariant                                                 *)

LEMMA Initially == Init => IInv
  <1> SUFFICES ASSUME Init PROVE IInv
    OBVIOUS
  <1>1. Holders = {}
    BY DEF Init, Holders
  <1>2. Cardinality(Procs) \in Nat
    BY HoldersFinite
  <1>3. TypeOK
    <2>1. Idle \in Calls
      BY DEF Idle, Calls, Ops
    <2>2. call \in [Procs -> Calls]
      BY <2>1 DEF Init
    <2>3. active_refs \in 0 .. Cardinality(Procs)
      BY <1>2 DEF Init
    <2>4. pc \in [Procs -> PCs] /\ exit \in ExitPCs /\ len \in 0 .. Cap
      BY DEF Init, PCs, ExitPCs
    <2>5. QED
      BY <2>2, <2>3, <2>4 DEF Init, TypeOK
  <1>4. Counted
    BY <1>1, FS_EmptySet DEF Counted, Init
  <1>5. Shape /\ SleepersWoken /\ ExitWoken
    BY DEF Init, Shape, SleepersWoken, ExitWoken
  <1>6. QED
    BY <1>3, <1>4, <1>5 DEF IInv

\* What a step of a process does to its own place and call.
LEMMA ProcessShape ==
    ASSUME IInv, NEW p \in Procs, Process(p)
    PROVE  /\ \E l \in PCs : pc' = [pc EXCEPT ![p] = l]
           /\ \E c \in Calls : call' = [call EXCEPT ![p] = c]
           /\ len' \in 0 .. Cap
           /\ terminating' \in BOOLEAN
           /\ terminating => terminating'
           /\ queued' \subseteq queued \cup {p}
           /\ exit' \in ExitPCs
  <1> USE DEF IInv, TypeOK, Goto, Return
  <1>0. Idle \in Calls /\ call = [call EXCEPT ![p] = call[p]] /\ call[p] \in Calls
    BY DEF Idle, Calls, Ops
  <1>1. \E l \in PCs : pc' = [pc EXCEPT ![p] = l]
    BY DEF Process, StartOpen, Open, Release, WakeExit, Start, NoDevice, Read,
           Write, Wake, Again, Block, Join, Check, Awake, Signal, Terminate,
           TermWakeReaders, TermWakeWriters, PCs, Waiting
  <1>2. \E c \in Calls : call' = [call EXCEPT ![p] = c]
    BY <1>0 DEF Process, StartOpen, Open, Release, WakeExit, Start, NoDevice, Read,
           Write, Wake, Again, Block, Join, Check, Awake, Signal, Terminate,
           TermWakeReaders, TermWakeWriters
  <1>3. len' \in 0 .. Cap
    <2>1. CASE Read(p)
      BY <2>1 DEF Read, Calls
    <2>2. CASE Write(p)
      BY <2>2, <1>0 DEF Write, Able, Calls
    <2>3. QED
      BY <2>1, <2>2 DEF Process, StartOpen, Open, Release, WakeExit, Start,
           NoDevice, Wake, Again, Block, Join, Check, Awake, Signal, Terminate,
           TermWakeReaders, TermWakeWriters
  <1>4. terminating' \in BOOLEAN /\ (terminating => terminating')
    BY DEF Process, StartOpen, Open, Release, WakeExit, Start, NoDevice, Read,
           Write, Wake, Again, Block, Join, Check, Awake, Signal, Terminate,
           TermWakeReaders, TermWakeWriters
  <1>5. queued' \subseteq queued \cup {p}
    BY DEF Process, StartOpen, Open, Release, WakeExit, Start, NoDevice, Read,
           Write, Wake, Again, Block, Join, Check, Awake, Signal, Terminate,
           TermWakeReaders, TermWakeWriters, WakeReaders, WakeWriters
  <1>6. exit' \in ExitPCs
    BY DEF Process, StartOpen, Open, Release, WakeExit, Start, NoDevice, Read,
           Write, Wake, Again, Block, Join, Check, Awake, Signal, Terminate,
           TermWakeReaders, TermWakeWriters, ExitPCs
  <1>7. QED
    BY <1>1, <1>2, <1>3, <1>4, <1>5, <1>6

LEMMA ProcessType ==
    ASSUME IInv, NEW p \in Procs, Process(p)
    PROVE  TypeOK' /\ Counted' /\ Shape'
  <1>1. PICK l \in PCs : pc' = [pc EXCEPT ![p] = l]
    BY ProcessShape
  <1>2. PICK c \in Calls : call' = [call EXCEPT ![p] = c]
    BY ProcessShape
  <1>3. TypeOK /\ Counted /\ active_refs \in Nat /\ pc[p] \in PCs
    BY DEF IInv, TypeOK
  <1>4. Counted'
    <2>1. CASE Open(p)
      <3>1. CASE terminating
        BY <2>1, <3>1, <1>1, <1>3, HoldersKept
        DEF Open, Goto, Counted, TypeOK, PCs, Waiting
      <3>2. CASE ~terminating
        BY <2>1, <3>2, <1>1, <1>3, HoldersGrow
        DEF Open, Goto, Counted, TypeOK, PCs, Waiting
      <3>3. QED
        BY <3>1, <3>2
    <2>2. CASE Release(p)
      <3>1. Cardinality(Holders') = Cardinality(Holders) - 1
        BY <2>2, <1>3, HoldersShrink DEF Release, Goto, TypeOK, PCs
      <3>2. QED
        BY <3>1, <2>2, <1>3 DEF Release, Counted
    <2>3. CASE ~Open(p) /\ ~Release(p)
      <3>1. active_refs' = active_refs
        BY <2>3 DEF Process, StartOpen, WakeExit, Start, NoDevice, Read, Write,
           Wake, Again, Block, Join, Check, Awake, Signal, Terminate,
           TermWakeReaders, TermWakeWriters
      <3>2. (pc[p] \in {"closed", "opening", "closing"})
              <=> (l \in {"closed", "opening", "closing"})
        BY <2>3, <1>1, <1>3 DEF Process, StartOpen, WakeExit, Start, NoDevice, Read,
           Write, Wake, Again, Block, Join, Check, Awake, Signal, Terminate,
           TermWakeReaders, TermWakeWriters, Goto, Return, TypeOK
      <3>3. Holders' = Holders
        BY <3>2, <1>1, <1>3, HoldersKept
      <3>4. QED
        BY <3>1, <3>3, <1>3 DEF Counted
    <2>4. QED
      BY <2>1, <2>2, <2>3
  <1>5. Cardinality(Holders') \in 0 .. Cardinality(Procs)
    <2>1. Holders' \subseteq Procs
      BY DEF Holders
    <2>2. QED
      BY <2>1, HoldersFinite, FS_Subset, FS_CardinalityType
  <1>6. TypeOK'
    <2>1. pc' \in [Procs -> PCs] /\ call' \in [Procs -> Calls]
      BY <1>1, <1>2, <1>3 DEF TypeOK
    <2>2. active_refs' \in 0 .. Cardinality(Procs)
      BY <1>4, <1>5 DEF Counted
    <2>3. queued' \subseteq Procs
      BY ProcessShape, <1>3 DEF TypeOK
    <2>4. QED
      BY <2>1, <2>2, <2>3, ProcessShape DEF TypeOK
  <1>7. Shape'
    <2>1. exit' # "loaded" => terminating'
      BY ProcessShape DEF IInv, Shape, Process, StartOpen, Open, Release, WakeExit,
         Start, NoDevice, Read, Write, Wake, Again, Block, Join, Check, Awake,
         Signal, Terminate, TermWakeReaders, TermWakeWriters
    <2>2. exit' \in {"free", "unloaded"} => active_refs' = 0
      <3> SUFFICES ASSUME exit' \in {"free", "unloaded"} PROVE active_refs' = 0
        OBVIOUS
      <3>1. exit' = exit
        BY DEF Process, StartOpen, Open, Release, WakeExit, Start, NoDevice, Read,
           Write, Wake, Again, Block, Join, Check, Awake, Signal, Terminate,
           TermWakeReaders, TermWakeWriters
      <3>2. active_refs = 0 /\ terminating /\ Holders = {}
        BY <3>1, NobodyHolds DEF IInv, Shape
      <3>3. ~Release(p)
        BY <3>2 DEF Release, Holders
      <3>4. QED
        BY <3>2, <3>3 DEF Process, StartOpen, Open, WakeExit, Start, NoDevice, Read,
           Write, Wake, Again, Block, Join, Check, Awake, Signal, Terminate,
           TermWakeReaders, TermWakeWriters
    <2>3. ASSUME NEW q \in queued'
          PROVE  pc'[q] \in {"check", "asleep"}
      <3>1. CASE q = p
        <4>1. q \in queued \/ Join(p)
          BY <2>3, <3>1 DEF Process, StartOpen, Open, Release, WakeExit, Start, NoDevice, Read,
           Write, Wake, Again, Block, Check, Awake, Signal, Terminate,
           TermWakeReaders, TermWakeWriters, WakeReaders, WakeWriters
        <4>2. CASE Join(p)
          BY <4>2, <3>1, <1>3 DEF Join, Goto, TypeOK
        <4>3. CASE q \in queued
          BY <4>3, <3>1, <2>3, <1>3 DEF IInv, Shape, TypeOK, Process, StartOpen, Open,
           Release, WakeExit, Start, NoDevice, Read, Write, Wake, Again, Block, Join,
           Check, Awake, Signal, Terminate, TermWakeReaders, TermWakeWriters,
           Goto, Return
        <4>4. QED
          BY <4>1, <4>2, <4>3
      <3>2. CASE q # p
        BY <3>2, <2>3, <1>1, ProcessShape DEF IInv, Shape, TypeOK
      <3>3. QED
        BY <3>1, <3>2
    <2>4. QED
      BY <2>1, <2>2, <2>3 DEF Shape
  <1>8. QED
    BY <1>4, <1>6, <1>7

\* A process about to wake a queue still is after a step of another.
LEMMA OthersWake ==
    ASSUME NEW p \in Procs, NEW q \in Procs, q # p, Process(p), IInv
    PROVE  pc'[q] = pc[q] /\ call'[q] = call[q]
  BY ProcessShape DEF IInv, TypeOK

LEMMA ProcessSleepers ==
    ASSUME IInv, NEW p \in Procs, Process(p)
    PROVE  SleepersWoken'
  <1> SUFFICES ASSUME NEW s \in Procs, (pc[s] = "asleep")', (s \in queued)', Ready(s)'
               PROVE  \/ (OnReadQueue(s) /\ ReadersWoken)'
                      \/ (OnWriteQueue(s) /\ WritersWoken)'
    BY DEF SleepersWoken
  <1>0. TypeOK /\ pc[p] \in PCs /\ call[p] \in Calls /\ call[s] \in Calls
    BY DEF IInv, TypeOK
  <1>1. s # p
    <2> SUFFICES ASSUME s = p PROVE FALSE
      OBVIOUS
    <2>1. CASE Check(p)
      BY <2>1, <1>0 DEF Check, Ready, Able, Goto, Return, TypeOK
    <2>2. CASE ~Check(p)
      BY <2>2, <1>0 DEF IInv, Shape, TypeOK, Process, StartOpen, Open,
           Release, WakeExit, Start, NoDevice, Read, Write, Wake, Again, Block, Join,
           Awake, Signal, Terminate, TermWakeReaders, TermWakeWriters, Goto, Return
    <2>3. QED
      BY <2>1, <2>2
  <1>2. pc[s] = "asleep" /\ call'[s] = call[s] /\ s \in queued
    BY <1>1, OthersWake, ProcessShape
  <1>3. (OnReadQueue(s)' <=> OnReadQueue(s)) /\ (OnWriteQueue(s)' <=> OnWriteQueue(s))
    BY <1>2 DEF OnReadQueue, OnWriteQueue
  <1>4. OnReadQueue(s) \/ OnWriteQueue(s)
    BY DEF OnReadQueue, OnWriteQueue
  <1>5. (exit = "wake_read" => exit' = "wake_read")
          /\ (exit = "wake_write" => exit' = "wake_write")
    BY DEF Process, StartOpen, Open, Release, WakeExit, Start, NoDevice, Read,
           Write, Wake, Again, Block, Join, Check, Awake, Signal, Terminate,
           TermWakeReaders, TermWakeWriters
  <1>6. CASE Read(p)
    <2>1. pc'[p] = "wake" /\ call'[p].op = "read"
      BY <1>6, <1>0 DEF Read, Goto, TypeOK
    <2>2. WritersWoken'
      BY <2>1 DEF WritersWoken
    <2>3. CASE OnWriteQueue(s)
      BY <2>2, <2>3, <1>3
    <2>4. CASE ~OnWriteQueue(s)
      <3>1. call[s].op = "read" /\ len' <= len
        BY <2>4, <1>6, <1>0 DEF OnWriteQueue, Read, TypeOK, Calls
      <3>2. len \in Int /\ len' \in Int /\ terminating' = terminating
        BY <1>6, <1>0, ProcessShape DEF Read, TypeOK
      <3>3. Ready(s)
        BY <3>1, <3>2, <1>2 DEF Ready, Able
      <3>4. ReadersWoken
        BY <3>3, <1>2, <2>4 DEF IInv, SleepersWoken
      <3>5. ReadersWoken'
        BY <3>4, <1>5, <1>6, OthersWake, <1>0 DEF ReadersWoken, Read
      <3>6. QED
        BY <3>5, <1>3, <1>4, <2>4
    <2>5. QED
      BY <2>3, <2>4
  <1>7. CASE Write(p)
    <2>1. pc'[p] = "wake" /\ call'[p].op = "write"
      BY <1>7, <1>0 DEF Write, Goto, TypeOK
    <2>2. ReadersWoken'
      BY <2>1 DEF ReadersWoken
    <2>3. CASE OnReadQueue(s)
      BY <2>2, <2>3, <1>3
    <2>4. CASE ~OnReadQueue(s)
      <3>1. call[s].op = "write" /\ len <= len'
        BY <2>4, <1>7, <1>0 DEF OnReadQueue, Write, TypeOK, Calls
      <3>2. len \in Int /\ len' \in Int /\ terminating' = terminating /\ Cap \in Int
              /\ call[s].size \in Int
        BY <1>7, <1>0, ProcessShape DEF Write, TypeOK, Calls
      <3>3. Ready(s)
        BY <3>1, <3>2, <1>2 DEF Ready, Able
      <3>4. WritersWoken
        BY <3>3, <1>2, <2>4 DEF IInv, SleepersWoken
      <3>5. WritersWoken'
        BY <3>4, <1>5, <1>7, OthersWake, <1>0 DEF WritersWoken, Write
      <3>6. QED
        BY <3>5, <1>3, <1>4, <2>4
    <2>5. QED
      BY <2>3, <2>4
  <1>8. CASE Terminate(p)
    <2>1. pc'[p] = "term_read"
      BY <1>8, <1>0 DEF Terminate, Goto, TypeOK
    <2>2. QED
      BY <2>1, <1>3, <1>4 DEF ReadersWoken, WritersWoken
  <1>9. CASE ~Read(p) /\ ~Write(p) /\ ~Terminate(p)
    <2>1. terminating' = terminating /\ len' = len
      BY <1>9 DEF Process, StartOpen, Open, Release, WakeExit, Start, NoDevice,
           Wake, Again, Block, Join, Check, Awake, Signal,
           TermWakeReaders, TermWakeWriters
    <2>2. Ready(s)
      BY <2>1, <1>2 DEF Ready, Able
    <2>3. \/ OnReadQueue(s) /\ ReadersWoken
          \/ OnWriteQueue(s) /\ WritersWoken
      BY <2>2, <1>2 DEF IInv, SleepersWoken
    <2>4. CASE OnReadQueue(s) /\ ReadersWoken
      <3>1. ~TermWakeReaders(p) /\ ~(Wake(p) /\ call[p].op = "write")
        BY <2>4 DEF TermWakeReaders, Wake, WakeReaders
      <3>2. pc[p] = "term_read" \/ (pc[p] = "wake" /\ call[p].op = "write")
              => FALSE
        BY <3>1, <1>9 DEF Process, StartOpen, Open, Release, WakeExit, Start, NoDevice,
           Wake, Again, Block, Join, Check, Awake, Signal,
           TermWakeReaders, TermWakeWriters
      <3>3. ReadersWoken'
        BY <3>2, <2>4, <1>5, OthersWake DEF ReadersWoken
      <3>4. QED
        BY <3>3, <2>4, <1>3
    <2>5. CASE OnWriteQueue(s) /\ WritersWoken
      <3>1. CASE TermWakeReaders(p)
        <4>1. pc'[p] = "term_write"
          BY <3>1, <1>0 DEF TermWakeReaders, Goto, TypeOK
        <4>2. QED
          BY <4>1, <2>5, <1>3 DEF WritersWoken
      <3>2. CASE ~TermWakeReaders(p)
        <4>1. ~TermWakeWriters(p) /\ ~(Wake(p) /\ call[p].op = "read")
          BY <2>5 DEF TermWakeWriters, Wake, WakeWriters
        <4>2. pc[p] \in {"term_read", "term_write"}
                \/ (pc[p] = "wake" /\ call[p].op = "read") => FALSE
          BY <3>2, <4>1, <1>9 DEF Process, StartOpen, Open, Release, WakeExit, Start,
           NoDevice, Wake, Again, Block, Join, Check, Awake, Signal,
           TermWakeReaders, TermWakeWriters
        <4>3. WritersWoken'
          BY <4>2, <2>5, <1>5, OthersWake DEF WritersWoken
        <4>4. QED
          BY <4>3, <2>5, <1>3
      <3>3. QED
        BY <3>1, <3>2
    <2>6. QED
      BY <2>3, <2>4, <2>5
  <1>10. QED
    BY <1>6, <1>7, <1>8, <1>9

LEMMA ProcessExit ==
    ASSUME IInv, NEW p \in Procs, Process(p)
    PROVE  ExitWoken'
  <1> SUFFICES ASSUME exit' = "asleep", active_refs' = 0
               PROVE  \E q \in Procs : pc'[q] = "closing"
    BY DEF ExitWoken
  <1>0. TypeOK /\ active_refs \in Nat
    BY DEF IInv, TypeOK
  <1>1. exit = "asleep" /\ ~WakeExit(p)
    BY DEF Process, StartOpen, Open, Release, WakeExit, Start, NoDevice, Read,
           Write, Wake, Again, Block, Join, Check, Awake, Signal, Terminate,
           TermWakeReaders, TermWakeWriters
  <1>2. CASE Release(p)
    BY <1>2, <1>0 DEF Release, Goto, TypeOK
  <1>3. CASE ~Release(p)
    <2>1. active_refs = 0
      BY <1>3, <1>0 DEF Process, StartOpen, Open, WakeExit, Start, NoDevice, Read,
           Write, Wake, Again, Block, Join, Check, Awake, Signal, Terminate,
           TermWakeReaders, TermWakeWriters
    <2>2. PICK q \in Procs : pc[q] = "closing"
      BY <2>1, <1>1 DEF IInv, ExitWoken
    <2>3. q # p
      BY <2>2, <1>1, <1>3 DEF Process, StartOpen, Open, Start, NoDevice, Read,
           Write, Wake, Again, Block, Join, Check, Awake, Signal, Terminate,
           TermWakeReaders, TermWakeWriters
    <2>4. QED
      BY <2>2, <2>3, OthersWake
  <1>4. QED
    BY <1>2, <1>3

\* The steps of the module loader and of the exit function.
LEMMA ExitStep ==
    ASSUME IInv, Unload \/ Exit
    PROVE  IInv'
  <1>0. TypeOK
    BY DEF IInv
  <1>1. UNCHANGED <<active_refs, len, pc, call>> /\ Holders' = Holders
    BY DEF Unload, Exit, ExitWakeReaders, ExitWakeWriters, ExitJoin, ExitCheck,
           ExitFree, Holders
  <1>2. queued' \subseteq queued
    BY DEF Unload, Exit, ExitWakeReaders, ExitWakeWriters, ExitJoin, ExitCheck,
           ExitFree, WakeReaders, WakeWriters
  <1>3. TypeOK'
    BY <1>0, <1>1, <1>2 DEF TypeOK, ExitPCs, Unload, Exit, ExitWakeReaders,
           ExitWakeWriters, ExitJoin, ExitCheck, ExitFree
  <1>4. Counted'
    BY <1>1 DEF IInv, Counted
  <1>5. Shape'
    BY <1>1, <1>2 DEF IInv, Shape, Unload, Exit, ExitWakeReaders,
           ExitWakeWriters, ExitJoin, ExitCheck, ExitFree
  <1>6. SleepersWoken'
    <2> SUFFICES ASSUME NEW s \in Procs, pc[s] = "asleep", s \in queued', Ready(s)'
                 PROVE  \/ (OnReadQueue(s) /\ ReadersWoken)'
                        \/ (OnWriteQueue(s) /\ WritersWoken)'
      BY <1>1 DEF SleepersWoken
    <2>1. OnReadQueue(s) \/ OnWriteQueue(s)
      BY DEF OnReadQueue, OnWriteQueue
    <2>2. (OnReadQueue(s)' <=> OnReadQueue(s)) /\ (OnWriteQueue(s)' <=> OnWriteQueue(s))
      BY <1>1 DEF OnReadQueue, OnWriteQueue
    <2>3. CASE Unload
      BY <2>1, <2>2, <2>3 DEF Unload, ReadersWoken, WritersWoken
    <2>4. CASE Exit
      <3>1. Ready(s)
        BY <2>4, <1>1 DEF Ready, Able, Exit, ExitWakeReaders, ExitWakeWriters,
           ExitJoin, ExitCheck, ExitFree
      <3>2. \/ OnReadQueue(s) /\ ReadersWoken
            \/ OnWriteQueue(s) /\ WritersWoken
        BY <3>1, <1>2 DEF IInv, SleepersWoken
      <3>3. CASE ExitWakeReaders
        BY <3>3, <2>2, <2>1 DEF ExitWakeReaders, WakeReaders, WritersWoken
      <3>4. CASE ExitWakeWriters
        BY <3>4, <3>2, <2>2, <1>1 DEF ExitWakeWriters, WakeWriters, ReadersWoken
      <3>5. CASE ExitJoin \/ ExitCheck \/ ExitFree
        BY <3>5, <3>2, <2>2, <1>1 DEF ExitJoin, ExitCheck, ExitFree, ReadersWoken,
           WritersWoken
      <3>6. QED
        BY <2>4, <3>3, <3>4, <3>5 DEF Exit
    <2>5. QED
      BY <2>3, <2>4
  <1>7. ExitWoken'
    BY <1>1 DEF IInv, ExitWoken, Unload, Exit, ExitWakeReaders,
           ExitWakeWriters, ExitJoin, ExitCheck, ExitFree
  <1>8. QED
    BY <1>3, <1>4, <1>5, <1>6, <1>7 DEF IInv

LEMMA Inductive == IInv /\ [Next]_vars => IInv'
  <1> SUFFICES ASSUME IInv, [Next]_vars PROVE IInv'
    OBVIOUS
  <1>1. ASSUME NEW p \in Procs, Process(p) PROVE IInv'
    BY <1>1, ProcessType, ProcessSleepers, ProcessExit DEF IInv
  <1>2. CASE Unload \/ Exit
    BY <1>2, ExitStep
  <1>3. CASE UNCHANGED vars
    BY <1>3 DEF vars, IInv, TypeOK, Counted, Holders, Shape, SleepersWoken,
       ExitWoken, Ready, Able, OnReadQueue, OnWriteQueue, ReadersWoken, WritersWoken
  <1>4. QED
    BY <1>1, <1>2, <1>3 DEF Next, Step, Process

----------------------------------------------------------------------------
(* The theorems                                                            *)

THEOREM Invariance == Spec => []IInv
  BY Initially, Inductive, PTL DEF Spec

\* The state keeps its types: in particular the kfifo never holds more than
\* FIFO_SIZE bytes and the count of files never falls below zero.
THEOREM TypeCorrect == Spec => []TypeOK
  <1>1. IInv => TypeOK
    BY DEF IInv
  <1>2. QED
    BY <1>1, Invariance, PTL

\* No reader, writer, poller or exit sleeps through what it waits for.
THEOREM WakeUps == Spec => []NoLostWakeup
  <1>1. IInv => NoLostWakeup
    BY DEF IInv, NoLostWakeup, SleepersWoken, ExitWoken
  <1>2. QED
    BY <1>1, Invariance, PTL

\* exit frees the device only when nobody has it open.
THEOREM FreedOnlyUnused == Spec => []FreedUnused
  <1>1. IInv => FreedUnused
    <2> SUFFICES ASSUME IInv, exit \in {"free", "unloaded"}
                 PROVE  \A p \in Procs : pc[p] \in {"closed", "opening", "closing"}
      BY DEF FreedUnused
    <2>1. Holders = {}
      BY NobodyHolds DEF IInv, Shape
    <2>2. QED
      BY <2>1 DEF Holders
  <1>2. QED
    BY <1>1, Invariance, PTL
=============================================================================
