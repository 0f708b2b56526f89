------------------------- MODULE ActorSystemProofs --------------------------
(***************************************************************************)
(* TypeOK, NotStranded and Once of ActorSystem, for any number of actors,  *)
(* threads and messages.                                                   *)
(*                                                                         *)
(* The argument follows three things from hand to hand.  A message is with *)
(* one thread or in one mailbox.  The report of a failure is with one      *)
(* worker, in the cleanup queue or with the cleanup thread, or was never   *)
(* made.  The right to drain is with a thread or a request in the pool, or *)
(* was lost: is_draining_ stands for one, and every actor that was         *)
(* replaced may have left one more.                                        *)
(***************************************************************************)
EXTENDS ActorSystem, FiniteSetTheorems, FunctionTheorems, SequenceTheorems, TLAPS

-----------------------------------------------------------------------------
(* The invariant                                                           *)

\* Where each kind of thread can stand.
Places ==
    /\ \A c \in Clients :
            pc[c] \in {"idle", "alive", "reserve", "publish", "kick", "notify", "undefined"}
    /\ \A w \in Workers :
            pc[w] \in {"idle", "loop", "pop", "handle", "fail", "clear", "recheck", "repop",
                       "recas", "renotify", "late", "lateFail", "undefined"}
    /\ pc[Cleaner] \in {"idle", "erase", "stop", "spin", "reset", "spawn", "link", "exited",
                        "terminated"}
    /\ pc[Owner] \in {"use", "link", "stopPool", "sentinel", "joinCleanup", "erase", "stop",
                      "spin", "reset", "joinPool", "destroyed"}

\* The slots from active_actors on were never used.
Lives ==
    /\ \A s \in Slots : life[s] = 0 <=> s >= active_actors
    /\ \A s \in Slots : present[s] => life[s] > 0
    /\ \A s \in Slots : ~present[s] => mailbox[s] = <<>>
    /\ \A s \in Slots : present[s] /\ alive[s] => is_valid[s]

\* A thread works with an incarnation that is, or was, in its slot.
Refs ==
    /\ \A t \in Threads : ref[t].life <= life[S(t)]
    /\ \A i \in 1 .. Len(tasks) : life[tasks[i]] > 0
    /\ \A i \in 1 .. Len(binned) : binned[i] # Sentinel => life[binned[i]] > 0
    /\ pc[Cleaner] \in {"erase", "stop", "spin", "reset", "spawn"} => life[S(Cleaner)] > 0

\* How far the destructor has come.
Ending ==
    /\ pc[Owner] \notin {"use", "link"} <=> released
    /\ stopped => released
    /\ released => \A c \in Clients : pc[c] \in {"idle", "undefined"}
    /\ ~released => \A i \in 1 .. Len(binned) : binned[i] # Sentinel
    /\ pc[Owner] \in {"erase", "stop", "spin", "reset", "joinPool", "destroyed"} =>
            pc[Cleaner] = "exited"
    /\ ~released => pc[Cleaner] # "exited"

\* A message is with the thread that sends or handles it ...
Inbox(c) == \E i \in 1 .. Len(mailbox[S(c)]) : mailbox[S(c)][i] = msg[c]
ClientHand(c) ==
    /\ pc[c] = "idle" => msg[c] = NoMsg
    /\ pc[c] \in {"alive", "reserve"} => msg[c] # NoMsg /\ fate[msg[c]] = "sending"
    /\ pc[c] = "publish" => /\ msg[c] # NoMsg /\ fate[msg[c]] \in {"reserved", "dropped"}
                            /\ Holds(c) => Inbox(c)
    /\ pc[c] \in {"kick", "notify"} /\ msg[c] # NoMsg => fate[msg[c]] = "refused"
WorkerHand(w) ==
    IF pc[w] \in {"handle", "recas", "renotify", "late"}
    THEN msg[w] # NoMsg /\ fate[msg[w]] = "handling"
    ELSE pc[w] # "undefined" => msg[w] = NoMsg

Carried ==
    /\ \A t, u \in Workers \union Clients : msg[t] = msg[u] /\ msg[t] # NoMsg => t = u
    /\ \A t \in Workers \union Clients :
            msg[t] # NoMsg => fate[msg[t]] \notin {"new", "queued"}
    /\ \A m \in Msgs : fate[m] \in {"sending", "handling"} =>
            \E t \in Workers \union Clients : msg[t] = m
    /\ \A c \in Clients : ClientHand(c)
    /\ \A w \in Workers : WorkerHand(w)

\* ... or in one mailbox, once.
Boxed ==
    /\ \A s \in Slots : \A i \in 1 .. Len(mailbox[s]) :
            fate[mailbox[s][i]] \in {"reserved", "queued"}
    /\ \A r, s \in Slots : \A i \in 1 .. Len(mailbox[r]), j \in 1 .. Len(mailbox[s]) :
            mailbox[r][i] = mailbox[s][j] => r = s /\ i = j
    /\ \A m \in Msgs : fate[m] \in {"reserved", "queued"} =>
            \E s \in Slots : \E i \in 1 .. Len(mailbox[s]) : mailbox[s][i] = m

\* The report of a failed actor is with a worker, in the cleanup queue, or with
\* the cleanup thread, and in no second place, or it was never made.
Failed(s) == present[s] /\ actor_state[s] = "FAILED"
Reporting(w, s) == pc[w] \in {"fail", "lateFail"} /\ S(w) = s /\ Holds(w)
Cleaning(s) == pc[Cleaner] \in {"erase", "stop", "spin"} /\ S(Cleaner) = s

InBin(s) == \E i \in 1 .. Len(binned) : binned[i] = s
Unreported(s) == "failure" \in lost[s]

OnePlace ==
    /\ \A s \in Slots :
            Failed(s) <=> \/ \E w \in Workers : Reporting(w, s)
                          \/ InBin(s) \/ Cleaning(s) \/ Unreported(s)
    /\ \A s \in Slots, v, w \in Workers : Reporting(v, s) /\ Reporting(w, s) => v = w
    /\ \A s \in Slots, w \in Workers : Reporting(w, s) => ~InBin(s) /\ ~Cleaning(s)
    /\ \A s \in Slots : ~(InBin(s) /\ Cleaning(s))
    /\ \A s \in Slots : Unreported(s) => ~InBin(s) /\ ~Cleaning(s)
    /\ \A s \in Slots, w \in Workers : Unreported(s) => ~Reporting(w, s)

Reports == ~released =>
    OnePlace /\ \A i, j \in 1 .. Len(binned) : binned[i] = binned[j] => i = j

\* A failed actor, and one the cleanup thread removes, is not alive.
Stopped ==
    /\ \A s \in Slots : Failed(s) => ~alive[s]
    /\ pc[Cleaner] \in {"spin", "reset"} => ~alive[S(Cleaner)]
    /\ pc[Cleaner] = "reset" => actor_state[S(Cleaner)] # "FAILED"
    /\ pc[Cleaner] = "spawn" => ~present[S(Cleaner)]

\* As long as no task has thrown there is nothing to clean up, and a request is
\* for an actor that is there.
Calm == NoFailure =>
    /\ \A s \in Slots : life[s] <= 1 /\ actor_state[s] # "FAILED"
    /\ \A w \in Workers : pc[w] \notin {"fail", "lateFail"}
    /\ \A i \in 1 .. Len(binned) : binned[i] = Sentinel
    /\ pc[Cleaner] \in {"idle", "exited"}
    /\ pc[Owner] = "reset" => Requests(S(Owner)) = {}
    /\ \A s \in Slots : Requests(s) # {} => present[s]

\* A right to drain: is_draining_ stands for one, and each replaced actor may
\* have left one.
Rights(s) == Cardinality(InDrain(s)) + Cardinality(Requests(s))
Limit(s) == IF life[s] = 0 THEN 0 ELSE life[s] - 1 + (IF draining[s] THEN 1 ELSE 0)
Bounded == \A s \in Slots : Rights(s) <= Limit(s)

\* is_draining_ of a living actor belongs to somebody, or was lost.
Owned ==
    FewReplaced => \A s \in Slots :
        present[s] /\ alive[s] /\ draining[s] /\ ~released /\ "drain" \notin lost[s] =>
            InDrain(s) # {} \/ Requests(s) # {}

IInv == /\ TypeOK /\ Places /\ Lives /\ Refs /\ Ending /\ Carried /\ Boxed
        /\ Reports /\ Stopped /\ Calm /\ Bounded /\ Owned /\ NotStranded

-----------------------------------------------------------------------------
(* The constants                                                           *)

\* The threads are different ones.
LEMMA Kinds ==
    /\ \A c \in Clients : c \notin Workers /\ c # Cleaner /\ c # Owner
    /\ \A w \in Workers : w \notin Clients /\ w # Cleaner /\ w # Owner
    /\ Cleaner # Owner /\ NoMsg \notin Msgs
  BY ActorAssumption

LEMMA Sizes ==
    /\ NumActors \in Nat /\ NumActors > 0 /\ MailboxSize \in Nat
    /\ 0 \in Slots /\ Sentinel \notin Slots
    /\ PoolCapacity \in Nat
    /\ \A s \in Slots : s \in Nat /\ s < NumActors
  <1>1. NumActors \in Nat \ {0} /\ MailboxSize \in Nat \ {0}
    BY ActorAssumption
  <1>2. QED
    BY <1>1 DEF Slots, Sentinel, PoolCapacity

LEMMA Initially == Init => IInv
  <1> SUFFICES ASSUME Init PROVE IInv
    OBVIOUS
  <1> USE Kinds DEF Threads
  <1>1. /\ \A t \in Workers \union Clients : pc[t] = "idle" /\ msg[t] = NoMsg
        /\ pc[Cleaner] = "idle" /\ pc[Owner] = "use"
        /\ \A t \in Threads : ref[t] = Nothing
        /\ \A m \in Msgs : fate[m] = "new"
        /\ \A s \in Slots : /\ ~present[s] /\ ~alive[s] /\ ~draining[s] /\ life[s] = 0
                            /\ mailbox[s] = <<>> /\ actor_state[s] = "STOPPED"
                            /\ lost[s] = {}
        /\ tasks = <<>> /\ binned = <<>> /\ active_actors = 0 /\ ~released /\ ~stopped
    BY DEF Init
  <1>2. Len(tasks) = 0 /\ Len(binned) = 0 /\ \A s \in Slots : Len(mailbox[s]) = 0
    BY <1>1
  <1>3. TypeOK
    <2>1. pc \in [Threads -> {"idle", "use"}] /\ ref \in [Threads -> [slot : Slots, life : Nat]]
      BY Sizes DEF Init, Nothing
    <2>2. /\ present \in [Slots -> BOOLEAN] /\ is_valid \in [Slots -> BOOLEAN]
          /\ life \in [Slots -> Nat] /\ alive \in [Slots -> BOOLEAN]
          /\ draining \in [Slots -> BOOLEAN] /\ linked \in [Slots -> BOOLEAN]
          /\ lost \in [Slots -> SUBSET {"drain", "failure"}]
          /\ actor_state \in [Slots -> {"STOPPED"}]
          /\ msg \in [Workers \union Clients -> Msgs \union {NoMsg}]
          /\ fate \in [Msgs -> {"new"}]
      BY DEF Init
    <2>3. mailbox \in [Slots -> Seq(Msgs)] /\ tasks \in Seq(Slots)
          /\ binned \in Seq(Slots \union {Sentinel})
      BY EmptySeq DEF Init
    <2>4. /\ registered \subseteq Slots /\ stopped \in BOOLEAN /\ released \in BOOLEAN
          /\ rlock \subseteq Clients /\ restart \in BOOLEAN
      BY DEF Init
    <2>5. /\ active_actors \in 0 .. NumActors
          /\ \A s \in Slots : Len(mailbox[s]) <= MailboxSize
      BY <1>1, <1>2, Sizes
    <2>6. QED
      BY <2>1, <2>2, <2>3, <2>4, <2>5 DEF TypeOK
  <1>4. Places
    BY <1>1 DEF Places
  <1>5. Lives /\ Refs
    BY <1>1, <1>2, Sizes DEF Lives, Refs, Nothing, S
  <1>6. Ending /\ Carried
    BY <1>1, <1>2 DEF Ending, Carried, ClientHand, WorkerHand
  <1>7. Boxed
    BY <1>1, <1>2 DEF Boxed
  <1>8. Reports /\ Stopped
    <2>1. \A s \in Slots : ~Cleaning(s) /\ \A w \in Workers : ~Reporting(w, s)
      BY <1>1 DEF Reporting, Cleaning
    <2>2. 1 .. Len(binned) = {}
      BY <1>2
    <2>3. Reports
      <3>1. \A s \in Slots : ~Failed(s) /\ ~Unreported(s)
        BY <1>1 DEF Failed, Unreported
      <3>2. QED
        BY <2>1, <2>2, <3>1 DEF Reports, OnePlace, InBin
    <2>4. Stopped
      BY <1>1 DEF Stopped, Failed
    <2>5. QED
      BY <2>3, <2>4
  <1>9. \A s \in Slots : InDrain(s) = {} /\ Requests(s) = {}
    BY <1>1, <1>2 DEF InDrain, Requests
  <1>10. Calm
    BY <1>1, <1>2, <1>9 DEF Calm
  <1>11. Bounded /\ Owned
    <2>1. Cardinality({}) = 0
      BY FS_EmptySet
    <2>2. \A s \in Slots : Rights(s) = 0
      BY <1>9, <2>1 DEF Rights
    <2>3. QED
      BY <1>1, <2>2 DEF Bounded, Limit, Owned
  <1>12. NotStranded
    BY <1>1 DEF NotStranded, Poppable
  <1>13. QED
    BY <1>3, <1>4, <1>5, <1>6, <1>7, <1>8, <1>10, <1>11, <1>12 DEF IInv

-----------------------------------------------------------------------------
(* Steps and places                                                        *)

ClientPlaces == {"idle", "alive", "reserve", "publish", "kick", "notify", "undefined"}
WorkerPlaces == {"idle", "loop", "pop", "handle", "fail", "clear", "recheck", "repop",
                 "recas", "renotify", "late", "lateFail", "undefined"}
CleanerPlaces == {"idle", "erase", "stop", "spin", "reset", "spawn", "link", "exited",
                  "terminated"}
OwnerPlaces == {"use", "link", "stopPool", "sentinel", "joinCleanup", "erase", "stop",
                "spin", "reset", "joinPool", "destroyed"}

\* A step moves one thread, and not to a place of another kind.
LEMMA Moves ==
    ASSUME TypeOK, NEW t \in Threads, NEW v, pc' = [pc EXCEPT ![t] = v]
    PROVE  /\ pc'[t] = v /\ \A u \in Threads : u # t => pc'[u] = pc[u]
           /\ pc' = [u \in Threads |-> pc'[u]]
  BY DEF TypeOK

LEMMA ClientMoves ==
    ASSUME NEW c \in Clients, Send(c) \/ ClientStep(c) \/ Stray(c), Places
    PROVE  pc' = pc \/ \E v \in ClientPlaces : pc' = [pc EXCEPT ![c] = v]
  BY DEF Send, ClientStep, AddToMailbox, Reserve, Publish, Kick, Notify, Stray, Return,
     TryDrain, Goto, ClientPlaces, Places

LEMMA WorkerMoves ==
    ASSUME NEW w \in Workers, WorkerStep(w) \/ Stray(w), Places
    PROVE  pc' = pc \/ \E v \in WorkerPlaces : pc' = [pc EXCEPT ![w] = v]
  BY DEF WorkerStep, Drain, Loop, PopNext, HandleMsg, NotifyFailure, Clear, Recheck, Repop,
     Recas, Renotify, Stray, TryDrain, Goto, WorkerPlaces, Places

LEMMA CleanerMoves ==
    ASSUME CleanerStep
    PROVE  \E v \in CleanerPlaces : pc' = [pc EXCEPT ![Cleaner] = v]
  BY DEF CleanerStep, TakeFailed, UnregisterStep, Erase, StopActor, Spin, Reset, Respawn,
     Link, Terminate, Unregistered, Goto, CleanerPlaces

LEMMA OwnerMoves ==
    ASSUME Spawn \/ Release \/ OwnerStep
    PROVE  pc' = pc \/ \E v \in OwnerPlaces : pc' = [pc EXCEPT ![Owner] = v]
  BY Kinds DEF Spawn, Link, Release, OwnerStep, StopPool, StopCleaner, JoinCleaner, JoinPool,
     UnregisterStep, Erase, StopActor, Spin, Reset, Unregistered, Goto, OwnerPlaces

LEMMA PlacesStep ==
    ASSUME TypeOK, Places, Next
    PROVE  Places' /\ pc' = [u \in Threads |-> pc'[u]]
  <1> USE Kinds DEF Threads
  <1>0. CASE UNCHANGED pc
    BY <1>0 DEF Places, TypeOK
  <1>1. ASSUME NEW c \in Clients, NEW v \in ClientPlaces, pc' = [pc EXCEPT ![c] = v]
        PROVE  Places' /\ pc' = [u \in Threads |-> pc'[u]]
    <2>1. /\ pc'[c] \in ClientPlaces /\ \A u \in Threads : u # c => pc'[u] = pc[u]
          /\ pc' = [u \in Threads |-> pc'[u]]
      BY <1>1, Moves
    <2>2. \A u \in Clients : pc'[u] \in ClientPlaces
      BY <2>1 DEF Places, ClientPlaces
    <2>3. QED
      BY <2>1, <2>2 DEF Places, ClientPlaces
  <1>2. ASSUME NEW w \in Workers, NEW v \in WorkerPlaces, pc' = [pc EXCEPT ![w] = v]
        PROVE  Places' /\ pc' = [u \in Threads |-> pc'[u]]
    <2>1. /\ pc'[w] \in WorkerPlaces /\ \A u \in Threads : u # w => pc'[u] = pc[u]
          /\ pc' = [u \in Threads |-> pc'[u]]
      BY <1>2, Moves
    <2>2. \A u \in Workers : pc'[u] \in WorkerPlaces
      BY <2>1 DEF Places, WorkerPlaces
    <2>3. QED
      BY <2>1, <2>2 DEF Places, WorkerPlaces
  <1>3. ASSUME NEW v \in CleanerPlaces, pc' = [pc EXCEPT ![Cleaner] = v]
        PROVE  Places' /\ pc' = [u \in Threads |-> pc'[u]]
    <2>1. /\ pc'[Cleaner] \in CleanerPlaces /\ \A u \in Threads : u # Cleaner => pc'[u] = pc[u]
          /\ pc' = [u \in Threads |-> pc'[u]]
      BY <1>3, Moves
    <2>2. /\ \A u \in Clients \union Workers : pc'[u] = pc[u]
          /\ pc'[Owner] = pc[Owner]
      BY <2>1
    <2>3. pc'[Cleaner] \in CleanerPlaces
      BY <2>1
    <2>4. QED
      BY <2>1, <2>2, <2>3 DEF Places, CleanerPlaces
  <1>4. ASSUME NEW v \in OwnerPlaces, pc' = [pc EXCEPT ![Owner] = v]
        PROVE  Places' /\ pc' = [u \in Threads |-> pc'[u]]
    <2>1. /\ pc'[Owner] \in OwnerPlaces /\ \A u \in Threads : u # Owner => pc'[u] = pc[u]
          /\ pc' = [u \in Threads |-> pc'[u]]
      BY <1>4, Moves
    <2>2. /\ \A u \in Clients \union Workers : pc'[u] = pc[u]
          /\ pc'[Cleaner] = pc[Cleaner]
      BY <2>1
    <2>3. pc'[Owner] \in OwnerPlaces
      BY <2>1
    <2>4. QED
      BY <2>1, <2>2, <2>3 DEF Places, OwnerPlaces
  <1>5. CASE Quiet
    BY <1>5, <1>0 DEF Quiet, vars
  <1>6. ASSUME NEW c \in Clients, Send(c) \/ ClientStep(c) \/ Stray(c)
        PROVE  Places' /\ pc' = [u \in Threads |-> pc'[u]]
    BY <1>6, <1>0, <1>1, ClientMoves
  <1>7. ASSUME NEW w \in Workers, WorkerStep(w) \/ Stray(w)
        PROVE  Places' /\ pc' = [u \in Threads |-> pc'[u]]
    BY <1>7, <1>0, <1>2, WorkerMoves
  <1>8. CASE CleanerStep
    BY <1>8, <1>3, CleanerMoves
  <1>9. CASE Spawn \/ Release \/ OwnerStep
    BY <1>9, <1>0, <1>4, OwnerMoves
  <1>10. QED
    BY <1>5, <1>6, <1>7, <1>8, <1>9 DEF Next

-----------------------------------------------------------------------------
(* Typing                                                                  *)

\* What a thread works with is a slot.
LEMMA Slot ==
    ASSUME TypeOK, NEW t \in Threads
    PROVE  /\ S(t) \in Slots /\ ref[t].life \in Nat
           /\ ref[t] \in [slot : Slots, life : Nat]
  BY DEF TypeOK, S

\* A mailbox is a bounded sequence of messages.
LEMMA Mailbox ==
    ASSUME TypeOK, NEW s \in Slots
    PROVE  /\ mailbox[s] \in Seq(Msgs) /\ Len(mailbox[s]) \in Nat
           /\ Len(mailbox[s]) <= MailboxSize
           /\ \A i \in 1 .. Len(mailbox[s]) : mailbox[s][i] \in Msgs
  <1>1. mailbox[s] \in Seq(Msgs) /\ Len(mailbox[s]) <= MailboxSize
    BY DEF TypeOK
  <1>2. QED
    BY <1>1

\* The first of a sequence, and the rest in the same order.
LEMMA Front ==
    ASSUME NEW X, NEW q \in Seq(X), q # <<>>
    PROVE  /\ Head(q) \in X /\ Head(q) = q[1] /\ Tail(q) \in Seq(X)
           /\ Len(q) \in Nat \ {0} /\ Len(Tail(q)) = Len(q) - 1
           /\ \A i \in 1 .. Len(q) - 1 : Tail(q)[i] = q[i + 1]
  OBVIOUS

\* One more behind all the others.
LEMMA Back ==
    ASSUME NEW X, NEW q \in Seq(X), NEW x \in X
    PROVE  /\ Append(q, x) \in Seq(X)
           /\ Len(q) \in Nat /\ Len(Append(q, x)) = Len(q) + 1
           /\ Append(q, x)[Len(q) + 1] = x
           /\ \A i \in 1 .. Len(q) : Append(q, x)[i] = q[i]
  OBVIOUS

\* The types of what the threads carry about.
HandType == /\ ref \in [Threads -> [slot : Slots, life : Nat]]
            /\ msg \in [Workers \union Clients -> Msgs \union {NoMsg}]
            /\ rlock \subseteq Clients
            /\ fate \in [Msgs -> {"new", "sending", "refused", "reserved", "queued",
                                  "handling", "handled", "threw", "dropped"}]
            /\ restart \in BOOLEAN

ActorType == /\ active_actors \in 0 .. NumActors
             /\ present \in [Slots -> BOOLEAN] /\ is_valid \in [Slots -> BOOLEAN]
             /\ registered \subseteq Slots
             /\ life \in [Slots -> Nat]
             /\ linked \in [Slots -> BOOLEAN]
             /\ lost \in [Slots -> SUBSET {"drain", "failure"}]
             /\ alive \in [Slots -> BOOLEAN] /\ draining \in [Slots -> BOOLEAN]
             /\ actor_state \in [Slots -> {"RUNNING", "FAILED", "STOPPED"}]

QueueType == /\ mailbox \in [Slots -> Seq(Msgs)]
             /\ \A s \in Slots : Len(mailbox[s]) <= MailboxSize
             /\ tasks \in Seq(Slots) /\ stopped \in BOOLEAN
             /\ binned \in Seq(Slots \union {Sentinel})
             /\ released \in BOOLEAN

LEMMA Types ==
    TypeOK <=> /\ HandType /\ ActorType /\ QueueType
               /\ pc \in [Threads ->
                    {"idle", "undefined", "terminated", "exited",
                     "alive", "reserve", "publish", "kick", "notify",
                     "loop", "pop", "handle", "fail", "clear", "recheck", "repop", "recas",
                     "renotify", "late", "lateFail",
                     "erase", "stop", "spin", "reset", "spawn", "link",
                     "use", "stopPool", "sentinel", "joinCleanup", "unregister", "joinPool",
                     "destroyed"}]
  BY DEF TypeOK, HandType, ActorType, QueueType

\* A request more, or none.
LEMMA Asked ==
    ASSUME NEW s, NotifyMailboxActive(s)
    PROVE  tasks' = tasks \/ tasks' = Append(tasks, s)
  BY DEF NotifyMailboxActive

\* The oldest message of a mailbox is one of the messages.
LEMMA Oldest ==
    ASSUME TypeOK, NEW t \in Threads, Poppable(S(t))
    PROVE  /\ Head(mailbox[S(t)]) \in Msgs /\ Head(mailbox[S(t)]) = mailbox[S(t)][1]
           /\ fate[Head(mailbox[S(t)])] = "queued"
           /\ Tail(mailbox[S(t)]) \in Seq(Msgs)
           /\ Len(mailbox[S(t)]) \in Nat \ {0}
           /\ Len(Tail(mailbox[S(t)])) = Len(mailbox[S(t)]) - 1
           /\ \A i \in 1 .. Len(mailbox[S(t)]) - 1 :
                 Tail(mailbox[S(t)])[i] = mailbox[S(t)][i + 1]
  <1>1. mailbox[S(t)] \in Seq(Msgs) /\ mailbox[S(t)] # <<>>
    BY Slot, Mailbox DEF Poppable
  <1>2. fate[Head(mailbox[S(t)])] = "queued"
    BY DEF Poppable
  <1>3. QED
    BY <1>1, <1>2, Front

LEMMA HandStep ==
    ASSUME TypeOK, Next PROVE HandType'
  <1> USE Kinds DEF Threads, Goto, Set, HandType
  <1>0. HandType
    BY Types
  <1>1. ASSUME UNCHANGED <<ref, msg, rlock, fate, restart>> PROVE HandType'
    BY <1>0, <1>1
  <1>2. ASSUME NEW c \in Clients, Send(c) PROVE HandType'
    <2>1. PICK m \in Msgs, s \in Slots :
             /\ \/ fate' = [fate EXCEPT ![m] = "sending"]
                \/ fate' = [fate EXCEPT ![m] = "refused"]
             /\ ref' = ref \/ ref' = [ref EXCEPT ![c] = [slot |-> s, life |-> life[s]]]
             /\ msg' = msg \/ msg' = [msg EXCEPT ![c] = m]
             /\ rlock' = rlock \/ rlock' = rlock \union {c}
      BY <1>2 DEF Send
    <2>2. life[s] \in Nat /\ restart' = restart
      BY <1>2 DEF TypeOK, Send
    <2>3. QED
      BY <1>0, <2>1, <2>2
  <1>3. ASSUME NEW c \in Clients, AddToMailbox(c) \/ Reserve(c) \/ Publish(c) PROVE HandType'
    BY <1>0, <1>3 DEF AddToMailbox, Reserve, Publish, Return
  <1>4. ASSUME NEW c \in Clients, Kick(c) \/ Notify(c) PROVE HandType'
    BY <1>0, <1>4 DEF Kick, Notify, Return
  <1>5. ASSUME NEW w \in Workers, Drain(w) PROVE HandType'
    <2>1. Head(tasks) \in Slots /\ life[Head(tasks)] \in Nat
      BY <1>5, Front DEF Drain, TypeOK
    <2>2. ref' = ref \/ ref' = [ref EXCEPT ![w] = [slot |-> Head(tasks), life |-> life[Head(tasks)]]]
      BY <1>5 DEF Drain
    <2>3. QED
      BY <1>0, <1>5, <2>1, <2>2 DEF Drain
  <1>6. ASSUME NEW w \in Workers, PopNext(w) \/ Repop(w) PROVE HandType'
    <2>1. CASE Pop(w)
      BY <1>0, <1>6, <2>1, Oldest DEF Pop, PopNext, Repop
    <2>2. CASE UNCHANGED <<msg, fate>>
      BY <1>0, <1>6, <2>2 DEF PopNext, Repop
    <2>3. QED
      BY <1>6, <2>1, <2>2 DEF PopNext, Repop
  <1>7. ASSUME NEW w \in Workers, NEW from, NEW to, NEW failed, HandleMsg(w, from, to, failed)
        PROVE  HandType'
    <2>1. /\ msg' = [msg EXCEPT ![w] = NoMsg]
          /\ \/ fate' = [fate EXCEPT ![msg[w]] = "handled"]
             \/ fate' = [fate EXCEPT ![msg[w]] = "threw"]
          /\ UNCHANGED <<ref, rlock, restart>>
      BY <1>7 DEF HandleMsg
    <2>2. QED
      BY <1>0, <2>1
  <1>8. ASSUME NEW w \in Workers,
               \/ Loop(w) \/ NotifyFailure(w, "fail", "loop") \/ Clear(w) \/ Recheck(w)
               \/ Recas(w) \/ Renotify(w) \/ NotifyFailure(w, "lateFail", "idle")
        PROVE  HandType'
    BY <1>1, <1>8 DEF Loop, NotifyFailure, Clear, Recheck, Recas, Renotify
  <1>9. ASSUME TakeFailed PROVE HandType'
    <2> DEFINE s == Head(binned)
    <2>1. s \in Slots \union {Sentinel}
      BY <1>9, Front DEF TakeFailed, TypeOK
    <2>2. CASE s = Sentinel
      BY <1>0, <1>9, <2>2 DEF TakeFailed
    <2>3. CASE s # Sentinel
      <3>1. s \in Slots /\ life[s] \in Nat /\ present[s] \in BOOLEAN /\ is_valid[s] \in BOOLEAN
        BY <2>1, <2>3 DEF TypeOK
      <3>2. /\ ref' = [ref EXCEPT ![Cleaner] = [slot |-> s, life |-> life[s]]]
            /\ restart' = (present[s] /\ ~is_valid[s])
            /\ UNCHANGED <<msg, rlock, fate>>
        BY <1>9, <2>3 DEF TakeFailed
      <3>3. restart' \in BOOLEAN
        BY <3>1, <3>2
      <3>4. QED
        BY <1>0, <3>1, <3>2, <3>3
    <2>4. QED
      BY <2>2, <2>3
  <1>10. ASSUME NEW t \in {Cleaner, Owner}, NEW from, Unregistered(t, from)
         PROVE  ref' \in [Threads -> [slot : Slots, life : Nat]]
    <2>1. CASE UNCHANGED ref
      BY <1>0, <2>1
    <2>2. CASE S(t) + 1 < NumActors /\
               ref' = [ref EXCEPT ![t] = [slot |-> S(t) + 1, life |-> life[S(t) + 1]]]
      <3>1. S(t) + 1 \in Slots
        BY <2>2, Slot, Sizes DEF Slots
      <3>2. life[S(t) + 1] \in Nat
        BY <3>1 DEF TypeOK
      <3>3. QED
        BY <1>0, <2>2, <3>1, <3>2
    <2>3. QED
      BY <1>10, <2>1, <2>2 DEF Unregistered
  <1>11. ASSUME NEW t \in {Cleaner, Owner}, UnregisterStep(t) PROVE HandType'
    <2>1. CASE StopActor(t) \/ Spin(t)
      BY <1>1, <2>1 DEF StopActor, Spin
    <2>2. CASE Erase(t)
      BY <1>0, <1>10, <2>2 DEF Erase
    <2>3. CASE Reset(t)
      <3>1. fate' \in [Msgs -> {"new", "sending", "refused", "reserved", "queued",
                                "handling", "handled", "threw", "dropped"}]
        BY <1>0, <2>3 DEF Reset
      <3>2. ref' \in [Threads -> [slot : Slots, life : Nat]]
        BY <1>10, <2>3 DEF Reset
      <3>3. QED
        BY <1>0, <2>3, <3>1, <3>2 DEF Reset
    <2>4. QED
      BY <1>11, <2>1, <2>2, <2>3 DEF UnregisterStep
  <1>12. ASSUME JoinCleaner PROVE HandType'
    <2>1. life[0] \in Nat
      BY Sizes DEF TypeOK
    <2>2. QED
      BY <1>0, <1>12, <2>1, Sizes DEF JoinCleaner
  <1>13. ASSUME \/ Respawn \/ Terminate \/ Link(Cleaner, "idle") \/ Link(Owner, "use")
                \/ Release \/ StopPool \/ StopCleaner \/ JoinPool
         PROVE  HandType'
    BY <1>1, <1>13 DEF Respawn, Terminate, Link, Release, StopPool, StopCleaner, JoinPool
  <1>14. ASSUME Spawn PROVE HandType'
    <2>1. active_actors \in Slots /\ life[active_actors] + 1 \in Nat
      BY <1>14, Sizes DEF Spawn, Slots, TypeOK
    <2>2. QED
      BY <1>0, <1>14, <2>1 DEF Spawn
  <1>15. ASSUME (\E t \in Workers \union Clients : Stray(t)) \/ Quiet PROVE HandType'
    BY <1>1, <1>15 DEF Stray, Quiet, vars
  <1>16. QED
    BY <1>2, <1>3, <1>4, <1>5, <1>6, <1>7, <1>8, <1>9, <1>11, <1>12, <1>13, <1>15, <1>14
       DEF Next, ClientStep, WorkerStep, CleanerStep, OwnerStep

LEMMA ActorStep ==
    ASSUME TypeOK, Next PROVE ActorType'
  <1> USE Kinds DEF Threads, Goto, Set, ActorType, slotVars, actorVars
  <1>0. ActorType
    BY Types
  <1>1. ASSUME UNCHANGED <<active_actors, slotVars, alive, draining, actor_state, lost>>
        PROVE  ActorType'
    BY <1>0, <1>1
  <1>2. ASSUME NEW c \in Clients,
               \/ Send(c) \/ AddToMailbox(c) \/ Reserve(c) \/ Publish(c)
        PROVE  ActorType'
    BY <1>1, <1>2 DEF Send, AddToMailbox, Reserve, Publish
  <1>3. ASSUME NEW s \in Slots, NEW x \in {"drain", "failure"}, Lose(s, x) \/ UNCHANGED lost
        PROVE  lost' \in [Slots -> SUBSET {"drain", "failure"}]
    <2>1. lost[s] \union {x} \in SUBSET {"drain", "failure"}
      BY <1>0
    <2>2. QED
      BY <1>0, <1>3, <2>1 DEF Lose
  <1>4. ASSUME NEW t \in Threads, Notify(t) \/ Renotify(t) PROVE ActorType'
    <2>1. lost' \in [Slots -> SUBSET {"drain", "failure"}]
      BY <1>3, <1>4, Slot DEF Notify, Renotify, NotifyMailboxActive
    <2>2. QED
      BY <1>0, <1>4, <2>1 DEF Notify, Renotify
  <1>5. ASSUME NEW t \in Threads, Kick(t) \/ Recas(t) PROVE ActorType'
    <2>1. S(t) \in Slots /\ lost[S(t)] \ {"drain"} \in SUBSET {"drain", "failure"}
      BY <1>0, Slot
    <2>2. /\ draining' = draining \/ draining' = [draining EXCEPT ![S(t)] = TRUE]
          /\ lost' = lost \/ lost' = [lost EXCEPT ![S(t)] = lost[S(t)] \ {"drain"}]
          /\ UNCHANGED <<active_actors, slotVars, alive, actor_state>>
      BY <1>5 DEF Kick, Recas, TryDrain
    <2>3. draining' \in [Slots -> BOOLEAN]
      BY <1>0, <2>2
    <2>4. lost' \in [Slots -> SUBSET {"drain", "failure"}]
      BY <1>0, <2>1, <2>2
    <2>5. QED
      BY <1>0, <2>2, <2>3, <2>4
  <1>6. ASSUME NEW w \in Workers,
               \/ Drain(w) \/ Loop(w) \/ PopNext(w) \/ Recheck(w) \/ Repop(w)
        PROVE  ActorType'
    BY <1>1, <1>6 DEF Drain, Loop, PopNext, Recheck, Repop
  <1>7. ASSUME NEW w \in Workers, NEW from, NEW to, NEW failed, HandleMsg(w, from, to, failed)
        PROVE  ActorType'
    <2>1. /\ \/ alive' = alive
             \/ alive' = [alive EXCEPT ![S(w)] = FALSE]
          /\ \/ actor_state' = actor_state
             \/ actor_state' = [actor_state EXCEPT ![S(w)] = "FAILED"]
          /\ UNCHANGED <<active_actors, slotVars, draining>>
      BY <1>7 DEF HandleMsg
    <2>2. lost' \in [Slots -> SUBSET {"drain", "failure"}]
      BY <1>7, <1>3, Slot DEF HandleMsg
    <2>3. QED
      BY <1>0, <2>1, <2>2
  <1>8. ASSUME NEW w \in Workers, NEW from, NEW to, NotifyFailure(w, from, to)
        PROVE  ActorType'
    <2>1. /\ is_valid' = is_valid \/ is_valid' = [is_valid EXCEPT ![S(w)] = FALSE]
          /\ UNCHANGED <<active_actors, present, registered, life, linked, actorVars>>
          /\ Lose(S(w), "failure") \/ UNCHANGED lost
      BY <1>8 DEF NotifyFailure
    <2>2. lost' \in [Slots -> SUBSET {"drain", "failure"}]
      BY <1>3, <2>1, Slot
    <2>3. QED
      BY <1>0, <2>1, <2>2
  <1>9. ASSUME NEW w \in Workers, Clear(w) PROVE ActorType'
    BY <1>0, <1>9 DEF Clear
  <1>10. ASSUME NEW t \in {Cleaner, Owner}, UnregisterStep(t) PROVE ActorType'
    BY <1>0, <1>10 DEF UnregisterStep, Erase, StopActor, Spin, Reset
  <1>11. ASSUME NEW s \in Slots, Install(s), active_actors' \in 0 .. NumActors,
               registered' \subseteq Slots
        PROVE  ActorType'
    BY <1>0, <1>11 DEF Install
  <1>12. ASSUME NEW t \in Threads, NEW to, Link(t, to) PROVE ActorType'
    <2>1. S(t) \in Slots
      BY Slot
    <2>2. QED
      BY <1>0, <1>12, <2>1 DEF Link
  <1>13. ASSUME Respawn PROVE ActorType'
    <2>1. CASE UNCHANGED <<slotVars, actorVars, lost>>
      BY <1>1, <1>13, <2>1 DEF Respawn
    <2>2. CASE Install(S(Cleaner))
      <3>1. S(Cleaner) \in Slots
        BY Slot
      <3>2. active_actors' = active_actors /\ registered' \subseteq Slots
        BY <1>0, <1>13, <3>1 DEF Respawn
      <3>3. QED
        BY <1>0, <1>11, <2>2, <3>1, <3>2
    <2>3. QED
      BY <1>13, <2>1, <2>2 DEF Respawn
  <1>14. ASSUME Spawn PROVE ActorType'
    <2>1. active_actors \in Slots /\ active_actors' \in 0 .. NumActors
      BY <1>0, <1>14, Sizes DEF Spawn, Slots
    <2>2. Install(active_actors) /\ registered' \subseteq Slots
      BY <1>0, <1>14, <2>1 DEF Spawn
    <2>3. QED
      BY <1>11, <2>1, <2>2
  <1>15. ASSUME \/ TakeFailed \/ Terminate \/ Release \/ StopPool \/ StopCleaner
                \/ JoinCleaner \/ JoinPool
         PROVE  ActorType'
    BY <1>1, <1>15 DEF TakeFailed, Terminate, Release, StopPool, StopCleaner, JoinCleaner,
       JoinPool
  <1>16. ASSUME (\E t \in Workers \union Clients : Stray(t)) \/ Quiet PROVE ActorType'
    BY <1>1, <1>16 DEF Stray, Quiet, vars
  <1>17. QED
    BY <1>2, <1>5, <1>6, <1>7, <1>8, <1>9, <1>10, <1>13, <1>14, <1>15, <1>16,
       <1>4, <1>12 DEF Next, ClientStep, WorkerStep, CleanerStep, OwnerStep

LEMMA QueueStep ==
    ASSUME TypeOK, Carried, Next PROVE QueueType'
  <1> USE Kinds DEF Threads, Goto, Set, QueueType, actorVars, poolVars
  <1>0. QueueType
    BY Types
  <1>1. ASSUME UNCHANGED <<mailbox, poolVars, binned>>, released' \in BOOLEAN
        PROVE  QueueType'
    BY <1>0, <1>1
  <1>2. ASSUME NEW c \in Clients,
               \/ Send(c) \/ AddToMailbox(c) \/ Publish(c) \/ Kick(c)
        PROVE  QueueType'
    BY <1>0, <1>1, <1>2 DEF Send, AddToMailbox, Publish, Kick
  <1>3. ASSUME NEW c \in Clients, Reserve(c) PROVE QueueType'
    <2>1. CASE UNCHANGED mailbox
      BY <1>0, <1>1, <1>3, <2>1 DEF Reserve
    <2>2. CASE Len(mailbox[S(c)]) < MailboxSize /\
               mailbox' = [mailbox EXCEPT ![S(c)] = Append(mailbox[S(c)], msg[c])]
      <3>1. S(c) \in Slots /\ msg[c] \in Msgs
        BY <1>3, Slot DEF Reserve, Carried, ClientHand, TypeOK
      <3>2. /\ Append(mailbox[S(c)], msg[c]) \in Seq(Msgs)
            /\ Len(Append(mailbox[S(c)], msg[c])) <= MailboxSize
        BY <2>2, <3>1, Mailbox, Back, Sizes
      <3>3. QED
        BY <1>0, <1>3, <2>2, <3>1, <3>2 DEF Reserve
    <2>3. QED
      BY <1>3, <2>1, <2>2 DEF Reserve
  <1>4. ASSUME NEW t \in Threads, Notify(t) \/ Renotify(t) PROVE QueueType'
    <2>1. tasks' = tasks \/ tasks' = Append(tasks, S(t))
      BY <1>4, Asked DEF Notify, Renotify
    <2>2. tasks' \in Seq(Slots)
      <3>1. tasks \in Seq(Slots) /\ S(t) \in Slots
        BY <1>0, Slot
      <3>2. Append(tasks, S(t)) \in Seq(Slots)
        BY <3>1
      <3>3. QED
        BY <2>1, <3>1, <3>2
    <2>3. QED
      BY <1>0, <1>4, <2>2 DEF Notify, Renotify
  <1>5. ASSUME NEW w \in Workers, Drain(w) PROVE QueueType'
    <2>1. tasks' \in Seq(Slots)
      BY <1>0, <1>5, Front DEF Drain
    <2>2. QED
      BY <1>0, <1>5, <2>1 DEF Drain
  <1>6. ASSUME NEW w \in Workers, PopNext(w) \/ Repop(w) PROVE QueueType'
    <2>1. CASE UNCHANGED mailbox
      BY <1>0, <1>1, <1>6, <2>1 DEF PopNext, Repop
    <2>2. CASE Pop(w)
      <3>1. S(w) \in Slots /\ mailbox' = [mailbox EXCEPT ![S(w)] = Tail(mailbox[S(w)])]
        BY <2>2, Slot DEF Pop
      <3>2. /\ Tail(mailbox[S(w)]) \in Seq(Msgs)
            /\ Len(Tail(mailbox[S(w)])) <= MailboxSize
        BY <2>2, <3>1, Oldest, Mailbox, Sizes DEF Pop
      <3>3. QED
        BY <1>0, <1>6, <3>1, <3>2 DEF PopNext, Repop
    <2>3. QED
      BY <1>6, <2>1, <2>2 DEF PopNext, Repop
  <1>7. ASSUME NEW w \in Workers,
               \/ Loop(w) \/ Clear(w) \/ Recheck(w) \/ Recas(w)
               \/ HandleMsg(w, "handle", "loop", "fail")
               \/ HandleMsg(w, "late", "idle", "lateFail")
        PROVE  QueueType'
    BY <1>0, <1>1, <1>7 DEF Loop, Clear, Recheck, Recas, HandleMsg
  <1>8. ASSUME NEW w \in Workers, NEW from, NEW to, NotifyFailure(w, from, to)
        PROVE  QueueType'
    <2>1. binned' = binned \/ binned' = Append(binned, S(w))
      BY <1>8 DEF NotifyFailure
    <2>2. binned \in Seq(Slots \union {Sentinel}) /\ S(w) \in Slots \union {Sentinel}
      BY <1>0, Slot
    <2>3. binned' \in Seq(Slots \union {Sentinel})
      <3>1. Append(binned, S(w)) \in Seq(Slots \union {Sentinel})
        BY <2>2
      <3>2. QED
        BY <2>1, <2>2, <3>1
    <2>4. QED
      BY <1>0, <1>8, <2>3 DEF NotifyFailure
  <1>9. ASSUME TakeFailed PROVE QueueType'
    <2>1. binned' \in Seq(Slots \union {Sentinel})
      BY <1>0, <1>9, Front DEF TakeFailed
    <2>2. QED
      BY <1>0, <1>9, <2>1 DEF TakeFailed
  <1>10. ASSUME NEW s, mailbox' = [mailbox EXCEPT ![s] = <<>>],
                UNCHANGED <<poolVars, binned, released>>
         PROVE  QueueType'
    <2>1. <<>> \in Seq(Msgs) /\ Len(<<>>) = 0
      BY EmptySeq
    <2>2. \A r \in Slots : Len(mailbox'[r]) <= MailboxSize
      BY <1>0, <1>10, <2>1, Sizes
    <2>3. QED
      BY <1>0, <1>10, <2>1, <2>2
  <1>11. ASSUME NEW t \in {Cleaner, Owner}, UnregisterStep(t) PROVE QueueType'
    <2>1. CASE Erase(t) \/ StopActor(t) \/ Spin(t)
      BY <1>0, <1>1, <2>1 DEF Erase, StopActor, Spin
    <2>2. CASE Reset(t)
      BY <1>10, <2>2 DEF Reset
    <2>3. QED
      BY <1>11, <2>1, <2>2 DEF UnregisterStep
  <1>12. ASSUME Respawn \/ Spawn PROVE QueueType'
    <2>1. CASE UNCHANGED actorVars
      BY <1>0, <1>1, <1>12, <2>1 DEF Respawn, Spawn
    <2>2. CASE \E s : Install(s)
      BY <1>10, <1>12, <2>2 DEF Install, Respawn, Spawn
    <2>3. QED
      BY <1>12, <2>1, <2>2 DEF Respawn, Spawn
  <1>13. ASSUME \/ Terminate \/ Link(Cleaner, "idle") \/ Link(Owner, "use")
                \/ Release \/ StopPool \/ JoinCleaner \/ JoinPool
         PROVE  QueueType'
    BY <1>0, <1>13 DEF Terminate, Link, Release, StopPool, JoinCleaner, JoinPool
  <1>14. ASSUME StopCleaner PROVE QueueType'
    <2>1. binned' \in Seq(Slots \union {Sentinel})
      BY <1>0, <1>14, Back DEF StopCleaner
    <2>2. QED
      BY <1>0, <1>14, <2>1 DEF StopCleaner
  <1>15. ASSUME (\E t \in Workers \union Clients : Stray(t)) \/ Quiet PROVE QueueType'
    BY <1>0, <1>1, <1>15 DEF Stray, Quiet, vars
  <1>16. QED
    BY <1>2, <1>3, <1>4, <1>5, <1>6, <1>7, <1>8, <1>9, <1>11, <1>12, <1>13, <1>14, <1>15
       DEF Next, ClientStep, WorkerStep, CleanerStep, OwnerStep

LEMMA TypeStep ==
    ASSUME TypeOK, Places, Carried, Next PROVE TypeOK'
  <1> DEFINE Everywhere ==
        {"idle", "undefined", "terminated", "exited",
         "alive", "reserve", "publish", "kick", "notify",
         "loop", "pop", "handle", "fail", "clear", "recheck", "repop", "recas",
         "renotify", "late", "lateFail",
         "erase", "stop", "spin", "reset", "spawn", "link",
         "use", "stopPool", "sentinel", "joinCleanup", "unregister", "joinPool",
         "destroyed"}
  <1> HIDE DEF Everywhere
  <1>1. HandType' /\ ActorType' /\ QueueType'
    BY HandStep, ActorStep, QueueStep
  <1>2. Places' /\ pc' = [u \in Threads |-> pc'[u]]
    BY PlacesStep
  <1>3. \A u \in Threads : pc'[u] \in ClientPlaces \union WorkerPlaces
                                        \union CleanerPlaces \union OwnerPlaces
    BY <1>2 DEF Places, Threads, ClientPlaces, WorkerPlaces, CleanerPlaces, OwnerPlaces
  <1>4. pc' \in [Threads -> Everywhere]
    BY <1>2, <1>3 DEF Everywhere, ClientPlaces, WorkerPlaces, CleanerPlaces, OwnerPlaces
  <1>5. QED
    BY <1>1, <1>4 DEF TypeOK, HandType, ActorType, QueueType, Everywhere

-----------------------------------------------------------------------------
(* Slots and references                                                    *)

\* A thread that holds an actor works with one that is there.
LEMMA Held ==
    ASSUME TypeOK, Lives, NEW t \in Threads, Holds(t)
    PROVE  S(t) \in Slots /\ present[S(t)] /\ life[S(t)] > 0 /\ life[S(t)] = ref[t].life
  BY Slot DEF Lives, Holds

LEMMA LivesStep ==
    ASSUME IInv, Next PROVE Lives'
  <1> USE Kinds DEF Threads, Goto, Set, slotVars, actorVars
  <1>0. TypeOK /\ Lives /\ Refs
    BY DEF IInv
  <1>1. ASSUME UNCHANGED <<active_actors, present, is_valid, life, mailbox>>,
               \A s \in Slots : alive'[s] => alive[s]
        PROVE  Lives'
    BY <1>0, <1>1 DEF Lives
  <1>2. ASSUME NEW c \in Clients,
               \/ Send(c) \/ AddToMailbox(c) \/ Publish(c) \/ Kick(c) \/ Notify(c)
        PROVE  Lives'
    BY <1>1, <1>2 DEF Send, AddToMailbox, Publish, Kick, Notify
  <1>3. ASSUME NEW t \in Threads, Holds(t), UNCHANGED <<active_actors, slotVars, alive>>,
               \A s \in Slots : s # S(t) => mailbox'[s] = mailbox[s]
        PROVE  Lives'
    BY <1>0, <1>3, Held DEF Lives
  <1>4. ASSUME NEW c \in Clients, Reserve(c) PROVE Lives'
    BY <1>0, <1>3, <1>4 DEF Reserve, TypeOK
  <1>5. ASSUME NEW w \in Workers, PopNext(w) \/ Repop(w) PROVE Lives'
    BY <1>0, <1>3, <1>5 DEF PopNext, Repop, Pop, TypeOK
  <1>6. ASSUME NEW w \in Workers,
               \/ Drain(w) \/ Loop(w) \/ Clear(w) \/ Recheck(w) \/ Recas(w) \/ Renotify(w)
        PROVE  Lives'
    BY <1>1, <1>6 DEF Drain, Loop, Clear, Recheck, Recas, Renotify
  <1>7. ASSUME NEW w \in Workers, NEW from, NEW to, NEW failed, HandleMsg(w, from, to, failed)
        PROVE  Lives'
    <2>1. /\ \/ alive' = alive
             \/ alive' = [alive EXCEPT ![S(w)] = FALSE]
          /\ UNCHANGED <<active_actors, slotVars, mailbox>>
      BY <1>7 DEF HandleMsg
    <2>2. \A s \in Slots : alive'[s] => alive[s]
      BY <1>0, <2>1 DEF TypeOK
    <2>3. QED
      BY <1>1, <2>1, <2>2
  <1>8. ASSUME NEW w \in Workers, NEW from \in {"fail", "lateFail"}, NEW to,
               NotifyFailure(w, from, to)
        PROVE  Lives'
    <2>1. CASE UNCHANGED is_valid
      BY <1>1, <1>8, <2>1 DEF NotifyFailure
    <2>2. CASE ~released /\ is_valid' = [is_valid EXCEPT ![S(w)] = FALSE]
      <3>0. S(w) \in Slots /\ Reporting(w, S(w))
        BY <1>0, <1>8, Slot DEF NotifyFailure, Reporting
      <3>1. ~alive[S(w)]
        BY <2>2, <3>0 DEF IInv, Reports, OnePlace, Stopped
      <3>2. is_valid' = [is_valid EXCEPT ![S(w)] = FALSE]
            /\ UNCHANGED <<active_actors, present, life, alive, mailbox>>
        BY <1>8, <2>2 DEF NotifyFailure
      <3>3. QED
        BY <1>0, <3>1, <3>2 DEF Lives, TypeOK
    <2>3. QED
      BY <1>8, <2>1, <2>2 DEF NotifyFailure
  <1>9. ASSUME NEW t \in {Cleaner, Owner}, UnregisterStep(t) PROVE Lives'
    <2>1. CASE Erase(t)
      BY <1>0, <2>1 DEF Erase, Lives
    <2>2. CASE Spin(t)
      BY <1>1, <2>2 DEF Spin
    <2>3. CASE StopActor(t)
      <3>1. \A s \in Slots : alive'[s] => alive[s]
        BY <1>0, <2>3 DEF StopActor, TypeOK
      <3>2. QED
        BY <1>1, <2>3, <3>1 DEF StopActor
    <2>4. CASE Reset(t)
      <3>1. /\ is_valid' = [is_valid EXCEPT ![S(t)] = FALSE]
            /\ present' = [present EXCEPT ![S(t)] = FALSE]
            /\ mailbox' = [mailbox EXCEPT ![S(t)] = <<>>]
            /\ UNCHANGED <<active_actors, life, alive>>
        BY <2>4 DEF Reset
      <3>2. QED
        BY <1>0, <3>1 DEF TypeOK, Lives
    <2>5. QED
      BY <1>9, <2>1, <2>2, <2>3, <2>4 DEF UnregisterStep
  <1>10. ASSUME NEW a \in Slots, Install(a),
                \A s \in Slots : s # a => (s >= active_actors' <=> s >= active_actors),
                ~(a >= active_actors')
         PROVE  Lives'
    <2>1. /\ present'[a] /\ is_valid'[a] /\ life'[a] = life[a] + 1 /\ life[a] \in Nat
          /\ \A s \in Slots : s # a => /\ present'[s] = present[s] /\ life'[s] = life[s]
                                       /\ is_valid'[s] = is_valid[s] /\ alive'[s] = alive[s]
                                       /\ mailbox'[s] = mailbox[s]
      BY <1>0, <1>10 DEF TypeOK, Install
    <2>2. QED
      BY <1>0, <1>10, <2>1 DEF Lives
  <1>11. ASSUME Respawn PROVE Lives'
    <2>1. CASE UNCHANGED <<slotVars, actorVars>>
      BY <1>1, <1>11, <2>1 DEF Respawn
    <2>2. CASE Install(S(Cleaner))
      <3>1. S(Cleaner) \in Slots /\ ~(S(Cleaner) >= active_actors)
        BY <1>0, <1>11, Slot DEF Respawn, Lives, Refs
      <3>2. QED
        BY <1>10, <1>11, <2>2, <3>1 DEF Respawn
    <2>3. QED
      BY <1>11, <2>1, <2>2 DEF Respawn
  <1>12. ASSUME Spawn PROVE Lives'
    <2>1. active_actors \in Slots /\ active_actors' = active_actors + 1
          /\ Install(active_actors)
      BY <1>0, <1>12, Sizes DEF Spawn, Slots, TypeOK
    <2>2. \A s \in Slots : s # active_actors => (s >= active_actors' <=> s >= active_actors)
      BY <2>1, Sizes
    <2>3. ~(active_actors >= active_actors')
      BY <2>1, Sizes
    <2>4. QED
      BY <1>10, <2>1, <2>2, <2>3
  <1>13. ASSUME \/ TakeFailed \/ Terminate \/ Link(Cleaner, "idle") \/ Link(Owner, "use")
                \/ Release \/ StopPool \/ StopCleaner \/ JoinCleaner \/ JoinPool
         PROVE  Lives'
    BY <1>1, <1>13 DEF TakeFailed, Terminate, Link, Release, StopPool, StopCleaner,
       JoinCleaner, JoinPool
  <1>14. ASSUME (\E t \in Workers \union Clients : Stray(t)) \/ Quiet PROVE Lives'
    BY <1>1, <1>14 DEF Stray, Quiet, vars
  <1>15. QED
    BY <1>2, <1>4, <1>5, <1>6, <1>7, <1>8, <1>9, <1>11, <1>12, <1>13, <1>14
       DEF Next, ClientStep, WorkerStep, CleanerStep, OwnerStep

\* Incarnations are counted upwards.
Upwards == \A s \in Slots : life'[s] \in Nat /\ life'[s] >= life[s]

LEMMA Grows ==
    ASSUME TypeOK, Next
    PROVE  Upwards
  <1>1. CASE UNCHANGED life
    BY <1>1 DEF TypeOK, Upwards
  <1>2. CASE \E c \in Clients : Send(c) \/ ClientStep(c)
    BY <1>1, <1>2 DEF Send, ClientStep, AddToMailbox, Reserve, Publish, Kick, Notify, slotVars
  <1>3. CASE \E w \in Workers : WorkerStep(w)
    BY <1>1, <1>3 DEF WorkerStep, Drain, Loop, PopNext, HandleMsg, NotifyFailure, Clear,
       Recheck, Repop, Recas, Renotify, slotVars
  <1>4. CASE CleanerStep \/ Spawn \/ Release \/ OwnerStep
    <2>1. CASE Respawn \/ Spawn
      <3>1. UNCHANGED life \/ Install(S(Cleaner)) \/ Spawn
        BY <2>1 DEF Respawn, slotVars
      <3>2. CASE UNCHANGED life
        BY <1>1, <3>2
      <3>3. CASE Install(S(Cleaner))
        BY <3>3 DEF Install, Set, TypeOK, Upwards
      <3>4. CASE Spawn
        BY <3>4 DEF Spawn, Install, Set, TypeOK, Upwards
      <3>5. QED
        BY <3>1, <3>2, <3>3, <3>4
    <2>2. CASE UnregisterStep(Cleaner) \/ UnregisterStep(Owner)
      BY <1>1, <2>2 DEF UnregisterStep, Erase, StopActor, Spin, Reset, slotVars
    <2>3. CASE \/ TakeFailed \/ Terminate \/ Link(Cleaner, "idle") \/ Link(Owner, "use")
               \/ Release \/ StopPool \/ StopCleaner \/ JoinCleaner \/ JoinPool
      BY <1>1, <2>3 DEF TakeFailed, Terminate, Link, Release, StopPool, StopCleaner,
         JoinCleaner, JoinPool, slotVars
    <2>4. QED
      BY <1>4, <2>1, <2>2, <2>3 DEF CleanerStep, OwnerStep
  <1>5. CASE (\E t \in Workers \union Clients : Stray(t)) \/ Quiet
    BY <1>1, <1>5 DEF Stray, Quiet, vars, slotVars
  <1>6. QED
    BY <1>2, <1>3, <1>4, <1>5 DEF Next

AtWork == {"erase", "stop", "spin", "reset", "spawn"}

\* Only the cleanup thread moves the cleanup thread, and only the owner the owner.
LEMMA Others ==
    ASSUME TypeOK, Places
    PROVE  /\ \A c \in Clients : Send(c) \/ ClientStep(c) \/ Stray(c) =>
                 pc'[Cleaner] = pc[Cleaner] /\ pc'[Owner] = pc[Owner]
           /\ \A w \in Workers : WorkerStep(w) \/ Stray(w) =>
                 pc'[Cleaner] = pc[Cleaner] /\ pc'[Owner] = pc[Owner]
           /\ CleanerStep => pc'[Owner] = pc[Owner]
           /\ Spawn \/ Release \/ OwnerStep => pc'[Cleaner] = pc[Cleaner]
  <1> USE Kinds DEF Threads
  <1>1. ASSUME NEW t \in Threads, NEW v, pc' = pc \/ pc' = [pc EXCEPT ![t] = v]
        PROVE  \A u \in Threads : u # t => pc'[u] = pc[u]
    BY <1>1, Moves
  <1>2. ASSUME NEW c \in Clients, Send(c) \/ ClientStep(c) \/ Stray(c)
        PROVE  pc'[Cleaner] = pc[Cleaner] /\ pc'[Owner] = pc[Owner]
    BY <1>1, <1>2, ClientMoves
  <1>3. ASSUME NEW w \in Workers, WorkerStep(w) \/ Stray(w)
        PROVE  pc'[Cleaner] = pc[Cleaner] /\ pc'[Owner] = pc[Owner]
    BY <1>1, <1>3, WorkerMoves
  <1>4. ASSUME CleanerStep PROVE pc'[Owner] = pc[Owner]
    BY <1>1, <1>4, CleanerMoves
  <1>5. ASSUME Spawn \/ Release \/ OwnerStep PROVE pc'[Cleaner] = pc[Cleaner]
    BY <1>1, <1>5, OwnerMoves
  <1>6. QED
    BY <1>2, <1>3, <1>4, <1>5

LEMMA RefsStep ==
    ASSUME IInv, Next PROVE Refs'
  <1> USE Kinds DEF Threads, Goto, Set, S, poolVars
  <1>0. TypeOK /\ Places /\ Lives /\ Refs
    BY DEF IInv
  <1>g. \A s \in Slots : life[s] \in Nat /\ life'[s] \in Nat /\ life'[s] >= life[s]
    BY <1>0, Grows DEF TypeOK, Upwards
  <1>s. /\ \A t \in Threads : ref[t].slot \in Slots /\ ref[t].life \in Nat
        /\ \A i \in 1 .. Len(tasks) : tasks[i] \in Slots
        /\ \A i \in 1 .. Len(binned) : binned[i] # Sentinel => binned[i] \in Slots
        /\ tasks \in Seq(Slots) /\ binned \in Seq(Slots \union {Sentinel})
    BY <1>0 DEF TypeOK
  <1>1. ASSUME UNCHANGED <<ref, tasks, binned>>,
               pc'[Cleaner] \in AtWork => pc[Cleaner] \in AtWork
        PROVE  Refs'
    <2>1. \A s \in Slots : life[s] > 0 => life'[s] > 0
      BY <1>g
    <2>2. \A t \in Threads : ref[t].life <= life'[ref[t].slot]
      <3>1. SUFFICES ASSUME NEW t \in Threads PROVE ref[t].life <= life'[ref[t].slot]
        OBVIOUS
      <3>2. ref[t].life <= life[ref[t].slot] /\ ref[t].slot \in Slots /\ ref[t].life \in Nat
        BY <1>0, <1>s DEF Refs
      <3>3. life[ref[t].slot] \in Nat /\ life'[ref[t].slot] \in Nat
            /\ life[ref[t].slot] <= life'[ref[t].slot]
        BY <1>g, <3>2
      <3>4. QED
        BY <3>2, <3>3
    <2>3. pc[Cleaner] \in AtWork => life'[ref[Cleaner].slot] > 0
      BY <1>0, <1>s, <2>1 DEF Refs, AtWork
    <2>4. /\ \A i \in 1 .. Len(tasks) : life'[tasks[i]] > 0
          /\ \A i \in 1 .. Len(binned) : binned[i] # Sentinel => life'[binned[i]] > 0
      BY <1>0, <1>s, <2>1 DEF Refs
    <2>5. QED
      BY <1>1, <2>2, <2>3, <2>4 DEF Refs, AtWork
  <1>2. ASSUME NEW t \in Threads, NEW s \in Slots, UNCHANGED <<life, binned>>,
               ref' = ref \/ ref' = [ref EXCEPT ![t] = [slot |-> s, life |-> life[s]]],
               tasks' = tasks \/ (tasks # <<>> /\ tasks' = Tail(tasks)),
               \/ t # Cleaner /\ (pc'[Cleaner] \in AtWork => pc[Cleaner] \in AtWork)
               \/ t = Cleaner /\ life[s] > 0 /\ ref' # ref
               \/ t = Cleaner /\ pc'[Cleaner] \notin AtWork
        PROVE  Refs'
    <2>1. \A u \in Threads : ref'[u].life <= life'[ref'[u].slot]
      BY <1>0, <1>2, <1>g, <1>s DEF Refs, TypeOK
    <2>2. \A i \in 1 .. Len(tasks') : life'[tasks'[i]] > 0
      <3>1. life' = life /\ \A i \in 1 .. Len(tasks) : life[tasks[i]] > 0
        BY <1>0, <1>2 DEF Refs
      <3>2. CASE tasks' = tasks
        BY <3>1, <3>2
      <3>3. CASE tasks # <<>> /\ tasks' = Tail(tasks)
        <4>1. /\ Len(tasks) \in Nat \ {0} /\ Len(tasks') = Len(tasks) - 1
              /\ \A i \in 1 .. Len(tasks) - 1 : tasks'[i] = tasks[i + 1]
          BY <1>s, <3>3, Front
        <4>2. \A i \in 1 .. Len(tasks') : i + 1 \in 1 .. Len(tasks) /\ tasks'[i] = tasks[i + 1]
          BY <4>1
        <4>3. QED
          BY <3>1, <4>2
      <3>4. QED
        BY <1>2, <3>2, <3>3
    <2>3. pc'[Cleaner] \in AtWork => life'[ref'[Cleaner].slot] > 0
      <3>1. pc[Cleaner] \in AtWork => life[ref[Cleaner].slot] > 0
        BY <1>0, <1>s DEF Refs, AtWork
      <3>2. ref \in [Threads -> [slot : Slots, life : Nat]] /\ Cleaner \in Threads
        BY <1>0 DEF TypeOK, Threads
      <3>3. CASE t # Cleaner
        BY <1>2, <3>1, <3>2, <3>3
      <3>4. CASE t = Cleaner
        BY <1>2, <3>2, <3>4
      <3>5. QED
        BY <3>3, <3>4
    <2>4. QED
      BY <1>0, <1>2, <2>1, <2>2, <2>3 DEF Refs, AtWork
  <1>3. ASSUME NEW c \in Clients, Send(c) PROVE Refs'
    <2>1. PICK s \in Slots : ref' = ref \/ ref' = [ref EXCEPT ![c] = [slot |-> s, life |-> life[s]]]
      BY <1>3 DEF Send
    <2>2. pc'[Cleaner] = pc[Cleaner]
      BY <1>0, <1>3, Others
    <2>3. UNCHANGED <<life, tasks, binned>>
      BY <1>3 DEF Send, slotVars
    <2>4. QED
      BY <1>2, <2>1, <2>2, <2>3
  <1>4. ASSUME NEW c \in Clients,
               AddToMailbox(c) \/ Reserve(c) \/ Publish(c) \/ Kick(c)
        PROVE  Refs'
    <2>1. pc'[Cleaner] = pc[Cleaner]
      BY <1>0, <1>4, Others DEF ClientStep
    <2>2. QED
      BY <1>1, <1>4, <2>1 DEF AddToMailbox, Reserve, Publish, Kick
  <1>5. ASSUME NEW t \in Workers \union Clients, Notify(t) \/ Renotify(t) PROVE Refs'
    <2>1. pc'[Cleaner] = pc[Cleaner]
      BY <1>0, <1>5, Moves DEF Notify, Renotify, Return
    <2>2. UNCHANGED <<ref, life, binned>> /\ Holds(t)
          /\ (tasks' = tasks \/ tasks' = Append(tasks, S(t)))
      BY <1>5, Asked DEF Notify, Renotify, slotVars
    <2>3. life[ref[t].slot] > 0 /\ ref[t].slot \in Slots
      BY <1>0, <2>2, Held
    <2>4. \A i \in 1 .. Len(tasks') : life'[tasks'[i]] > 0
      <3>1. CASE tasks' = tasks
        BY <1>0, <2>2, <3>1 DEF Refs
      <3>2. CASE tasks' = Append(tasks, ref[t].slot)
        <4>1. /\ Len(tasks') = Len(tasks) + 1 /\ Len(tasks) \in Nat
              /\ tasks'[Len(tasks) + 1] = ref[t].slot
              /\ \A i \in 1 .. Len(tasks) : tasks'[i] = tasks[i]
          BY <1>s, <2>3, <3>2, Back
        <4>2. \A i \in 1 .. Len(tasks') : i \in 1 .. Len(tasks) \/ i = Len(tasks) + 1
          BY <4>1
        <4>3. QED
          BY <1>0, <2>2, <2>3, <4>1, <4>2 DEF Refs
      <3>3. QED
        BY <2>2, <3>1, <3>2
    <2>5. QED
      BY <1>0, <2>1, <2>2, <2>4 DEF Refs
  <1>6. ASSUME NEW w \in Workers, Drain(w) PROVE Refs'
    <2>1. Head(tasks) \in Slots /\ tasks # <<>> /\ tasks' = Tail(tasks)
      BY <1>6, <1>s, Front DEF Drain
    <2>2. ref' = ref \/ ref' = [ref EXCEPT ![w] = [slot |-> Head(tasks), life |-> life[Head(tasks)]]]
      BY <1>6 DEF Drain
    <2>3. pc'[Cleaner] = pc[Cleaner] /\ UNCHANGED <<life, binned>>
      BY <1>0, <1>6, Others DEF WorkerStep, Drain, slotVars
    <2>4. QED
      BY <1>2, <2>1, <2>2, <2>3
  <1>7. ASSUME NEW w \in Workers,
               \/ Loop(w) \/ PopNext(w) \/ HandleMsg(w, "handle", "loop", "fail")
               \/ Clear(w) \/ Recheck(w) \/ Repop(w) \/ Recas(w)
               \/ HandleMsg(w, "late", "idle", "lateFail")
        PROVE  Refs'
    <2>1. pc'[Cleaner] = pc[Cleaner]
      BY <1>0, <1>7, Others DEF WorkerStep
    <2>2. QED
      BY <1>1, <1>7, <2>1 DEF Loop, PopNext, HandleMsg, Clear, Recheck, Repop, Recas
  <1>8. ASSUME NEW x \in Slots \union {Sentinel}, x = Sentinel \/ life[x] > 0,
               binned' = Append(binned, x), UNCHANGED <<life, ref, tasks>>,
               pc'[Cleaner] = pc[Cleaner]
        PROVE  Refs'
    <2>1. /\ Len(binned') = Len(binned) + 1 /\ Len(binned) \in Nat
          /\ binned'[Len(binned) + 1] = x
          /\ \A i \in 1 .. Len(binned) : binned'[i] = binned[i]
      BY <1>8, <1>s, Back
    <2>2. \A i \in 1 .. Len(binned') : i \in 1 .. Len(binned) \/ i = Len(binned) + 1
      BY <2>1
    <2>3. \A i \in 1 .. Len(binned') : binned'[i] # Sentinel => life'[binned'[i]] > 0
      BY <1>0, <1>8, <2>1, <2>2 DEF Refs
    <2>4. QED
      BY <1>0, <1>8, <2>3 DEF Refs
  <1>9. ASSUME NEW w \in Workers,
               NotifyFailure(w, "fail", "loop") \/ NotifyFailure(w, "lateFail", "idle")
        PROVE  Refs'
    <2>1. pc'[Cleaner] = pc[Cleaner] /\ UNCHANGED <<life, ref, tasks>> /\ Holds(w)
      BY <1>0, <1>9, Others DEF WorkerStep, NotifyFailure
    <2>2. S(w) \in Slots /\ life[S(w)] > 0
      BY <1>0, <2>1, Held
    <2>3. CASE binned' = Append(binned, S(w))
      BY <1>8, <2>1, <2>2, <2>3
    <2>4. CASE binned' = binned
      BY <1>1, <2>1, <2>4
    <2>5. QED
      BY <1>9, <2>3, <2>4 DEF NotifyFailure
  <1>10. ASSUME TakeFailed PROVE Refs'
    <2> DEFINE s == Head(binned)
    <2>1. /\ s \in Slots \union {Sentinel} /\ s = binned[1] /\ Len(binned) \in Nat \ {0}
          /\ binned' = Tail(binned) /\ Len(binned') = Len(binned) - 1
          /\ \A i \in 1 .. Len(binned) - 1 : binned'[i] = binned[i + 1]
      BY <1>10, <1>s, Front DEF TakeFailed
    <2>2. s # Sentinel => life[s] > 0
      BY <1>0, <2>1 DEF Refs
    <2>3. UNCHANGED <<life, tasks>>
      BY <1>10 DEF TakeFailed, slotVars
    <2>4. \A i \in 1 .. Len(binned') : binned'[i] # Sentinel => life'[binned'[i]] > 0
      BY <1>0, <2>1, <2>3 DEF Refs
    <2>5. CASE s = Sentinel
      <3>1. pc'[Cleaner] = "exited" /\ ref' = ref
        BY <1>0, <1>10, <2>5, Moves DEF TakeFailed
      <3>2. QED
        BY <1>0, <2>3, <2>4, <3>1 DEF Refs
    <2>6. CASE s # Sentinel
      <3>1. ref' = [ref EXCEPT ![Cleaner] = [slot |-> s, life |-> life[s]]]
        BY <1>10, <2>6 DEF TakeFailed
      <3>2. /\ ref'[Cleaner].slot = s /\ ref'[Cleaner].life = life[s]
            /\ \A t \in Threads : t # Cleaner => ref'[t] = ref[t]
        BY <1>0, <3>1 DEF TypeOK
      <3>3. \A t \in Threads : ref'[t].life <= life'[ref'[t].slot]
        BY <1>0, <1>g, <2>1, <2>3, <2>6, <3>2 DEF Refs
      <3>4. QED
        BY <1>0, <2>2, <2>3, <2>4, <2>6, <3>2, <3>3 DEF Refs
    <2>7. QED
      BY <2>5, <2>6
  <1>11. ASSUME UnregisterStep(Cleaner) PROVE Refs'
    <2>1. UNCHANGED <<ref, tasks, binned>> /\ pc[Cleaner] \in AtWork
      BY <1>11 DEF UnregisterStep, Erase, StopActor, Spin, Reset, Unregistered, AtWork
    <2>2. QED
      BY <1>1, <2>1
  <1>12. ASSUME UnregisterStep(Owner) PROVE Refs'
    <2>1. pc'[Cleaner] = pc[Cleaner] /\ UNCHANGED <<life, tasks, binned>>
      BY <1>0, <1>12, Others DEF OwnerStep, UnregisterStep, Erase, StopActor, Spin, Reset,
         slotVars
    <2>2. CASE UNCHANGED ref
      BY <1>1, <2>1, <2>2
    <2>3. CASE S(Owner) + 1 < NumActors /\
               ref' = [ref EXCEPT ![Owner] = [slot |-> S(Owner) + 1, life |-> life[S(Owner) + 1]]]
      <3>1. S(Owner) + 1 \in Slots
        BY <1>0, <2>3, Slot, Sizes DEF Slots
      <3>2. QED
        BY <1>2, <2>1, <2>3, <3>1
    <2>4. QED
      BY <1>12, <2>2, <2>3 DEF UnregisterStep, Erase, StopActor, Spin, Reset, Unregistered
  <1>13. ASSUME Respawn \/ Link(Cleaner, "idle") \/ Terminate PROVE Refs'
    <2>1. UNCHANGED <<ref, tasks, binned>>
      BY <1>13 DEF Respawn, Link, Terminate
    <2>2. pc'[Cleaner] \notin AtWork
      BY <1>0, <1>13, Moves DEF Respawn, Link, Terminate, AtWork
    <2>3. QED
      BY <1>1, <2>1, <2>2
  <1>14. ASSUME Link(Owner, "use") \/ Release \/ StopPool \/ JoinPool PROVE Refs'
    <2>1. pc'[Cleaner] = pc[Cleaner]
      BY <1>0, <1>14, Others DEF OwnerStep
    <2>2. QED
      BY <1>1, <1>14, <2>1 DEF Link, Release, StopPool, JoinPool
  <1>15. ASSUME Spawn PROVE Refs'
    <2> DEFINE a == active_actors
    <2>1. a \in Slots /\ life[a] \in Nat
      BY <1>0, <1>15, Sizes DEF Spawn, Slots, TypeOK
    <2>2. /\ life' = [life EXCEPT ![a] = life[a] + 1]
          /\ ref' = [ref EXCEPT ![Owner] = [slot |-> a, life |-> life[a] + 1]]
          /\ UNCHANGED <<tasks, binned>>
      BY <1>15 DEF Spawn, Install
    <2>3. pc'[Cleaner] = pc[Cleaner] /\ ref'[Cleaner] = ref[Cleaner]
      BY <1>0, <1>15, <2>2, Others DEF TypeOK
    <2>4. \A t \in Threads : ref'[t].life <= life'[ref'[t].slot]
      <3>1. life'[a] = life[a] + 1
        BY <1>0, <2>1, <2>2 DEF TypeOK
      <3>2. ref'[Owner] = [slot |-> a, life |-> life[a] + 1]
        BY <1>0, <2>2 DEF TypeOK
      <3>3. \A t \in Threads : t # Owner => ref'[t] = ref[t]
        BY <1>0, <2>2 DEF TypeOK
      <3>4. \A t \in Threads : ref[t].life <= life'[ref[t].slot]
        BY <1>0, <1>g, <1>s DEF Refs
      <3>5. QED
        BY <2>1, <3>1, <3>2, <3>3, <3>4
    <2>5. \A s \in Slots : life[s] > 0 => life'[s] > 0
      BY <1>g
    <2>6. pc'[Cleaner] \in AtWork => life'[ref'[Cleaner].slot] > 0
      BY <1>0, <1>s, <2>3, <2>5 DEF Refs, AtWork
    <2>7. /\ \A i \in 1 .. Len(tasks') : life'[tasks'[i]] > 0
          /\ \A i \in 1 .. Len(binned') : binned'[i] # Sentinel => life'[binned'[i]] > 0
      BY <1>0, <1>s, <2>2, <2>5 DEF Refs
    <2>8. QED
      BY <2>4, <2>6, <2>7 DEF Refs, AtWork
  <1>16. ASSUME StopCleaner PROVE Refs'
    <2>1. pc'[Cleaner] = pc[Cleaner]
      BY <1>0, <1>16, Others DEF OwnerStep
    <2>2. QED
      BY <1>8, <1>16, <2>1 DEF StopCleaner, slotVars
  <1>17. ASSUME JoinCleaner PROVE Refs'
    <2>1. pc'[Cleaner] = pc[Cleaner]
      BY <1>0, <1>17, Others DEF OwnerStep
    <2>2. QED
      BY <1>2, <1>17, <2>1, Sizes DEF JoinCleaner, slotVars
  <1>18. ASSUME (\E t \in Workers \union Clients : Stray(t)) \/ Quiet PROVE Refs'
    <2>1. pc'[Cleaner] = pc[Cleaner]
      BY <1>0, <1>18, Others DEF Quiet, vars
    <2>2. QED
      BY <1>1, <1>18, <2>1 DEF Stray, Quiet, vars
  <1>19. QED
    BY <1>3, <1>4, <1>5, <1>6, <1>7, <1>9, <1>10, <1>11, <1>12, <1>13, <1>14, <1>16, <1>17,
       <1>18, <1>15 DEF Next, ClientStep, WorkerStep, CleanerStep, OwnerStep

-----------------------------------------------------------------------------
(* The destructor                                                          *)

\* What a client, a worker or the cleanup thread does is not the destructor's.
LEMMA Outside ==
    ASSUME TypeOK, Places,
           \/ \E c \in Clients : Send(c) \/ ClientStep(c) \/ Stray(c)
           \/ \E w \in Workers : WorkerStep(w) \/ Stray(w)
           \/ CleanerStep
    PROVE  UNCHANGED <<released, stopped>> /\ pc'[Owner] = pc[Owner]
  <1>1. pc'[Owner] = pc[Owner]
    BY Others
  <1>2. CASE \E c \in Clients : Send(c) \/ ClientStep(c) \/ Stray(c)
    BY <1>1, <1>2 DEF Send, ClientStep, AddToMailbox, Reserve, Publish, Kick, Notify, Stray,
       poolVars
  <1>3. CASE \E w \in Workers : WorkerStep(w) \/ Stray(w)
    BY <1>1, <1>3 DEF WorkerStep, Drain, Loop, PopNext, HandleMsg, NotifyFailure, Clear,
       Recheck, Repop, Recas, Renotify, Stray, poolVars
  <1>4. CASE CleanerStep
    BY <1>1, <1>4 DEF CleanerStep, TakeFailed, UnregisterStep, Erase, StopActor, Spin, Reset,
       Respawn, Link, Terminate, poolVars
  <1>5. QED
    BY <1>2, <1>3, <1>4

LEMMA EndingStep ==
    ASSUME IInv, Next PROVE Ending'
  <1> USE Kinds DEF Threads
  <1>0. TypeOK /\ Places /\ Ending
    BY DEF IInv
  <1>b. binned \in Seq(Slots \union {Sentinel}) /\ Sentinel \notin Slots
    BY <1>0, Sizes DEF TypeOK
  <1>1. ASSUME NEW c \in Clients, Send(c) \/ ClientStep(c) \/ Stray(c)
        PROVE  Ending'
    <2>1. UNCHANGED <<released, stopped>> /\ pc'[Owner] = pc[Owner]
      BY <1>0, <1>1, Outside
    <2>2. pc'[Cleaner] = pc[Cleaner] /\ binned' = binned
      BY <1>0, <1>1, Others DEF Send, ClientStep, AddToMailbox, Reserve, Publish, Kick,
         Notify, Stray
    <2>3. released => Stray(c) /\ pc[c] = "undefined"
      BY <1>0, <1>1 DEF Ending, Send, ClientStep, AddToMailbox, Reserve, Publish, Kick,
         Notify, Stray, Goto
    <2>4. ~released
      BY <2>3 DEF Stray
    <2>5. QED
      BY <1>0, <2>1, <2>2, <2>4 DEF Ending
  <1>2. ASSUME NEW w \in Workers, WorkerStep(w) \/ Stray(w)
        PROVE  Ending'
    <2>1. UNCHANGED <<released, stopped>> /\ pc'[Owner] = pc[Owner] /\ pc'[Cleaner] = pc[Cleaner]
      BY <1>0, <1>2, Outside, Others
    <2>2. \A c \in Clients : pc'[c] = pc[c]
      BY <1>0, <1>2, WorkerMoves, Moves
    <2>3. binned' = binned \/ binned' = Append(binned, S(w))
      BY <1>2 DEF WorkerStep, Drain, Loop, PopNext, HandleMsg, NotifyFailure, Clear, Recheck,
         Repop, Recas, Renotify, Stray
    <2>4. ~released => \A i \in 1 .. Len(binned') : binned'[i] # Sentinel
      <3>1. CASE binned' = binned
        BY <1>0, <3>1 DEF Ending
      <3>2. CASE binned' = Append(binned, S(w))
        <4>1. S(w) \in Slots
          BY <1>0, Slot
        <4>2. /\ Len(binned') = Len(binned) + 1 /\ Len(binned) \in Nat
              /\ binned'[Len(binned) + 1] = S(w)
              /\ \A i \in 1 .. Len(binned) : binned'[i] = binned[i]
          BY <1>b, <3>2, <4>1, Back
        <4>3. \A i \in 1 .. Len(binned') : i \in 1 .. Len(binned) \/ i = Len(binned) + 1
          BY <4>2
        <4>4. QED
          BY <1>0, <1>b, <4>1, <4>2, <4>3 DEF Ending
      <3>3. QED
        BY <2>3, <3>1, <3>2
    <2>5. QED
      BY <1>0, <2>1, <2>2, <2>4 DEF Ending
  <1>3. ASSUME CleanerStep PROVE Ending'
    <2>1. UNCHANGED <<released, stopped>> /\ pc'[Owner] = pc[Owner]
      BY <1>0, <1>3, Outside
    <2>2. \A c \in Clients : pc'[c] = pc[c]
      BY <1>0, <1>3, CleanerMoves, Moves
    <2>3. pc[Cleaner] # "exited"
      BY <1>3 DEF CleanerStep, TakeFailed, UnregisterStep, Erase, StopActor, Spin, Reset,
         Respawn, Link, Terminate, Goto
    <2>4. CASE TakeFailed
      <3>1. /\ Head(binned) = binned[1] /\ Len(binned) \in Nat \ {0}
            /\ Len(binned') = Len(binned) - 1
            /\ \A i \in 1 .. Len(binned) - 1 : binned'[i] = binned[i + 1]
        BY <1>b, <2>4, Front DEF TakeFailed
      <3>2. ~released => \A i \in 1 .. Len(binned') : binned'[i] # Sentinel
        BY <1>0, <3>1 DEF Ending
      <3>3. pc'[Cleaner] = "exited" => released
        <4>1. pc'[Cleaner] = "exited" => binned[1] = Sentinel
          BY <1>0, <2>4, <3>1, Moves DEF TakeFailed, Goto
        <4>2. QED
          BY <1>0, <3>1, <4>1 DEF Ending
      <3>4. QED
        BY <1>0, <2>1, <2>2, <2>3, <3>2, <3>3 DEF Ending
    <2>5. CASE UnregisterStep(Cleaner) \/ Respawn \/ Link(Cleaner, "idle") \/ Terminate
      <3>1. pc'[Cleaner] # "exited" /\ binned' = binned
        BY <1>0, <2>5, Moves DEF UnregisterStep, Erase, StopActor, Spin, Reset, Respawn,
           Link, Terminate, Unregistered, Goto
      <3>2. QED
        BY <1>0, <2>1, <2>2, <2>3, <3>1 DEF Ending
    <2>6. QED
      BY <1>3, <2>4, <2>5 DEF CleanerStep
  <1>4. ASSUME Spawn \/ Link(Owner, "use") PROVE Ending'
    <2>1. /\ UNCHANGED <<released, stopped, binned>>
          /\ \A t \in Threads : t # Owner => pc'[t] = pc[t]
          /\ pc[Owner] \in {"use", "link"} /\ pc'[Owner] \in {"use", "link"}
      BY <1>0, <1>4, Moves DEF Spawn, Link, poolVars, Goto
    <2>2. QED
      BY <1>0, <2>1 DEF Ending
  <1>5. ASSUME Release PROVE Ending'
    <2>1. /\ released' /\ UNCHANGED <<stopped, binned>>
          /\ \A c \in Clients : pc[c] \in {"idle", "undefined"}
          /\ pc[Owner] = "use" /\ pc' = [pc EXCEPT ![Owner] = "stopPool"]
      BY <1>5 DEF Release, poolVars, Goto
    <2>2. pc'[Owner] = "stopPool" /\ \A t \in Threads : t # Owner => pc'[t] = pc[t]
      BY <1>0, <2>1, Moves
    <2>3. \A c \in Clients : pc'[c] = pc[c]
      BY <2>2
    <2>4. QED
      BY <2>1, <2>2, <2>3 DEF Ending
  <1>6. ASSUME StopPool \/ StopCleaner \/ JoinCleaner \/ JoinPool PROVE Ending'
    <2>1. released /\ released' = released
      BY <1>0, <1>6 DEF StopPool, StopCleaner, JoinCleaner, JoinPool, Ending, Goto
    <2>2. \A t \in Threads : t # Owner => pc'[t] = pc[t]
      BY <1>0, <1>6, Moves DEF StopPool, StopCleaner, JoinCleaner, JoinPool, Goto
    <2>3. /\ pc'[Owner] \notin {"use", "link"}
          /\ pc'[Owner] \in {"erase", "stop", "spin", "reset", "joinPool", "destroyed"}
               => pc[Cleaner] = "exited"
      BY <1>0, <1>6, Moves DEF StopPool, StopCleaner, JoinCleaner, JoinPool, Goto, Ending
    <2>4. QED
      BY <1>0, <2>1, <2>2, <2>3 DEF Ending
  <1>7. ASSUME UnregisterStep(Owner) PROVE Ending'
    <2>1. UNCHANGED <<released, stopped, binned>>
      BY <1>7 DEF UnregisterStep, Erase, StopActor, Spin, Reset, poolVars
    <2>2. \A t \in Threads : t # Owner => pc'[t] = pc[t]
      BY <1>0, <1>7, OwnerMoves, Moves DEF OwnerStep
    <2>3. pc[Owner] \in {"erase", "stop", "spin", "reset"}
          /\ pc'[Owner] \in {"erase", "stop", "spin", "reset", "joinPool"}
      BY <1>0, <1>7, Moves DEF UnregisterStep, Erase, StopActor, Spin, Reset, Unregistered,
         Goto
    <2>4. QED
      BY <1>0, <2>1, <2>2, <2>3 DEF Ending
  <1>8. ASSUME Quiet PROVE Ending'
    BY <1>0, <1>8 DEF Quiet, vars, Ending, poolVars
  <1>9. QED
    BY <1>1, <1>2, <1>3, <1>4, <1>5, <1>6, <1>7, <1>8 DEF Next, OwnerStep

-----------------------------------------------------------------------------
(* Messages: the threads                                                   *)

\* Nothing a client relies on changes under it.
LEMMA ClientKept ==
    ASSUME NEW c \in Clients, ClientHand(c), pc'[c] = pc[c], msg'[c] = msg[c],
           msg[c] # NoMsg => fate'[msg[c]] = fate[msg[c]],
           Holds(c)' => Holds(c),
           pc[c] = "publish" /\ Holds(c)' /\ Inbox(c) => Inbox(c)'
    PROVE  ClientHand(c)'
  BY DEF ClientHand

LEMMA WorkerKept ==
    ASSUME NEW w \in Workers, WorkerHand(w), pc'[w] = pc[w], msg'[w] = msg[w],
           msg[w] # NoMsg => fate'[msg[w]] = fate[msg[w]]
    PROVE  WorkerHand(w)'
  BY DEF WorkerHand

\* One thread does something with one message, or with none.
LEMMA OneHand ==
    ASSUME TypeOK, Carried, NEW t \in Workers \union Clients, NEW m \in Msgs \union {NoMsg},
           \A u \in Workers \union Clients : u # t =>
               pc'[u] = pc[u] /\ msg'[u] = msg[u] /\ (msg[u] = m => m = NoMsg),
           \A j \in Msgs : j # m => fate'[j] = fate[j],
           \A c \in Clients : c # t =>
               /\ Holds(c)' => Holds(c)
               /\ pc[c] = "publish" /\ Holds(c)' /\ Inbox(c) => Inbox(c)',
           t \in Clients => ClientHand(t)', t \in Workers => WorkerHand(t)',
           msg[t] \in {NoMsg, m}, msg'[t] \in {NoMsg, m},
           msg'[t] # NoMsg => fate'[m] \notin {"new", "queued"},
           m # NoMsg /\ fate'[m] \in {"sending", "handling"} => msg'[t] = m
    PROVE  Carried'
  <1> USE Kinds
  <1>1. \A u \in Workers \union Clients : msg[u] \in Msgs \union {NoMsg}
    BY DEF TypeOK
  <1>2. \A u \in Workers \union Clients : u # t /\ msg[u] # NoMsg =>
            fate'[msg[u]] = fate[msg[u]]
    BY <1>1
  <1>3. \A u, v \in Workers \union Clients : msg'[u] = msg'[v] /\ msg'[u] # NoMsg => u = v
    BY DEF Carried
  <1>4. \A u \in Workers \union Clients : msg'[u] # NoMsg => fate'[msg'[u]] \notin {"new", "queued"}
    BY <1>2 DEF Carried
  <1>5. \A j \in Msgs : fate'[j] \in {"sending", "handling"} =>
            \E u \in Workers \union Clients : msg'[u] = j
    <2>1. SUFFICES ASSUME NEW j \in Msgs, j # m, fate[j] \in {"sending", "handling"}
                   PROVE  \E u \in Workers \union Clients : msg'[u] = j
      OBVIOUS
    <2>2. PICK u \in Workers \union Clients : msg[u] = j
      BY <2>1 DEF Carried
    <2>3. u # t
      BY <2>1, <2>2
    <2>4. QED
      BY <2>2, <2>3
  <1>6. \A c \in Clients : ClientHand(c)'
    BY <1>2, ClientKept DEF Carried
  <1>7. \A w \in Workers : WorkerHand(w)'
    BY <1>2, WorkerKept DEF Carried
  <1>8. QED
    BY <1>3, <1>4, <1>5, <1>6, <1>7 DEF Carried

\* The client at "publish" is right about its mailbox where nobody changes it.
LEMMA Undisturbed ==
    ASSUME NEW c \in Clients, UNCHANGED <<present, life, mailbox>>,
           ref'[c] = ref[c], msg'[c] = msg[c]
    PROVE  (Holds(c)' <=> Holds(c)) /\ (Inbox(c)' <=> Inbox(c))
  BY DEF Holds, Inbox, S

LEMMA ClientCarries ==
    ASSUME IInv, NEW c \in Clients, Send(c) \/ ClientStep(c)
    PROVE  Carried'
  <1> USE Kinds DEF Threads, Goto, Set
  <1>0. TypeOK /\ Carried /\ ClientHand(c) /\ Boxed /\ Lives
    BY DEF IInv, Carried
  <1>t. /\ msg[c] \in Msgs \union {NoMsg} /\ c \in Workers \union Clients /\ c \in Threads
        /\ S(c) \in Slots
    BY <1>0, Slot DEF TypeOK
  <1>u. \A u \in Workers \union Clients : u # c /\ msg[u] = msg[c] => msg[c] = NoMsg
    BY <1>0, <1>t DEF Carried
  <1>1. CASE Send(c)
    <2>1. PICK m \in Msgs, s \in Slots :
            /\ fate[m] = "new"
            /\ \/ /\ pc' = [pc EXCEPT ![c] = "alive"]
                  /\ ref' = [ref EXCEPT ![c] = [slot |-> s, life |-> life[s]]]
                  /\ msg' = [msg EXCEPT ![c] = m] /\ fate' = [fate EXCEPT ![m] = "sending"]
               \/ /\ fate' = [fate EXCEPT ![m] = "refused"] /\ UNCHANGED <<pc, ref, msg>>
      BY <1>1 DEF Send
    <2>2. pc[c] = "idle" /\ msg[c] = NoMsg /\ UNCHANGED <<present, life, mailbox>>
      BY <1>0, <1>1 DEF Send, ClientHand, slotVars, actorVars
    <2>3. \A u \in Workers \union Clients : msg[u] # m
      BY <1>0, <2>1 DEF Carried
    <2>4. \A u \in Workers \union Clients : u # c =>
             pc'[u] = pc[u] /\ msg'[u] = msg[u] /\ ref'[u] = ref[u]
      BY <1>0, <2>1 DEF TypeOK
    <2>5. \A d \in Clients : d # c => (Holds(d)' <=> Holds(d)) /\ (Inbox(d)' <=> Inbox(d))
      BY <2>2, <2>4, Undisturbed
    <2>6. ClientHand(c)' /\ msg'[c] \in {NoMsg, m}
          /\ (msg'[c] # NoMsg => fate'[m] \notin {"new", "queued"})
          /\ (fate'[m] \in {"sending", "handling"} => msg'[c] = m)
      BY <1>0, <1>t, <2>1, <2>2 DEF TypeOK, ClientHand
    <2>7. \A j \in Msgs : j # m => fate'[j] = fate[j]
      BY <1>0, <2>1 DEF TypeOK
    <2>8. QED
      BY <1>0, <1>t, <2>2, <2>3, <2>4, <2>5, <2>6, <2>7, OneHand
  <1>2. ASSUME UNCHANGED <<present, life, ref>>,
               \A d \in Clients : d # c =>
                   (pc[d] = "publish" /\ Holds(d) /\ Inbox(d) => Inbox(d)'),
               \A u \in Workers \union Clients : u # c => pc'[u] = pc[u] /\ msg'[u] = msg[u],
               \A j \in Msgs : j # msg[c] => fate'[j] = fate[j],
               ClientHand(c)', msg'[c] \in {NoMsg, msg[c]},
               msg'[c] # NoMsg => fate'[msg[c]] \notin {"new", "queued"},
               msg[c] # NoMsg /\ fate'[msg[c]] \in {"sending", "handling"} => msg'[c] = msg[c]
        PROVE  Carried'
    <2>1. \A d \in Clients : Holds(d)' <=> Holds(d)
      BY <1>2 DEF Holds, S
    <2>2. QED
      BY <1>0, <1>t, <1>u, <1>2, <2>1, OneHand
  <1>3. CASE AddToMailbox(c)
    <2>1. /\ UNCHANGED <<present, life, mailbox, ref>> /\ pc[c] = "alive"
          /\ \/ pc' = [pc EXCEPT ![c] = "reserve"] /\ UNCHANGED <<msg, fate>>
             \/ /\ pc' = [pc EXCEPT ![c] = "idle"] /\ msg' = [msg EXCEPT ![c] = NoMsg]
                /\ fate' = [fate EXCEPT ![msg[c]] = "refused"]
      BY <1>3 DEF AddToMailbox, Return, slotVars, actorVars
    <2>2. msg[c] \in Msgs /\ fate[msg[c]] = "sending"
      BY <1>0, <1>t, <2>1 DEF ClientHand
    <2>3. \A u \in Workers \union Clients : u # c => pc'[u] = pc[u] /\ msg'[u] = msg[u]
      BY <1>0, <2>1 DEF TypeOK
    <2>4. \A d \in Clients : d # c => (Inbox(d)' <=> Inbox(d))
      BY <2>1, <2>3, Undisturbed
    <2>5. /\ ClientHand(c)' /\ msg'[c] \in {NoMsg, msg[c]}
          /\ (msg'[c] # NoMsg => fate'[msg[c]] \notin {"new", "queued"})
          /\ (fate'[msg[c]] \in {"sending", "handling"} => msg'[c] = msg[c])
          /\ \A j \in Msgs : j # msg[c] => fate'[j] = fate[j]
      BY <1>0, <2>1, <2>2 DEF TypeOK, ClientHand
    <2>6. QED
      BY <1>2, <2>1, <2>3, <2>4, <2>5
  <1>4. CASE Reserve(c)
    <2>1. /\ UNCHANGED <<present, life, ref, msg>> /\ pc[c] = "reserve"
          /\ \/ /\ pc' = [pc EXCEPT ![c] = "publish"]
                /\ mailbox' = [mailbox EXCEPT ![S(c)] = Append(mailbox[S(c)], msg[c])]
                /\ fate' = [fate EXCEPT ![msg[c]] = "reserved"]
             \/ /\ pc' = [pc EXCEPT ![c] = "kick"] /\ UNCHANGED mailbox
                /\ fate' = [fate EXCEPT ![msg[c]] = "refused"]
      BY <1>4 DEF Reserve, slotVars
    <2>2. msg[c] \in Msgs /\ fate[msg[c]] = "sending" /\ msg[c] # NoMsg
      BY <1>0, <1>t, <2>1 DEF ClientHand
    <2>3. \A u \in Workers \union Clients : u # c => pc'[u] = pc[u] /\ msg'[u] = msg[u]
      BY <1>0, <2>1 DEF TypeOK
    <2>4. \A s \in Slots : /\ Len(mailbox[s]) \in Nat /\ Len(mailbox'[s]) \in Nat
                           /\ Len(mailbox[s]) <= Len(mailbox'[s])
                           /\ \A i \in 1 .. Len(mailbox[s]) : mailbox'[s][i] = mailbox[s][i]
      <3>1. CASE UNCHANGED mailbox
        BY <1>0, <3>1, Mailbox
      <3>2. CASE mailbox' = [mailbox EXCEPT ![S(c)] = Append(mailbox[S(c)], msg[c])]
        <4>1. SUFFICES ASSUME NEW s \in Slots
                       PROVE  /\ Len(mailbox[s]) \in Nat /\ Len(mailbox'[s]) \in Nat
                              /\ Len(mailbox[s]) <= Len(mailbox'[s])
                              /\ \A i \in 1 .. Len(mailbox[s]) : mailbox'[s][i] = mailbox[s][i]
          OBVIOUS
        <4>2. CASE s = S(c)
          <5>1. mailbox'[s] = Append(mailbox[s], msg[c])
            BY <1>0, <3>2, <4>2 DEF TypeOK
          <5>2. QED
            BY <1>0, <2>2, <5>1, Mailbox, Back
        <4>3. CASE s # S(c)
          <5>1. mailbox'[s] = mailbox[s]
            BY <1>0, <3>2, <4>3 DEF TypeOK
          <5>2. QED
            BY <1>0, <5>1, Mailbox
        <4>4. QED
          BY <4>2, <4>3
      <3>3. QED
        BY <2>1, <3>1, <3>2
    <2>5. \A d \in Clients : Inbox(d) => Inbox(d)'
      <3>1. SUFFICES ASSUME NEW d \in Clients, Inbox(d) PROVE Inbox(d)'
        OBVIOUS
      <3>2. S(d) \in Slots /\ S(d)' = S(d) /\ msg'[d] = msg[d]
        BY <1>0, <2>1, Slot DEF S
      <3>3. PICK i \in 1 .. Len(mailbox[S(d)]) : mailbox[S(d)][i] = msg[d]
        BY <3>1 DEF Inbox
      <3>4. i \in 1 .. Len(mailbox'[S(d)]) /\ mailbox'[S(d)][i] = msg[d]
        BY <2>4, <3>2, <3>3
      <3>5. QED
        BY <3>2, <3>4 DEF Inbox
    <2>6. pc'[c] = "publish" => Inbox(c)'
      <3>1. SUFFICES ASSUME pc'[c] = "publish" PROVE Inbox(c)'
        OBVIOUS
      <3>2. mailbox'[S(c)] = Append(mailbox[S(c)], msg[c])
        BY <1>0, <1>t, <2>1, <3>1 DEF TypeOK
      <3>3. /\ Len(mailbox[S(c)]) \in Nat /\ Len(mailbox'[S(c)]) = Len(mailbox[S(c)]) + 1
            /\ mailbox'[S(c)][Len(mailbox[S(c)]) + 1] = msg[c]
        BY <1>0, <1>t, <2>2, <3>2, Mailbox, Back
      <3>4. Len(mailbox[S(c)]) + 1 \in 1 .. Len(mailbox'[S(c)]) /\ S(c)' = S(c) /\ msg'[c] = msg[c]
        BY <2>1, <3>3 DEF S
      <3>5. QED
        BY <3>3, <3>4 DEF Inbox
    <2>7. /\ ClientHand(c)' /\ msg'[c] = msg[c]
          /\ fate'[msg[c]] \in {"reserved", "refused"}
          /\ \A j \in Msgs : j # msg[c] => fate'[j] = fate[j]
      BY <1>0, <2>1, <2>2, <2>6 DEF TypeOK, ClientHand
    <2>8. QED
      BY <1>2, <2>1, <2>3, <2>5, <2>7
  <1>5. CASE Publish(c)
    <2>1. /\ UNCHANGED <<present, life, mailbox, ref>> /\ pc[c] = "publish"
          /\ pc' = [pc EXCEPT ![c] = "kick"] /\ msg' = [msg EXCEPT ![c] = NoMsg]
          /\ fate' = [fate EXCEPT ![msg[c]] = "queued"]
      BY <1>5 DEF Publish, slotVars, actorVars
    <2>2. msg[c] \in Msgs
      BY <1>0, <1>t, <2>1 DEF ClientHand
    <2>3. \A u \in Workers \union Clients : u # c => pc'[u] = pc[u] /\ msg'[u] = msg[u]
      BY <1>0, <2>1 DEF TypeOK
    <2>4. \A d \in Clients : d # c => (Inbox(d)' <=> Inbox(d))
      BY <2>1, <2>3, Undisturbed
    <2>5. /\ ClientHand(c)' /\ msg'[c] = NoMsg /\ fate'[msg[c]] = "queued"
          /\ \A j \in Msgs : j # msg[c] => fate'[j] = fate[j]
      BY <1>0, <2>1, <2>2 DEF TypeOK, ClientHand
    <2>6. QED
      BY <1>2, <2>1, <2>3, <2>4, <2>5
  <1>6. CASE Kick(c) \/ Notify(c)
    <2>1. /\ UNCHANGED <<present, life, mailbox, ref, fate>> /\ pc[c] \in {"kick", "notify"}
          /\ \/ pc' = [pc EXCEPT ![c] = "idle"] /\ msg' = [msg EXCEPT ![c] = NoMsg]
             \/ pc' = [pc EXCEPT ![c] = "notify"] /\ UNCHANGED msg
      BY <1>6 DEF Kick, Notify, Return, TryDrain, slotVars, actorVars
    <2>2. msg[c] # NoMsg => fate[msg[c]] = "refused"
      BY <1>0, <2>1 DEF ClientHand
    <2>3. \A u \in Workers \union Clients : u # c => pc'[u] = pc[u] /\ msg'[u] = msg[u]
      BY <1>0, <2>1 DEF TypeOK
    <2>4. \A d \in Clients : d # c => (Inbox(d)' <=> Inbox(d))
      BY <2>1, <2>3, Undisturbed
    <2>5. ClientHand(c)' /\ msg'[c] \in {NoMsg, msg[c]}
      BY <1>0, <1>t, <2>1, <2>2 DEF TypeOK, ClientHand
    <2>6. QED
      BY <1>2, <2>1, <2>2, <2>3, <2>4, <2>5
  <1>7. QED
    BY <1>1, <1>3, <1>4, <1>5, <1>6 DEF ClientStep

\* A worker lays down a message that it handled, or keeps what it has.
LEMMA WorkerGoesOn ==
    ASSUME TypeOK, Carried, NEW w \in Workers, UNCHANGED <<present, life, mailbox>>,
           \A u \in Threads : u # w => pc'[u] = pc[u] /\ ref'[u] = ref[u],
           \/ msg' = msg /\ fate' = fate
           \/ /\ msg' = [msg EXCEPT ![w] = NoMsg]
              /\ \/ fate' = [fate EXCEPT ![msg[w]] = "handled"]
                 \/ fate' = [fate EXCEPT ![msg[w]] = "threw"],
           WorkerHand(w)'
    PROVE  Carried'
  <1> USE Kinds DEF Threads
  <1>1. /\ msg[w] \in Msgs \union {NoMsg} /\ w \in Workers \union Clients
        /\ \A u \in Workers \union Clients : u # w /\ msg[u] = msg[w] => msg[w] = NoMsg
    BY DEF TypeOK, Carried
  <1>2. \A u \in Workers \union Clients : u # w => pc'[u] = pc[u] /\ msg'[u] = msg[u]
    BY DEF TypeOK
  <1>3. \A d \in Clients : (Holds(d)' <=> Holds(d)) /\ (Inbox(d)' <=> Inbox(d))
    BY <1>2, Undisturbed
  <1>4. /\ \A j \in Msgs : j # msg[w] => fate'[j] = fate[j]
        /\ msg'[w] \in {NoMsg, msg[w]}
        /\ msg[w] # NoMsg /\ msg'[w] = NoMsg /\ fate' # fate =>
               fate'[msg[w]] \in {"handled", "threw"}
        /\ msg'[w] # NoMsg => msg' = msg /\ fate' = fate
    BY <1>1 DEF TypeOK
  <1>5. msg'[w] # NoMsg => fate'[msg[w]] \notin {"new", "queued"}
    BY <1>1, <1>4 DEF Carried
  <1>6. msg[w] # NoMsg /\ fate'[msg[w]] \in {"sending", "handling"} => msg'[w] = msg[w]
    BY <1>1, <1>4 DEF TypeOK
  <1>7. QED
    BY <1>1, <1>2, <1>3, <1>4, <1>5, <1>6, OneHand

\* A worker takes the oldest message of a mailbox.
LEMMA WorkerPops ==
    ASSUME TypeOK, Carried, Boxed, NEW w \in Workers, Pop(w), UNCHANGED <<present, life, ref>>,
           NEW v \in {"handle", "recas"}, pc' = [pc EXCEPT ![w] = v], msg[w] = NoMsg
    PROVE  Carried'
  <1> USE Kinds DEF Threads, Set
  <1> DEFINE m == Head(mailbox[S(w)])
  <1>1. /\ m \in Msgs /\ m = mailbox[S(w)][1] /\ fate[m] = "queued"
        /\ Len(mailbox[S(w)]) \in Nat \ {0}
        /\ Len(Tail(mailbox[S(w)])) = Len(mailbox[S(w)]) - 1
        /\ \A i \in 1 .. Len(mailbox[S(w)]) - 1 :
                Tail(mailbox[S(w)])[i] = mailbox[S(w)][i + 1]
    BY Oldest DEF Pop
  <1>2. /\ mailbox' = [mailbox EXCEPT ![S(w)] = Tail(mailbox[S(w)])]
        /\ msg' = [msg EXCEPT ![w] = m] /\ fate' = [fate EXCEPT ![m] = "handling"]
    BY DEF Pop
  <1>3. \A u \in Workers \union Clients : u # w =>
            pc'[u] = pc[u] /\ msg'[u] = msg[u] /\ msg[u] # m
    <2>1. \A u \in Workers \union Clients : msg[u] # NoMsg => fate[msg[u]] # "queued"
      BY DEF Carried
    <2>2. \A u \in Workers \union Clients : u # w => pc'[u] = pc[u] /\ msg'[u] = msg[u]
      BY <1>2 DEF TypeOK
    <2>3. \A u \in Workers \union Clients : msg[u] # m
      BY <1>1, <2>1
    <2>4. QED
      BY <2>2, <2>3
  <1>4. \A d \in Clients : Holds(d)' <=> Holds(d)
    BY DEF Holds, S
  <1>5. ASSUME NEW d \in Clients, pc[d] = "publish", Inbox(d) PROVE Inbox(d)'
    <2>1. S(d) \in Slots /\ S(d)' = S(d) /\ msg'[d] = msg[d]
      BY <1>3, Slot DEF S
    <2>2. PICK i \in 1 .. Len(mailbox[S(d)]) : mailbox[S(d)][i] = msg[d]
      BY <1>5 DEF Inbox
    <2>3. CASE S(d) # S(w)
      <3>1. mailbox'[S(d)] = mailbox[S(d)]
        BY <1>2, <2>1, <2>3 DEF TypeOK
      <3>2. QED
        BY <2>1, <2>2, <3>1 DEF Inbox
    <2>4. CASE S(d) = S(w)
      <3>1. mailbox'[S(d)] = Tail(mailbox[S(w)])
        BY <1>2, <2>1, <2>4 DEF TypeOK
      <3>2. i # 1
        BY <1>1, <1>3, <2>2, <2>4
      <3>3. i - 1 \in 1 .. Len(mailbox[S(w)]) - 1 /\ (i - 1) + 1 = i
        BY <1>1, <2>2, <2>4, <3>2
      <3>4. mailbox'[S(d)][i - 1] = msg[d] /\ i - 1 \in 1 .. Len(mailbox'[S(d)])
        BY <1>1, <2>2, <2>4, <3>1, <3>3
      <3>5. QED
        BY <2>1, <3>4 DEF Inbox
    <2>5. QED
      BY <2>3, <2>4
  <1>6. /\ WorkerHand(w)' /\ msg'[w] = m /\ fate'[m] = "handling"
        /\ \A j \in Msgs : j # m => fate'[j] = fate[j]
    BY <1>1, <1>2 DEF TypeOK, WorkerHand
  <1>7. QED
    BY <1>1, <1>3, <1>4, <1>5, <1>6, OneHand

LEMMA WorkerCarries ==
    ASSUME IInv, NEW w \in Workers, WorkerStep(w)
    PROVE  Carried'
  <1> USE Kinds DEF Threads, Goto, Set
  <1>0. TypeOK /\ Carried /\ WorkerHand(w) /\ Boxed /\ Places
    BY DEF IInv, Carried
  <1>t. msg[w] \in Msgs \union {NoMsg} /\ w \in Threads
    BY <1>0 DEF TypeOK
  <1>p. \A u \in Threads : u # w => pc'[u] = pc[u]
    BY <1>0, WorkerMoves, Moves
  <1>1. CASE Drain(w)
    <2>1. \A u \in Threads : u # w => ref'[u] = ref[u]
      BY <1>0, <1>1 DEF Drain, TypeOK
    <2>2. WorkerHand(w)'
      BY <1>0, <1>1 DEF Drain, TypeOK, WorkerHand
    <2>3. UNCHANGED <<present, life, mailbox, msg, fate>>
      BY <1>1 DEF Drain, slotVars, actorVars
    <2>4. QED
      BY <1>0, <1>p, <2>1, <2>2, <2>3, WorkerGoesOn
  <1>2. CASE Loop(w) \/ Clear(w) \/ Recheck(w) \/ Recas(w) \/ Renotify(w)
             \/ NotifyFailure(w, "fail", "loop") \/ NotifyFailure(w, "lateFail", "idle")
    <2>1. UNCHANGED <<present, life, mailbox, msg, fate, ref>>
      BY <1>2 DEF Loop, Clear, Recheck, Recas, Renotify, NotifyFailure, slotVars, actorVars
    <2>2. WorkerHand(w)'
      BY <1>0, <1>2 DEF Loop, Clear, Recheck, Recas, Renotify, NotifyFailure, TryDrain,
         TypeOK, WorkerHand
    <2>3. QED
      BY <1>0, <1>p, <2>1, <2>2, WorkerGoesOn
  <1>3. CASE PopNext(w) \/ Repop(w)
    <2>1. msg[w] = NoMsg /\ UNCHANGED <<present, life, ref>>
      BY <1>0, <1>3 DEF PopNext, Repop, WorkerHand, slotVars
    <2>2. CASE Pop(w)
      <3>1. PICK v \in {"handle", "recas"} : pc' = [pc EXCEPT ![w] = v]
        <4>1. Poppable(S(w))
          BY <2>2 DEF Pop
        <4>2. QED
          BY <1>3, <4>1 DEF PopNext, Repop
      <3>2. QED
        BY <1>0, <2>1, <2>2, <3>1, WorkerPops
    <2>3. CASE UNCHANGED <<mailbox, msg, fate>> /\ ~Pop(w)
      <3>1. WorkerHand(w)'
        BY <1>0, <1>3, <2>1, <2>3 DEF PopNext, Repop, TypeOK, WorkerHand
      <3>2. QED
        BY <1>0, <1>p, <2>1, <2>3, <3>1, WorkerGoesOn
    <2>4. QED
      BY <1>3, <2>2, <2>3 DEF PopNext, Repop
  <1>4. ASSUME NEW from \in {"handle", "late"}, NEW to \in {"loop", "idle"},
               NEW failed \in {"fail", "lateFail"}, HandleMsg(w, from, to, failed)
        PROVE  Carried'
    <2>1. /\ UNCHANGED <<present, life, mailbox, ref>>
          /\ msg' = [msg EXCEPT ![w] = NoMsg]
          /\ \/ fate' = [fate EXCEPT ![msg[w]] = "handled"]
             \/ fate' = [fate EXCEPT ![msg[w]] = "threw"]
          /\ \E v \in {to, failed, "idle"} : pc' = [pc EXCEPT ![w] = v]
      BY <1>4 DEF HandleMsg, slotVars
    <2>2. WorkerHand(w)'
      BY <1>0, <2>1 DEF TypeOK, WorkerHand
    <2>3. QED
      BY <1>0, <1>p, <2>1, <2>2, WorkerGoesOn
  <1>5. QED
    BY <1>1, <1>2, <1>3, <1>4 DEF WorkerStep

LEMMA StrayCarries ==
    ASSUME IInv, NEW t \in Workers \union Clients, Stray(t)
    PROVE  Carried'
  <1> USE Kinds DEF Threads
  <1>0. TypeOK /\ Carried
    BY DEF IInv
  <1>1. /\ UNCHANGED <<present, life, mailbox, msg, fate, ref>>
        /\ pc' = [pc EXCEPT ![t] = "undefined"]
    BY DEF Stray, slotVars, actorVars
  <1>2. \A u \in Workers \union Clients : u # t => pc'[u] = pc[u]
    BY <1>0, <1>1 DEF TypeOK
  <1>3. \A d \in Clients : (Holds(d)' <=> Holds(d)) /\ (Inbox(d)' <=> Inbox(d))
    BY <1>1, Undisturbed
  <1>4. (t \in Clients => ClientHand(t)') /\ (t \in Workers => WorkerHand(t)')
    BY <1>0, <1>1 DEF TypeOK, ClientHand, WorkerHand
  <1>5. /\ msg[t] \in Msgs \union {NoMsg}
        /\ \A u \in Workers \union Clients : u # t /\ msg[u] = msg[t] => msg[t] = NoMsg
        /\ msg[t] # NoMsg => fate[msg[t]] \notin {"new", "queued"}
    BY <1>0 DEF TypeOK, Carried
  <1>6. QED
    BY <1>0, <1>1, <1>2, <1>3, <1>4, <1>5, OneHand

\* The actor of a slot is installed where there was none, or destroyed with the
\* messages in its mailbox.
LEMMA CarriedOver ==
    ASSUME TypeOK, Carried, NEW s \in Slots, UNCHANGED msg,
           \A t \in Workers \union Clients : pc'[t] = pc[t] /\ ref'[t] = ref[t],
           \A r \in Slots : r # s => /\ present'[r] = present[r] /\ life'[r] = life[r]
                                     /\ mailbox'[r] = mailbox[r],
           \A c \in Clients : S(c) = s => ~Holds(c)',
           \A m \in Msgs : \/ fate'[m] = fate[m]
                           \/ fate[m] \in {"reserved", "queued"} /\ fate'[m] = "dropped"
    PROVE  Carried'
  <1> USE Kinds DEF Threads
  <1>0. \A t \in Workers \union Clients : msg[t] \in Msgs \union {NoMsg} /\ S(t) \in Slots
    BY Slot DEF TypeOK
  <1>1. \A t \in Workers \union Clients : msg'[t] # NoMsg => fate'[msg'[t]] \notin {"new", "queued"}
    BY <1>0 DEF Carried
  <1>2. \A m \in Msgs : fate'[m] \in {"sending", "handling"} =>
            \E t \in Workers \union Clients : msg'[t] = m
    BY DEF Carried
  <1>3. ASSUME NEW c \in Clients PROVE ClientHand(c)'
    <2>1. ClientHand(c) /\ S(c)' = S(c) /\ msg[c] \in Msgs \union {NoMsg} /\ S(c) \in Slots
      BY <1>0 DEF Carried, S
    <2>2. Holds(c)' => S(c) # s /\ Holds(c)
      BY <2>1 DEF Holds, S
    <2>3. S(c) # s => (Inbox(c)' <=> Inbox(c))
      BY <2>1 DEF Inbox
    <2>4. QED
      BY <2>1, <2>2, <2>3 DEF ClientHand
  <1>4. ASSUME NEW w \in Workers PROVE WorkerHand(w)'
    BY <1>0 DEF Carried, WorkerHand
  <1>5. QED
    BY <1>1, <1>2, <1>3, <1>4 DEF Carried

\* The steps of the cleanup thread and the owner that leave messages alone.
Aside == \/ TakeFailed \/ Release \/ StopPool \/ StopCleaner \/ JoinCleaner \/ JoinPool
         \/ Link(Cleaner, "idle") \/ Link(Owner, "use") \/ Terminate
         \/ \E t \in {Cleaner, Owner} : Erase(t) \/ StopActor(t) \/ Spin(t)

LEMMA Elsewhere ==
    ASSUME TypeOK, Places, CleanerStep \/ Spawn \/ Release \/ OwnerStep
    PROVE  /\ UNCHANGED msg
           /\ \A t \in Workers \union Clients : pc'[t] = pc[t] /\ ref'[t] = ref[t]
  <1> USE Kinds DEF Threads
  <1>1. UNCHANGED msg
    BY DEF CleanerStep, TakeFailed, UnregisterStep, Erase, StopActor, Spin, Reset, Respawn,
       Link, Terminate, Spawn, Release, OwnerStep, StopPool, StopCleaner, JoinCleaner, JoinPool
  <1>2. \A t \in Workers \union Clients : pc'[t] = pc[t]
    BY CleanerMoves, OwnerMoves, Moves
  <1>3. UNCHANGED ref \/ \E t \in {Cleaner, Owner} : \E v : ref' = [ref EXCEPT ![t] = v]
    BY DEF CleanerStep, TakeFailed, UnregisterStep, Erase, StopActor, Spin, Reset, Respawn,
       Link, Terminate, Spawn, Release, OwnerStep, StopPool, StopCleaner, JoinCleaner, JoinPool,
       Unregistered, Set
  <1>4. \A t \in Workers \union Clients : ref'[t] = ref[t]
    BY <1>3 DEF TypeOK
  <1>5. QED
    BY <1>1, <1>2, <1>4

LEMMA AsideKeeps ==
    ASSUME Aside
    PROVE  UNCHANGED <<present, life, mailbox, fate, draining>>
  BY DEF Aside, TakeFailed, Release, StopPool, StopCleaner, JoinCleaner, JoinPool, Erase,
     StopActor, Spin, Link, Terminate, slotVars, actorVars

\* The actor installed is a new one, in a slot where there was none.
LEMMA Installed ==
    ASSUME IInv, NEW s \in Slots, Install(s), ~present[s]
    PROVE  /\ mailbox[s] = <<>> /\ UNCHANGED mailbox
           /\ life[s] \in Nat /\ life'[s] = life[s] + 1
           /\ present'[s] /\ alive'[s] /\ is_valid'[s] /\ ~draining'[s]
           /\ actor_state'[s] = "RUNNING" /\ lost'[s] = {}
           /\ \A r \in Slots : r # s => /\ present'[r] = present[r] /\ life'[r] = life[r]
                                        /\ alive'[r] = alive[r] /\ draining'[r] = draining[r]
                                        /\ is_valid'[r] = is_valid[r]
                                        /\ actor_state'[r] = actor_state[r]
                                        /\ lost'[r] = lost[r]
           /\ \A t \in Threads : S(t) = s => ~(ref[t].life = life'[s])
  <1>0. TypeOK /\ Lives /\ Refs
    BY DEF IInv
  <1>1. mailbox[s] = <<>>
    BY <1>0 DEF Lives
  <1>2. UNCHANGED mailbox
    BY <1>0, <1>1 DEF Install, Set, TypeOK
  <1>3. life[s] \in Nat /\ life'[s] = life[s] + 1
    BY <1>0 DEF Install, Set, TypeOK
  <1>4. \A t \in Threads : S(t) = s => ~(ref[t].life = life'[s])
    BY <1>0, <1>3, Slot DEF Refs
  <1>5. /\ present'[s] /\ alive'[s] /\ is_valid'[s] /\ ~draining'[s]
        /\ actor_state'[s] = "RUNNING" /\ lost'[s] = {}
    BY <1>0 DEF Install, Set, TypeOK
  <1>6. \A r \in Slots : r # s => /\ present'[r] = present[r] /\ life'[r] = life[r]
                                  /\ alive'[r] = alive[r] /\ draining'[r] = draining[r]
                                  /\ is_valid'[r] = is_valid[r]
                                  /\ actor_state'[r] = actor_state[r]
                                  /\ lost'[r] = lost[r]
    BY <1>0 DEF Install, Set, TypeOK
  <1>7. QED
    BY <1>1, <1>2, <1>3, <1>4, <1>5, <1>6

\* What is installed, and where.
LEMMA Installing ==
    ASSUME IInv, Spawn \/ Respawn
    PROVE  /\ UNCHANGED <<tasks, stopped, binned, released, msg, fate>>
           /\ \A t \in Threads : t # Owner => ref'[t] = ref[t]
           /\ \/ UNCHANGED <<present, is_valid, life, alive, draining, actor_state, mailbox,
                             active_actors, lost>>
              \/ \E s \in Slots :
                    /\ Install(s) /\ ~present[s]
                    /\ \/ Spawn /\ s = active_actors /\ life[s] = 0
                       \/ Respawn /\ s = S(Cleaner) /\ pc[Cleaner] = "spawn" /\ life[s] > 0
  <1> USE DEF Threads
  <1>0. TypeOK /\ Lives /\ Refs
    BY DEF IInv
  <1>1. CASE Spawn
    <2>1. active_actors \in Slots /\ Install(active_actors)
      BY <1>0, <1>1, Sizes DEF Spawn, Slots, TypeOK
    <2>2. life[active_actors] = 0
      BY <1>0, <2>1 DEF Lives, Slots
    <2>3. ~present[active_actors]
      BY <1>0, <2>1, <2>2 DEF Lives
    <2>4. UNCHANGED <<tasks, stopped, binned, released, msg, fate>>
      BY <1>1 DEF Spawn, poolVars
    <2>5. \A t \in Threads : t # Owner => ref'[t] = ref[t]
      BY <1>0, <1>1 DEF Spawn, Set, TypeOK
    <2>6. PICK s \in Slots : s = active_actors
      BY <2>1
    <2>7. Install(s)
      BY <2>1, <2>6 DEF Install, Set
    <2>8. QED
      BY <1>1, <2>2, <2>3, <2>4, <2>6, <2>7, <2>5
  <1>2. CASE Respawn
    <2>1. UNCHANGED <<tasks, stopped, binned, released, ref, msg, fate>>
          /\ pc[Cleaner] = "spawn"
      BY <1>2 DEF Respawn, poolVars
    <2>2. S(Cleaner) \in Slots /\ life[S(Cleaner)] > 0
      BY <1>0, <2>1, Slot DEF Refs
    <2>3. \/ UNCHANGED <<slotVars, actorVars, active_actors, lost>>
          \/ Install(S(Cleaner)) /\ ~present[S(Cleaner)]
      BY <1>2 DEF Respawn
    <2>4. PICK s \in Slots : s = S(Cleaner)
      BY <2>2
    <2>5. \/ UNCHANGED <<slotVars, actorVars, active_actors, lost>>
          \/ Install(s) /\ ~present[s]
      BY <2>3, <2>4 DEF Install, Set
    <2>6. QED
      BY <1>2, <2>1, <2>2, <2>4, <2>5 DEF slotVars, actorVars
  <1>3. QED
    BY <1>1, <1>2

\* The actor destroyed takes its messages with it.
LEMMA Destroying ==
    ASSUME IInv, NEW t \in {Cleaner, Owner}, Reset(t)
    PROVE  /\ S(t) \in Slots /\ ~present'[S(t)] /\ mailbox'[S(t)] = <<>>
           /\ \A r \in Slots : r # S(t) => present'[r] = present[r] /\ mailbox'[r] = mailbox[r]
           /\ UNCHANGED <<life, alive, draining, actor_state, tasks, binned, released, msg>>
           /\ \A m \in Msgs :
                IF \E i \in 1 .. Len(mailbox[S(t)]) : mailbox[S(t)][i] = m
                THEN fate[m] \in {"reserved", "queued"} /\ fate'[m] = "dropped"
                ELSE fate'[m] = fate[m]
  <1>0. TypeOK /\ Boxed
    BY DEF IInv
  <1>1. S(t) \in Slots
    BY <1>0, Slot DEF Threads
  <1>2. ~present'[S(t)] /\ mailbox'[S(t)] = <<>>
    BY <1>0, <1>1 DEF Reset, Set, TypeOK
  <1>3. \A r \in Slots : r # S(t) => present'[r] = present[r] /\ mailbox'[r] = mailbox[r]
    BY <1>0, <1>1 DEF Reset, Set, TypeOK
  <1>4. UNCHANGED <<life, alive, draining, actor_state, tasks, binned, released, msg>>
    BY DEF Reset, poolVars
  <1>5. ASSUME NEW m \in Msgs
        PROVE  IF \E i \in 1 .. Len(mailbox[S(t)]) : mailbox[S(t)][i] = m
               THEN fate[m] \in {"reserved", "queued"} /\ fate'[m] = "dropped"
               ELSE fate'[m] = fate[m]
    BY <1>0, <1>1 DEF Reset, Boxed
  <1>6. QED
    BY <1>1, <1>2, <1>3, <1>4, <1>5

LEMMA CarriedStep ==
    ASSUME IInv, Next PROVE Carried'
  <1> USE Kinds DEF Threads
  <1>0. TypeOK /\ Places /\ Carried
    BY DEF IInv
  <1>1. CASE Aside
    <2>1. UNCHANGED <<present, life, mailbox, fate>>
      BY <1>1, AsideKeeps
    <2>2. /\ UNCHANGED msg
          /\ \A t \in Workers \union Clients : pc'[t] = pc[t] /\ ref'[t] = ref[t]
      BY <1>0, <1>1, Elsewhere DEF Aside, CleanerStep, OwnerStep, UnregisterStep
    <2>3. \A c \in Clients : (Holds(c)' <=> Holds(c)) /\ (Inbox(c)' <=> Inbox(c))
      BY <2>1, <2>2, Undisturbed
    <2>4. \A c \in Clients : ClientHand(c)'
      BY <1>0, <2>1, <2>2, <2>3, ClientKept DEF Carried
    <2>5. \A w \in Workers : WorkerHand(w)'
      BY <1>0, <2>1, <2>2, WorkerKept DEF Carried
    <2>6. QED
      BY <1>0, <2>1, <2>2, <2>4, <2>5 DEF Carried
  <1>2. ASSUME NEW t \in {Cleaner, Owner}, Reset(t) PROVE Carried'
    <2>1. /\ UNCHANGED msg
          /\ \A u \in Workers \union Clients : pc'[u] = pc[u] /\ ref'[u] = ref[u]
      BY <1>0, <1>2, Elsewhere DEF CleanerStep, OwnerStep, UnregisterStep
    <2>2. /\ S(t) \in Slots
          /\ \A r \in Slots : r # S(t) => /\ present'[r] = present[r] /\ life'[r] = life[r]
                                          /\ mailbox'[r] = mailbox[r]
          /\ \A m \in Msgs : \/ fate'[m] = fate[m]
                             \/ fate[m] \in {"reserved", "queued"} /\ fate'[m] = "dropped"
      BY <1>2, Destroying
    <2>3. \A c \in Clients : S(c) = S(t) => ~Holds(c)'
      BY <1>2, <2>1, Destroying DEF Holds, S
    <2>4. QED
      BY <1>0, <2>1, <2>2, <2>3, CarriedOver
  <1>3. CASE Spawn \/ Respawn
    <2>1. /\ UNCHANGED <<msg, fate>>
          /\ \A u \in Workers \union Clients : pc'[u] = pc[u] /\ ref'[u] = ref[u]
      BY <1>0, <1>3, Elsewhere, Installing DEF CleanerStep
    <2>2. CASE UNCHANGED <<present, life, mailbox>>
      <3>1. \A c \in Clients : (Holds(c)' <=> Holds(c)) /\ (Inbox(c)' <=> Inbox(c))
        BY <2>1, <2>2, Undisturbed
      <3>2. \A c \in Clients : ClientHand(c)'
        BY <1>0, <2>1, <3>1, ClientKept DEF Carried
      <3>3. \A w \in Workers : WorkerHand(w)'
        BY <1>0, <2>1, WorkerKept DEF Carried
      <3>4. QED
        BY <1>0, <2>1, <3>2, <3>3 DEF Carried
    <2>3. ASSUME NEW s \in Slots, Install(s), ~present[s] PROVE Carried'
      <3>1. \A c \in Clients : S(c) = s => ~Holds(c)'
        BY <2>1, <2>3, Installed DEF Holds, S
      <3>2. \A r \in Slots : r # s => /\ present'[r] = present[r] /\ life'[r] = life[r]
                                      /\ mailbox'[r] = mailbox[r]
        BY <2>3, Installed
      <3>3. QED
        BY <1>0, <2>1, <3>1, <3>2, CarriedOver
    <2>4. QED
      BY <1>3, <2>2, <2>3, Installing
  <1>4. CASE Quiet
    <2>1. UNCHANGED <<present, life, mailbox, fate, msg, pc, ref>>
      BY <1>4 DEF Quiet, vars, slotVars, actorVars
    <2>2. \A c \in Clients : (Holds(c)' <=> Holds(c)) /\ (Inbox(c)' <=> Inbox(c))
      BY <2>1, Undisturbed
    <2>3. (\A c \in Clients : ClientHand(c)') /\ (\A w \in Workers : WorkerHand(w)')
      BY <1>0, <2>1, <2>2, ClientKept, WorkerKept DEF Carried
    <2>4. QED
      BY <1>0, <2>1, <2>3 DEF Carried
  <1>5. CASE CleanerStep \/ Spawn \/ Release \/ OwnerStep
    BY <1>1, <1>2, <1>3, <1>5 DEF CleanerStep, OwnerStep, UnregisterStep, Aside
  <1>6. QED
    BY <1>4, <1>5, ClientCarries, WorkerCarries, StrayCarries DEF Next

-----------------------------------------------------------------------------
(* Messages: the mailboxes                                                 *)

InBox(m) == fate[m] \in {"reserved", "queued"}

\* No message comes or goes.
LEMMA BoxKept ==
    ASSUME Boxed, UNCHANGED mailbox, TypeOK, \A m \in Msgs : InBox(m)' <=> InBox(m)
    PROVE  Boxed'
  <1>1. \A s \in Slots : \A i \in 1 .. Len(mailbox[s]) : mailbox[s][i] \in Msgs
    BY Mailbox
  <1>2. \A s \in Slots : \A i \in 1 .. Len(mailbox[s]) : InBox(mailbox[s][i])'
    BY <1>1 DEF Boxed, InBox
  <1>3. QED
    BY <1>2 DEF Boxed, InBox

\* One message comes, behind the others.
LEMMA BoxMore ==
    ASSUME Boxed, TypeOK, NEW s \in Slots, NEW m \in Msgs, ~InBox(m),
           mailbox' = [mailbox EXCEPT ![s] = Append(mailbox[s], m)],
           fate' = [fate EXCEPT ![m] = "reserved"]
    PROVE  Boxed'
  <1> DEFINE n == Len(mailbox[s]) + 1
  <1>1. \A r \in Slots : \A i \in 1 .. Len(mailbox[r]) : mailbox[r][i] \in Msgs /\ mailbox[r][i] # m
    BY Mailbox DEF Boxed, InBox
  <1>2. /\ \A r \in Slots : r # s => mailbox'[r] = mailbox[r]
        /\ mailbox'[s] = Append(mailbox[s], m)
        /\ fate'[m] = "reserved" /\ \A j \in Msgs : j # m => fate'[j] = fate[j]
    BY DEF TypeOK
  <1>3. /\ Len(mailbox[s]) \in Nat /\ Len(mailbox'[s]) = n /\ mailbox'[s][n] = m
        /\ \A i \in 1 .. Len(mailbox[s]) : mailbox'[s][i] = mailbox[s][i]
    BY <1>2, Mailbox, Back
  <1>4. \A r \in Slots : \A i \in 1 .. Len(mailbox'[r]) :
            \/ r = s /\ i = n /\ mailbox'[r][i] = m
            \/ i \in 1 .. Len(mailbox[r]) /\ mailbox'[r][i] = mailbox[r][i]
    BY <1>2, <1>3
  <1>5. \A r \in Slots : \A i \in 1 .. Len(mailbox[r]) :
            i \in 1 .. Len(mailbox'[r]) /\ mailbox'[r][i] = mailbox[r][i]
    BY <1>2, <1>3
  <1>6. \A r \in Slots : \A i \in 1 .. Len(mailbox'[r]) :
            fate'[mailbox'[r][i]] \in {"reserved", "queued"}
    BY <1>1, <1>2, <1>4 DEF Boxed
  <1>7. \A q, r \in Slots : \A i \in 1 .. Len(mailbox'[q]), j \in 1 .. Len(mailbox'[r]) :
            mailbox'[q][i] = mailbox'[r][j] => q = r /\ i = j
    <2>1. SUFFICES ASSUME NEW q \in Slots, NEW r \in Slots, NEW i \in 1 .. Len(mailbox'[q]),
                          NEW j \in 1 .. Len(mailbox'[r]), mailbox'[q][i] = mailbox'[r][j]
                   PROVE  q = r /\ i = j
      OBVIOUS
    <2>2. CASE mailbox'[q][i] = m
      BY <1>1, <1>4, <2>1, <2>2
    <2>3. CASE mailbox'[q][i] # m
      <3>1. /\ i \in 1 .. Len(mailbox[q]) /\ mailbox'[q][i] = mailbox[q][i]
            /\ j \in 1 .. Len(mailbox[r]) /\ mailbox'[r][j] = mailbox[r][j]
        BY <1>4, <2>1, <2>3
      <3>2. QED
        BY <2>1, <3>1 DEF Boxed
    <2>4. QED
      BY <2>2, <2>3
  <1>8. \A j \in Msgs : fate'[j] \in {"reserved", "queued"} =>
            \E r \in Slots : \E i \in 1 .. Len(mailbox'[r]) : mailbox'[r][i] = j
    <2>1. SUFFICES ASSUME NEW j \in Msgs, fate'[j] \in {"reserved", "queued"}
                   PROVE  \E r \in Slots : \E i \in 1 .. Len(mailbox'[r]) : mailbox'[r][i] = j
      OBVIOUS
    <2>2. CASE j = m
      <3>1. n \in 1 .. Len(mailbox'[s])
        BY <1>3
      <3>2. QED
        BY <1>3, <2>2, <3>1
    <2>3. CASE j # m
      <3>1. PICK r \in Slots : \E i \in 1 .. Len(mailbox[r]) : mailbox[r][i] = j
        BY <1>2, <2>1, <2>3 DEF Boxed
      <3>2. QED
        BY <1>5, <3>1
    <2>4. QED
      BY <2>2, <2>3
  <1>9. QED
    BY <1>6, <1>7, <1>8 DEF Boxed

\* The oldest message of a mailbox goes.
LEMMA BoxLess ==
    ASSUME Boxed, TypeOK, NEW w \in Workers, Pop(w) PROVE Boxed'
  <1> DEFINE s == S(w)
             m == Head(mailbox[s])
  <1>0. s \in Slots
    BY Slot DEF Threads
  <1>1. /\ m \in Msgs /\ m = mailbox[s][1] /\ fate[m] = "queued"
        /\ Len(mailbox[s]) \in Nat \ {0} /\ Len(Tail(mailbox[s])) = Len(mailbox[s]) - 1
        /\ \A i \in 1 .. Len(mailbox[s]) - 1 : Tail(mailbox[s])[i] = mailbox[s][i + 1]
    BY Oldest DEF Pop, Threads
  <1>2. /\ mailbox'[s] = Tail(mailbox[s]) /\ \A r \in Slots : r # s => mailbox'[r] = mailbox[r]
        /\ fate'[m] = "handling" /\ \A j \in Msgs : j # m => fate'[j] = fate[j]
    BY <1>0, <1>1 DEF Pop, Set, TypeOK
  <1>3. \A r \in Slots : \A i \in 1 .. Len(mailbox[r]) : mailbox[r][i] \in Msgs
    BY Mailbox
  <1> DEFINE k(r, i) == IF r = s THEN i + 1 ELSE i
  <1>4. ASSUME NEW r \in Slots, NEW i \in 1 .. Len(mailbox'[r])
        PROVE  k(r, i) \in 1 .. Len(mailbox[r]) /\ mailbox'[r][i] = mailbox[r][k(r, i)]
               /\ mailbox'[r][i] # m
    <2>1. CASE r = s
      <3>0. Len(mailbox'[r]) = Len(mailbox[s]) - 1
        BY <1>1, <1>2, <2>1
      <3>1. i \in 1 .. Len(mailbox[s]) - 1 /\ i + 1 \in 1 .. Len(mailbox[s])
            /\ 1 \in 1 .. Len(mailbox[s]) /\ i + 1 # 1
        BY <1>1, <3>0
      <3>2. mailbox'[r][i] = mailbox[s][i + 1]
        BY <1>1, <1>2, <2>1, <3>1
      <3>3. QED
        BY <1>0, <1>1, <2>1, <3>1, <3>2 DEF Boxed
    <2>2. CASE r # s
      BY <1>0, <1>1, <1>2, <2>2 DEF Boxed
    <2>3. QED
      BY <2>1, <2>2
  <1>5. \A r \in Slots : \A i \in 1 .. Len(mailbox'[r]) :
            fate'[mailbox'[r][i]] \in {"reserved", "queued"}
    <2>1. SUFFICES ASSUME NEW r \in Slots, NEW i \in 1 .. Len(mailbox'[r])
                   PROVE  fate'[mailbox'[r][i]] \in {"reserved", "queued"}
      OBVIOUS
    <2>2. k(r, i) \in 1 .. Len(mailbox[r]) /\ mailbox'[r][i] = mailbox[r][k(r, i)]
          /\ mailbox'[r][i] # m
      BY <1>4
    <2> HIDE DEF k
    <2>3. mailbox'[r][i] \in Msgs /\ fate[mailbox'[r][i]] \in {"reserved", "queued"}
      BY <1>3, <2>2 DEF Boxed
    <2>4. QED
      BY <1>2, <2>2, <2>3
  <1>6. \A q, r \in Slots : \A i \in 1 .. Len(mailbox'[q]), j \in 1 .. Len(mailbox'[r]) :
            mailbox'[q][i] = mailbox'[r][j] => q = r /\ i = j
    <2>1. SUFFICES ASSUME NEW q \in Slots, NEW r \in Slots, NEW i \in 1 .. Len(mailbox'[q]),
                          NEW j \in 1 .. Len(mailbox'[r]), mailbox'[q][i] = mailbox'[r][j]
                   PROVE  q = r /\ i = j
      OBVIOUS
    <2>2. /\ k(q, i) \in 1 .. Len(mailbox[q]) /\ mailbox'[q][i] = mailbox[q][k(q, i)]
          /\ k(r, j) \in 1 .. Len(mailbox[r]) /\ mailbox'[r][j] = mailbox[r][k(r, j)]
      BY <1>4
    <2>3. q = r /\ k(q, i) = k(r, j)
      <3> HIDE DEF k
      <3>1. PICK a \in 1 .. Len(mailbox[q]) : a = k(q, i)
        BY <2>2
      <3>2. PICK b \in 1 .. Len(mailbox[r]) : b = k(r, j)
        BY <2>2
      <3>3. mailbox[q][a] = mailbox[r][b]
        BY <2>1, <2>2, <3>1, <3>2
      <3>4. QED
        BY <3>1, <3>2, <3>3 DEF Boxed
    <2>4. Len(mailbox'[q]) \in Nat /\ Len(mailbox'[r]) \in Nat
      BY <1>1, <1>2, Mailbox
    <2>5. i \in Nat /\ j \in Nat
      BY <2>4
    <2>6. QED
      BY <2>3, <2>5
  <1>7. \A j \in Msgs : fate'[j] \in {"reserved", "queued"} =>
            \E r \in Slots : \E i \in 1 .. Len(mailbox'[r]) : mailbox'[r][i] = j
    <2>1. SUFFICES ASSUME NEW j \in Msgs, j # m, fate[j] \in {"reserved", "queued"}
                   PROVE  \E r \in Slots : \E i \in 1 .. Len(mailbox'[r]) : mailbox'[r][i] = j
      BY <1>2
    <2>2. PICK r \in Slots : \E i \in 1 .. Len(mailbox[r]) : mailbox[r][i] = j
      BY <2>1 DEF Boxed
    <2>3. PICK i \in 1 .. Len(mailbox[r]) : mailbox[r][i] = j
      BY <2>2
    <2>4. CASE r # s
      BY <1>2, <2>3, <2>4
    <2>5. CASE r = s
      <3>1. i # 1
        BY <1>1, <2>1, <2>3, <2>5
      <3>2. i - 1 \in 1 .. Len(mailbox[s]) - 1 /\ (i - 1) + 1 = i
        BY <1>1, <2>3, <2>5, <3>1
      <3>3. mailbox'[r][i - 1] = j /\ i - 1 \in 1 .. Len(mailbox'[r])
        BY <1>1, <1>2, <2>3, <2>5, <3>2
      <3>4. QED
        BY <3>3
    <2>6. QED
      BY <2>4, <2>5
  <1>8. QED
    BY <1>5, <1>6, <1>7 DEF Boxed

\* A mailbox goes with all its messages.
LEMMA BoxGone ==
    ASSUME IInv, NEW t \in {Cleaner, Owner}, Reset(t) PROVE Boxed'
  <1> DEFINE s == S(t)
  <1>0. TypeOK /\ Boxed
    BY DEF IInv
  <1>1. /\ s \in Slots /\ mailbox'[s] = <<>>
        /\ \A r \in Slots : r # s => mailbox'[r] = mailbox[r]
        /\ \A m \in Msgs :
             IF \E i \in 1 .. Len(mailbox[s]) : mailbox[s][i] = m
             THEN fate'[m] = "dropped" ELSE fate'[m] = fate[m]
    BY Destroying
  <1>2. Len(mailbox'[s]) = 0
    BY <1>1
  <1>3. \A r \in Slots : \A i \in 1 .. Len(mailbox'[r]) :
            r # s /\ i \in 1 .. Len(mailbox[r]) /\ mailbox'[r][i] = mailbox[r][i]
            /\ mailbox[r][i] \in Msgs
    BY <1>0, <1>1, <1>2, Mailbox
  <1>4. ASSUME NEW r \in Slots, NEW i \in 1 .. Len(mailbox'[r])
        PROVE  fate'[mailbox'[r][i]] \in {"reserved", "queued"}
    <2>1. ~\E j \in 1 .. Len(mailbox[s]) : mailbox[s][j] = mailbox[r][i]
      BY <1>0, <1>1, <1>3 DEF Boxed
    <2>2. fate'[mailbox[r][i]] = fate[mailbox[r][i]]
      BY <1>1, <1>3, <2>1
    <2>3. QED
      BY <1>0, <1>3, <2>2 DEF Boxed
  <1>5. \A q, r \in Slots : \A i \in 1 .. Len(mailbox'[q]), j \in 1 .. Len(mailbox'[r]) :
            mailbox'[q][i] = mailbox'[r][j] => q = r /\ i = j
    BY <1>0, <1>3 DEF Boxed
  <1>6. \A j \in Msgs : fate'[j] \in {"reserved", "queued"} =>
            \E r \in Slots : \E i \in 1 .. Len(mailbox'[r]) : mailbox'[r][i] = j
    <2>1. SUFFICES ASSUME NEW j \in Msgs, fate'[j] \in {"reserved", "queued"}
                   PROVE  \E r \in Slots : \E i \in 1 .. Len(mailbox'[r]) : mailbox'[r][i] = j
      OBVIOUS
    <2>2. fate'[j] = fate[j] /\ ~\E i \in 1 .. Len(mailbox[s]) : mailbox[s][i] = j
      BY <1>1, <2>1
    <2>3. PICK r \in Slots : \E i \in 1 .. Len(mailbox[r]) : mailbox[r][i] = j
      BY <1>0, <2>1, <2>2 DEF Boxed
    <2>4. r # s
      BY <2>2, <2>3
    <2>5. QED
      BY <1>1, <2>3, <2>4
  <1>7. QED
    BY <1>4, <1>5, <1>6 DEF Boxed

LEMMA BoxedStep ==
    ASSUME IInv, Next PROVE Boxed'
  <1> USE Kinds DEF Threads, Goto, Set
  <1>0. TypeOK /\ Carried /\ Boxed
    BY DEF IInv
  <1>1. ASSUME UNCHANGED <<mailbox, fate>> PROVE Boxed'
    BY <1>0, <1>1, BoxKept DEF InBox
  <1>2. ASSUME UNCHANGED mailbox, NEW m \in Msgs, NEW f, fate' = [fate EXCEPT ![m] = f],
               (f \in {"reserved", "queued"}) <=> InBox(m)
        PROVE  Boxed'
    <2>1. \A j \in Msgs : InBox(j)' <=> InBox(j)
      BY <1>0, <1>2 DEF InBox, TypeOK
    <2>2. QED
      BY <1>0, <1>2, <2>1, BoxKept
  <1>3. ASSUME NEW c \in Clients, Send(c) PROVE Boxed'
    <2>1. PICK m \in Msgs : fate[m] = "new" /\ \/ fate' = [fate EXCEPT ![m] = "sending"]
                                               \/ fate' = [fate EXCEPT ![m] = "refused"]
      BY <1>3 DEF Send
    <2>2. UNCHANGED mailbox
      BY <1>3 DEF Send, actorVars
    <2>3. QED
      BY <1>2, <2>1, <2>2 DEF InBox
  <1>4. ASSUME NEW c \in Clients, AddToMailbox(c) PROVE Boxed'
    <2>1. msg[c] \in Msgs /\ fate[msg[c]] = "sending" /\ UNCHANGED mailbox
      BY <1>0, <1>4 DEF AddToMailbox, Carried, ClientHand, TypeOK, actorVars
    <2>2. UNCHANGED fate \/ fate' = [fate EXCEPT ![msg[c]] = "refused"]
      BY <1>4 DEF AddToMailbox
    <2>3. QED
      BY <1>1, <1>2, <2>1, <2>2 DEF InBox
  <1>5. ASSUME NEW c \in Clients, Reserve(c) PROVE Boxed'
    <2>0. S(c) \in Slots /\ pc[c] = "reserve" /\ ClientHand(c)
      BY <1>0, <1>5, Slot DEF Reserve, Carried
    <2>1. msg[c] \in Msgs /\ fate[msg[c]] = "sending" /\ S(c) \in Slots
      BY <1>0, <2>0 DEF ClientHand, TypeOK
    <2>2. CASE UNCHANGED mailbox /\ fate' = [fate EXCEPT ![msg[c]] = "refused"]
      BY <1>2, <2>1, <2>2 DEF InBox
    <2>3. CASE /\ mailbox' = [mailbox EXCEPT ![S(c)] = Append(mailbox[S(c)], msg[c])]
               /\ fate' = [fate EXCEPT ![msg[c]] = "reserved"]
      BY <1>0, <2>1, <2>3, BoxMore DEF InBox
    <2>4. QED
      BY <1>5, <2>2, <2>3 DEF Reserve
  <1>6. ASSUME NEW c \in Clients, Publish(c) PROVE Boxed'
    <2>1. msg[c] \in Msgs /\ Inbox(c) /\ S(c) \in Slots /\ UNCHANGED mailbox
          /\ fate' = [fate EXCEPT ![msg[c]] = "queued"]
      BY <1>0, <1>6, Slot DEF Publish, Carried, ClientHand, TypeOK, actorVars
    <2>2. InBox(msg[c])
      BY <1>0, <2>1 DEF Inbox, InBox, Boxed
    <2>3. QED
      BY <1>2, <2>1, <2>2
  <1>7. ASSUME NEW c \in Clients, Kick(c) \/ Notify(c) PROVE Boxed'
    BY <1>1, <1>7 DEF Kick, Notify, actorVars
  <1>8. ASSUME NEW w \in Workers, PopNext(w) \/ Repop(w) PROVE Boxed'
    BY <1>0, <1>1, <1>8, BoxLess DEF PopNext, Repop
  <1>9. ASSUME NEW w \in Workers,
               \/ Drain(w) \/ Loop(w) \/ Clear(w) \/ Recheck(w) \/ Recas(w) \/ Renotify(w)
               \/ NotifyFailure(w, "fail", "loop") \/ NotifyFailure(w, "lateFail", "idle")
        PROVE  Boxed'
    BY <1>1, <1>9 DEF Drain, Loop, Clear, Recheck, Recas, Renotify, NotifyFailure, actorVars
  <1>10. ASSUME NEW w \in Workers, NEW from \in {"handle", "late"}, NEW to, NEW failed,
                HandleMsg(w, from, to, failed)
         PROVE  Boxed'
    <2>1. msg[w] \in Msgs /\ fate[msg[w]] = "handling" /\ UNCHANGED mailbox
      BY <1>0, <1>10 DEF HandleMsg, Carried, WorkerHand, TypeOK
    <2>2. \/ fate' = [fate EXCEPT ![msg[w]] = "handled"]
          \/ fate' = [fate EXCEPT ![msg[w]] = "threw"]
      BY <1>10 DEF HandleMsg
    <2>3. QED
      BY <1>2, <2>1, <2>2 DEF InBox
  <1>11. CASE Aside
    BY <1>1, <1>11, AsideKeeps
  <1>12. CASE Spawn \/ Respawn
    <2>1. UNCHANGED fate
      BY <1>12, Installing
    <2>2. UNCHANGED mailbox
      BY <1>12, Installing, Installed
    <2>3. QED
      BY <1>1, <2>1, <2>2
  <1>13. ASSUME NEW t \in {Cleaner, Owner}, Reset(t) PROVE Boxed'
    BY <1>13, BoxGone
  <1>14. CASE Quiet \/ \E t \in Workers \union Clients : Stray(t)
    BY <1>1, <1>14 DEF Quiet, Stray, vars, actorVars
  <1>15. QED
    BY <1>3, <1>4, <1>5, <1>6, <1>7, <1>8, <1>9, <1>10, <1>11, <1>12, <1>13, <1>14
       DEF Next, ClientStep, WorkerStep, CleanerStep, OwnerStep, UnregisterStep, Aside

-----------------------------------------------------------------------------
(* Failures                                                                *)

\* An actor comes to life by being installed, and in no other way.
LEMMA Fading ==
    ASSUME TypeOK, Next, ~Spawn, ~Respawn
    PROVE  /\ UNCHANGED life
           /\ \A s \in Slots : /\ alive'[s] => alive[s]
                               /\ present'[s] => present[s]
  <1> USE DEF Goto, Set, slotVars, actorVars
  <1>1. CASE \E c \in Clients : Send(c) \/ ClientStep(c)
    BY <1>1 DEF Send, ClientStep, AddToMailbox, Reserve, Publish, Kick, Notify
  <1>2. ASSUME NEW w \in Workers, WorkerStep(w)
        PROVE  /\ UNCHANGED <<life, present>>
               /\ alive' = alive \/ alive' = [alive EXCEPT ![S(w)] = FALSE]
    BY <1>2 DEF WorkerStep, Drain, Loop, PopNext, HandleMsg, NotifyFailure, Clear, Recheck,
       Repop, Recas, Renotify
  <1>3. CASE Aside
    BY <1>3 DEF Aside, TakeFailed, Release, StopPool, StopCleaner, JoinCleaner, JoinPool,
       Erase, StopActor, Spin, Link, Terminate, TypeOK
  <1>4. ASSUME NEW t \in {Cleaner, Owner}, Reset(t)
        PROVE  UNCHANGED <<life, alive>> /\ present' = [present EXCEPT ![S(t)] = FALSE]
    BY <1>4 DEF Reset
  <1>5. CASE Quiet \/ \E t \in Workers \union Clients : Stray(t)
    BY <1>5 DEF Quiet, Stray, vars
  <1>6. CASE \E w \in Workers : WorkerStep(w)
    BY <1>2, <1>6 DEF TypeOK
  <1>7. CASE \E t \in {Cleaner, Owner} : Reset(t)
    BY <1>4, <1>7 DEF TypeOK
  <1>8. QED
    BY <1>1, <1>3, <1>5, <1>6, <1>7 DEF Next, CleanerStep, OwnerStep, UnregisterStep, Aside

\* An actor fails when it is alive and a task of it throws, and then it is not
\* alive any more.
LEMMA Failing1 ==
    ASSUME TypeOK, Next, NEW s \in Slots, actor_state'[s] = "FAILED"
    PROVE  \/ actor_state[s] = "FAILED"
           \/ alive[s] /\ ~alive'[s]
  <1> USE DEF Goto, Set, slotVars, actorVars, Threads
  <1>1. CASE \E c \in Clients : Send(c) \/ ClientStep(c)
    BY <1>1 DEF Send, ClientStep, AddToMailbox, Reserve, Publish, Kick, Notify
  <1>2. ASSUME NEW w \in Workers, WorkerStep(w)
        PROVE  \/ actor_state' = actor_state
               \/ /\ actor_state' = [actor_state EXCEPT ![S(w)] = "FAILED"] /\ alive[S(w)]
                  /\ alive' = [alive EXCEPT ![S(w)] = FALSE]
    BY <1>2 DEF WorkerStep, Drain, Loop, PopNext, HandleMsg, NotifyFailure, Clear, Recheck,
       Repop, Recas, Renotify
  <1>3. CASE Aside
    BY <1>3 DEF Aside, TakeFailed, Release, StopPool, StopCleaner, JoinCleaner, JoinPool,
       Erase, StopActor, Spin, Link, Terminate, TypeOK
  <1>4. CASE \E t \in {Cleaner, Owner} : Reset(t)
    BY <1>4 DEF Reset
  <1>5. CASE Quiet \/ \E t \in Workers \union Clients : Stray(t)
    BY <1>5 DEF Quiet, Stray, vars
  <1>6. CASE Spawn \/ Respawn
    BY <1>6 DEF Spawn, Respawn, Install, TypeOK
  <1>7. CASE \E w \in Workers : WorkerStep(w)
    <2>1. PICK w \in Workers : WorkerStep(w)
      BY <1>7
    <2>2. /\ S(w) \in Slots
          /\ actor_state \in [Slots -> {"RUNNING", "FAILED", "STOPPED"}]
          /\ alive \in [Slots -> BOOLEAN]
      BY Slot DEF TypeOK
    <2>3. CASE actor_state' = actor_state
      BY <2>3
    <2>4. CASE /\ actor_state' = [actor_state EXCEPT ![S(w)] = "FAILED"] /\ alive[S(w)]
               /\ alive' = [alive EXCEPT ![S(w)] = FALSE]
      <3>1. CASE s = S(w)
        BY <2>2, <2>4, <3>1
      <3>2. CASE s # S(w)
        BY <2>2, <2>4, <3>2
      <3>3. QED
        BY <3>1, <3>2
    <2>5. QED
      BY <1>2, <2>1, <2>3, <2>4
  <1>8. QED
    BY <1>1, <1>3, <1>4, <1>5, <1>6, <1>7
       DEF Next, CleanerStep, OwnerStep, UnregisterStep, Aside

LEMMA StoppedStep ==
    ASSUME IInv, Next PROVE Stopped'
  <1> USE Kinds DEF Threads, Goto, Set
  <1>0. TypeOK /\ Places /\ Lives /\ Refs /\ Stopped
    BY DEF IInv
  <1>s. S(Cleaner) \in Slots
    BY <1>0, Slot
  <1>1. ASSUME ~Spawn, ~Respawn PROVE \A s \in Slots : Failed(s)' => ~alive'[s]
    BY <1>0, <1>1, Fading, Failing1 DEF Stopped, Failed
  <1>2. ASSUME ~Spawn, ~CleanerStep PROVE Stopped'
    <2>1. ~Respawn
      BY <1>2 DEF CleanerStep
    <2>2. pc'[Cleaner] = pc[Cleaner]
      BY <1>0, <1>2, Others DEF Next, Quiet, vars
    <2>3. pc[Cleaner] \in {"spin", "reset", "spawn"} => S(Cleaner)' = S(Cleaner)
      <3>1. UNCHANGED ref \/ ref'[Cleaner] = ref[Cleaner]
        <4> DEFINE NotMine == \/ UNCHANGED ref
                              \/ \E t \in Threads :
                                   t # Cleaner /\ \E v : ref' = [ref EXCEPT ![t] = v]
        <4>1. NotMine
          <5>1. ASSUME NEW c \in Clients, Send(c) \/ ClientStep(c) \/ Stray(c)
                PROVE  NotMine
            BY <5>1 DEF Stray, Send, ClientStep, AddToMailbox, Reserve, Publish, Kick, Notify
          <5>2. ASSUME NEW w \in Workers, WorkerStep(w) \/ Stray(w)
                PROVE  NotMine
            BY <5>2 DEF Stray, WorkerStep, Drain, Loop, PopNext, HandleMsg, NotifyFailure,
               Clear, Recheck, Repop, Recas, Renotify
          <5>3. CASE Release \/ OwnerStep
            BY <5>3 DEF Release, OwnerStep, Link, StopPool, StopCleaner, JoinCleaner, JoinPool,
               UnregisterStep, Erase, StopActor, Spin, Reset, Unregistered
          <5>4. CASE Quiet
            BY <5>4 DEF Quiet, vars
          <5>5. QED
            BY <1>2, <5>1, <5>2, <5>3, <5>4 DEF Next
        <4>2. QED
          BY <1>0, <4>1 DEF TypeOK
      <3>2. QED
        BY <3>1 DEF S
    <2>4. pc[Cleaner] \in {"spin", "reset"} => ~alive'[S(Cleaner)]
      BY <1>0, <1>2, <1>s, <2>1, Fading DEF Stopped
    <2>5. pc[Cleaner] = "reset" => actor_state'[S(Cleaner)] # "FAILED"
      BY <1>0, <1>s, Failing1 DEF Stopped
    <2>6. pc[Cleaner] = "spawn" => ~present'[S(Cleaner)]
      BY <1>0, <1>2, <1>s, <2>1, Fading DEF Stopped
    <2>7. QED
      BY <1>1, <1>2, <2>1, <2>2, <2>3, <2>4, <2>5, <2>6 DEF Stopped
  <1>3. ASSUME NEW s \in Slots, Install(s), ~present[s],
               pc'[Cleaner] \in {"spin", "reset", "spawn"} =>
                   s # S(Cleaner) /\ S(Cleaner)' = S(Cleaner) /\ pc'[Cleaner] = pc[Cleaner]
        PROVE  Stopped'
    BY <1>0, <1>s, <1>3, Installed DEF Stopped, Failed
  <1>4. CASE Spawn
    <2>1. pc'[Cleaner] = pc[Cleaner] /\ S(Cleaner)' = S(Cleaner)
      BY <1>0, <1>4 DEF Spawn, S, TypeOK
    <2>2. CASE UNCHANGED <<present, alive, actor_state>>
      BY <1>0, <2>1, <2>2 DEF Stopped, Failed
    <2>3. ~Respawn
      BY <1>0, <2>1 DEF Respawn, TypeOK
    <2>4. life[active_actors] = 0
      BY <1>0, <1>4, Sizes DEF Spawn, Lives, Slots, TypeOK
    <2>5. pc[Cleaner] \in {"spin", "reset", "spawn"} => active_actors # S(Cleaner)
      BY <1>0, <2>4 DEF Refs
    <2>6. QED
      BY <1>3, <1>4, <2>1, <2>2, <2>3, <2>5, Installing
  <1>5. CASE Respawn
    <2>1. pc'[Cleaner] \notin {"spin", "reset", "spawn"}
      BY <1>0, <1>5 DEF Respawn, TypeOK
    <2>2. CASE UNCHANGED <<present, alive, actor_state>>
      BY <1>0, <2>1, <2>2 DEF Stopped, Failed
    <2>3. QED
      BY <1>3, <1>5, <2>1, <2>2, Installing
  <1>6. CASE TakeFailed
    <2>1. pc'[Cleaner] \notin {"spin", "reset", "spawn"} /\ UNCHANGED <<present, alive, actor_state>>
      BY <1>0, <1>6 DEF TakeFailed, TypeOK, slotVars, actorVars
    <2>2. QED
      BY <1>0, <2>1 DEF Stopped, Failed
  <1>7. CASE UnregisterStep(Cleaner)
    <2>0. UNCHANGED ref /\ ~Spawn /\ ~Respawn
      <3>1. UNCHANGED ref /\ pc[Cleaner] \in {"erase", "stop", "spin", "reset"}
        BY <1>7 DEF UnregisterStep, Erase, StopActor, Spin, Reset, Unregistered
      <3>2. pc'[Cleaner] # pc[Cleaner]
        BY <1>0, <1>7 DEF UnregisterStep, Erase, StopActor, Spin, Reset, Unregistered, TypeOK
      <3>3. QED
        BY <1>0, <3>1, <3>2 DEF Spawn, Respawn, TypeOK
    <2>1. S(Cleaner)' = S(Cleaner) /\ \A s \in Slots : Failed(s)' => ~alive'[s]
      BY <1>1, <2>0 DEF S
    <2>2. CASE Erase(Cleaner)
      <3>1. /\ UNCHANGED <<present, alive, actor_state>>
            /\ pc'[Cleaner] \in {"stop", "spawn", "idle"}
            /\ pc'[Cleaner] = "spawn" => ~present[S(Cleaner)]
        BY <1>0, <2>2 DEF Erase, Unregistered, TypeOK, actorVars
      <3>2. QED
        BY <2>1, <3>1 DEF Stopped
    <2>3. CASE StopActor(Cleaner)
      <3>1. pc'[Cleaner] = "spin" /\ ~alive'[S(Cleaner)]
        BY <1>0, <1>s, <2>3 DEF StopActor, TypeOK
      <3>2. QED
        BY <2>1, <3>1 DEF Stopped
    <2>4. CASE Spin(Cleaner)
      <3>1. pc[Cleaner] = "spin" /\ pc'[Cleaner] = "reset" /\ alive' = alive
            /\ actor_state'[S(Cleaner)] = "STOPPED"
        BY <1>0, <1>s, <2>4 DEF Spin, TypeOK
      <3>2. QED
        BY <1>0, <2>1, <3>1 DEF Stopped
    <2>5. CASE Reset(Cleaner)
      <3>1. pc'[Cleaner] \in {"spawn", "idle"} /\ ~present'[S(Cleaner)]
        BY <1>0, <1>s, <2>5 DEF Reset, Unregistered, TypeOK
      <3>2. QED
        BY <2>1, <3>1 DEF Stopped
    <2>6. QED
      BY <1>7, <2>2, <2>3, <2>4, <2>5 DEF UnregisterStep
  <1>8. CASE Link(Cleaner, "idle") \/ Terminate
    <2>1. /\ pc'[Cleaner] \in {"idle", "terminated"}
          /\ UNCHANGED <<present, alive, actor_state>>
      BY <1>0, <1>8 DEF Link, Terminate, TypeOK, slotVars, actorVars
    <2>2. QED
      BY <1>0, <2>1 DEF Stopped, Failed
  <1>9. QED
    BY <1>2, <1>4, <1>5, <1>6, <1>7, <1>8 DEF CleanerStep

-----------------------------------------------------------------------------
(* Reports of failures                                                     *)

\* Only a worker that reports, and an actor that is installed, change what is
\* unreported.
LEMMA Told ==
    ASSUME TypeOK,
           \/ \E c \in Clients : Send(c) \/ ClientStep(c)
           \/ \E t \in Workers \union Clients : Stray(t)
           \/ \E w \in Workers :
                \/ Drain(w) \/ Loop(w) \/ PopNext(w) \/ Clear(w) \/ Recheck(w) \/ Repop(w)
                \/ Recas(w) \/ Renotify(w)
                \/ HandleMsg(w, "handle", "loop", "fail")
                \/ HandleMsg(w, "late", "idle", "lateFail")
           \/ Aside \/ (\E t \in {Cleaner, Owner} : Reset(t)) \/ Quiet
    PROVE  \A s \in Slots : Unreported(s)' <=> Unreported(s)
  <1> USE Kinds DEF Threads, Set
  <1>1. ASSUME UNCHANGED lost PROVE \A s \in Slots : Unreported(s)' <=> Unreported(s)
    BY <1>1 DEF Unreported
  <1>2. ASSUME NEW t \in Threads,
               \/ lost' = [lost EXCEPT ![S(t)] = lost[S(t)] \ {"drain"}]
               \/ lost' = [lost EXCEPT ![S(t)] = lost[S(t)] \union {"drain"}]
        PROVE  \A s \in Slots : Unreported(s)' <=> Unreported(s)
    <2>1. SUFFICES ASSUME NEW s \in Slots PROVE "failure" \in lost'[s] <=> "failure" \in lost[s]
      BY DEF Unreported
    <2>2. \/ lost'[s] = lost[s] \/ lost'[s] = lost[s] \ {"drain"}
          \/ lost'[s] = lost[s] \union {"drain"}
      <3>1. lost \in [Slots -> SUBSET {"drain", "failure"}]
        BY DEF TypeOK
      <3>2. CASE s = S(t)
        BY <1>2, <3>1, <3>2
      <3>3. CASE s # S(t)
        BY <1>2, <3>1, <3>3
      <3>4. QED
        BY <3>2, <3>3
    <2>3. QED
      BY <2>2
  <1>3. ASSUME NEW t \in Threads, Kick(t) \/ Notify(t) \/ Recas(t) \/ Renotify(t)
        PROVE  \A s \in Slots : Unreported(s)' <=> Unreported(s)
    BY <1>1, <1>2, <1>3 DEF Kick, Notify, Recas, Renotify, TryDrain, NotifyMailboxActive, Lose
  <1>4. ASSUME NEW w \in Workers, NEW from, NEW to, NEW failed, HandleMsg(w, from, to, failed)
        PROVE  \A s \in Slots : Unreported(s)' <=> Unreported(s)
    BY <1>1, <1>2, <1>4 DEF HandleMsg, Lose
  <1>5. CASE \/ \E c \in Clients : Send(c) \/ AddToMailbox(c) \/ Reserve(c) \/ Publish(c)
             \/ \E t \in Workers \union Clients : Stray(t)
             \/ \E w \in Workers :
                  Drain(w) \/ Loop(w) \/ PopNext(w) \/ Clear(w) \/ Recheck(w) \/ Repop(w)
    BY <1>1, <1>5 DEF Send, AddToMailbox, Reserve, Publish, Stray, Drain, Loop, PopNext,
       Clear, Recheck, Repop
  <1>6. CASE Aside \/ (\E t \in {Cleaner, Owner} : Reset(t)) \/ Quiet
    BY <1>1, <1>6 DEF Aside, TakeFailed, Release, StopPool, StopCleaner, JoinCleaner, JoinPool,
       Link, Terminate, Erase, StopActor, Spin, Reset, Quiet, vars
  <1>7. QED
    BY <1>3, <1>4, <1>5, <1>6 DEF ClientStep

\* The report stays where it is.
LEMMA ReportsKept ==
    ASSUME Reports, UNCHANGED binned, released' \/ ~released,
           \A s \in Slots : Failed(s)' <=> Failed(s),
           \A s \in Slots : Cleaning(s)' <=> Cleaning(s),
           \A s \in Slots : Unreported(s)' <=> Unreported(s),
           \A s \in Slots, w \in Workers : Reporting(w, s)' <=> Reporting(w, s)
    PROVE  Reports'
  <1>1. SUFFICES ASSUME ~released', ~released PROVE Reports'
    BY DEF Reports
  <1>2. \A s \in Slots : InBin(s)' <=> InBin(s)
    BY DEF InBin
  <1>3. QED
    BY <1>1, <1>2 DEF Reports, OnePlace

LEMMA ReportsStep ==
    ASSUME IInv, Next PROVE Reports'
  <1> USE Kinds DEF Threads, Goto, Set
  <1>0. TypeOK /\ Places /\ Lives /\ Refs /\ Ending /\ Reports /\ Stopped
    BY DEF IInv
  <1>r. SUFFICES ASSUME ~released' PROVE Reports'
    BY DEF Reports
  <1>q. ~released
    <2>1. UNCHANGED released \/ Release
      BY <1>0, Outside DEF Next, Spawn, OwnerStep, StopPool, StopCleaner, JoinCleaner,
         JoinPool, Link, UnregisterStep, Erase, StopActor, Spin, Reset, Quiet, vars
    <2>2. QED
      BY <1>r, <2>1 DEF Release
  <1>o. (OwnerStep => Link(Owner, "use")) /\ ~Release /\ ~Terminate
    <2>1. pc[Owner] \in {"use", "link"}
      BY <1>0, <1>q DEF Ending
    <2>2. QED
      BY <1>q, <1>r, <2>1 DEF OwnerStep, Release, Terminate, UnregisterStep, StopPool, StopCleaner,
         JoinCleaner, Erase, StopActor, Spin, Reset, JoinPool
  <1>b. /\ binned \in Seq(Slots) /\ Len(binned) \in Nat
        /\ \A i \in 1 .. Len(binned) : binned[i] \in Slots
        /\ S(Cleaner) \in Slots
    <2>1. binned \in Seq(Slots \union {Sentinel}) /\ S(Cleaner) \in Slots
      BY <1>0, Slot DEF TypeOK
    <2>2. \A i \in 1 .. Len(binned) : binned[i] \in Slots
      BY <1>0, <1>q, <2>1 DEF Ending
    <2>3. QED
      BY <2>1, <2>2
  <1>1. ASSUME UNCHANGED <<present, life, actor_state, binned>>,
               pc'[Cleaner] = pc[Cleaner], S(Cleaner)' = S(Cleaner),
               \A s \in Slots : Unreported(s)' <=> Unreported(s),
               \A s \in Slots, w \in Workers : Reporting(w, s)' <=> Reporting(w, s)
        PROVE  Reports'
    BY <1>0, <1>b, <1>q, <1>1, ReportsKept DEF Failed, Cleaning
  <1>2. ASSUME NEW c \in Clients, Send(c) \/ ClientStep(c) PROVE Reports'
    <2>1. UNCHANGED <<present, life, actor_state, binned>>
      BY <1>2 DEF Send, ClientStep, AddToMailbox, Reserve, Publish, Kick, Notify, slotVars,
         actorVars
    <2>2. \A u \in Threads : u # c => pc'[u] = pc[u]
      BY <1>0, <1>2, ClientMoves, Moves
    <2>3. \A u \in Threads : u # c => ref'[u] = ref[u]
      BY <1>0, <1>2 DEF Send, ClientStep, AddToMailbox, Reserve, Publish, Kick, Notify, TypeOK
    <2>4. \A s \in Slots : Unreported(s)' <=> Unreported(s)
      BY <1>0, <1>2, Told
    <2>5. QED
      BY <1>1, <2>1, <2>2, <2>3, <2>4 DEF Reporting, Holds, S
  <1>3. ASSUME NEW t \in Workers \union Clients, Stray(t) PROVE Reports'
    <2>1. /\ UNCHANGED <<present, life, actor_state, binned, ref>> /\ ~Holds(t)
          /\ \A u \in Threads : u # t => pc'[u] = pc[u]
      BY <1>0, <1>3, Moves DEF Stray, slotVars, actorVars
    <2>2. pc'[t] = "undefined"
      BY <1>0, <1>3 DEF Stray, TypeOK
    <2>3. \A s \in Slots : Unreported(s)' <=> Unreported(s)
      BY <1>0, <1>3, Told
    <2>4. QED
      BY <1>1, <2>1, <2>2, <2>3 DEF Reporting, Holds, S
  <1>4. ASSUME NEW w \in Workers, WorkerStep(w), UNCHANGED <<present, life, actor_state, binned>>,
               pc[w] \notin {"fail", "lateFail"}, pc'[w] \notin {"fail", "lateFail"},
               \A s \in Slots : Unreported(s)' <=> Unreported(s)
        PROVE  Reports'
    <2>1. \A u \in Threads : u # w => pc'[u] = pc[u]
      BY <1>0, <1>4, WorkerMoves, Moves
    <2>2. \A u \in Threads : u # w => ref'[u] = ref[u]
      BY <1>0, <1>4 DEF WorkerStep, Drain, Loop, PopNext, HandleMsg, NotifyFailure, Clear,
         Recheck, Repop, Recas, Renotify, TypeOK
    <2>3. QED
      BY <1>1, <1>4, <2>1, <2>2 DEF Reporting, Holds, S
  <1>5. ASSUME NEW w \in Workers,
               \/ Drain(w) \/ Loop(w) \/ PopNext(w) \/ Clear(w) \/ Recheck(w) \/ Repop(w)
               \/ Recas(w) \/ Renotify(w)
        PROVE  Reports'
    <2>1. UNCHANGED <<present, life, actor_state, binned>>
      BY <1>5 DEF Drain, Loop, PopNext, Clear, Recheck, Repop, Recas, Renotify, slotVars,
         actorVars
    <2>2. pc[w] \notin {"fail", "lateFail"} /\ pc'[w] \notin {"fail", "lateFail"}
      BY <1>0, <1>5 DEF Drain, Loop, PopNext, Clear, Recheck, Repop, Recas, Renotify,
         TryDrain, TypeOK
    <2>3. \A s \in Slots : Unreported(s)' <=> Unreported(s)
      BY <1>0, <1>5, Told
    <2>4. QED
      BY <1>4, <1>5, <2>1, <2>2, <2>3 DEF WorkerStep
  <1>6. ASSUME NEW w \in Workers,
               \/ HandleMsg(w, "handle", "loop", "fail")
               \/ HandleMsg(w, "late", "idle", "lateFail")
        PROVE  Reports'
    <2>1. /\ UNCHANGED <<present, life, ref, binned>> /\ Holds(w) /\ S(w) \in Slots
          /\ pc[w] \notin {"fail", "lateFail"}
      BY <1>0, <1>6, Slot DEF HandleMsg, slotVars
    <2>2. \A s \in Slots : Unreported(s)' <=> Unreported(s)
      BY <1>0, <1>6, Told
    <2>3. CASE UNCHANGED actor_state /\ pc'[w] \notin {"fail", "lateFail"}
      BY <1>4, <1>6, <2>1, <2>3, <2>2 DEF WorkerStep
    <2>4. CASE /\ alive[S(w)] /\ actor_state' = [actor_state EXCEPT ![S(w)] = "FAILED"]
               /\ pc'[w] \in {"fail", "lateFail"}
      <3>1. PICK a \in Slots : a = S(w)
        BY <2>1
      <3>2. ~Failed(a)
        BY <1>0, <2>4, <3>1 DEF Stopped
      <3>3. /\ \A u \in Threads : u # w => pc'[u] = pc[u]
            /\ \A u \in Threads : S(u)' = S(u) /\ (Holds(u)' <=> Holds(u))
        BY <1>0, <1>6, <2>1, WorkerMoves, Moves DEF WorkerStep, Holds, S
      <3>4. \A s \in Slots : Failed(s)' <=> s = a \/ Failed(s)
        BY <1>0, <2>1, <2>4, <3>1 DEF Failed, Holds, TypeOK
      <3>5. \A s \in Slots : (Cleaning(s)' <=> Cleaning(s)) /\ (InBin(s)' <=> InBin(s))
        BY <2>1, <3>3 DEF Cleaning, InBin
      <3>6. \A s \in Slots, v \in Workers :
               Reporting(v, s)' <=> (IF v = w THEN s = a ELSE Reporting(v, s))
        BY <2>1, <2>4, <3>1, <3>3 DEF Reporting
      <3>7. /\ \A v \in Workers : ~Reporting(v, a)
            /\ ~InBin(a) /\ ~Cleaning(a) /\ ~Unreported(a)
            /\ \A s \in Slots : ~Reporting(w, s)
        BY <1>0, <1>q, <2>1, <3>2 DEF Reports, OnePlace, Reporting
      <3>8. OnePlace'
        BY <1>0, <1>q, <2>2, <3>4, <3>5, <3>6, <3>7 DEF Reports, OnePlace
      <3>9. QED
        BY <1>0, <1>q, <2>1, <3>8 DEF Reports
    <2>5. QED
      BY <1>0, <1>6, <2>3, <2>4 DEF HandleMsg, TypeOK
  <1>7. ASSUME NEW w \in Workers,
               NotifyFailure(w, "fail", "loop") \/ NotifyFailure(w, "lateFail", "idle")
        PROVE  Reports'
    <2> DEFINE n == Len(binned) + 1
    <2>1. PICK a \in Slots : a = S(w)
      BY <1>0, Slot
    <2>2. /\ UNCHANGED <<present, life, ref, actor_state>>
          /\ Reporting(w, a) /\ pc'[w] \notin {"fail", "lateFail"}
          /\ \/ binned' = Append(binned, a) /\ UNCHANGED lost
             \/ binned' = binned /\ lost' = [lost EXCEPT ![a] = lost[a] \union {"failure"}]
      BY <1>0, <1>7, <1>q, <2>1 DEF NotifyFailure, Lose, Reporting, TypeOK, actorVars
    <2>3. /\ \A u \in Threads : u # w => pc'[u] = pc[u]
          /\ \A u \in Threads : S(u)' = S(u) /\ (Holds(u)' <=> Holds(u))
      BY <1>0, <1>7, <2>2, WorkerMoves, Moves DEF WorkerStep, Holds, S
    <2>4. /\ \A s \in Slots : (Failed(s)' <=> Failed(s)) /\ (Cleaning(s)' <=> Cleaning(s))
          /\ \A s \in Slots, v \in Workers : Reporting(v, s)' <=> v # w /\ Reporting(v, s)
      BY <2>2, <2>3 DEF Failed, Cleaning, Reporting
    <2>5. /\ Failed(a) /\ ~Cleaning(a) /\ ~InBin(a) /\ ~Unreported(a)
          /\ \A s \in Slots : Reporting(w, s) => s = a
          /\ \A v \in Workers : Reporting(v, a) => v = w
      BY <1>0, <1>q, <2>1, <2>2 DEF Reports, OnePlace, Reporting
    <2>6. CASE binned' = Append(binned, a) /\ UNCHANGED lost
      <3>1. /\ Len(binned') = n /\ binned'[n] = a
            /\ \A i \in 1 .. Len(binned) : binned'[i] = binned[i]
        BY <1>b, <2>6, Back
      <3>2. \A i \in 1 .. Len(binned') : \/ i \in 1 .. Len(binned) /\ binned'[i] = binned[i]
                                         \/ i = n /\ binned'[i] = a
        BY <1>b, <3>1
      <3>3. n \in 1 .. Len(binned') /\ \A i \in 1 .. Len(binned) : i \in 1 .. Len(binned')
        BY <1>b, <3>1
      <3>4. \A s \in Slots : InBin(s)' <=> InBin(s) \/ s = a
        BY <3>1, <3>2, <3>3 DEF InBin
      <3>5. \A i, j \in 1 .. Len(binned') : binned'[i] = binned'[j] => i = j
        BY <1>0, <1>q, <2>5, <3>2 DEF Reports, InBin
      <3>6. \A s \in Slots : Unreported(s)' <=> Unreported(s)
        BY <2>6 DEF Unreported
      <3>7. OnePlace'
        BY <1>0, <1>q, <2>4, <2>5, <3>4, <3>6 DEF Reports, OnePlace
      <3>8. QED
        BY <3>5, <3>7 DEF Reports
    <2>7. CASE binned' = binned /\ lost' = [lost EXCEPT ![a] = lost[a] \union {"failure"}]
      <3>1. \A s \in Slots : Unreported(s)' <=> Unreported(s) \/ s = a
        BY <1>0, <2>7 DEF Unreported, TypeOK
      <3>2. \A s \in Slots : InBin(s)' <=> InBin(s)
        BY <2>7 DEF InBin
      <3>3. OnePlace'
        BY <1>0, <1>q, <2>4, <2>5, <3>1, <3>2 DEF Reports, OnePlace
      <3>4. QED
        BY <1>0, <1>q, <2>7, <3>3 DEF Reports
    <2>8. QED
      BY <2>2, <2>6, <2>7
  <1>c. ASSUME CleanerStep \/ Spawn \/ OwnerStep, UNCHANGED <<present, life>>
        PROVE  \A s \in Slots, w \in Workers : Reporting(w, s)' <=> Reporting(w, s)
    <2>1. \A w \in Workers : pc'[w] = pc[w] /\ ref'[w] = ref[w]
      BY <1>0, <1>c, Elsewhere
    <2>2. QED
      BY <1>c, <2>1 DEF Reporting, Holds, S
  <1>8. CASE TakeFailed
    <2> DEFINE a == Head(binned)
    <2>1. /\ binned # <<>> /\ pc[Cleaner] = "idle" /\ binned' = Tail(binned)
          /\ UNCHANGED <<present, life, actor_state>>
      BY <1>8 DEF TakeFailed, slotVars, actorVars
    <2>2. /\ a = binned[1] /\ Len(binned) \in Nat \ {0} /\ Len(binned') = Len(binned) - 1
          /\ \A i \in 1 .. Len(binned) - 1 : binned'[i] = binned[i + 1]
      BY <1>b, <2>1, Front
    <2>3. 1 \in 1 .. Len(binned) /\ a \in Slots /\ a # Sentinel
      BY <1>b, <2>2, Sizes
    <2>4. /\ pc'[Cleaner] = "erase" /\ ref'[Cleaner] = [slot |-> a, life |-> life[a]]
      BY <1>0, <1>8, <2>3 DEF TakeFailed, TypeOK
    <2>5. \A s \in Slots : (Failed(s)' <=> Failed(s)) /\ (Cleaning(s)' <=> s = a) /\ ~Cleaning(s)
      BY <2>1, <2>4 DEF Failed, Cleaning, S
    <2>6. \A s \in Slots, w \in Workers : Reporting(w, s)' <=> Reporting(w, s)
      BY <1>8, <1>c, <2>1 DEF CleanerStep
    <2>7. \A i \in 1 .. Len(binned') :
             i + 1 \in 1 .. Len(binned) /\ i + 1 # 1 /\ binned'[i] = binned[i + 1]
      BY <2>2
    <2>8. \A i \in 1 .. Len(binned) :
             i # 1 => i - 1 \in 1 .. Len(binned') /\ binned'[i - 1] = binned[i]
      <3>1. \A i \in 1 .. Len(binned) :
               i # 1 => i - 1 \in 1 .. Len(binned) - 1 /\ (i - 1) + 1 = i
        BY <2>2
      <3>2. QED
        BY <2>2, <3>1
    <2>9. \A i, j \in 1 .. Len(binned) : binned[i] = binned[j] => i = j
      BY <1>0, <1>q DEF Reports
    <2>10. \A i, j \in 1 .. Len(binned') : binned'[i] = binned'[j] => i = j
      <3>1. SUFFICES ASSUME NEW i \in 1 .. Len(binned'), NEW j \in 1 .. Len(binned'),
                            binned'[i] = binned'[j]
                     PROVE  i = j
        OBVIOUS
      <3>2. i + 1 = j + 1
        BY <2>7, <2>9, <3>1
      <3>3. i \in Nat /\ j \in Nat
        BY <2>2
      <3>4. QED
        BY <3>2, <3>3
    <2>11. \A s \in Slots : InBin(s)' <=> InBin(s) /\ s # a
      <3>1. ASSUME NEW s \in Slots, InBin(s)' PROVE InBin(s) /\ s # a
        <4>1. PICK i \in 1 .. Len(binned') : binned'[i] = s
          BY <3>1 DEF InBin
        <4>2. PICK j \in 1 .. Len(binned) : j # 1 /\ binned[j] = s
          BY <2>7, <4>1
        <4>3. QED
          BY <2>2, <2>3, <2>9, <4>2 DEF InBin
      <3>2. ASSUME NEW s \in Slots, InBin(s), s # a PROVE InBin(s)'
        BY <2>2, <2>8, <3>2 DEF InBin
      <3>3. QED
        BY <3>1, <3>2
    <2>12. InBin(a)
      BY <2>2, <2>3 DEF InBin
    <2>13. OnePlace'
      <3>1. PICK b \in Slots : b = a
        BY <2>3
      <3>2. InBin(b)
        BY <2>12, <3>1 DEF InBin
      <3>3. \A s \in Slots : Unreported(s)' <=> Unreported(s)
        BY <1>0, <1>8, Told DEF Aside
      <3>4. QED
        BY <1>0, <1>q, <2>5, <2>6, <2>11, <3>1, <3>2, <3>3 DEF Reports, OnePlace
    <2>14. QED
      BY <2>10, <2>13 DEF Reports
  <1>9. CASE Erase(Cleaner) \/ StopActor(Cleaner)
    <2>1. /\ UNCHANGED <<present, life, actor_state, binned, ref>>
          /\ pc[Cleaner] \in {"erase", "stop"}
      BY <1>9 DEF Erase, StopActor, Unregistered, slotVars, actorVars
    <2>2. present[S(Cleaner)]
      BY <1>0, <1>b, <1>q, <2>1 DEF Reports, OnePlace, Cleaning, Failed
    <2>3. pc'[Cleaner] \in {"stop", "spin"}
      BY <1>0, <1>9, <2>2 DEF Erase, StopActor, TypeOK
    <2>4. \A s \in Slots : (Failed(s)' <=> Failed(s)) /\ (Cleaning(s)' <=> Cleaning(s))
      BY <2>1, <2>3 DEF Failed, Cleaning, S
    <2>5. \A s \in Slots : Unreported(s)' <=> Unreported(s)
      BY <1>0, <1>9, Told DEF Aside
    <2>6. QED
      BY <1>0, <1>9, <1>b, <1>c, <1>q, <2>1, <2>4, <2>5, ReportsKept
         DEF CleanerStep, UnregisterStep
  <1>10. CASE Spin(Cleaner)
    <2>1. PICK a \in Slots : a = S(Cleaner)
      BY <1>b
    <2>2. /\ UNCHANGED <<present, life, binned, ref>>
          /\ pc[Cleaner] = "spin" /\ pc'[Cleaner] = "reset"
          /\ actor_state' = [actor_state EXCEPT ![a] = "STOPPED"]
      BY <1>0, <1>10, <2>1 DEF Spin, TypeOK, slotVars
    <2>3. \A s \in Slots : ~Cleaning(s)' /\ (Cleaning(s) <=> s = a) /\ (InBin(s)' <=> InBin(s))
      BY <2>1, <2>2 DEF Cleaning, InBin
    <2>4. \A s \in Slots : Failed(s)' <=> s # a /\ Failed(s)
      BY <1>0, <2>2 DEF Failed, TypeOK
    <2>5. \A s \in Slots, w \in Workers : Reporting(w, s)' <=> Reporting(w, s)
      BY <1>10, <1>c, <2>2 DEF CleanerStep, UnregisterStep
    <2>6. OnePlace'
      <3>1. \A s \in Slots : Unreported(s)' <=> Unreported(s)
        BY <1>0, <1>10, Told DEF Aside
      <3>2. QED
        BY <1>0, <1>q, <2>3, <2>4, <2>5, <3>1 DEF Reports, OnePlace
    <2>7. QED
      BY <1>0, <1>q, <2>2, <2>6 DEF Reports
  <1>11. ASSUME NEW a \in Slots, UNCHANGED binned, CleanerStep \/ Spawn,
                ~Failed(a), ~Failed(a)',
                \A s \in Slots : s # a => /\ present'[s] = present[s] /\ life'[s] = life[s]
                                          /\ actor_state'[s] = actor_state[s]
                                          /\ (Unreported(s)' <=> Unreported(s)),
                ~Unreported(a)',
                \A w \in Workers : ~Reporting(w, a)',
                \A s \in Slots : Cleaning(s)' <=> Cleaning(s)
         PROVE  Reports'
    <2>1. \A s \in Slots : Failed(s)' <=> Failed(s)
      BY <1>11 DEF Failed
    <2>2. \A w \in Workers : pc'[w] = pc[w] /\ ref'[w] = ref[w] /\ S(w)' = S(w)
      BY <1>0, <1>11, Elsewhere DEF S
    <2>3. \A s \in Slots, w \in Workers : Reporting(w, s)' <=> Reporting(w, s)
      <3>1. SUFFICES ASSUME NEW s \in Slots, NEW w \in Workers
                     PROVE  Reporting(w, s)' <=> Reporting(w, s)
        OBVIOUS
      <3>2. CASE s = a
        BY <1>0, <1>11, <1>q, <3>2 DEF Reports, OnePlace
      <3>3. CASE s # a
        BY <1>11, <2>2, <3>3 DEF Reporting, Holds, S
      <3>4. QED
        BY <3>2, <3>3
    <2>4. ~Unreported(a)
      BY <1>0, <1>11, <1>q DEF Reports, OnePlace
    <2>5. QED
      BY <1>0, <1>11, <1>b, <1>q, <2>1, <2>3, <2>4, ReportsKept
  <1>12. CASE Reset(Cleaner)
    <2>1. PICK a \in Slots : a = S(Cleaner)
      BY <1>b
    <2>2. /\ UNCHANGED <<life, actor_state, binned>> /\ ~present'[a]
          /\ \A s \in Slots : s # a => present'[s] = present[s]
      BY <1>12, <2>1, Destroying
    <2>3. pc[Cleaner] = "reset" /\ pc'[Cleaner] \in {"spawn", "idle"}
      BY <1>0, <1>12 DEF Reset, Unregistered, TypeOK
    <2>4. \A s \in Slots : ~Cleaning(s)' /\ ~Cleaning(s)
      BY <2>3 DEF Cleaning
    <2>5. ~Failed(a)
      BY <1>0, <2>1, <2>3 DEF Stopped, Failed
    <2>6. ~Failed(a)' /\ \A w \in Workers : ~Reporting(w, a)'
      BY <2>2 DEF Failed, Reporting, Holds
    <2>7. \A s \in Slots : Unreported(s)' <=> Unreported(s)
      BY <1>0, <1>12, Told
    <2>8. ~Unreported(a)
      BY <1>0, <1>q, <2>5 DEF Reports, OnePlace
    <2>9. QED
      BY <1>11, <1>12, <2>2, <2>4, <2>5, <2>6, <2>7, <2>8 DEF CleanerStep, UnregisterStep
  <1>13. CASE Spawn \/ Respawn
    <2>1. UNCHANGED binned /\ \A t \in Threads : t # Owner => ref'[t] = ref[t]
      BY <1>13, Installing
    <2>2. \A s \in Slots : Cleaning(s)' <=> Cleaning(s)
      <3>1. \/ pc'[Cleaner] = pc[Cleaner]
            \/ {pc[Cleaner], pc'[Cleaner]} \subseteq {"spawn", "link", "idle"}
        BY <1>0, <1>13 DEF Spawn, Respawn, TypeOK
      <3>2. QED
        BY <2>1, <3>1 DEF Cleaning, S
    <2>3. CASE UNCHANGED <<present, life, actor_state, lost>>
      BY <1>0, <1>13, <1>b, <1>c, <1>q, <2>1, <2>2, <2>3, ReportsKept
         DEF CleanerStep, Failed, Unreported
    <2>4. ASSUME NEW a \in Slots, Install(a), ~present[a] PROVE Reports'
      <3>1. /\ actor_state'[a] = "RUNNING"
            /\ \A s \in Slots : s # a => /\ present'[s] = present[s] /\ life'[s] = life[s]
                                         /\ actor_state'[s] = actor_state[s]
                                         /\ lost'[s] = lost[s]
            /\ lost'[a] = {}
            /\ \A t \in Threads : S(t) = a => ref[t].life # life'[a]
        BY <2>4, Installed
      <3>2. ~Failed(a) /\ ~Failed(a)'
        BY <2>4, <3>1 DEF Failed
      <3>3. \A w \in Workers : ~Reporting(w, a)'
        BY <2>1, <3>1 DEF Reporting, Holds, S
      <3>4. /\ ~Unreported(a)'
            /\ \A s \in Slots : s # a => (Unreported(s)' <=> Unreported(s))
        BY <3>1 DEF Unreported
      <3>5. QED
        BY <1>11, <1>13, <2>1, <2>2, <3>1, <3>2, <3>3, <3>4 DEF CleanerStep
    <2>5. QED
      BY <1>13, <2>3, <2>4, Installing
  <1>14. CASE Quiet
    BY <1>0, <1>14, <1>b, <1>q, ReportsKept
       DEF Quiet, vars, slotVars, actorVars, Failed, Cleaning, Reporting, Unreported, Holds, S
  <1>15. CASE Link(Cleaner, "idle") \/ Link(Owner, "use")
    <2>1. UNCHANGED <<present, life, actor_state, binned, ref, released>>
      BY <1>15 DEF Link, actorVars
    <2>2. \/ pc'[Cleaner] = pc[Cleaner]
          \/ {pc[Cleaner], pc'[Cleaner]} \subseteq {"link", "idle"}
      BY <1>0, <1>15 DEF Link, TypeOK
    <2>3. \A s \in Slots : (Failed(s)' <=> Failed(s)) /\ (Cleaning(s)' <=> Cleaning(s))
      BY <2>1, <2>2 DEF Failed, Cleaning, S
    <2>4. \A s \in Slots, w \in Workers : Reporting(w, s)' <=> Reporting(w, s)
      BY <1>15, <1>c, <2>1 DEF CleanerStep, OwnerStep
    <2>5. \A s \in Slots : Unreported(s)' <=> Unreported(s)
      BY <1>0, <1>15, Told DEF Aside
    <2>6. QED
      BY <1>0, <1>q, <2>1, <2>3, <2>4, <2>5, ReportsKept
  <1>16. QED
    BY <1>2, <1>3, <1>5, <1>6, <1>7, <1>8, <1>9, <1>10, <1>12, <1>13, <1>14, <1>15, <1>o
       DEF Next, WorkerStep, CleanerStep, UnregisterStep

-----------------------------------------------------------------------------
(* While no task has thrown                                                *)

\* What was thrown stays thrown.
LEMMA Thrown ==
    ASSUME IInv, Next, NoFailure' PROVE NoFailure
  <1> USE Kinds DEF Threads, Goto, Set
  <1>0. TypeOK /\ Carried
    BY DEF IInv
  <1>1. SUFFICES ASSUME NEW m \in Msgs, fate[m] = "threw" PROVE fate'[m] = "threw"
    BY DEF NoFailure
  <1>2. ASSUME UNCHANGED fate PROVE fate'[m] = "threw"
    BY <1>1, <1>2
  <1>3. ASSUME NEW j \in Msgs, fate[j] # "threw", NEW f, fate' = [fate EXCEPT ![j] = f]
        PROVE  fate'[m] = "threw"
    BY <1>0, <1>1, <1>3 DEF TypeOK
  <1>4. ASSUME NEW c \in Clients, Send(c) PROVE fate'[m] = "threw"
    <2>1. PICK j \in Msgs : fate[j] = "new" /\ \/ fate' = [fate EXCEPT ![j] = "sending"]
                                               \/ fate' = [fate EXCEPT ![j] = "refused"]
      BY <1>4 DEF Send
    <2>2. QED
      BY <1>3, <2>1
  <1>5. ASSUME NEW c \in Clients, AddToMailbox(c) \/ Reserve(c) PROVE fate'[m] = "threw"
    <2>1. msg[c] \in Msgs /\ fate[msg[c]] = "sending"
      BY <1>0, <1>5 DEF AddToMailbox, Reserve, Carried, ClientHand, TypeOK
    <2>2. \/ UNCHANGED fate \/ fate' = [fate EXCEPT ![msg[c]] = "refused"]
          \/ fate' = [fate EXCEPT ![msg[c]] = "reserved"]
      BY <1>5 DEF AddToMailbox, Reserve
    <2>3. QED
      BY <1>2, <1>3, <2>1, <2>2
  <1>6. ASSUME NEW c \in Clients, Publish(c) PROVE fate'[m] = "threw"
    <2>1. /\ msg[c] \in Msgs /\ fate[msg[c]] \in {"reserved", "dropped"}
          /\ fate' = [fate EXCEPT ![msg[c]] = "queued"]
      BY <1>0, <1>6 DEF Publish, Carried, ClientHand, TypeOK
    <2>2. QED
      BY <1>3, <2>1
  <1>7. ASSUME NEW w \in Workers, PopNext(w) \/ Repop(w) PROVE fate'[m] = "threw"
    <2>1. CASE Pop(w)
      <3>1. /\ Head(mailbox[S(w)]) \in Msgs /\ fate[Head(mailbox[S(w)])] = "queued"
            /\ fate' = [fate EXCEPT ![Head(mailbox[S(w)])] = "handling"]
        BY <1>0, <2>1, Oldest DEF Pop
      <3>2. QED
        BY <1>3, <3>1
    <2>2. QED
      BY <1>2, <1>7, <2>1 DEF PopNext, Repop
  <1>8. ASSUME NEW w \in Workers,
               \/ HandleMsg(w, "handle", "loop", "fail")
               \/ HandleMsg(w, "late", "idle", "lateFail")
        PROVE  fate'[m] = "threw"
    <2>1. msg[w] \in Msgs /\ fate[msg[w]] = "handling"
      BY <1>0, <1>8 DEF HandleMsg, Carried, WorkerHand, TypeOK
    <2>2. \/ fate' = [fate EXCEPT ![msg[w]] = "handled"]
          \/ fate' = [fate EXCEPT ![msg[w]] = "threw"]
      BY <1>8 DEF HandleMsg
    <2>3. QED
      BY <1>3, <2>1, <2>2
  <1>9. CASE \/ \E c \in Clients : Kick(c) \/ Notify(c)
             \/ \E w \in Workers :
                  \/ Drain(w) \/ Loop(w) \/ Clear(w) \/ Recheck(w) \/ Recas(w) \/ Renotify(w)
                  \/ NotifyFailure(w, "fail", "loop") \/ NotifyFailure(w, "lateFail", "idle")
    BY <1>2, <1>9 DEF Kick, Notify, Drain, Loop, Clear, Recheck, Recas, Renotify, NotifyFailure
  <1>10. CASE Aside \/ Spawn \/ Respawn
    BY <1>2, <1>10, AsideKeeps, Installing
  <1>11. CASE \E t \in {Cleaner, Owner} : Reset(t)
    BY <1>1, <1>11, Destroying
  <1>12. CASE Quiet \/ \E t \in Workers \union Clients : Stray(t)
    BY <1>2, <1>12 DEF Quiet, Stray, vars
  <1>13. QED
    BY <1>4, <1>5, <1>6, <1>7, <1>8, <1>9, <1>10, <1>11, <1>12
       DEF Next, ClientStep, WorkerStep, CleanerStep, OwnerStep, UnregisterStep, Aside

\* A request more for the slot a thread works with, a request less, or none.
LEMMA Requested ==
    ASSUME IInv, Next
    PROVE  \/ UNCHANGED tasks
           \/ /\ \E w \in Workers : Drain(w)
              /\ tasks # <<>> /\ tasks' = Tail(tasks)
           \/ \E t \in Workers \union Clients, s \in Slots :
                /\ Notify(t) \/ Renotify(t)
                /\ s = S(t) /\ Holds(t) /\ present[s] /\ ~released
                /\ tasks' = Append(tasks, s)
  <1> USE Kinds DEF Threads, poolVars
  <1>0. TypeOK /\ Lives
    BY DEF IInv
  <1>1. ASSUME NEW t \in Workers \union Clients, Notify(t) \/ Renotify(t), tasks' # tasks
        PROVE  \E s \in Slots : /\ s = S(t) /\ Holds(t) /\ present[s] /\ ~released
                                /\ tasks' = Append(tasks, s)
    BY <1>0, <1>1, Held DEF Notify, Renotify, NotifyMailboxActive
  <1>2. CASE \E c \in Clients : Send(c) \/ AddToMailbox(c) \/ Reserve(c) \/ Publish(c) \/ Kick(c)
    BY <1>2 DEF Send, AddToMailbox, Reserve, Publish, Kick
  <1>3. CASE \E w \in Workers : \/ Loop(w) \/ PopNext(w) \/ HandleMsg(w, "handle", "loop", "fail")
                                \/ NotifyFailure(w, "fail", "loop") \/ Clear(w) \/ Recheck(w)
                                \/ Repop(w) \/ Recas(w) \/ HandleMsg(w, "late", "idle", "lateFail")
                                \/ NotifyFailure(w, "lateFail", "idle")
    BY <1>3 DEF Loop, PopNext, HandleMsg, NotifyFailure, Clear, Recheck, Repop, Recas
  <1>4. CASE \E w \in Workers : Drain(w)
    BY <1>4 DEF Drain
  <1>5. CASE CleanerStep \/ Spawn \/ Release \/ OwnerStep
    BY <1>5 DEF CleanerStep, TakeFailed, UnregisterStep, Erase, StopActor, Spin, Reset, Respawn,
       Link, Terminate, Spawn, Release, OwnerStep, StopPool, StopCleaner, JoinCleaner, JoinPool
  <1>6. CASE Quiet \/ \E t \in Workers \union Clients : Stray(t)
    BY <1>6 DEF Quiet, Stray, vars
  <1>7. QED
    BY <1>1, <1>2, <1>3, <1>4, <1>5, <1>6 DEF Next, ClientStep, WorkerStep

\* Nothing is asked of a slot anew but by a thread that works with its actor.
LEMMA NoneAsked ==
    ASSUME IInv, Next, NEW s \in Slots, Requests(s) = {}, Requests(s)' # {}
    PROVE  present[s] /\ ~released
  <1>0. tasks \in Seq(Slots)
    BY DEF IInv, TypeOK
  <1>1. CASE UNCHANGED tasks
    BY <1>1 DEF Requests
  <1>2. CASE tasks # <<>> /\ tasks' = Tail(tasks)
    <2>1. /\ Len(tasks) \in Nat \ {0} /\ Len(tasks') = Len(tasks) - 1
          /\ \A i \in 1 .. Len(tasks) - 1 : tasks'[i] = tasks[i + 1]
      BY <1>0, <1>2, Front
    <2>2. \A i \in 1 .. Len(tasks') : i + 1 \in 1 .. Len(tasks) /\ tasks'[i] = tasks[i + 1]
      BY <2>1
    <2>3. QED
      BY <2>2 DEF Requests
  <1>3. CASE \E r \in Slots : present[r] /\ ~released /\ tasks' = Append(tasks, r)
    <2>1. PICK r \in Slots : present[r] /\ ~released /\ tasks' = Append(tasks, r)
      BY <1>3
    <2>2. /\ Len(tasks) \in Nat /\ Len(tasks') = Len(tasks) + 1 /\ tasks'[Len(tasks) + 1] = r
          /\ \A i \in 1 .. Len(tasks) : tasks'[i] = tasks[i]
      BY <1>0, <2>1, Back
    <2>3. \A i \in 1 .. Len(tasks') : i \in 1 .. Len(tasks) \/ i = Len(tasks) + 1
      BY <2>2
    <2>4. QED
      BY <2>1, <2>2, <2>3 DEF Requests
  <1>4. QED
    BY <1>1, <1>2, <1>3, Requested

\* The owners of the right to drain can be counted.
LEMMA Counted ==
    ASSUME TypeOK, NEW s \in Slots
    PROVE  /\ IsFiniteSet(InDrain(s)) /\ IsFiniteSet(Requests(s))
           /\ Cardinality(InDrain(s)) \in Nat /\ Cardinality(Requests(s)) \in Nat
           /\ InDrain(s) = {} <=> Cardinality(InDrain(s)) = 0
           /\ Requests(s) = {} <=> Cardinality(Requests(s)) = 0
  <1>1. IsFiniteSet(Workers \union Clients)
    BY ActorAssumption, FS_Union
  <1>2. InDrain(s) \subseteq Workers \union Clients
    BY DEF InDrain
  <1>3. IsFiniteSet(InDrain(s))
    BY <1>1, <1>2, FS_Subset
  <1>4. Len(tasks) \in Nat
    BY DEF TypeOK
  <1>5. IsFiniteSet(1 .. Len(tasks))
    BY <1>4, FS_Interval
  <1>6. Requests(s) \subseteq 1 .. Len(tasks)
    BY DEF Requests
  <1>7. IsFiniteSet(Requests(s))
    BY <1>5, <1>6, FS_Subset
  <1>8. QED
    BY <1>3, <1>7, FS_CardinalityType, FS_EmptySet

LEMMA NoRight ==
    ASSUME TypeOK, NEW s \in Slots, life[s] <= 1, ~draining[s], Rights(s) <= Limit(s)
    PROVE  InDrain(s) = {} /\ Requests(s) = {}
  <1>1. life[s] \in Nat
    BY DEF TypeOK
  <1>2. Rights(s) <= 0
    BY <1>1 DEF Limit
  <1>3. QED
    BY <1>2, Counted DEF Rights

LEMMA CalmStep ==
    ASSUME IInv, Next PROVE Calm'
  <1> USE Kinds DEF Threads, Goto, Set
  <1>0. TypeOK /\ Places /\ Lives /\ Refs /\ Ending /\ Calm /\ Carried /\ Bounded
    BY DEF IInv
  <1>n. SUFFICES ASSUME NoFailure', NoFailure PROVE Calm'
    BY Thrown DEF Calm
  <1>c. /\ \A s \in Slots : life[s] <= 1 /\ actor_state[s] # "FAILED"
        /\ \A w \in Workers : pc[w] \notin {"fail", "lateFail"}
        /\ \A i \in 1 .. Len(binned) : binned[i] = Sentinel
        /\ pc[Cleaner] \in {"idle", "exited"}
        /\ pc[Owner] = "reset" => Requests(S(Owner)) = {}
        /\ \A s \in Slots : Requests(s) # {} => present[s]
    BY <1>0, <1>n DEF Calm
  <1>m. ASSUME NEW w \in Workers, NEW from \in {"handle", "late"}, NEW to \in {"loop", "idle"},
               NEW failed, HandleMsg(w, from, to, failed)
        PROVE  UNCHANGED actor_state /\ pc'[w] \in {"loop", "idle"}
    <2>1. msg[w] \in Msgs
      BY <1>0, <1>m DEF HandleMsg, Carried, WorkerHand, TypeOK
    <2>2. fate' # [fate EXCEPT ![msg[w]] = "threw"]
      BY <1>0, <1>n, <2>1 DEF NoFailure, TypeOK
    <2>3. QED
      BY <1>0, <1>m, <2>2 DEF HandleMsg, TypeOK
  <1>w. \A w \in Workers : pc'[w] \notin {"fail", "lateFail"}
    <2>1. ASSUME NEW w \in Workers, WorkerStep(w) \/ Stray(w), NEW v \in Workers
          PROVE  pc'[v] \notin {"fail", "lateFail"}
      <3>1. CASE v = w
        <4>1. CASE \/ HandleMsg(w, "handle", "loop", "fail")
                   \/ HandleMsg(w, "late", "idle", "lateFail")
          BY <1>m, <3>1, <4>1
        <4>2. CASE \/ Drain(w) \/ Loop(w) \/ PopNext(w) \/ Clear(w) \/ Recheck(w) \/ Repop(w)
                   \/ Recas(w) \/ Renotify(w) \/ Stray(w)
          BY <1>0, <1>c, <3>1, <4>2 DEF Drain, Loop, PopNext, Clear, Recheck, Repop, Recas,
             Renotify, Stray, TryDrain, TypeOK
        <4>3. CASE NotifyFailure(w, "fail", "loop") \/ NotifyFailure(w, "lateFail", "idle")
          BY <1>c, <4>3 DEF NotifyFailure
        <4>4. QED
          BY <2>1, <4>1, <4>2, <4>3 DEF WorkerStep
      <3>2. CASE v # w
        BY <1>0, <1>c, <2>1, <3>2, WorkerMoves, Moves
      <3>3. QED
        BY <3>1, <3>2
    <2>2. ASSUME NEW c \in Clients, Send(c) \/ ClientStep(c) \/ Stray(c), NEW v \in Workers
          PROVE  pc'[v] \notin {"fail", "lateFail"}
      BY <1>0, <1>c, <2>2, ClientMoves, Moves
    <2>3. ASSUME CleanerStep \/ Spawn \/ Release \/ OwnerStep, NEW v \in Workers
          PROVE  pc'[v] \notin {"fail", "lateFail"}
      BY <1>0, <1>c, <2>3, Elsewhere
    <2>4. QED
      BY <1>c, <2>1, <2>2, <2>3 DEF Next, Quiet, vars
  <1>s. ~Respawn /\ ~UnregisterStep(Cleaner) /\ ~Link(Cleaner, "idle") /\ ~Terminate
    BY <1>c DEF Respawn, Link, Terminate, UnregisterStep, Erase, StopActor, Spin, Reset
  <1>b. (\A i \in 1 .. Len(binned') : binned'[i] = Sentinel) /\ pc'[Cleaner] \in {"idle", "exited"}
    <2>0. binned \in Seq(Slots \union {Sentinel})
      BY <1>0 DEF TypeOK
    <2>1. CASE TakeFailed
      <3>1. /\ Head(binned) = binned[1] /\ Len(binned) \in Nat \ {0}
            /\ Len(binned') = Len(binned) - 1
            /\ \A i \in 1 .. Len(binned) - 1 : binned'[i] = binned[i + 1]
        BY <2>0, <2>1, Front DEF TakeFailed
      <3>2. Head(binned) = Sentinel
        BY <1>c, <3>1
      <3>3. pc'[Cleaner] = "exited"
        BY <1>0, <2>1, <3>2 DEF TakeFailed, TypeOK
      <3>4. \A i \in 1 .. Len(binned') : i + 1 \in 1 .. Len(binned) /\ binned'[i] = binned[i + 1]
        BY <3>1
      <3>5. QED
        BY <1>c, <3>3, <3>4
    <2>2. CASE ~TakeFailed
      <3>1. pc'[Cleaner] = pc[Cleaner]
        BY <1>0, <1>s, <2>2, Others DEF Next, CleanerStep, Quiet, vars
      <3>2. CASE StopCleaner
        <4>1. /\ Len(binned') = Len(binned) + 1 /\ Len(binned) \in Nat
              /\ binned'[Len(binned) + 1] = Sentinel
              /\ \A i \in 1 .. Len(binned) : binned'[i] = binned[i]
          BY <2>0, <3>2, Back DEF StopCleaner
        <4>2. \A i \in 1 .. Len(binned') : i \in 1 .. Len(binned) \/ i = Len(binned) + 1
          BY <4>1
        <4>3. QED
          BY <1>c, <3>1, <4>1, <4>2
      <3>3. CASE ~StopCleaner
        <4>1. \A w \in Workers :
                 ~NotifyFailure(w, "fail", "loop") /\ ~NotifyFailure(w, "lateFail", "idle")
          BY <1>c DEF NotifyFailure
        <4>2. UNCHANGED binned
          BY <1>s, <2>2, <3>3, <4>1 DEF Next, Quiet, vars, Stray, Send, ClientStep, AddToMailbox,
             Reserve, Publish, Kick, Notify, WorkerStep, Drain, Loop, PopNext, HandleMsg, Clear,
             Recheck, Repop, Recas, Renotify, CleanerStep, Spawn, Release, OwnerStep, Link, StopPool,
             JoinCleaner, JoinPool, UnregisterStep, Erase, StopActor, Spin, Reset
        <4>3. QED
          BY <1>c, <3>1, <4>2
      <3>4. QED
        BY <3>2, <3>3
    <2>3. QED
      BY <2>1, <2>2
  <1>f. \A s \in Slots : actor_state'[s] # "FAILED"
    <2>1. SUFFICES ASSUME NEW s \in Slots, actor_state'[s] = "FAILED" PROVE FALSE
      OBVIOUS
    <2>2. CASE \E w \in Workers : \/ HandleMsg(w, "handle", "loop", "fail")
                                  \/ HandleMsg(w, "late", "idle", "lateFail")
      BY <1>c, <1>m, <2>1, <2>2
    <2>3. CASE ~\E w \in Workers : \/ HandleMsg(w, "handle", "loop", "fail")
                                   \/ HandleMsg(w, "late", "idle", "lateFail")
      <3>1. alive[s] /\ ~alive'[s]
        BY <1>0, <1>c, <2>1, Failing1
      <3>2. actor_state' = actor_state \/ alive' = alive \/ Spawn \/ StopActor(Owner)
        BY <1>s, <2>3 DEF Next, Quiet, vars, Stray, Send, ClientStep, AddToMailbox, Reserve,
           Publish, Kick, Notify, WorkerStep, Drain, Loop, PopNext, NotifyFailure, Clear,
           Recheck, Repop, Recas, Renotify, CleanerStep, TakeFailed, Release, OwnerStep,
           Link, StopPool, StopCleaner, JoinCleaner, JoinPool, UnregisterStep, Erase, StopActor, Spin,
           Reset, actorVars
      <3>3. CASE Spawn
        BY <1>0, <2>1, <3>1, <3>3 DEF Spawn, Install, TypeOK
      <3>4. CASE StopActor(Owner)
        BY <1>c, <2>1, <3>4 DEF StopActor
      <3>5. QED
        BY <1>c, <2>1, <3>1, <3>2, <3>3, <3>4
    <2>4. QED
      BY <2>2, <2>3
  <1>l. \A s \in Slots : life'[s] <= 1
    <2>1. CASE Spawn
      BY <1>0, <1>c, <1>s, <2>1, Installing, Installed
    <2>2. CASE ~Spawn
      BY <1>0, <1>c, <1>s, <2>2, Fading
    <2>3. QED
      BY <2>1, <2>2
  <1>o. pc'[Owner] = "reset" => Requests(S(Owner))' = {}
    <2>1. CASE Spin(Owner)
      <3>1. PICK s \in Slots : s = S(Owner)
        BY <1>0, Slot
      <3>2. UNCHANGED <<tasks, ref>> /\ ~draining[s] /\ life[s] \in Nat /\ life[s] <= 1
        BY <1>0, <1>c, <2>1, <3>1 DEF Spin, poolVars, TypeOK
      <3>3. Requests(s) = {}
        BY <1>0, <3>2, NoRight DEF Bounded
      <3>4. QED
        BY <3>1, <3>2, <3>3 DEF Requests, S
    <2>2. CASE ~Spin(Owner)
      <3>1. SUFFICES ASSUME pc'[Owner] = "reset" PROVE Requests(S(Owner))' = {}
        OBVIOUS
      <3>2. pc[Owner] = "reset" /\ ref'[Owner] = ref[Owner]
        <4>1. CASE Spawn \/ Release \/ OwnerStep
          BY <1>0, <2>2, <3>1, <4>1 DEF Spawn, Release, OwnerStep, Link, StopPool, StopCleaner,
             JoinCleaner, JoinPool, UnregisterStep, Erase, StopActor, Reset, Unregistered, TypeOK
        <4>2. CASE CleanerStep
          <5>1. UNCHANGED ref \/ \E v : ref' = [ref EXCEPT ![Cleaner] = v]
            BY <1>s, <4>2 DEF CleanerStep, TakeFailed
          <5>2. QED
            BY <1>0, <3>1, <4>2, <5>1, Others DEF TypeOK
        <4>3. CASE \/ \E c \in Clients : Send(c) \/ ClientStep(c) \/ Stray(c)
                   \/ \E w \in Workers : WorkerStep(w) \/ Stray(w)
          <5>1. UNCHANGED ref \/ \E t \in Workers \union Clients : \E v : ref' = [ref EXCEPT ![t] = v]
            <6>1. CASE \E c \in Clients : Send(c) \/ ClientStep(c) \/ Stray(c)
              BY <6>1 DEF Stray, Send, ClientStep, AddToMailbox, Reserve, Publish, Kick, Notify
            <6>2. CASE \E w \in Workers : WorkerStep(w) \/ Stray(w)
              BY <6>2 DEF Stray, WorkerStep, Drain, Loop, PopNext, HandleMsg, NotifyFailure,
                 Clear, Recheck, Repop, Recas, Renotify
            <6>3. QED
              BY <4>3, <6>1, <6>2
          <5>2. QED
            BY <1>0, <3>1, <4>3, <5>1, Others DEF TypeOK
        <4>4. QED
          BY <3>1, <4>1, <4>2, <4>3 DEF Next, Quiet, vars
      <3>3. PICK s \in Slots : s = S(Owner)
        BY <1>0, Slot
      <3>4. Requests(s) = {} /\ released
        BY <1>0, <1>c, <3>2, <3>3 DEF Ending
      <3>5. Requests(s)' = {}
        BY <3>4, NoneAsked
      <3>6. QED
        BY <3>2, <3>3, <3>5 DEF Requests, S
    <2>3. QED
      BY <2>1, <2>2
  <1>r. \A s \in Slots : Requests(s)' # {} => present'[s]
    <2>1. SUFFICES ASSUME NEW s \in Slots, Requests(s)' # {} PROVE present'[s]
      OBVIOUS
    <2>2. present[s]
      BY <1>c, <2>1, NoneAsked
    <2>3. CASE Reset(Owner)
      <3>1. UNCHANGED tasks /\ pc[Owner] = "reset"
        BY <2>3 DEF Reset, poolVars
      <3>2. s # S(Owner)
        BY <1>c, <2>1, <3>1 DEF Requests
      <3>3. QED
        BY <2>2, <2>3, <3>2, Destroying
    <2>4. CASE Spawn
      BY <1>s, <2>2, <2>4, Installing, Installed
    <2>5. CASE ~Reset(Owner) /\ ~Spawn
      <3>1. UNCHANGED present
        BY <1>s, <2>5 DEF Next, Quiet, vars, Stray, Send, ClientStep, AddToMailbox,
           Reserve, Publish, Kick, Notify, WorkerStep, Drain, Loop, PopNext, HandleMsg,
           NotifyFailure, Clear, Recheck, Repop, Recas, Renotify, CleanerStep, TakeFailed,
           Release, OwnerStep, Link, StopPool, StopCleaner, JoinCleaner, JoinPool, UnregisterStep,
           Erase, StopActor, Spin, slotVars
      <3>2. QED
        BY <2>2, <3>1
    <2>6. QED
      BY <2>3, <2>4, <2>5
  <1>z. QED
    BY <1>b, <1>f, <1>l, <1>o, <1>r, <1>w DEF Calm

-----------------------------------------------------------------------------
(* Counting in sequences                                                   *)

At(q, s) == {i \in 1 .. Len(q) : q[i] = s}

LEMMA UpTo ==
    ASSUME NEW n \in Nat
    PROVE  IsFiniteSet(1 .. n) /\ Cardinality(1 .. n) = n
  <1>1. 1 \in Int /\ n \in Int
    OBVIOUS
  <1>2. IsFiniteSet(1 .. n) /\ Cardinality(1 .. n) = (IF 1 > n THEN 0 ELSE n - 1 + 1)
    BY <1>1, FS_Interval
  <1>3. QED
    BY <1>2

LEMMA Countable ==
    ASSUME NEW X, NEW q \in Seq(X), NEW s
    PROVE  IsFiniteSet(At(q, s)) /\ Cardinality(At(q, s)) \in Nat
  <1>1. Len(q) \in Nat
    OBVIOUS
  <1>2. IsFiniteSet(1 .. Len(q))
    BY <1>1, FS_Interval
  <1>3. At(q, s) \subseteq 1 .. Len(q)
    BY DEF At
  <1>4. IsFiniteSet(At(q, s))
    BY <1>2, <1>3, FS_Subset
  <1>5. QED
    BY <1>4, FS_CardinalityType

LEMMA CountMore ==
    ASSUME NEW X, NEW q \in Seq(X), NEW x \in X, NEW s
    PROVE  Cardinality(At(Append(q, x), s)) =
             Cardinality(At(q, s)) + (IF x = s THEN 1 ELSE 0)
  <1> DEFINE n == Len(q) + 1
  <1>1. /\ Len(q) \in Nat /\ Len(Append(q, x)) = n /\ Append(q, x)[n] = x
        /\ \A i \in 1 .. Len(q) : Append(q, x)[i] = q[i]
    BY Back
  <1>2. \A i : i \in 1 .. n <=> i \in 1 .. Len(q) \/ i = n
    BY <1>1
  <1>3. n \notin At(q, s)
    BY <1>1 DEF At
  <1>4. IsFiniteSet(At(q, s)) /\ Cardinality(At(q, s)) \in Nat
    BY Countable
  <1>5. CASE x = s
    <2>1. At(Append(q, x), s) = At(q, s) \union {n}
      BY <1>1, <1>2, <1>5 DEF At
    <2>2. QED
      BY <1>3, <1>4, <1>5, <2>1, FS_AddElement
  <1>6. CASE x # s
    <2>1. At(Append(q, x), s) = At(q, s)
      BY <1>1, <1>2, <1>6 DEF At
    <2>2. QED
      BY <1>4, <1>6, <2>1
  <1>7. QED
    BY <1>5, <1>6

LEMMA CountLess ==
    ASSUME NEW X, NEW q \in Seq(X), q # <<>>, NEW s
    PROVE  Cardinality(At(Tail(q), s)) =
             Cardinality(At(q, s)) - (IF Head(q) = s THEN 1 ELSE 0)
  <1> DEFINE p == Tail(q)
             f == [i \in At(p, s) |-> i + 1]
             R == At(q, s) \ {1}
  <1>1. /\ Head(q) = q[1] /\ p \in Seq(X) /\ Len(q) \in Nat \ {0} /\ Len(p) = Len(q) - 1
        /\ \A i \in 1 .. Len(q) - 1 : p[i] = q[i + 1]
    BY Front
  <1>2. IsFiniteSet(At(p, s)) /\ IsFiniteSet(At(q, s)) /\ Cardinality(At(q, s)) \in Nat
    BY <1>1, Countable
  <1>3. \A i \in At(p, s) : i \in Nat /\ i + 1 \in R
    <2>1. SUFFICES ASSUME NEW i \in At(p, s) PROVE i \in Nat /\ i + 1 \in R
      OBVIOUS
    <2>2. i \in 1 .. Len(q) - 1 /\ p[i] = s
      BY <1>1 DEF At
    <2>3. i \in Nat /\ i + 1 \in 1 .. Len(q) /\ i + 1 # 1
      BY <1>1, <2>2
    <2>4. QED
      BY <1>1, <2>2, <2>3 DEF At
  <1>4. \A j \in R : \E i \in At(p, s) : j = i + 1
    <2>1. SUFFICES ASSUME NEW j \in R PROVE \E i \in At(p, s) : j = i + 1
      OBVIOUS
    <2>2. j \in 1 .. Len(q) /\ j # 1 /\ q[j] = s
      BY DEF At
    <2>3. j - 1 \in 1 .. Len(q) - 1 /\ (j - 1) + 1 = j
      BY <1>1, <2>2
    <2>4. j - 1 \in At(p, s)
      BY <1>1, <2>2, <2>3 DEF At
    <2>5. QED
      BY <2>3, <2>4
  <1>5. f \in Bijection(At(p, s), R)
    <2>1. f \in [At(p, s) -> R]
      BY <1>3
    <2>2. \A i, j \in At(p, s) : f[i] = f[j] => i = j
      BY <1>3
    <2>3. \A j \in R : \E i \in At(p, s) : f[i] = j
      BY <1>4
    <2>4. QED
      BY <2>1, <2>2, <2>3, Fun_IsBij
  <1>6. Cardinality(R) = Cardinality(At(p, s))
    BY <1>2, <1>5, FS_Bijection DEF ExistsBijection
  <1>7. Cardinality(R) = IF 1 \in At(q, s) THEN Cardinality(At(q, s)) - 1
                         ELSE Cardinality(At(q, s))
    BY <1>2, FS_RemoveElement
  <1>8. 1 \in At(q, s) <=> Head(q) = s
    BY <1>1 DEF At
  <1>9. QED
    BY <1>2, <1>6, <1>7, <1>8

\* The positions of a sequence are as many pairs of a value and a number.
LEMMA Spread ==
    ASSUME NEW q \in Seq(Slots), NEW k \in Nat,
           \A s \in Slots : Cardinality(At(q, s)) <= k
    PROVE  \E h \in Injection(1 .. Len(q), Slots \X (1 .. k)) :
              \A i \in 1 .. Len(q) : h[i][1] = q[i] /\ h[i][2] <= Cardinality(At(q, q[i]))
  <1> DEFINE C(s) == Cardinality(At(q, s))
             G(s) == CHOOSE g \in Bijection(1 .. C(s), At(q, s)) : TRUE
             K(i) == CHOOSE j \in 1 .. C(q[i]) : G(q[i])[j] = i
             h == [i \in 1 .. Len(q) |-> <<q[i], K(i)>>]
  <1>1. ASSUME NEW s \in Slots
        PROVE  G(s) \in Bijection(1 .. C(s), At(q, s)) /\ C(s) \in Nat
    <2>1. IsFiniteSet(At(q, s))
      BY Countable
    <2>2. C(s) \in Nat /\ Bijection(1 .. C(s), At(q, s)) # {}
      BY <2>1, FS_CardinalityType DEF ExistsBijection
    <2>3. QED
      BY <2>2
  <1>2. ASSUME NEW i \in 1 .. Len(q)
        PROVE  /\ q[i] \in Slots /\ K(i) \in 1 .. C(q[i]) /\ G(q[i])[K(i)] = i
    <2>1. q[i] \in Slots /\ i \in At(q, q[i])
      BY DEF At
    <2>2. G(q[i]) \in Surjection(1 .. C(q[i]), At(q, q[i]))
      BY <1>1, <2>1, Fun_BijectionProperties
    <2>3. \E j \in 1 .. C(q[i]) : G(q[i])[j] = i
      BY <2>1, <2>2 DEF Surjection
    <2>4. QED
      BY <2>1, <2>3
  <1> HIDE DEF K, G
  <1>3. ASSUME NEW i \in 1 .. Len(q)
        PROVE  h[i] \in Slots \X (1 .. k) /\ h[i][1] = q[i] /\ h[i][2] <= C(q[i])
    <2>1. q[i] \in Slots /\ K(i) \in 1 .. C(q[i]) /\ C(q[i]) \in Nat /\ C(q[i]) <= k
      BY <1>1, <1>2
    <2>2. K(i) \in 1 .. k /\ K(i) <= C(q[i])
      BY <2>1
    <2>3. QED
      BY <2>1, <2>2
  <1>4. \A i, j \in 1 .. Len(q) : h[i] = h[j] => i = j
    <2>1. SUFFICES ASSUME NEW i \in 1 .. Len(q), NEW j \in 1 .. Len(q), h[i] = h[j]
                   PROVE  i = j
      OBVIOUS
    <2>2. q[i] = q[j] /\ K(i) = K(j)
      BY <2>1
    <2>3. QED
      BY <1>2, <2>2
  <1>5. h \in Injection(1 .. Len(q), Slots \X (1 .. k))
    BY <1>3, <1>4, Fun_IsInj
  <1>6. QED
    BY <1>3, <1>5

LEMMA SlotsCounted == IsFiniteSet(Slots) /\ Cardinality(Slots) = NumActors
  <1>1. NumActors \in Nat /\ NumActors > 0 /\ 0 \in Int /\ NumActors - 1 \in Int
    BY Sizes
  <1>2. IsFiniteSet(0 .. NumActors - 1)
        /\ Cardinality(0 .. NumActors - 1) =
             (IF 0 > NumActors - 1 THEN 0 ELSE (NumActors - 1) - 0 + 1)
    BY <1>1, FS_Interval
  <1>3. QED
    BY <1>1, <1>2 DEF Slots

\* One request of each slot at most.
LEMMA RoomForOne ==
    ASSUME NEW q \in Seq(Slots), \A s \in Slots : Cardinality(At(q, s)) <= 1
    PROVE  Len(q) <= NumActors
  <1>1. Len(q) \in Nat /\ NumActors \in Nat
    BY Sizes
  <1>2. \A i, j \in 1 .. Len(q) : q[i] = q[j] => i = j
    <2>1. SUFFICES ASSUME NEW i \in 1 .. Len(q), NEW j \in 1 .. Len(q), q[i] = q[j]
                   PROVE  i = j
      OBVIOUS
    <2>2. /\ q[i] \in Slots /\ i \in At(q, q[i]) /\ j \in At(q, q[i])
      BY <2>1 DEF At
    <2>3. IsFiniteSet(At(q, q[i])) /\ Cardinality(At(q, q[i])) \in Nat
      BY Countable
    <2>4. Cardinality(At(q, q[i])) <= 1 /\ Cardinality(At(q, q[i])) # 0
      BY <2>2, <2>3, FS_EmptySet
    <2>5. Cardinality(At(q, q[i])) = 1
      BY <2>3, <2>4
    <2>6. PICK x : At(q, q[i]) = {x}
      BY <2>3, <2>5, FS_Singleton
    <2>7. QED
      BY <2>2, <2>6
  <1>3. [i \in 1 .. Len(q) |-> q[i]] \in Injection(1 .. Len(q), Slots)
    BY <1>2, Fun_IsInj
  <1>4. Cardinality(1 .. Len(q)) <= NumActors
    BY <1>3, SlotsCounted, FS_Injection
  <1>5. Cardinality(1 .. Len(q)) = Len(q)
    BY <1>1, UpTo
  <1>6. QED
    BY <1>4, <1>5

\* Four requests of each slot, but three of one: the pool has room for one more.
LEMMA RoomForFour ==
    ASSUME NEW q \in Seq(Slots), \A s \in Slots : Cardinality(At(q, s)) <= 4,
           NEW a \in Slots, Cardinality(At(q, a)) <= 3
    PROVE  Len(q) < PoolCapacity
  <1> DEFINE P == Slots \X (1 .. 4)
             R == P \ {<<a, 4>>}
  <1>1. Len(q) \in Nat /\ NumActors \in Nat
    BY Sizes
  <1>2. PICK h \in Injection(1 .. Len(q), P) :
              \A i \in 1 .. Len(q) : h[i][1] = q[i] /\ h[i][2] <= Cardinality(At(q, q[i]))
    BY Spread
  <1>3. h \in [1 .. Len(q) -> P] /\ \A i, j \in 1 .. Len(q) : h[i] = h[j] => i = j
    BY <1>2, Fun_InjectionProperties
  <1>4. \A i \in 1 .. Len(q) : h[i] \in R
    <2>1. SUFFICES ASSUME NEW i \in 1 .. Len(q), h[i] = <<a, 4>> PROVE FALSE
      BY <1>3
    <2>2. q[i] = a /\ 4 <= Cardinality(At(q, a))
      BY <1>2, <2>1
    <2>3. Cardinality(At(q, a)) \in Nat
      BY Countable
    <2>4. QED
      BY <2>2, <2>3
  <1>5. h \in Injection(1 .. Len(q), R)
    BY <1>3, <1>4, Fun_IsInj
  <1>6. IsFiniteSet(1 .. 4) /\ Cardinality(1 .. 4) = 4
    BY UpTo
  <1>7. IsFiniteSet(P) /\ Cardinality(P) = NumActors * 4
    BY <1>6, SlotsCounted, FS_Product
  <1>8. <<a, 4>> \in P
    OBVIOUS
  <1>9. IsFiniteSet(R) /\ Cardinality(R) = NumActors * 4 - 1
    <2> HIDE DEF P
    <2>1. IsFiniteSet(P \ {<<a, 4>>}) /\ Cardinality(P \ {<<a, 4>>}) = Cardinality(P) - 1
      BY <1>7, <1>8, FS_RemoveElement
    <2>2. QED
      BY <1>7, <2>1
  <1>10. Cardinality(1 .. Len(q)) <= NumActors * 4 - 1
    BY <1>5, <1>9, FS_Injection
  <1>11. Cardinality(1 .. Len(q)) = Len(q)
    BY <1>1, UpTo
  <1>12. QED
    BY <1>1, <1>10, <1>11 DEF PoolCapacity

-----------------------------------------------------------------------------
(* The right to drain                                                      *)

DrainPlaces == {"loop", "pop", "handle", "fail", "clear", "renotify"}

\* The ways the right to drain goes: it stays, ...
Steady ==
    /\ UNCHANGED <<tasks, life, draining>>
    /\ \A s \in Slots : InDrain(s)' \subseteq InDrain(s)
    /\ \A s \in Slots : present'[s] => InDrain(s)' = InDrain(s)

SameElsewhere(a) == \A s \in Slots \ {a} : InDrain(s)' = InDrain(s)

\* ... is won, ...
Taken(a, t) ==
    /\ UNCHANGED <<tasks, life, present>> /\ life[a] > 0
    /\ ~draining[a] /\ draining' = [draining EXCEPT ![a] = TRUE]
    /\ InDrain(a)' = InDrain(a) \union {t} /\ SameElsewhere(a)

\* ... given up, ...
Cleared(a, w) ==
    /\ Clear(w) /\ a = S(w) /\ Holds(w)
    /\ UNCHANGED <<tasks, life, present>> /\ draining' = [draining EXCEPT ![a] = FALSE]
    /\ w \in InDrain(a) /\ InDrain(a)' = InDrain(a) \ {w} /\ SameElsewhere(a)

\* ... taken from the pool by a worker, ...
Fetched(a, w) ==
    /\ tasks # <<>> /\ a = Head(tasks) /\ tasks' = Tail(tasks)
    /\ UNCHANGED <<life, draining, present>>
    /\ IF present[a] /\ is_valid[a] THEN InDrain(a)' = InDrain(a) \union {w}
       ELSE InDrain(a)' = InDrain(a)
    /\ SameElsewhere(a)

\* ... handed to the pool, ...
Handed(a, t) ==
    /\ t \in InDrain(a) /\ InDrain(a)' = InDrain(a) \ {t} /\ SameElsewhere(a)
    /\ UNCHANGED <<life, draining, present>>
    /\ NotifyMailboxActive(a)

\* ... lost with the worker that a task's exception takes away, ...
Dropped(a, t) ==
    /\ t \in InDrain(a) /\ InDrain(a)' = InDrain(a) \ {t} /\ SameElsewhere(a)
    /\ UNCHANGED <<tasks, life, draining, present>> /\ "drain" \in lost'[a]

\* ... or starts again with a new actor.
Renewed(a) ==
    /\ UNCHANGED tasks
    /\ InDrain(a)' = {} /\ ~draining'[a] /\ life'[a] = life[a] + 1 /\ SameElsewhere(a)
    /\ \A s \in Slots \ {a} : life'[s] = life[s] /\ draining'[s] = draining[s]

LEMMA Member ==
    ASSUME NEW s
    PROVE  /\ InDrain(s) \subseteq Workers \union Clients
           /\ \A w \in Workers : w \in InDrain(s) <=> pc[w] \in DrainPlaces /\ S(w) = s /\ Holds(w)
           /\ \A c \in Clients : c \in InDrain(s) <=> pc[c] = "notify" /\ S(c) = s /\ Holds(c)
           /\ InDrain(s)' \subseteq Workers \union Clients
           /\ \A w \in Workers :
                 w \in InDrain(s)' <=> pc'[w] \in DrainPlaces /\ S(w)' = s /\ Holds(w)'
           /\ \A c \in Clients : c \in InDrain(s)' <=> pc'[c] = "notify" /\ S(c)' = s /\ Holds(c)'
  <1> USE Kinds
  <1>1. /\ InDrain(s) \subseteq Workers \union Clients
        /\ InDrain(s)' \subseteq Workers \union Clients
    BY DEF InDrain
  <1>2. ASSUME NEW w \in Workers
        PROVE  /\ w \in InDrain(s) <=> pc[w] \in DrainPlaces /\ S(w) = s /\ Holds(w)
               /\ w \in InDrain(s)' <=> pc'[w] \in DrainPlaces /\ S(w)' = s /\ Holds(w)'
    BY DEF InDrain, DrainPlaces
  <1>3. ASSUME NEW c \in Clients
        PROVE  /\ c \in InDrain(s) <=> pc[c] = "notify" /\ S(c) = s /\ Holds(c)
               /\ c \in InDrain(s)' <=> pc'[c] = "notify" /\ S(c)' = s /\ Holds(c)'
    BY DEF InDrain
  <1>4. QED
    BY <1>1, <1>2, <1>3

\* Whatever one thread does, the others stay.
LEMMA OnlyOne ==
    ASSUME NEW t \in Workers \union Clients, UNCHANGED <<present, life>>,
           \A u \in Workers \union Clients : u # t => pc'[u] = pc[u] /\ ref'[u] = ref[u],
           NEW s
    PROVE  \A u : u # t => (u \in InDrain(s)' <=> u \in InDrain(s))
  <1>1. \A u \in Workers \union Clients : u # t =>
            pc'[u] = pc[u] /\ S(u)' = S(u) /\ (Holds(u)' <=> Holds(u))
    BY DEF S, Holds
  <1>2. QED
    BY <1>1, Member

LEMMA Stays ==
    ASSUME NEW t \in Workers \union Clients, UNCHANGED <<present, life, tasks, draining>>,
           \A u \in Workers \union Clients : u # t => pc'[u] = pc[u] /\ ref'[u] = ref[u],
           \A s \in Slots : t \in InDrain(s)' <=> t \in InDrain(s)
    PROVE  Steady
  <1>1. \A s \in Slots : \A u : u \in InDrain(s)' <=> u \in InDrain(s)
    BY OnlyOne
  <1>2. \A s \in Slots : InDrain(s)' = InDrain(s)
    BY <1>1
  <1>3. QED
    BY <1>2 DEF Steady

\* A step of a client or a worker moves no other of them, and destroys nothing.
LEMMA ClientAlone ==
    ASSUME TypeOK, Places, NEW c \in Clients, Send(c) \/ ClientStep(c) \/ Stray(c)
    PROVE  /\ \A u \in Workers \union Clients : u # c => pc'[u] = pc[u] /\ ref'[u] = ref[u]
           /\ UNCHANGED <<present, life, is_valid>>
  <1> USE Kinds DEF Threads, Goto, Set
  <1>1. \A u \in Workers \union Clients : u # c => pc'[u] = pc[u]
    BY ClientMoves, Moves
  <1>2. \A u \in Workers \union Clients : u # c => ref'[u] = ref[u]
    BY DEF Send, ClientStep, AddToMailbox, Reserve, Publish, Kick, Notify, Stray, TypeOK
  <1>3. UNCHANGED <<present, life, is_valid>>
    BY DEF Send, ClientStep, AddToMailbox, Reserve, Publish, Kick, Notify, Stray, slotVars
  <1>4. QED
    BY <1>1, <1>2, <1>3

LEMMA WorkerAlone ==
    ASSUME TypeOK, Places, NEW w \in Workers, WorkerStep(w) \/ Stray(w)
    PROVE  /\ \A u \in Workers \union Clients : u # w => pc'[u] = pc[u] /\ ref'[u] = ref[u]
           /\ UNCHANGED <<present, life>>
  <1> USE Kinds DEF Threads, Goto, Set
  <1>1. \A u \in Workers \union Clients : u # w => pc'[u] = pc[u]
    BY WorkerMoves, Moves
  <1>2. \A u \in Workers \union Clients : u # w => ref'[u] = ref[u]
    BY DEF WorkerStep, Drain, Loop, PopNext, HandleMsg, NotifyFailure, Clear, Recheck,
       Repop, Recas, Renotify, Stray, TypeOK
  <1>3. UNCHANGED <<present, life>>
    BY DEF WorkerStep, Drain, Loop, PopNext, HandleMsg, NotifyFailure, Clear, Recheck,
       Repop, Recas, Renotify, Stray, slotVars
  <1>4. QED
    BY <1>1, <1>2, <1>3

LEMMA ClientShifts ==
    ASSUME IInv, NEW c \in Clients, Send(c) \/ ClientStep(c) \/ Stray(c)
    PROVE  Steady \/ \E a \in Slots : Taken(a, c) \/ Handed(a, c)
  <1> USE Kinds DEF Threads, Goto, Set
  <1>0. TypeOK /\ Places /\ Lives
    BY DEF IInv
  <1>p. \A u \in Workers \union Clients : u # c => pc'[u] = pc[u] /\ ref'[u] = ref[u]
    BY <1>0, ClientAlone
  <1>l. UNCHANGED <<present, life, is_valid>>
    BY <1>0, ClientAlone
  <1>o. ASSUME NEW a \in Slots PROVE \A u : u # c => (u \in InDrain(a)' <=> u \in InDrain(a))
    BY <1>l, <1>p, OnlyOne
  <1>1. ASSUME UNCHANGED <<tasks, draining>>, pc'[c] # "notify", pc[c] # "notify" \/ ~Holds(c)
        PROVE  Steady
    <2>1. \A s \in Slots : c \notin InDrain(s)' /\ c \notin InDrain(s)
      BY <1>1, Member
    <2>2. QED
      BY <1>1, <1>l, <1>p, <2>1, Stays
  <1>2. CASE Send(c) \/ AddToMailbox(c) \/ Reserve(c) \/ Publish(c)
    <2>1. pc'[c] # "notify" /\ pc[c] # "notify"
      BY <1>0, <1>2 DEF Send, AddToMailbox, Reserve, Publish, Return, TypeOK
    <2>2. UNCHANGED <<tasks, draining>>
      BY <1>2 DEF Send, AddToMailbox, Reserve, Publish, poolVars, actorVars
    <2>3. QED
      BY <1>1, <2>1, <2>2
  <1>3. CASE Stray(c)
    <2>1. pc'[c] # "notify" /\ ~Holds(c) /\ UNCHANGED <<tasks, draining>>
      BY <1>0, <1>3 DEF Stray, TypeOK, poolVars, actorVars
    <2>2. QED
      BY <1>1, <2>1
  <1>4. CASE Kick(c)
    <2>1. /\ pc[c] = "kick" /\ Holds(c) /\ UNCHANGED <<tasks, ref>>
      BY <1>4 DEF Kick, poolVars
    <2>2. CASE draining[S(c)]
      <3>1. pc'[c] = "idle" /\ UNCHANGED draining
        BY <1>0, <1>4, <2>2 DEF Kick, Return, TypeOK
      <3>2. QED
        BY <1>1, <2>1, <3>1
    <2>3. CASE ~draining[S(c)]
      <3>1. PICK a \in Slots : a = S(c)
        BY <1>0, Slot
      <3>2. /\ pc'[c] = "notify" /\ draining' = [draining EXCEPT ![a] = TRUE]
            /\ ~draining[a] /\ life[a] > 0
        BY <1>0, <1>4, <2>1, <2>3, <3>1, Held DEF Kick, TryDrain, TypeOK
      <3>3. S(c)' = S(c) /\ Holds(c)'
        BY <1>l, <2>1 DEF S, Holds
      <3>4. \A s \in Slots : (c \in InDrain(s)' <=> s = a) /\ c \notin InDrain(s)
        BY <2>1, <3>1, <3>2, <3>3, Member
      <3>5. InDrain(a)' = InDrain(a) \union {c}
        BY <1>o, <3>4
      <3>6. SameElsewhere(a)
        <4>1. ASSUME NEW s \in Slots \ {a} PROVE InDrain(s)' = InDrain(s)
          <5>1. c \notin InDrain(s)' /\ c \notin InDrain(s)
            BY <3>4
          <5>2. \A u : u \in InDrain(s)' <=> u \in InDrain(s)
            BY <1>o, <5>1
          <5>3. QED
            BY <5>2
        <4>2. QED
          BY <4>1 DEF SameElsewhere
      <3>7. Taken(a, c)
        BY <1>l, <2>1, <3>2, <3>5, <3>6 DEF Taken
      <3>8. QED
        BY <3>7
    <2>4. QED
      BY <2>2, <2>3
  <1>5. CASE Notify(c)
    <2>1. PICK a \in Slots : a = S(c)
      BY <1>0, Slot
    <2>2. /\ pc[c] = "notify" /\ pc'[c] = "idle" /\ Holds(c) /\ UNCHANGED <<draining, ref>>
          /\ NotifyMailboxActive(a)
      BY <1>0, <1>5, <2>1 DEF Notify, Return, NotifyMailboxActive, TypeOK, actorVars
    <2>3. \A s \in Slots : (c \in InDrain(s) <=> s = a) /\ c \notin InDrain(s)'
      BY <2>1, <2>2, Member
    <2>4. InDrain(a)' = InDrain(a) \ {c}
      BY <1>o, <2>3
    <2>5. SameElsewhere(a)
      <3>1. ASSUME NEW s \in Slots \ {a} PROVE InDrain(s)' = InDrain(s)
        BY <1>o, <2>3
      <3>2. QED
        BY <3>1 DEF SameElsewhere
    <2>6. Handed(a, c)
      BY <1>l, <2>2, <2>3, <2>4, <2>5 DEF Handed
    <2>7. QED
      BY <2>6
  <1>6. QED
    BY <1>2, <1>3, <1>4, <1>5 DEF ClientStep

LEMMA WorkerShifts ==
    ASSUME IInv, NEW w \in Workers, WorkerStep(w) \/ Stray(w)
    PROVE  \/ Steady
           \/ \E a \in Slots : \/ Taken(a, w) \/ Handed(a, w) \/ Fetched(a, w)
                              \/ Cleared(a, w) \/ Dropped(a, w)
  <1> USE Kinds DEF Threads, Goto, Set
  <1>0. TypeOK /\ Places /\ Lives
    BY DEF IInv
  <1>p. \A u \in Workers \union Clients : u # w => pc'[u] = pc[u] /\ ref'[u] = ref[u]
    BY <1>0, WorkerAlone
  <1>l. UNCHANGED <<present, life>>
    BY <1>0, WorkerAlone
  <1>o. ASSUME NEW a \in Slots PROVE \A u : u # w => (u \in InDrain(a)' <=> u \in InDrain(a))
    BY <1>l, <1>p, OnlyOne
  <1>1. ASSUME UNCHANGED <<tasks, draining, ref>>,
               (pc'[w] \in DrainPlaces /\ Holds(w)) <=> (pc[w] \in DrainPlaces /\ Holds(w))
        PROVE  Steady
    <2>1. S(w)' = S(w) /\ (Holds(w)' <=> Holds(w))
      BY <1>1, <1>l DEF S, Holds
    <2>2. \A s \in Slots : w \in InDrain(s)' <=> w \in InDrain(s)
      BY <1>1, <2>1, Member
    <2>3. QED
      BY <1>1, <1>l, <1>p, <2>2, Stays
  <1>2. CASE \/ Loop(w) \/ PopNext(w)
             \/ /\ HandleMsg(w, "handle", "loop", "fail")
                /\ pc'[w] # "idle"
             \/ NotifyFailure(w, "fail", "loop") \/ Recheck(w) \/ Repop(w)
             \/ HandleMsg(w, "late", "idle", "lateFail") \/ NotifyFailure(w, "lateFail", "idle")
    <2>1. UNCHANGED <<tasks, draining, ref>>
      BY <1>2 DEF Loop, PopNext, HandleMsg, NotifyFailure, Recheck, Repop, poolVars, actorVars
    <2>2. pc'[w] \in DrainPlaces <=> pc[w] \in DrainPlaces
      BY <1>0, <1>2 DEF Loop, PopNext, HandleMsg, NotifyFailure, Recheck, Repop, DrainPlaces,
         TypeOK
    <2>3. QED
      BY <1>1, <2>1, <2>2
  <1>3. CASE Stray(w)
    <2>1. ~Holds(w) /\ UNCHANGED <<tasks, draining, ref>>
      BY <1>3 DEF Stray, poolVars, actorVars
    <2>2. QED
      BY <1>1, <2>1
  <1>4. CASE Recas(w)
    <2>1. /\ pc[w] = "recas" /\ Holds(w) /\ UNCHANGED <<tasks, ref>>
      BY <1>4 DEF Recas, poolVars
    <2>2. CASE draining[S(w)]
      <3>1. pc'[w] = "late" /\ UNCHANGED draining
        BY <1>0, <1>4, <2>2 DEF Recas, TryDrain, TypeOK
      <3>2. QED
        BY <1>1, <2>1, <3>1 DEF DrainPlaces
    <2>3. CASE ~draining[S(w)]
      <3>1. PICK a \in Slots : a = S(w)
        BY <1>0, Slot
      <3>2. /\ pc'[w] = "renotify" /\ draining' = [draining EXCEPT ![a] = TRUE]
            /\ ~draining[a] /\ life[a] > 0
        BY <1>0, <1>4, <2>1, <2>3, <3>1, Held DEF Recas, TryDrain, TypeOK
      <3>3. S(w)' = S(w) /\ Holds(w)'
        BY <1>l, <2>1 DEF S, Holds
      <3>4. \A s \in Slots : (w \in InDrain(s)' <=> s = a) /\ w \notin InDrain(s)
        BY <2>1, <3>1, <3>2, <3>3, Member DEF DrainPlaces
      <3>5. InDrain(a)' = InDrain(a) \union {w}
        BY <1>o, <3>4
      <3>6. SameElsewhere(a)
        <4>1. ASSUME NEW s \in Slots \ {a} PROVE InDrain(s)' = InDrain(s)
          BY <1>o, <3>4
        <4>2. QED
          BY <4>1 DEF SameElsewhere
      <3>7. Taken(a, w)
        BY <1>l, <2>1, <3>2, <3>5, <3>6 DEF Taken
      <3>8. QED
        BY <3>7
    <2>4. QED
      BY <2>2, <2>3
  <1>5. CASE Renotify(w)
    <2>1. PICK a \in Slots : a = S(w)
      BY <1>0, Slot
    <2>2. /\ pc[w] = "renotify" /\ pc'[w] = "late" /\ Holds(w) /\ UNCHANGED <<draining, ref>>
          /\ NotifyMailboxActive(a)
      BY <1>0, <1>5, <2>1 DEF Renotify, NotifyMailboxActive, TypeOK, actorVars
    <2>3. \A s \in Slots : (w \in InDrain(s) <=> s = a) /\ w \notin InDrain(s)'
      BY <2>1, <2>2, Member DEF DrainPlaces
    <2>4. InDrain(a)' = InDrain(a) \ {w}
      BY <1>o, <2>3
    <2>5. SameElsewhere(a)
      <3>1. ASSUME NEW s \in Slots \ {a} PROVE InDrain(s)' = InDrain(s)
        BY <1>o, <2>3
      <3>2. QED
        BY <3>1 DEF SameElsewhere
    <2>6. Handed(a, w)
      BY <1>l, <2>2, <2>3, <2>4, <2>5 DEF Handed
    <2>7. QED
      BY <2>6
  <1>6. CASE Clear(w)
    <2>1. PICK a \in Slots : a = S(w)
      BY <1>0, Slot
    <2>2. /\ pc[w] = "clear" /\ pc'[w] = "recheck" /\ Holds(w) /\ UNCHANGED <<tasks, ref>>
          /\ draining' = [draining EXCEPT ![a] = FALSE]
      BY <1>0, <1>6, <2>1 DEF Clear, TypeOK, poolVars
    <2>3. \A s \in Slots : (w \in InDrain(s) <=> s = a) /\ w \notin InDrain(s)'
      BY <2>1, <2>2, Member DEF DrainPlaces
    <2>4. InDrain(a)' = InDrain(a) \ {w}
      BY <1>o, <2>3
    <2>5. SameElsewhere(a)
      <3>1. ASSUME NEW s \in Slots \ {a} PROVE InDrain(s)' = InDrain(s)
        BY <1>o, <2>3
      <3>2. QED
        BY <3>1 DEF SameElsewhere
    <2>6. Cleared(a, w)
      BY <1>6, <1>l, <2>1, <2>2, <2>3, <2>4, <2>5 DEF Cleared
    <2>7. QED
      BY <2>6
  <1>7. CASE Drain(w)
    <2>1. tasks # <<>> /\ pc[w] = "idle" /\ tasks' = Tail(tasks) /\ UNCHANGED draining
      BY <1>7 DEF Drain, actorVars
    <2>2. PICK a \in Slots : a = Head(tasks)
      BY <1>0, <2>1, Front DEF TypeOK
    <2>3. \A s \in Slots : w \notin InDrain(s)
      BY <2>1, Member DEF DrainPlaces
    <2>4. CASE present[a] /\ is_valid[a]
      <3>1. pc'[w] = "loop" /\ ref'[w] = [slot |-> a, life |-> life[a]]
        BY <1>0, <1>7, <2>2, <2>4 DEF Drain, TypeOK
      <3>2. S(w)' = a /\ Holds(w)'
        BY <1>l, <2>4, <3>1 DEF S, Holds
      <3>3. \A s \in Slots : w \in InDrain(s)' <=> s = a
        BY <3>1, <3>2, Member DEF DrainPlaces
      <3>4. InDrain(a)' = InDrain(a) \union {w}
        BY <1>o, <3>3
      <3>5. SameElsewhere(a)
        <4>1. ASSUME NEW s \in Slots \ {a} PROVE InDrain(s)' = InDrain(s)
          BY <1>o, <2>3, <3>3
        <4>2. QED
          BY <4>1 DEF SameElsewhere
      <3>6. Fetched(a, w)
        BY <1>l, <2>1, <2>2, <2>4, <3>4, <3>5 DEF Fetched
      <3>7. QED
        BY <3>6
    <2>5. CASE ~(present[a] /\ is_valid[a])
      <3>1. UNCHANGED pc
        BY <1>7, <2>2, <2>5 DEF Drain
      <3>2. \A s \in Slots : w \notin InDrain(s)'
        BY <2>1, <3>1, Member DEF DrainPlaces
      <3>3. ASSUME NEW s \in Slots PROVE InDrain(s)' = InDrain(s)
        BY <1>o, <2>3, <3>2
      <3>4. SameElsewhere(a) /\ InDrain(a)' = InDrain(a)
        BY <3>3 DEF SameElsewhere
      <3>5. Fetched(a, w)
        BY <1>l, <2>1, <2>2, <2>5, <3>4 DEF Fetched
      <3>6. QED
        BY <3>5
    <2>6. QED
      BY <2>4, <2>5
  <1>8. CASE HandleMsg(w, "handle", "loop", "fail") /\ pc'[w] = "idle"
    <2>1. PICK a \in Slots : a = S(w)
      BY <1>0, Slot
    <2>2. pc[w] = "handle" /\ Holds(w) /\ UNCHANGED <<tasks, draining, ref>>
      BY <1>8 DEF HandleMsg, poolVars
    <2>3. lost' = [lost EXCEPT ![a] = lost[a] \union {"drain"}]
      BY <1>0, <1>8, <2>1 DEF HandleMsg, Lose, TypeOK
    <2>4. "drain" \in lost'[a]
      BY <1>0, <2>3 DEF TypeOK
    <2>5. \A s \in Slots : (w \in InDrain(s) <=> s = a) /\ w \notin InDrain(s)'
      BY <1>8, <2>1, <2>2, Member DEF DrainPlaces
    <2>6. InDrain(a)' = InDrain(a) \ {w}
      BY <1>o, <2>5
    <2>7. SameElsewhere(a)
      <3>1. ASSUME NEW s \in Slots \ {a} PROVE InDrain(s)' = InDrain(s)
        BY <1>o, <2>5
      <3>2. QED
        BY <3>1 DEF SameElsewhere
    <2>8. Dropped(a, w)
      BY <1>l, <2>2, <2>4, <2>5, <2>6, <2>7 DEF Dropped
    <2>9. QED
      BY <2>8
  <1>9. QED
    BY <1>2, <1>3, <1>4, <1>5, <1>6, <1>7, <1>8 DEF WorkerStep

LEMMA Shift ==
    ASSUME IInv, Next
    PROVE  \/ Steady
           \/ \E a \in Slots, t \in Workers \union Clients :
                \/ Taken(a, t) \/ Handed(a, t) \/ Fetched(a, t)
                \/ Cleared(a, t) \/ Dropped(a, t)
           \/ \E a \in Slots : Renewed(a) /\ ~present[a] /\ InDrain(a) = {}
  <1> USE Kinds DEF Threads
  <1>0. TypeOK /\ Places
    BY DEF IInv
  <1>1. ASSUME CleanerStep \/ Spawn \/ Release \/ OwnerStep \/ Quiet
        PROVE  \A u \in Workers \union Clients : pc'[u] = pc[u] /\ ref'[u] = ref[u] /\ S(u)' = S(u)
    BY <1>0, <1>1, Elsewhere DEF Quiet, vars, S
  <1>2. CASE Aside \/ Quiet
    <2>1. UNCHANGED <<present, life, tasks, draining>>
      BY <1>2, AsideKeeps DEF Aside, TakeFailed, Release, StopPool, StopCleaner, JoinCleaner,
         JoinPool, Erase, StopActor, Spin, Link, Terminate, Quiet, vars, slotVars, actorVars,
         poolVars
    <2>2. \A u \in Workers \union Clients :
             pc'[u] = pc[u] /\ S(u)' = S(u) /\ (Holds(u)' <=> Holds(u))
      BY <1>1, <1>2, <2>1 DEF Aside, CleanerStep, OwnerStep, UnregisterStep, Holds, S
    <2>3. \A s \in Slots : InDrain(s)' = InDrain(s)
      BY <2>2, Member
    <2>4. Steady
      BY <2>1, <2>3 DEF Steady
    <2>5. QED
      BY <2>4
  <1>3. ASSUME NEW t \in {Cleaner, Owner}, Reset(t) PROVE Steady
    <2>1. PICK a \in Slots : a = S(t)
      BY <1>0, Slot
    <2>2. /\ UNCHANGED <<life, draining, tasks>> /\ ~present'[a]
          /\ \A s \in Slots : s # a => present'[s] = present[s]
      BY <1>3, <2>1, Destroying
    <2>3. \A u \in Workers \union Clients :
             /\ pc'[u] = pc[u] /\ S(u)' = S(u) /\ S(u) \in Slots
             /\ Holds(u)' <=> S(u) # a /\ Holds(u)
      BY <1>0, <1>1, <1>3, <2>2, Slot DEF CleanerStep, OwnerStep, UnregisterStep, Holds, S
    <2>4. ASSUME NEW s \in Slots, s # a PROVE InDrain(s)' = InDrain(s)
      <3>1. \A u \in Workers \union Clients : u \in InDrain(s)' <=> u \in InDrain(s)
        BY <2>3, <2>4, Member
      <3>2. QED
        BY <3>1, Member
    <2>5. InDrain(a)' = {}
      BY <2>3, Member
    <2>6. QED
      BY <2>2, <2>4, <2>5 DEF Steady
  <1>4. CASE Spawn \/ Respawn
    <2>1. UNCHANGED tasks
      BY <1>4, Installing
    <2>2. CASE UNCHANGED <<present, life, draining>>
      <3>1. \A u \in Workers \union Clients :
               pc'[u] = pc[u] /\ S(u)' = S(u) /\ (Holds(u)' <=> Holds(u))
        BY <1>1, <1>4, <2>2 DEF CleanerStep, Holds, S
      <3>2. \A s \in Slots : InDrain(s)' = InDrain(s)
        BY <3>1, Member
      <3>3. Steady
        BY <2>1, <2>2, <3>2 DEF Steady
      <3>4. QED
        BY <3>3
    <2>3. ASSUME NEW a \in Slots, Install(a), ~present[a]
          PROVE  Renewed(a) /\ InDrain(a) = {}
      <3>1. /\ life'[a] = life[a] + 1 /\ ~draining'[a]
            /\ \A s \in Slots : s # a => /\ present'[s] = present[s] /\ life'[s] = life[s]
                                         /\ draining'[s] = draining[s]
            /\ \A u \in Threads : S(u) = a => ref[u].life # life'[a]
        BY <2>3, Installed
      <3>2. \A u \in Workers \union Clients :
               /\ pc'[u] = pc[u] /\ S(u)' = S(u) /\ S(u) \in Slots
               /\ Holds(u)' <=> S(u) # a /\ Holds(u)
               /\ Holds(u) => S(u) # a
        BY <1>0, <1>1, <1>4, <2>1, <2>3, <3>1, Slot DEF CleanerStep, Holds, S
      <3>3. \A s \in Slots : InDrain(s)' = IF s = a THEN {} ELSE InDrain(s)
        BY <3>2, Member
      <3>4. InDrain(a) = {}
        BY <3>2, Member
      <3>5. QED
        BY <2>1, <3>1, <3>3, <3>4 DEF Renewed, SameElsewhere
    <2>4. QED
      BY <1>4, <2>2, <2>3, Installing
  <1>5. QED
    BY <1>2, <1>3, <1>4, ClientShifts, WorkerShifts
       DEF Next, CleanerStep, OwnerStep, UnregisterStep, Aside

\* Threads can be counted.
LEMMA Hands ==
    ASSUME NEW D \in SUBSET (Workers \union Clients)
    PROVE  /\ IsFiniteSet(D) /\ Cardinality(D) \in Nat
           /\ D = {} <=> Cardinality(D) = 0
           /\ \A x : Cardinality(D \union {x}) \in Nat /\ Cardinality(D \union {x}) <= Cardinality(D) + 1
           /\ \A x \in D : Cardinality(D \ {x}) = Cardinality(D) - 1
           /\ \A E \in SUBSET D : Cardinality(E) \in Nat /\ Cardinality(E) <= Cardinality(D)
  <1>1. IsFiniteSet(Workers \union Clients)
    BY ActorAssumption, FS_Union
  <1>2. IsFiniteSet(D)
    BY <1>1, FS_Subset
  <1>3. Cardinality(D) \in Nat /\ (D = {} <=> Cardinality(D) = 0)
    BY <1>2, FS_CardinalityType, FS_EmptySet
  <1>4. ASSUME NEW x
        PROVE  Cardinality(D \union {x}) \in Nat /\ Cardinality(D \union {x}) <= Cardinality(D) + 1
    <2>1. Cardinality(D \union {x}) = IF x \in D THEN Cardinality(D) ELSE Cardinality(D) + 1
      BY <1>2, FS_AddElement
    <2>2. QED
      BY <1>3, <2>1
  <1>5. ASSUME NEW x \in D PROVE Cardinality(D \ {x}) = Cardinality(D) - 1
    BY <1>2, FS_RemoveElement
  <1>6. ASSUME NEW E \in SUBSET D
        PROVE  Cardinality(E) \in Nat /\ Cardinality(E) <= Cardinality(D)
    BY <1>2, FS_Subset, FS_CardinalityType
  <1>7. QED
    BY <1>2, <1>3, <1>4, <1>5, <1>6

\* Requests are counted as positions of tasks, before and after a step.
LEMMA Waiting ==
    ASSUME TypeOK, TypeOK', NEW s \in Slots
    PROVE  /\ Cardinality(Requests(s)) \in Nat /\ Cardinality(Requests(s))' \in Nat
           /\ Requests(s) = {} <=> Cardinality(Requests(s)) = 0
           /\ Requests(s)' = {} <=> Cardinality(Requests(s))' = 0
           /\ UNCHANGED tasks => Cardinality(Requests(s))' = Cardinality(Requests(s))
           /\ tasks # <<>> /\ tasks' = Tail(tasks) =>
                 Cardinality(Requests(s))' =
                    Cardinality(Requests(s)) - (IF Head(tasks) = s THEN 1 ELSE 0)
           /\ \A a \in Slots : tasks' = Append(tasks, a) =>
                 Cardinality(Requests(s))' =
                    Cardinality(Requests(s)) + (IF a = s THEN 1 ELSE 0)
  <1>1. Requests(s) = At(tasks, s) /\ Requests(s)' = At(tasks', s)
    BY DEF Requests, At
  <1>2. tasks \in Seq(Slots) /\ tasks' \in Seq(Slots)
    BY DEF TypeOK
  <1>3. /\ IsFiniteSet(At(tasks, s)) /\ Cardinality(At(tasks, s)) \in Nat
        /\ IsFiniteSet(At(tasks', s)) /\ Cardinality(At(tasks', s)) \in Nat
    BY <1>2, Countable
  <1>4. /\ At(tasks, s) = {} <=> Cardinality(At(tasks, s)) = 0
        /\ At(tasks', s) = {} <=> Cardinality(At(tasks', s)) = 0
    BY <1>3, FS_EmptySet
  <1>5. ASSUME tasks # <<>>, tasks' = Tail(tasks)
        PROVE  Cardinality(At(tasks', s)) =
                  Cardinality(At(tasks, s)) - (IF Head(tasks) = s THEN 1 ELSE 0)
    BY <1>2, <1>5, CountLess
  <1>6. ASSUME NEW a \in Slots, tasks' = Append(tasks, a)
        PROVE  Cardinality(At(tasks', s)) =
                  Cardinality(At(tasks, s)) + (IF a = s THEN 1 ELSE 0)
    BY <1>2, <1>6, CountMore
  <1>7. QED
    BY <1>1, <1>3, <1>4, <1>5, <1>6

LEMMA BoundedStep ==
    ASSUME IInv, Next PROVE Bounded'
  <1>0. TypeOK /\ Places /\ Carried /\ Bounded
    BY DEF IInv
  <1>t. TypeOK'
    BY <1>0, TypeStep
  <1>s. SUFFICES ASSUME NEW s \in Slots PROVE Rights(s)' <= Limit(s)'
    BY DEF Bounded
  <1>1. InDrain(s) \in SUBSET (Workers \union Clients)
        /\ InDrain(s)' \in SUBSET (Workers \union Clients)
    BY Member
  <1>2. PICK d \in Nat, D \in Nat : d = Cardinality(InDrain(s)) /\ D = Cardinality(InDrain(s)')
    BY <1>1, Hands
  <1>3. PICK r \in Nat, R \in Nat : r = Cardinality(Requests(s)) /\ R = Cardinality(Requests(s))'
    BY <1>0, <1>t, Waiting
  <1>l. life[s] \in Nat /\ life'[s] \in Nat
    BY <1>0, <1>t DEF TypeOK
  <1>4. PICK l \in Int, L \in Int : l = Limit(s) /\ L = Limit(s)'
    BY <1>l DEF Limit
  <1>5. d + r <= l
    BY <1>0, <1>2, <1>3, <1>4 DEF Bounded, Rights
  <1>6. SUFFICES D + R <= L
    BY <1>2, <1>3, <1>4 DEF Rights
  <1>e. life'[s] = life[s] /\ draining'[s] = draining[s] => L = l
    BY <1>4 DEF Limit
  <1>7. CASE Steady
    <2>1. UNCHANGED <<tasks, life, draining>> /\ InDrain(s)' \in SUBSET InDrain(s)
      BY <1>7 DEF Steady
    <2>2. D <= d
      BY <1>1, <2>1, Hands, <1>2
    <2>3. R = r
      BY <1>0, <1>t, <2>1, Waiting, <1>3
    <2>4. L = l
      BY <1>e, <2>1
    <2>5. QED
      BY <1>5, <2>2, <2>3, <2>4
  <1>8. ASSUME NEW a \in Slots, NEW t \in Workers \union Clients, Taken(a, t)
        PROVE  D + R <= L
    <2>1. UNCHANGED <<tasks, life>>
      BY <1>8 DEF Taken
    <2>2. R = r
      BY <1>0, <1>t, <2>1, Waiting, <1>3
    <2>3. CASE s = a
      <3>1. /\ ~draining[s] /\ draining'[s] /\ life[s] > 0
            /\ InDrain(s)' = InDrain(s) \union {t}
        BY <1>0, <1>8, <2>3 DEF Taken, TypeOK
      <3>2. D <= d + 1
        BY <1>1, <3>1, Hands, <1>2
      <3>3. QED
        BY <1>l, <1>4, <1>5, <2>1, <2>2, <3>1, <3>2 DEF Limit
    <2>4. CASE s # a
      <3>1. draining'[s] = draining[s] /\ InDrain(s)' = InDrain(s)
        BY <1>0, <1>8, <2>4 DEF Taken, SameElsewhere, TypeOK
      <3>2. D = d
        BY <3>1, <1>2
      <3>3. L = l
        BY <1>e, <2>1, <3>1
      <3>4. QED
        BY <1>5, <2>2, <3>2, <3>3
    <2>5. QED
      BY <2>3, <2>4
  <1>9. ASSUME NEW a \in Slots, NEW t \in Workers \union Clients, Cleared(a, t)
        PROVE  D + R <= L
    <2>1. UNCHANGED <<tasks, life>>
      BY <1>9 DEF Cleared
    <2>2. R = r
      BY <1>0, <1>t, <2>1, Waiting, <1>3
    <2>3. CASE s = a
      <3>1. ~draining'[s] /\ t \in InDrain(s) /\ InDrain(s)' = InDrain(s) \ {t}
        BY <1>0, <1>9, <2>3 DEF Cleared, TypeOK
      <3>2. D = d - 1
        BY <1>1, <3>1, Hands, <1>2
      <3>3. QED
        BY <1>l, <1>4, <1>5, <2>1, <2>2, <3>1, <3>2 DEF Limit
    <2>4. CASE s # a
      <3>1. draining'[s] = draining[s] /\ InDrain(s)' = InDrain(s)
        BY <1>0, <1>9, <2>4 DEF Cleared, SameElsewhere, TypeOK
      <3>2. D = d
        BY <3>1, <1>2
      <3>3. L = l
        BY <1>e, <2>1, <3>1
      <3>4. QED
        BY <1>5, <2>2, <3>2, <3>3
    <2>5. QED
      BY <2>3, <2>4
  <1>10. ASSUME NEW a \in Slots, NEW t \in Workers \union Clients, Fetched(a, t)
         PROVE  D + R <= L
    <2>1. tasks # <<>> /\ a = Head(tasks) /\ tasks' = Tail(tasks) /\ UNCHANGED <<life, draining>>
      BY <1>10 DEF Fetched
    <2>2. R = r - (IF a = s THEN 1 ELSE 0)
      BY <1>0, <1>t, <2>1, Waiting, <1>3
    <2>3. CASE s = a
      <3>1. InDrain(s)' = InDrain(s) \/ InDrain(s)' = InDrain(s) \union {t}
        BY <1>10, <2>3 DEF Fetched
      <3>2. D <= d + 1
        BY <1>2, <1>1, <3>1, Hands, <1>2
      <3>3. L = l
        BY <1>e, <2>1
      <3>4. QED
        BY <1>5, <2>2, <2>3, <3>2, <3>3
    <2>4. CASE s # a
      <3>1. InDrain(s)' = InDrain(s)
        BY <1>10, <2>4 DEF Fetched, SameElsewhere
      <3>2. D = d
        BY <3>1, <1>2
      <3>3. L = l
        BY <1>e, <2>1
      <3>4. QED
        BY <1>5, <2>2, <2>4, <3>2, <3>3
    <2>5. QED
      BY <2>3, <2>4
  <1>11. ASSUME NEW a \in Slots, NEW t \in Workers \union Clients, Handed(a, t)
         PROVE  D + R <= L
    <2>1. UNCHANGED <<life, draining>> /\ (tasks' = tasks \/ tasks' = Append(tasks, a))
      BY <1>11, Asked DEF Handed
    <2>2. R = r \/ R = r + (IF a = s THEN 1 ELSE 0)
      BY <1>0, <1>t, <2>1, Waiting, <1>3
    <2>3. CASE s = a
      <3>1. t \in InDrain(s) /\ InDrain(s)' = InDrain(s) \ {t}
        BY <1>11, <2>3 DEF Handed
      <3>2. D = d - 1
        BY <1>1, <3>1, Hands, <1>2
      <3>3. L = l
        BY <1>e, <2>1
      <3>4. QED
        BY <1>5, <2>2, <2>3, <3>2, <3>3
    <2>4. CASE s # a
      <3>1. InDrain(s)' = InDrain(s)
        BY <1>11, <2>4 DEF Handed, SameElsewhere
      <3>2. D = d
        BY <3>1, <1>2
      <3>3. L = l
        BY <1>e, <2>1
      <3>4. QED
        BY <1>5, <2>2, <2>4, <3>2, <3>3
    <2>5. QED
      BY <2>3, <2>4
  <1>12. ASSUME NEW a \in Slots, NEW t \in Workers \union Clients, Dropped(a, t)
         PROVE  D + R <= L
    <2>1. UNCHANGED <<tasks, life, draining>>
      BY <1>12 DEF Dropped
    <2>2. R = r
      BY <1>0, <1>t, <2>1, Waiting, <1>3
    <2>3. CASE s = a
      <3>1. t \in InDrain(s) /\ InDrain(s)' = InDrain(s) \ {t}
        BY <1>12, <2>3 DEF Dropped
      <3>2. D <= d
        BY <1>2, <1>1, <3>1, Hands
      <3>3. QED
        BY <1>5, <1>e, <2>1, <2>2, <3>2
    <2>4. CASE s # a
      <3>1. InDrain(s)' = InDrain(s)
        BY <1>12, <2>4 DEF Dropped, SameElsewhere
      <3>2. QED
        BY <1>2, <1>5, <1>e, <2>1, <2>2, <3>1
    <2>5. QED
      BY <2>3, <2>4
  <1>13. ASSUME NEW a \in Slots, Renewed(a) PROVE D + R <= L
    <2>1. UNCHANGED tasks
      BY <1>13 DEF Renewed
    <2>2. R = r
      BY <1>0, <1>t, <2>1, Waiting, <1>3
    <2>3. CASE s = a
      <3>1. InDrain(s)' = {} /\ ~draining'[s] /\ life'[s] = life[s] + 1
        BY <1>13, <2>3 DEF Renewed
      <3>2. D = 0
        BY <3>1, FS_EmptySet, <1>2
      <3>3. QED
        BY <1>l, <1>4, <1>5, <2>2, <3>1, <3>2 DEF Limit
    <2>4. CASE s # a
      <3>1. /\ InDrain(s)' = InDrain(s)
            /\ life'[s] = life[s] /\ draining'[s] = draining[s]
        BY <1>13, <2>4 DEF Renewed, SameElsewhere
      <3>2. D = d
        BY <3>1, <1>2
      <3>3. L = l
        BY <1>e, <3>1
      <3>4. QED
        BY <1>5, <2>2, <3>2, <3>3
    <2>5. QED
      BY <2>3, <2>4
  <1>14. QED
    BY <1>7, <1>8, <1>9, <1>10, <1>11, <1>12, <1>13, Shift

-----------------------------------------------------------------------------
(* Nobody is forgotten                                                     *)

\* An actor that lives and is the same one as before lived before.
LEMMA Lived ==
    ASSUME IInv, Next, NEW s \in Slots, life'[s] = life[s]
    PROVE  /\ alive'[s] => alive[s]
           /\ present'[s] => present[s]
  <1>0. TypeOK
    BY DEF IInv
  <1>1. CASE Spawn \/ Respawn
    <2>1. ASSUME NEW a \in Slots, Install(a), ~present[a]
          PROVE  s # a /\ alive'[s] = alive[s] /\ present'[s] = present[s]
      BY <2>1, Installed
    <2>2. QED
      BY <1>1, <2>1, Installing
  <1>2. CASE ~Spawn /\ ~Respawn
    BY <1>0, <1>2, Fading
  <1>3. QED
    BY <1>1, <1>2

\* A system that is released stays so.
LEMMA Unreleased ==
    ASSUME Next, ~released' PROVE ~released
  BY DEF Next, Quiet, vars, Stray, Send, ClientStep, AddToMailbox, Reserve, Publish, Kick,
     Notify, WorkerStep, Drain, Loop, PopNext, HandleMsg, NotifyFailure, Clear, Recheck, Repop,
     Recas, Renotify, CleanerStep, TakeFailed, Respawn, Spawn, Release, OwnerStep, StopPool,
     StopCleaner, JoinCleaner, JoinPool, UnregisterStep, Erase, StopActor, Spin, Reset,
     Link, Terminate

\* While no actor was replaced too often, a drain that is asked for is noted, or the
\* actor does not know its system.
LEMMA Noted ==
    ASSUME IInv, FewReplaced, ~released, NEW a \in Slots, NEW t \in InDrain(a),
           NotifyMailboxActive(a)
    PROVE  tasks' = Append(tasks, a) \/ (UNCHANGED tasks /\ "drain" \in lost'[a])
  <1>0. TypeOK /\ Ending /\ Bounded
    BY DEF IInv
  <1>1. ASSUME NEW s \in Slots
        PROVE  Cardinality(InDrain(s)) + Cardinality(Requests(s)) <= 4
    <2>1. /\ life[s] \in Nat /\ life[s] <= 4
          /\ Cardinality(InDrain(s)) \in Nat /\ Cardinality(Requests(s)) \in Nat
      BY <1>0, Counted DEF FewReplaced, TypeOK
    <2>2. Cardinality(InDrain(s)) + Cardinality(Requests(s)) <= Limit(s)
      BY <1>0 DEF Bounded, Rights
    <2>3. Limit(s) \in Int /\ Limit(s) <= 4
      BY <2>1 DEF Limit
    <2>4. QED
      BY <2>1, <2>2, <2>3
  <1>2. \A s \in Slots : Requests(s) = At(tasks, s)
    BY DEF Requests, At
  <1>3. \A s \in Slots : Cardinality(At(tasks, s)) <= 4
    BY <1>0, <1>1, <1>2, Counted
  <1>4. Cardinality(At(tasks, a)) <= 3
    <2>1. /\ Cardinality(InDrain(a)) \in Nat /\ Cardinality(InDrain(a)) # 0
          /\ Cardinality(Requests(a)) \in Nat
      BY <1>0, Counted
    <2>2. QED
      BY <1>1, <1>2, <2>1
  <1>5. Len(tasks) < PoolCapacity
    BY <1>0, <1>3, <1>4, RoomForFour DEF TypeOK
  <1>6. Len(tasks) \in Nat /\ ~(Len(tasks) >= PoolCapacity)
    BY <1>0, <1>5, Sizes DEF TypeOK
  <1>7. ~stopped
    BY <1>0 DEF Ending
  <1>8. CASE ~linked[a]
    BY <1>0, <1>8 DEF NotifyMailboxActive, Lose, Set, TypeOK
  <1>9. QED
    BY <1>6, <1>7, <1>8 DEF NotifyMailboxActive

\* Somebody drains the slot or has asked for it.
Served(s) == InDrain(s) # {} \/ Requests(s) # {}

\* A slot stays served, but for the worker that gives up the right to drain and the
\* thread that loses it.
LEMMA StaysServed ==
    ASSUME IInv, Next, FewReplaced, ~released, NEW s \in Slots, Served(s),
           present'[s], alive[s], life'[s] = life[s]
    PROVE  \/ Served(s)' \/ "drain" \in lost'[s]
           \/ \E w \in Workers \union Clients : Cleared(s, w)
  <1>0. TypeOK /\ Places /\ Carried /\ Lives
    BY DEF IInv
  <1>t. TypeOK'
    BY <1>0, TypeStep
  <1>1. CASE Steady
    <2>1. InDrain(s)' = InDrain(s) /\ UNCHANGED tasks
      BY <1>1 DEF Steady
    <2>2. QED
      BY <2>1 DEF Served, Requests
  <1>2. ASSUME NEW a \in Slots, NEW t \in Workers \union Clients, Taken(a, t)
        PROVE  Served(s)'
    <2>1. UNCHANGED tasks /\ InDrain(s) \subseteq InDrain(s)'
      BY <1>2 DEF Taken, SameElsewhere
    <2>2. QED
      BY <2>1 DEF Served, Requests
  <1>3. ASSUME NEW a \in Slots, NEW t \in Workers \union Clients, Cleared(a, t), s # a
        PROVE  Served(s)'
    <2>1. UNCHANGED tasks /\ InDrain(s)' = InDrain(s)
      BY <1>3 DEF Cleared, SameElsewhere
    <2>2. QED
      BY <2>1 DEF Served, Requests
  <1>4. ASSUME NEW a \in Slots, NEW t \in Workers \union Clients, Fetched(a, t)
        PROVE  Served(s)'
    <2>1. tasks # <<>> /\ a = Head(tasks) /\ tasks' = Tail(tasks) /\ UNCHANGED present
      BY <1>4 DEF Fetched
    <2>2. CASE s = a
      <3>1. is_valid[s]
        BY <1>0, <2>1 DEF Lives
      <3>2. t \in InDrain(s)'
        BY <1>4, <2>1, <2>2, <3>1 DEF Fetched
      <3>3. QED
        BY <3>2 DEF Served
    <2>3. CASE s # a
      <3>1. InDrain(s)' = InDrain(s)
        BY <1>4, <2>3 DEF Fetched, SameElsewhere
      <3>2. Cardinality(Requests(s))' = Cardinality(Requests(s)) - 0
        BY <1>0, <1>t, <2>1, <2>3, Waiting
      <3>3. Requests(s) # {} => Requests(s)' # {}
        BY <1>0, <1>t, <3>2, Waiting
      <3>4. QED
        BY <3>1, <3>3 DEF Served
    <2>4. QED
      BY <2>2, <2>3
  <1>5. ASSUME NEW a \in Slots, NEW t \in Workers \union Clients, Handed(a, t)
        PROVE  Served(s)' \/ "drain" \in lost'[s]
    <2>1. tasks' = Append(tasks, a) \/ (UNCHANGED tasks /\ "drain" \in lost'[a])
      BY <1>5, Noted DEF Handed
    <2>2. \/ Cardinality(Requests(s))' = Cardinality(Requests(s)) + (IF a = s THEN 1 ELSE 0)
          \/ /\ Cardinality(Requests(s))' = Cardinality(Requests(s))
             /\ "drain" \in lost'[a]
      BY <1>0, <1>t, <2>1, Waiting
    <2>3. Cardinality(Requests(s)) \in Nat
      BY <1>0, <1>t, Waiting
    <2>4. CASE s = a
      <3>1. Cardinality(Requests(s))' # 0 \/ "drain" \in lost'[s]
        BY <2>2, <2>3, <2>4
      <3>2. QED
        BY <1>0, <1>t, <3>1, Waiting DEF Served
    <2>5. CASE s # a
      <3>1. InDrain(s)' = InDrain(s)
        BY <1>5, <2>5 DEF Handed, SameElsewhere
      <3>2. Cardinality(Requests(s))' = Cardinality(Requests(s))
        BY <2>2, <2>3, <2>5
      <3>3. Requests(s) # {} => Requests(s)' # {}
        BY <1>0, <1>t, <3>2, Waiting
      <3>4. QED
        BY <3>1, <3>3 DEF Served
    <2>6. QED
      BY <2>4, <2>5
  <1>6. ASSUME NEW a \in Slots, NEW t \in Workers \union Clients, Dropped(a, t)
        PROVE  Served(s)' \/ "drain" \in lost'[s]
    BY <1>6 DEF Dropped, SameElsewhere, Served, Requests
  <1>7. ASSUME NEW a \in Slots, Renewed(a) PROVE Served(s)'
    <2>1. UNCHANGED tasks /\ life'[a] = life[a] + 1
      BY <1>7 DEF Renewed
    <2>2. s # a
      <3>1. life[s] \in Nat
        BY <1>0 DEF TypeOK
      <3>2. QED
        BY <2>1, <3>1
    <2>3. InDrain(s)' = InDrain(s)
      BY <1>7, <2>2 DEF Renewed, SameElsewhere
    <2>4. QED
      BY <2>1, <2>3 DEF Served, Requests
  <1>8. QED
    BY <1>1, <1>2, <1>3, <1>4, <1>5, <1>6, <1>7, Shift

\* is_draining_ is set by whoever drains, and reset by Clear alone.
LEMMA DrainingSet ==
    ASSUME IInv, Next, NEW s \in Slots, draining'[s], life'[s] = life[s]
    PROVE  /\ draining[s] \/ Served(s)'
           /\ ~\E w \in Workers \union Clients : Cleared(s, w)
  <1>0. TypeOK
    BY DEF IInv
  <1>1. ASSUME Steady PROVE draining[s]
    BY <1>1 DEF Steady
  <1>2. ASSUME NEW a \in Slots, NEW t \in Workers \union Clients, Taken(a, t)
        PROVE  draining[s] \/ Served(s)'
    <2>1. CASE s = a
      BY <1>2, <2>1 DEF Taken, Served
    <2>2. CASE s # a
      BY <1>0, <1>2, <2>2 DEF Taken, TypeOK
    <2>3. QED
      BY <2>1, <2>2
  <1>3. ASSUME NEW a \in Slots, NEW t \in Workers \union Clients,
               Cleared(a, t) \/ Fetched(a, t) \/ Handed(a, t) \/ Dropped(a, t)
        PROVE  draining[s]
    BY <1>0, <1>3 DEF Cleared, Fetched, Handed, Dropped, TypeOK
  <1>4. ASSUME NEW a \in Slots, Renewed(a) PROVE draining[s]
    <2>1. ~draining'[a] /\ \A r \in Slots \ {a} : draining'[r] = draining[r]
      BY <1>4 DEF Renewed
    <2>2. QED
      BY <2>1
  <1>5. \A w \in Workers \union Clients : ~Cleared(s, w)
    BY <1>0 DEF Cleared, TypeOK
  <1>6. QED
    BY <1>1, <1>2, <1>3, <1>4, <1>5, Shift

LEMMA StillFew ==
    ASSUME TypeOK, Next, FewReplaced' PROVE FewReplaced
  <1>1. Upwards
    BY Grows
  <1>2. ASSUME NEW s \in Slots PROVE life[s] <= 4
    <2>1. life[s] \in Nat /\ life'[s] \in Nat /\ life'[s] >= life[s] /\ life'[s] <= 4
      BY <1>1 DEF Upwards, TypeOK, FewReplaced
    <2>2. QED
      BY <2>1
  <1>3. QED
    BY <1>2 DEF FewReplaced

\* What was lost is found by whoever wins is_draining_ next.
LEMMA Found ==
    ASSUME IInv, Next, NEW s \in Slots, life'[s] = life[s],
           "drain" \in lost[s], "drain" \notin lost'[s]
    PROVE  Served(s)'
  <1> USE Kinds DEF Threads, Goto, Set
  <1>0. TypeOK /\ Places
    BY DEF IInv
  <1>1. ASSUME NEW t \in Workers \union Clients, NEW beaten,
               \/ t \in Clients /\ TryDrain(t, "notify", beaten)
               \/ t \in Workers /\ TryDrain(t, "renotify", beaten),
               UNCHANGED <<present, life, ref>>, Holds(t)
        PROVE  Served(s)'
    <2>1. ~draining[S(t)] /\ lost' = [lost EXCEPT ![S(t)] = lost[S(t)] \ {"drain"}]
      BY <1>1 DEF TryDrain
    <2>2. S(t) = s
      BY <1>0, <2>1 DEF TypeOK
    <2>3. pc'[t] = IF t \in Clients THEN "notify" ELSE "renotify"
      BY <1>0, <1>1, <2>1 DEF TryDrain, TypeOK
    <2>4. S(t)' = s /\ Holds(t)'
      BY <1>1, <2>2 DEF S, Holds
    <2>5. CASE t \in Clients
      <3>1. t \in InDrain(s)'
        BY <2>3, <2>4, <2>5, Member
      <3>2. QED
        BY <3>1 DEF Served
    <2>6. CASE t \in Workers
      <3>1. t \in InDrain(s)'
        BY <2>3, <2>4, <2>6, Member DEF DrainPlaces
      <3>2. QED
        BY <3>1 DEF Served
    <2>7. QED
      BY <2>5, <2>6
  <1>2. ASSUME NEW c \in Clients, Kick(c) PROVE Served(s)'
    BY <1>1, <1>2 DEF Kick, slotVars
  <1>3. ASSUME NEW w \in Workers, Recas(w) PROVE Served(s)'
    BY <1>1, <1>3 DEF Recas, slotVars
  <1>4. ASSUME NEW a, NEW what, Lose(a, what) PROVE FALSE
    BY <1>0, <1>4 DEF Lose, TypeOK
  <1>5. CASE \E c \in Clients :
               Send(c) \/ AddToMailbox(c) \/ Reserve(c) \/ Publish(c) \/ Notify(c)
    BY <1>4, <1>5 DEF Send, AddToMailbox, Reserve, Publish, Notify, NotifyMailboxActive
  <1>6. ASSUME NEW w \in Workers, WorkerStep(w), ~Recas(w) PROVE FALSE
    BY <1>4, <1>6 DEF WorkerStep, Drain, Loop, PopNext, HandleMsg, NotifyFailure, Clear,
       Recheck, Repop, Renotify, NotifyMailboxActive
  <1>7. CASE Aside \/ (\E t \in {Cleaner, Owner} : Reset(t)) \/ Quiet
             \/ \E t \in Workers \union Clients : Stray(t)
    BY <1>7 DEF Aside, TakeFailed, Release, StopPool, StopCleaner, JoinCleaner, JoinPool,
       Link, Terminate, Erase, StopActor, Spin, Reset, Quiet, vars, Stray
  <1>8. ASSUME Spawn \/ Respawn PROVE FALSE
    <2>1. ASSUME NEW a \in Slots, Install(a), ~present[a] PROVE FALSE
      <3>1. life[a] \in Nat /\ life'[a] = life[a] + 1
            /\ \A r \in Slots : r # a => lost'[r] = lost[r]
        BY <2>1, Installed
      <3>2. s # a
        BY <3>1
      <3>3. QED
        BY <3>1, <3>2
    <2>2. QED
      BY <1>8, <2>1, Installing
  <1>9. QED
    BY <1>2, <1>3, <1>5, <1>6, <1>7, <1>8
       DEF Next, ClientStep, CleanerStep, OwnerStep, UnregisterStep, Aside

LEMMA OwnedStep ==
    ASSUME IInv, Next PROVE Owned'
  <1>0. TypeOK /\ Owned /\ Lives
    BY DEF IInv
  <1>1. SUFFICES ASSUME FewReplaced', NEW s \in Slots,
                        present'[s], alive'[s], draining'[s], ~released',
                        "drain" \notin lost'[s]
                 PROVE  Served(s)'
    <2>1. (\A s \in Slots : present'[s] /\ alive'[s] /\ draining'[s] /\ ~released'
                             /\ "drain" \notin lost'[s] => Served(s)') => Owned'
      BY DEF Owned, Served
    <2>2. ~FewReplaced' => Owned'
      BY DEF Owned
    <2>3. QED
      BY <2>1, <2>2
  <1>2. FewReplaced /\ ~released
    BY <1>0, <1>1, StillFew, Unreleased
  <1>3. life'[s] = life[s]
    <2>1. CASE Spawn \/ Respawn
      <3>1. ASSUME NEW a \in Slots, Install(a), ~present[a] PROVE life'[s] = life[s]
        BY <1>1, <3>1, Installed
      <3>2. QED
        BY <2>1, <3>1, Installing
    <2>2. CASE ~Spawn /\ ~Respawn
      BY <1>0, <2>2, Fading
    <2>3. QED
      BY <2>1, <2>2
  <1>4. present[s] /\ alive[s]
    BY <1>1, <1>3, Lived
  <1>5. CASE "drain" \in lost[s]
    BY <1>1, <1>3, <1>5, Found
  <1>6. CASE draining[s] /\ "drain" \notin lost[s]
    <2>1. Served(s)
      BY <1>0, <1>2, <1>4, <1>6 DEF Owned, Served
    <2>2. QED
      BY <1>1, <1>2, <1>3, <1>4, <2>1, StaysServed, DrainingSet
  <1>7. CASE ~draining[s]
    BY <1>1, <1>3, <1>7, DrainingSet
  <1>8. QED
    BY <1>5, <1>6, <1>7

\* The thread is still to look at the mailbox.
Looks(t, s) == pc[t] \in {"kick", "recheck", "repop", "recas"} /\ S(t) = s /\ Holds(t)

\* Whoever is still to look goes on, or drains.
LEMMA LooksOn ==
    ASSUME IInv, Next, NEW s \in Slots, present'[s], life'[s] = life[s],
           alive[s], ~draining[s], Poppable(s),
           NEW t \in Workers \union Clients, Looks(t, s)
    PROVE  Looks(t, s)' \/ Served(s)'
  <1> USE Kinds DEF Threads, Goto, Set
  <1>0. TypeOK /\ Places
    BY DEF IInv
  <1>1. pc[t] \in {"kick", "recheck", "repop", "recas"} /\ S(t) = s /\ Holds(t)
    BY DEF Looks
  <1>2. ASSUME ref'[t] = ref[t] PROVE S(t)' = s /\ Holds(t)'
    BY <1>1, <1>2 DEF S, Holds
  <1>3. ASSUME pc'[t] = pc[t], ref'[t] = ref[t] PROVE Looks(t, s)'
    BY <1>1, <1>2, <1>3 DEF Looks
  <1>4. ASSUME NEW c \in Clients, Send(c) \/ ClientStep(c) \/ Stray(c)
        PROVE  Looks(t, s)' \/ Served(s)'
    <2>1. CASE t # c
      BY <1>0, <1>3, <1>4, <2>1, ClientAlone
    <2>2. CASE t = c
      <3>1. pc[c] = "kick" /\ Holds(c)
        BY <1>0, <1>1, <2>2 DEF Places
      <3>2. Kick(c)
        BY <1>4, <3>1 DEF Send, ClientStep, AddToMailbox, Reserve, Publish, Notify, Stray
      <3>3. pc'[c] = "notify" /\ ref'[c] = ref[c]
        BY <1>0, <1>1, <2>2, <3>2 DEF Kick, TryDrain, TypeOK
      <3>4. c \in InDrain(s)'
        BY <1>2, <2>2, <3>3, Member
      <3>5. QED
        BY <3>4 DEF Served
    <2>3. QED
      BY <2>1, <2>2
  <1>5. ASSUME NEW w \in Workers, WorkerStep(w) \/ Stray(w)
        PROVE  Looks(t, s)' \/ Served(s)'
    <2>1. CASE t # w
      BY <1>0, <1>3, <1>5, <2>1, WorkerAlone
    <2>2. CASE t = w
      <3>1. pc[w] \in {"recheck", "repop", "recas"} /\ S(w) = s /\ Holds(w)
        BY <1>0, <1>1, <2>2 DEF Places
      <3>2. Recheck(w) \/ Repop(w) \/ Recas(w)
        BY <1>5, <3>1 DEF WorkerStep, Drain, Loop, PopNext, HandleMsg, NotifyFailure, Clear,
           Renotify, Stray
      <3>3. ref'[w] = ref[w]
        BY <3>2 DEF Recheck, Repop, Recas
      <3>4. CASE Recheck(w) \/ Repop(w)
        <4>1. pc'[w] \in {"repop", "recas"}
          BY <1>0, <3>1, <3>4 DEF Recheck, Repop, TypeOK
        <4>2. QED
          BY <1>2, <2>2, <3>3, <4>1 DEF Looks
      <3>5. CASE Recas(w)
        <4>1. pc'[w] = "renotify"
          BY <1>0, <3>1, <3>5 DEF Recas, TryDrain, TypeOK
        <4>2. w \in InDrain(s)'
          BY <1>2, <2>2, <3>3, <4>1, Member DEF DrainPlaces
        <4>3. QED
          BY <4>2 DEF Served
      <3>6. QED
        BY <3>2, <3>4, <3>5
    <2>3. QED
      BY <2>1, <2>2
  <1>6. CASE CleanerStep \/ Spawn \/ Release \/ OwnerStep
    BY <1>0, <1>3, <1>6, Elsewhere
  <1>7. CASE Quiet
    BY <1>3, <1>7 DEF Quiet, vars
  <1>8. QED
    BY <1>4, <1>5, <1>6, <1>7 DEF Next

\* A mailbox has a message to give once its client has published it, or a worker
\* has taken the one before.
LEMMA NewlyThere ==
    ASSUME IInv, Next, NEW s \in Slots, present'[s], life'[s] = life[s],
           ~Poppable(s), Poppable(s)'
    PROVE  Served(s)' \/ \E t \in Workers \union Clients : Looks(t, s)'
  <1> USE Kinds DEF Threads, Goto, Set
  <1>0. TypeOK /\ Places /\ Carried /\ Boxed
    BY DEF IInv
  <1>k. ASSUME mailbox'[s] = mailbox[s],
               \A m \in Msgs : fate'[m] = "queued" => fate[m] = "queued"
        PROVE  FALSE
    <2>1. mailbox[s] # <<>> /\ fate'[Head(mailbox[s])] = "queued"
      BY <1>k DEF Poppable
    <2>2. Head(mailbox[s]) \in Msgs
      BY <1>0, <2>1, Mailbox, Front
    <2>3. QED
      BY <1>k, <2>1, <2>2 DEF Poppable
  <1>u. ASSUME UNCHANGED <<mailbox, fate>> PROVE FALSE
    BY <1>u, <1>k
  <1>1. ASSUME NEW c \in Clients, Send(c) \/ AddToMailbox(c) PROVE FALSE
    <2>1. UNCHANGED mailbox
      BY <1>1 DEF Send, AddToMailbox, actorVars
    <2>2. ASSUME NEW m \in Msgs, fate'[m] = "queued" PROVE fate[m] = "queued"
      BY <1>0, <1>1, <2>2 DEF Send, AddToMailbox, TypeOK
    <2>3. QED
      BY <1>k, <2>1, <2>2
  <1>2. ASSUME NEW c \in Clients, Reserve(c) PROVE FALSE
    <2>1. PICK a \in Slots : a = S(c)
      BY <1>0, Slot
    <2>2. msg[c] \in Msgs
      BY <1>0, <1>2 DEF Reserve, Carried, ClientHand, TypeOK
    <2>3. /\ \A m \in Msgs : fate'[m] = "queued" => fate[m] = "queued" /\ m # msg[c]
          /\ \/ UNCHANGED mailbox
             \/ mailbox' = [mailbox EXCEPT ![a] = Append(mailbox[a], msg[c])]
      BY <1>0, <1>2, <2>1, <2>2 DEF Reserve, TypeOK
    <2>4. s = a /\ mailbox'[s] = Append(mailbox[s], msg[c])
      BY <1>0, <1>k, <2>3 DEF TypeOK
    <2>5. mailbox[s] \in Seq(Msgs)
      BY <1>0, Mailbox
    <2>6. /\ Head(mailbox'[s]) = IF mailbox[s] = <<>> THEN msg[c] ELSE Head(mailbox[s])
          /\ Head(mailbox'[s]) \in Msgs
      BY <2>2, <2>4, <2>5
    <2>7. fate'[Head(mailbox'[s])] = "queued"
      BY DEF Poppable
    <2>8. QED
      BY <2>3, <2>6, <2>7 DEF Poppable
  <1>3. ASSUME NEW c \in Clients, Publish(c) PROVE Looks(c, s)'
    <2>1. /\ pc[c] = "publish" /\ pc'[c] = "kick" /\ Holds(c) /\ UNCHANGED <<mailbox, ref>>
          /\ fate' = [fate EXCEPT ![msg[c]] = "queued"]
      BY <1>0, <1>3 DEF Publish, actorVars, TypeOK
    <2>2. Inbox(c) /\ msg[c] \in Msgs
      BY <1>0, <2>1 DEF Carried, ClientHand, TypeOK
    <2>3. mailbox[s] # <<>> /\ fate'[Head(mailbox[s])] = "queued"
      BY <2>1 DEF Poppable
    <2>4. Head(mailbox[s]) = mailbox[s][1] /\ 1 \in 1 .. Len(mailbox[s]) /\ Head(mailbox[s]) \in Msgs
      BY <1>0, <2>3, Mailbox, Front
    <2>5. Head(mailbox[s]) = msg[c]
      BY <1>0, <2>1, <2>2, <2>3, <2>4 DEF Poppable, TypeOK
    <2>6. PICK a \in Slots : a = S(c)
      BY <1>0, Slot
    <2>7. PICK i \in 1 .. Len(mailbox[a]) : mailbox[a][i] = msg[c]
      BY <2>2, <2>6 DEF Inbox
    <2>8. a = s
      BY <1>0, <2>4, <2>5, <2>7 DEF Boxed
    <2>9. S(c)' = s /\ Holds(c)'
      BY <2>1, <2>6, <2>8 DEF S, Holds
    <2>10. QED
      BY <2>1, <2>9 DEF Looks
  <1>4. ASSUME NEW w \in Workers, PopNext(w) \/ Repop(w)
        PROVE  Served(s)' \/ Looks(w, s)'
    <2>1. PICK a \in Slots : a = S(w)
      BY <1>0, Slot
    <2>2. Pop(w)
      BY <1>4, <1>u DEF PopNext, Repop
    <2>3. /\ mailbox' = [mailbox EXCEPT ![a] = Tail(mailbox[a])]
          /\ \A m \in Msgs : fate'[m] = "queued" => fate[m] = "queued"
      BY <1>0, <2>1, <2>2 DEF Pop, TypeOK
    <2>4. a = s
      BY <1>0, <1>k, <2>3 DEF TypeOK
    <2>5. UNCHANGED ref /\ S(w)' = s /\ Holds(w)'
      <3>1. UNCHANGED ref /\ Holds(w)
        BY <1>4 DEF PopNext, Repop
      <3>2. QED
        BY <2>1, <2>4, <3>1 DEF S, Holds
    <2>6. CASE PopNext(w)
      <3>1. Poppable(a)
        BY <2>1, <2>2 DEF Pop
      <3>2. pc'[w] = "handle"
        BY <1>0, <2>1, <2>6, <3>1 DEF PopNext, TypeOK
      <3>3. w \in InDrain(s)'
        BY <2>5, <3>2, Member DEF DrainPlaces
      <3>4. QED
        BY <3>3 DEF Served
    <2>7. CASE Repop(w)
      <3>1. Poppable(a)
        BY <2>1, <2>2 DEF Pop
      <3>2. pc'[w] = "recas"
        BY <1>0, <2>1, <2>7, <3>1 DEF Repop, TypeOK
      <3>3. QED
        BY <2>5, <3>2 DEF Looks
    <2>8. QED
      BY <1>4, <2>6, <2>7
  <1>5. ASSUME NEW w \in Workers,
               \/ HandleMsg(w, "handle", "loop", "fail")
               \/ HandleMsg(w, "late", "idle", "lateFail")
        PROVE  FALSE
    <2>1. UNCHANGED mailbox
      BY <1>5 DEF HandleMsg
    <2>2. ASSUME NEW m \in Msgs, fate'[m] = "queued" PROVE fate[m] = "queued"
      BY <1>0, <1>5, <2>2 DEF HandleMsg, TypeOK
    <2>3. QED
      BY <1>k, <2>1, <2>2
  <1>6. ASSUME \/ \E c \in Clients : Kick(c) \/ Notify(c)
               \/ \E w \in Workers :
                    \/ Drain(w) \/ Loop(w) \/ Clear(w) \/ Recheck(w) \/ Recas(w) \/ Renotify(w)
                    \/ NotifyFailure(w, "fail", "loop") \/ NotifyFailure(w, "lateFail", "idle")
               \/ Quiet \/ \E t \in Workers \union Clients : Stray(t)
        PROVE  FALSE
    BY <1>6, <1>u DEF Kick, Notify, Drain, Loop, Clear, Recheck, Recas, Renotify, NotifyFailure,
       Quiet, Stray, vars, actorVars
  <1>7. ASSUME Aside PROVE FALSE
    BY <1>7, <1>u, AsideKeeps
  <1>8. ASSUME Spawn \/ Respawn PROVE FALSE
    <2>1. UNCHANGED mailbox /\ UNCHANGED fate
      <3>1. ASSUME NEW a \in Slots, Install(a), ~present[a] PROVE UNCHANGED mailbox
        BY <3>1, Installed
      <3>2. QED
        BY <1>8, <3>1, Installing
    <2>2. QED
      BY <1>u, <2>1
  <1>9. ASSUME NEW t \in {Cleaner, Owner}, Reset(t) PROVE FALSE
    <2>1. S(t) # s
      BY <1>9, Destroying
    <2>2. mailbox'[s] = mailbox[s]
      BY <1>9, <2>1, Destroying
    <2>3. ASSUME NEW m \in Msgs, fate'[m] = "queued" PROVE fate[m] = "queued"
      BY <1>9, <2>3, Destroying
    <2>4. QED
      BY <1>k, <2>2, <2>3
  <1>10. QED
    BY <1>1, <1>2, <1>3, <1>4, <1>5, <1>6, <1>7, <1>8, <1>9
       DEF Next, ClientStep, WorkerStep, CleanerStep, OwnerStep, UnregisterStep, Aside

LEMMA NotStrandedStep ==
    ASSUME IInv, Next PROVE NotStranded'
  <1> USE Kinds DEF Threads, Goto, Set
  <1>0. TypeOK /\ Places /\ Carried /\ Owned /\ NotStranded
    BY DEF IInv
  <1>p. Places'
    BY <1>0, PlacesStep
  <1>1. SUFFICES ASSUME FewReplaced', NEW s \in Slots,
                        present'[s], alive'[s], Poppable(s)', ~released',
                        "drain" \notin lost'[s]
                 PROVE  Served(s)' \/ \E t \in Workers \union Clients : Looks(t, s)'
    <2>1. ASSUME NEW s \in Slots, NEW t \in Workers \union Clients, Looks(t, s)'
          PROVE  \/ \E c \in Clients : pc'[c] = "kick" /\ S(c)' = s /\ Holds(c)'
                 \/ \E w \in Workers : /\ pc'[w] \in {"recheck", "repop", "recas"}
                                       /\ S(w)' = s /\ Holds(w)'
      BY <1>p, <2>1 DEF Looks, Places
    <2>2. (\A s \in Slots : present'[s] /\ alive'[s] /\ Poppable(s)' /\ ~released'
                         /\ "drain" \notin lost'[s] =>
              \/ Served(s)'
              \/ \E c \in Clients : pc'[c] = "kick" /\ S(c)' = s /\ Holds(c)'
              \/ \E w \in Workers : /\ pc'[w] \in {"recheck", "repop", "recas"}
                                    /\ S(w)' = s /\ Holds(w)')
          => NotStranded'
      BY DEF NotStranded, Served
    <2>3. ~FewReplaced' => NotStranded'
      BY DEF NotStranded
    <2>4. QED
      BY <2>1, <2>2, <2>3
  <1>2. FewReplaced /\ ~released
    BY <1>0, <1>1, StillFew, Unreleased
  <1>3. life'[s] = life[s]
    <2>1. CASE Spawn \/ Respawn
      <3>1. ASSUME NEW a \in Slots, Install(a), ~present[a] PROVE life'[s] = life[s]
        <4>1. mailbox[a] = <<>> /\ UNCHANGED mailbox
          BY <3>1, Installed
        <4>2. s # a
          BY <1>1, <4>1 DEF Poppable
        <4>3. QED
          BY <3>1, <4>2, Installed
      <3>2. QED
        BY <2>1, <3>1, Installing
    <2>2. CASE ~Spawn /\ ~Respawn
      BY <1>0, <2>2, Fading
    <2>3. QED
      BY <2>1, <2>2
  <1>4. present[s] /\ alive[s]
    BY <1>1, <1>3, Lived
  <1>5. CASE "drain" \in lost[s]
    BY <1>1, <1>3, <1>5, Found
  <1>6. CASE Served(s)
    <2>1. SUFFICES ASSUME NEW w \in Workers \union Clients, Cleared(s, w)
                   PROVE  Looks(w, s)'
      BY <1>1, <1>2, <1>3, <1>4, <1>6, StaysServed
    <2>2. Clear(w) /\ s = S(w) /\ Holds(w) /\ UNCHANGED <<present, life>>
      BY <2>1 DEF Cleared
    <2>3. pc'[w] = "recheck" /\ UNCHANGED ref
      BY <1>0, <2>2 DEF Clear, TypeOK
    <2>4. S(w)' = s /\ Holds(w)'
      BY <2>2, <2>3 DEF S, Holds
    <2>5. QED
      BY <2>3, <2>4 DEF Looks
  <1>7. CASE ~Served(s) /\ "drain" \notin lost[s]
    <2>1. ~draining[s]
      BY <1>0, <1>2, <1>4, <1>7 DEF Owned, Served
    <2>2. CASE Poppable(s)
      <3>1. PICK t \in Workers \union Clients : Looks(t, s)
        BY <1>0, <1>2, <1>4, <1>7, <2>2 DEF NotStranded, Served, Looks
      <3>2. QED
        BY <1>1, <1>3, <1>4, <2>1, <2>2, <3>1, LooksOn
    <2>3. CASE ~Poppable(s)
      BY <1>1, <1>3, <2>3, NewlyThere
    <2>4. QED
      BY <2>2, <2>3
  <1>8. QED
    BY <1>5, <1>6, <1>7

-----------------------------------------------------------------------------
(* Theorems                                                                *)

LEMMA Inductive == Spec => []IInv
  <1>1. ASSUME IInv, [Next]_vars PROVE IInv'
    <2>1. Next
      BY <1>1 DEF Next, Quiet
    <2>2. TypeOK /\ Places /\ Carried
      BY <1>1 DEF IInv
    <2>3. TypeOK' /\ Places' /\ Lives' /\ Refs'
      BY <1>1, <2>1, <2>2, TypeStep, PlacesStep, LivesStep, RefsStep
    <2>4. Ending' /\ Carried' /\ Boxed' /\ Reports' /\ Stopped'
      BY <1>1, <2>1, EndingStep, CarriedStep, BoxedStep, ReportsStep, StoppedStep
    <2>5. Calm' /\ Bounded' /\ Owned' /\ NotStranded'
      BY <1>1, <2>1, CalmStep, BoundedStep, OwnedStep, NotStrandedStep
    <2>6. QED
      BY <2>3, <2>4, <2>5 DEF IInv
  <1>2. QED
    BY <1>1, Initially, PTL DEF Spec

LEMMA AtMostOne ==
    ASSUME NEW X, \A x, y \in X : x = y
    PROVE  Cardinality(X) = IF X = {} THEN 0 ELSE 1
  <1>1. CASE X = {}
    BY <1>1, FS_EmptySet
  <1>2. CASE X # {}
    <2>1. PICK x : X = {x}
      BY <1>2
    <2>2. QED
      BY <1>2, <2>1, FS_Singleton
  <1>3. QED
    BY <1>1, <1>2

\* Every variable keeps to its type: a mailbox holds what its capacity allows,
\* and each thread works with a slot of the system.
THEOREM TypeCorrect == Spec => []TypeOK
  BY Inductive, PTL DEF IInv

\* The message that addToMailbox has published is never left in the mailbox of a
\* living actor with nobody to drain it, neither by the worker that stops
\* draining while it comes nor by the sender that finds is_draining_ set, unless
\* somebody who had won is_draining_ went away with it: before the actor knew its
\* system, or by an exception that drainMailbox does not catch.
THEOREM NoneStranded == Spec => []NotStranded
  BY Inductive, PTL DEF IInv

LEMMA HandledInOneHand == IInv => HandledOnce
  <1> SUFFICES ASSUME IInv, NEW m \in Msgs
               PROVE  Cardinality({t \in Workers \union Clients :
                                     msg[t] = m /\ fate[m] \in {"sending", "handling"}})
                        + Cardinality({s \in Slots :
                                         \E i \in 1 .. Len(mailbox[s]) : mailbox[s][i] = m})
                        = IF fate[m] \in {"sending", "handling", "reserved", "queued"}
                          THEN 1 ELSE 0
    BY DEF HandledOnce
  <1> DEFINE T == {t \in Workers \union Clients :
                     msg[t] = m /\ fate[m] \in {"sending", "handling"}}
             B == {s \in Slots : \E i \in 1 .. Len(mailbox[s]) : mailbox[s][i] = m}
  <1>0. Carried /\ Boxed /\ m # NoMsg
    BY Kinds DEF IInv
  <1>1. \A t, u \in T : t = u
    BY <1>0 DEF Carried
  <1>2. T = {} <=> fate[m] \notin {"sending", "handling"}
    BY <1>0 DEF Carried
  <1>3. \A r, s \in B : r = s
    BY <1>0 DEF Boxed
  <1>4. B = {} <=> fate[m] \notin {"reserved", "queued"}
    BY <1>0 DEF Boxed
  <1> HIDE DEF T, B
  <1>5. Cardinality(T) = IF fate[m] \notin {"sending", "handling"} THEN 0 ELSE 1
    BY <1>1, <1>2, AtMostOne
  <1>6. Cardinality(B) = IF fate[m] \notin {"reserved", "queued"} THEN 0 ELSE 1
    BY <1>3, <1>4, AtMostOne
  <1>7. Cardinality(T) + Cardinality(B) =
           IF fate[m] \in {"sending", "handling", "reserved", "queued"} THEN 1 ELSE 0
    BY <1>5, <1>6
  <1>8. QED
    BY <1>7 DEF T, B

LEMMA InOneReport == IInv => ReportedOnce
  <1> SUFFICES ASSUME IInv, ~released, NEW s \in Slots, Failed(s)
               PROVE  Cardinality({w \in Workers :
                                     pc[w] \in {"fail", "lateFail"} /\ S(w) = s /\ Holds(w)})
                        + Cardinality({i \in 1 .. Len(binned) : binned[i] = s})
                        + (IF pc[Cleaner] \in {"erase", "stop", "spin"} /\ S(Cleaner) = s
                           THEN 1 ELSE 0)
                        + (IF "failure" \in lost[s] THEN 1 ELSE 0) = 1
    BY DEF ReportedOnce, Failed
  <1> DEFINE A == {w \in Workers :
                     pc[w] \in {"fail", "lateFail"} /\ S(w) = s /\ Holds(w)}
             B == {i \in 1 .. Len(binned) : binned[i] = s}
             c == IF pc[Cleaner] \in {"erase", "stop", "spin"} /\ S(Cleaner) = s
                  THEN 1 ELSE 0
             d == IF "failure" \in lost[s] THEN 1 ELSE 0
  <1>0. /\ \/ \E w \in Workers : Reporting(w, s)
           \/ InBin(s) \/ Cleaning(s) \/ Unreported(s)
        /\ \A v, w \in Workers : Reporting(v, s) /\ Reporting(w, s) => v = w
        /\ \A i, j \in 1 .. Len(binned) : binned[i] = binned[j] => i = j
        /\ \A w \in Workers : Reporting(w, s) => ~InBin(s) /\ ~Cleaning(s)
        /\ ~(InBin(s) /\ Cleaning(s))
        /\ Unreported(s) => ~InBin(s) /\ ~Cleaning(s)
        /\ \A w \in Workers : Unreported(s) => ~Reporting(w, s)
    BY DEF IInv, Reports, OnePlace
  <1>1. (\A v, w \in A : v = w) /\ (A = {} <=> ~\E w \in Workers : Reporting(w, s))
    BY <1>0 DEF Reporting
  <1>2. (\A i, j \in B : i = j) /\ (B = {} <=> ~InBin(s))
    BY <1>0 DEF InBin
  <1>3. (c = IF Cleaning(s) THEN 1 ELSE 0) /\ (d = IF Unreported(s) THEN 1 ELSE 0)
    BY DEF Cleaning, Unreported
  <1> HIDE DEF A, B, c, d
  <1>4. /\ Cardinality(A) = IF A = {} THEN 0 ELSE 1
        /\ Cardinality(B) = IF B = {} THEN 0 ELSE 1
    BY <1>1, <1>2, AtMostOne
  <1>5. CASE Cleaning(s)
    BY <1>0, <1>1, <1>2, <1>3, <1>4, <1>5 DEF A, B, c, d
  <1>6. CASE InBin(s)
    BY <1>0, <1>1, <1>2, <1>3, <1>4, <1>6 DEF A, B, c, d
  <1>7. CASE \E w \in Workers : Reporting(w, s)
    BY <1>0, <1>1, <1>2, <1>3, <1>4, <1>7 DEF A, B, c, d
  <1>8. CASE Unreported(s)
    BY <1>0, <1>1, <1>2, <1>3, <1>4, <1>8 DEF A, B, c, d
  <1>9. QED
    BY <1>0, <1>5, <1>6, <1>7, <1>8

LEMMA WithOneRight == IInv => OneDrain
  <1> SUFFICES ASSUME IInv, NoFailure
               PROVE  /\ PoolHasRoom
                      /\ \A s \in Slots :
                           /\ Cardinality(InDrain(s)) + Cardinality(Requests(s)) <= 1
                           /\ InDrain(s) # {} \/ Requests(s) # {} => present[s] /\ draining[s]
    BY DEF OneDrain
  <1>0. TypeOK /\ Calm /\ Bounded
    BY DEF IInv
  <1>1. ASSUME NEW s \in Slots
        PROVE  /\ Cardinality(InDrain(s)) + Cardinality(Requests(s)) <= 1
               /\ Cardinality(Requests(s)) <= 1
               /\ InDrain(s) # {} \/ Requests(s) # {} => present[s] /\ draining[s]
    <2>1. /\ life[s] \in Nat /\ life[s] <= 1 /\ (Requests(s) # {} => present[s])
          /\ Cardinality(InDrain(s)) \in Nat /\ Cardinality(Requests(s)) \in Nat
      BY <1>0, Counted DEF Calm, TypeOK
    <2>2. Cardinality(InDrain(s)) + Cardinality(Requests(s)) <= Limit(s)
      BY <1>0 DEF Bounded, Rights
    <2>3. Limit(s) \in Int /\ Limit(s) <= 1 /\ (~draining[s] => Limit(s) <= 0)
      BY <2>1 DEF Limit
    <2>4. ~draining[s] => InDrain(s) = {} /\ Requests(s) = {}
      BY <1>0, <2>1, <2>2, <2>3, Counted
    <2>5. InDrain(s) # {} => present[s]
      BY DEF InDrain, Holds
    <2>6. QED
      BY <2>1, <2>2, <2>3, <2>4, <2>5
  <1>2. \A s \in Slots : Cardinality(At(tasks, s)) <= 1
    BY <1>1 DEF Requests, At
  <1>3. PoolHasRoom
    BY <1>0, <1>2, RoomForOne DEF PoolHasRoom, TypeOK
  <1>4. QED
    BY <1>1, <1>3

\* Whatever workers, senders, the cleanup thread and the destructor do at the same
\* time: while no task throws an actor has one drainMailbox() at most and the pool
\* room for the request, a failed actor is in one report, unless it did not know the
\* system to report to, and a message with one thread or in one mailbox.
THEOREM OnceOnly == Spec => []Once
  <1>1. IInv => Once
    BY HandledInOneHand, InOneReport, WithOneRight DEF Once
  <1>2. QED
    BY <1>1, Inductive, PTL
=============================================================================
