-------------------------- MODULE ActorThreadsProofs --------------------------
(***************************************************************************)
(* TypeOK, Woken and Survives of ActorThreads, for any number of actors,   *)
(* clients, messages and places in the pool and the mailboxes.             *)
(*                                                                         *)
(* Woken counts.  A message has a sender on its way to the semaphore, or a *)
(* token, or a dispatcher about to pop; and a dispatcher that pops nothing *)
(* although there is mail has come upon a cell whose sender is still on    *)
(* its way, with no other message behind it unless two pushes overlapped.  *)
(*                                                                         *)
(* Survives follows the ownership of the actors.  Who stops an actor holds *)
(* a reference to it, or has just let go of the last one and is alone with *)
(* it; so ~Actor finds the actor alive and joins it, or joined already.    *)
(* A dispatcher may come to run destructors, when it was the last to hold  *)
(* the system, but it does so only after it has left its loop because      *)
(* somebody is stopping its own actor, so that it never joins itself.      *)
(***************************************************************************)
EXTENDS ActorThreads, FiniteSetTheorems, TLAPS

-----------------------------------------------------------------------------
(* Types, and what is typed only where it is used                          *)

Shaped ==
  /\ \A t \in Threads : call[t].at # "idle" => call[t].to \in Actors
  /\ \A t \in Threads : stop[t] # NoStop => stop[t].of \in Actors
  /\ cleaner.at \in {"erase", "spawn"} => cleaner.idx < Total

-----------------------------------------------------------------------------
(* The semaphore                                                           *)

\* A cell that is not published has its sender at the publishing, and without an
\* overlap it is the last.  A dispatcher that is to send a notice sends nothing
\* else.
Mailed ==
  /\ \A a \in Actors : \A i \in 1 .. Len(actor[a].mail) :
        Unpublished(actor[a].mail[i]) =>
           /\ call[actor[a].mail[i].by].at = "publish"
           /\ call[actor[a].mail[i].by].to = a
  /\ \A a \in Actors : ~actor[a].overlapped =>
        \A i \in 1 .. Len(actor[a].mail) - 1 : ~Unpublished(actor[a].mail[i])
  /\ \A a \in Actors : disp[a] = "look" => call[a] = Idle

Tokens == \A a \in Actors : ~actor[a].overlapped => Counted(a)

-----------------------------------------------------------------------------
(* While no task throws or asks for a reply                                *)

Calm == thrown = 0 /\ ~asked

\* Nothing has failed, and nobody answers.
Untroubled ==
  /\ crash = "no"
  /\ \A a \in Actors : /\ actor[a].status # "FAILED"
                       /\ disp[a] \notin {"fail", "look", "bin"}
                       /\ msg[a].from = None
                       /\ \A i \in 1 .. Len(actor[a].mail) : actor[a].mail[i].from = None
  /\ \A t \in Threads : call[t].from = None

\* The cleanup thread waits for the end.
CleanerWaits ==
  /\ \A i \in 1 .. Len(bin) : bin[i] = Total
  /\ cleaner.at \in {"wait", "gone"}
  /\ refs[Cleaner] = {} /\ Cleaner \notin sysrefs
  /\ call[Cleaner] = Idle /\ stop[Cleaner] = NoStop /\ system.by # Cleaner

\* A dispatcher holds no actor and calls nobody; it may come to destroy the system,
\* but only once it is itself being stopped.
Dispatchers ==
  \A a \in Actors :
    /\ refs[a] = {} /\ call[a] = Idle
    /\ a \in sysrefs \/ system.by = a \/ stop[a] # NoStop => disp[a] = "report"
    /\ disp[a] \in {"exit", "drain", "drainTask", "log", "report", "done"} => ~actor[a].alive
    /\ stop[a].joins => stop[a].of # a

\* Who spawns holds the system, and the actor until it has its place.
Spawning ==
  \A t \in Threads :
    call[t].at \in {"set", "unset", "place"} =>
       t = Main /\ Main \in sysrefs /\ call[t].to \in refs[t]

\* What is held or stopped, or runs, has been constructed.
Constructed ==
  /\ \A t \in Threads : refs[t] \subseteq 1 .. made
  /\ \A s \in Slots : pool[s] \in (1 .. made) \union {None}
  /\ \A t \in Threads : stop[t] # NoStop => stop[t].of \in 1 .. made
  /\ \A a \in Actors : a > made => disp[a] = "none"

\* Whoever stops an actor holds it, or runs ~Actor, and then it is alone with it.
Stopped ==
  \A t \in Threads : stop[t] # NoStop =>
    /\ ~stop[t].frees => stop[t].of \in refs[t]
    /\ stop[t].frees => /\ ~Held(stop[t].of)
                        /\ \A u \in Threads : u # t => stop[u].of # stop[t].of
    /\ stop[t].joins => ~actor[stop[t].of].alive

\* An actor that is not alive has been joined, or whoever stopped it is about to.
JoinedOnce ==
  \A a \in 1 .. made :
    ~actor[a].alive => actor[a].joined \/ \E t \in Threads : stop[t].of = a /\ stop[t].joins

Ownership == /\ Untroubled /\ CleanerWaits /\ Dispatchers
             /\ Spawning /\ Constructed /\ Stopped /\ JoinedOnce

IInv == TypeOK /\ Shaped /\ Mailed /\ Tokens /\ (Calm => Ownership)

-----------------------------------------------------------------------------
(* Constants, and updates of what the state is made of                     *)

LEMMA Constants ==
  /\ Total \in Nat /\ Total >= 1 /\ MailboxSize \in Nat /\ MaxActors \in Nat
  /\ Main \in Clients /\ Clients \subseteq Threads /\ Actors \subseteq Threads
  /\ Cleaner \in Threads /\ Cleaner \notin Actors /\ Cleaner \notin Clients
  /\ Actors \intersect Clients = {}
  /\ None \notin Threads /\ None \notin Actors
  /\ IsFiniteSet(Actors) /\ IsFiniteSet(Threads)
  <1>1. IsFiniteSet(Actors)
    <2>1. 1 \in Int /\ MaxActors \in Int
      BY ThreadsAssumption
    <2>2. IsFiniteSet(1 .. MaxActors)
      BY <2>1, FS_Interval
    <2>3. QED
      BY <2>2 DEF Actors
  <1>2. IsFiniteSet(Clients \union {Cleaner})
    BY ThreadsAssumption, FS_AddElement
  <1>3. IsFiniteSet(Threads)
    BY <1>1, <1>2, FS_Union DEF Threads
  <1>4. QED
    BY <1>1, <1>3, ThreadsAssumption DEF Threads, Actors

LEMMA Put ==
  ASSUME NEW S, NEW R, NEW f \in [S -> R], NEW x \in S, NEW v \in R
  PROVE  /\ [f EXCEPT ![x] = v] \in [S -> R]
         /\ \A y \in S : [f EXCEPT ![x] = v][y] = IF y = x THEN v ELSE f[y]
  OBVIOUS

LEMMA ActorPut ==
  ASSUME NEW x \in ActorState
  PROVE  /\ \A n \in Nat : [x EXCEPT !.tokens = n] \in ActorState
         /\ \A n \in Nat : [x EXCEPT !.alive = FALSE, !.tokens = n] \in ActorState
         /\ [x EXCEPT !.alive = FALSE] \in ActorState
         /\ \A v \in {"STOPPING", "FAILED"} : [x EXCEPT !.status = v] \in ActorState
         /\ [x EXCEPT !.joined = TRUE, !.status = "STOPPED"] \in ActorState
         /\ [x EXCEPT !.owned = TRUE] \in ActorState
         /\ \A m \in Seq(Cell) : [x EXCEPT !.mail = m] \in ActorState
         /\ \A m \in Seq(Cell), b \in BOOLEAN :
               [x EXCEPT !.mail = m, !.overlapped = b] \in ActorState
         /\ Freed(x) \in ActorState
  <1>1. /\ \A n \in Nat : [x EXCEPT !.tokens = n] \in ActorState
        /\ \A n \in Nat : [x EXCEPT !.alive = FALSE, !.tokens = n] \in ActorState
        /\ [x EXCEPT !.alive = FALSE] \in ActorState
    BY DEF ActorState
  <1>2. /\ \A v \in {"STOPPING", "FAILED"} : [x EXCEPT !.status = v] \in ActorState
        /\ [x EXCEPT !.joined = TRUE, !.status = "STOPPED"] \in ActorState
        /\ [x EXCEPT !.owned = TRUE] \in ActorState
    BY DEF ActorState
  <1>3. /\ \A m \in Seq(Cell) : [x EXCEPT !.mail = m] \in ActorState
        /\ \A m \in Seq(Cell), b \in BOOLEAN :
               [x EXCEPT !.mail = m, !.overlapped = b] \in ActorState
    BY DEF ActorState
  <1>4. Freed(x) \in ActorState
    <2>1. /\ x.first \in BOOLEAN /\ x.joined \in BOOLEAN
      BY DEF ActorState
    <2>2. 0 \in Ids /\ 0 \in Slots /\ <<>> \in Seq(Cell)
      BY ThreadsAssumption DEF Ids, Slots
    <2>3. QED
      BY <2>1, <2>2 DEF Freed, Unborn, ActorState
  <1>5. QED
    BY <1>1, <1>2, <1>3, <1>4

LEMMA CallPut ==
  /\ Idle \in CallState /\ NoStop \in StopState /\ NoMessage \in Cell
  /\ \A x \in CallState, w \in {"push", "publish", "signal", "unset", "place"} :
        [x EXCEPT !.at = w] \in CallState
  /\ \A a \in Actors, w \in {"alive", "set"} :
        /\ [Idle EXCEPT !.at = w, !.to = a] \in CallState
        /\ [Idle EXCEPT !.at = w, !.to = a].at = w
        /\ [Idle EXCEPT !.at = w, !.to = a].to = a
        /\ [Idle EXCEPT !.at = w, !.to = a].from = None
  /\ \A a \in Actors : [NoStop EXCEPT !.of = a] \in StopState
  /\ \A x \in StopState : [x EXCEPT !.joins = TRUE] \in StopState
  BY DEF Idle, CallState, NoStop, StopState, NoMessage, Cell

-----------------------------------------------------------------------------
(* Steps that several actions share                                        *)

LEMMA ReleaseTyped ==
  ASSUME TypeOK, Shaped, NEW t \in Threads, NEW a \in Actors,
         NEW p \in [Slots -> Actors \union {None}], NEW r \in [Threads -> SUBSET Actors],
         Release(t, a, p, r)
  PROVE  /\ pool' \in [Slots -> Actors \union {None}]
         /\ refs' \in [Threads -> SUBSET Actors]
         /\ stop' \in [Threads -> StopState]
         /\ \A u \in Threads : stop'[u] # NoStop => stop'[u].of \in Actors
  <1>1. [of |-> a, frees |-> TRUE, joins |-> FALSE] \in StopState
    BY DEF StopState
  <1>2. QED
    BY <1>1 DEF Release, TypeOK, Shaped

LEMMA CallTyped ==
  ASSUME TypeOK, Shaped, NEW t \in Threads, NEW v \in CallState, v = Idle \/ v.to \in Actors,
         call' = [call EXCEPT ![t] = v]
  PROVE  /\ call' \in [Threads -> CallState]
         /\ \A u \in Threads : call'[u].at # "idle" => call'[u].to \in Actors
  <1>1. call \in [Threads -> CallState]
    BY DEF TypeOK
  <1>2. \A u \in Threads : call'[u] = IF u = t THEN v ELSE call[u]
    BY <1>1
  <1>3. call' \in [Threads -> CallState]
    BY <1>1, Put
  <1>4. Idle.at = "idle"
    BY DEF Idle
  <1>5. QED
    BY <1>2, <1>3, <1>4 DEF Shaped

LEMMA LeaveTyped ==
  ASSUME TypeOK, Shaped, NEW t \in Threads, NEW a \in Actors,
         NEW then \in [Actors -> ActorState], Leave(t, a, then)
  PROVE  /\ actor' \in [Actors -> ActorState]
         /\ crash' \in {"no", "unjoined", "twojoins", "selfjoin", "nosystem", "noself", "wild"}
         /\ locked' \in Threads \union {None}
         /\ stop' \in [Threads -> StopState]
         /\ \A u \in Threads : stop'[u] # NoStop => stop'[u].of \in Actors
  <1>1. Freed(then[a]) \in ActorState
    BY ActorPut
  <1>2. [then EXCEPT ![a] = Freed(then[a])] \in [Actors -> ActorState]
    BY <1>1, Put
  <1>3. actor' \in [Actors -> ActorState]
    BY <1>2 DEF Leave
  <1>4. /\ stop' \in [Threads -> StopState]
        /\ \A u \in Threads : stop'[u] # NoStop => stop'[u].of \in Actors
    <2>1. stop' = [stop EXCEPT ![t] = NoStop] /\ stop \in [Threads -> StopState]
      BY DEF Leave, TypeOK
    <2>2. stop' \in [Threads -> StopState]
      BY <2>1, CallPut, Put
    <2>3. \A u \in Threads : stop'[u] = IF u = t THEN NoStop ELSE stop[u]
      BY <2>1
    <2>4. QED
      BY <2>2, <2>3 DEF Shaped
  <1>5. QED
    BY <1>3, <1>4 DEF Leave, TypeOK

\* A crash changes nothing else, and is one of those that have a name.
LEMMA CrashTyped ==
  ASSUME TypeOK, Shaped,
         NEW why \in {"unjoined", "twojoins", "selfjoin", "nosystem", "noself", "wild"},
         Crash(why)
  PROVE  TypeOK' /\ Shaped'
  BY DEF TypeOK, Shaped, Crash, roots, holders, counts

LEMMA UnregisterTyped ==
  ASSUME TypeOK, Shaped, NEW t \in Threads, NEW s \in Slots, Unregister(t, s)
  PROVE  /\ pool' \in [Slots -> Actors \union {None}]
         /\ registry' \in [Slots -> Actors \union {None}]
         /\ locked' \in Threads \union {None}
         /\ refs' \in [Threads -> SUBSET Actors]
         /\ stop' \in [Threads -> StopState]
         /\ \A u \in Threads : stop'[u] # NoStop => stop'[u].of \in Actors
  <1>1. CASE pool[s] = None
    BY <1>1 DEF Unregister, TypeOK, Shaped, roots
  <1>2. CASE pool[s] # None
    <2>1. pool[s] \in Actors
      BY <1>2 DEF TypeOK
    <2>2. [pool EXCEPT ![s] = None] \in [Slots -> Actors \union {None}]
      BY DEF TypeOK
    <2>3. Release(t, pool[s], [pool EXCEPT ![s] = None], refs)
      BY <1>2 DEF Unregister
    <2>4. refs \in [Threads -> SUBSET Actors]
      BY DEF TypeOK
    <2>5. /\ pool' \in [Slots -> Actors \union {None}] /\ refs' \in [Threads -> SUBSET Actors]
          /\ stop' \in [Threads -> StopState]
          /\ \A u \in Threads : stop'[u] # NoStop => stop'[u].of \in Actors
      BY <2>1, <2>2, <2>3, <2>4, ReleaseTyped
    <2>6. registry' \in [Slots -> Actors \union {None}] /\ locked' \in Threads \union {None}
      BY <1>2 DEF Unregister, TypeOK
    <2>7. QED
      BY <2>5, <2>6
  <1>3. QED
    BY <1>1, <1>2

-----------------------------------------------------------------------------
(* Types                                                                   *)

\* What a thread's own call does to the types.
LEMMA MailTyped ==
  ASSUME TypeOK, Shaped, NEW t \in Threads,
         AddCheck(t) \/ Push(t) \/ GiveUp(t) \/ Publish(t) \/ Signal(t)
  PROVE  TypeOK' /\ Shaped'
  <1> DEFINE a == call[t].to
             mail == actor[a].mail
  <1>0. /\ actor \in [Actors -> ActorState] /\ call \in [Threads -> CallState]
        /\ UNCHANGED mailing
    BY DEF TypeOK, AddCheck, Push, GiveUp, Publish, Signal
  <1>1. a \in Actors /\ call[t] \in CallState
    BY <1>0 DEF Shaped, At, AddCheck, Push, GiveUp, Publish, Signal
  <1>2. actor[a] \in ActorState /\ mail \in Seq(Cell) /\ actor[a].tokens \in Nat
        /\ actor[a].overlapped \in BOOLEAN
    BY <1>0, <1>1 DEF ActorState
  <1>3. actor' \in [Actors -> ActorState]
    <2>1. CASE AddCheck(t) \/ GiveUp(t)
      BY <1>0, <2>1 DEF AddCheck, GiveUp
    <2>2. CASE Signal(t)
      <3>1. [actor[a] EXCEPT !.tokens = actor[a].tokens + 1] \in ActorState
        <4>1. actor[a].tokens + 1 \in Nat
          BY <1>2
        <4>2. QED
          BY <1>2, <4>1, ActorPut
      <3>2. actor' = [actor EXCEPT ![a] = [actor[a] EXCEPT !.tokens = actor[a].tokens + 1]]
        BY <2>2 DEF Signal
      <3>3. QED
        BY <1>0, <1>1, <3>1, <3>2, Put
    <2>3. CASE Push(t)
      <3> DEFINE m == Append(mail, [by |-> t, from |-> call[t].from])
                 b == actor[a].overlapped \/ \E i \in 1 .. Len(mail) : Unpublished(mail[i])
      <3>1. [by |-> t, from |-> call[t].from] \in Cell
        BY <1>1 DEF Cell, CallState
      <3>2. m \in Seq(Cell) /\ b \in BOOLEAN
        BY <1>2, <3>1
      <3>3. actor' = [actor EXCEPT ![a] = [actor[a] EXCEPT !.mail = m, !.overlapped = b]]
        BY <2>3 DEF Push
      <3> HIDE DEF m, b, mail
      <3>4. [actor[a] EXCEPT !.mail = m, !.overlapped = b] \in ActorState
        BY <1>2, <3>2, ActorPut
      <3>5. QED
        BY <1>0, <1>1, <3>3, <3>4, Put
    <2>4. CASE Publish(t)
      <3> DEFINE m == [i \in 1 .. Len(mail) |->
                         IF mail[i].by = t THEN [mail[i] EXCEPT !.by = None] ELSE mail[i]]
      <3>1. m \in Seq(Cell)
        <4>1. Len(mail) \in Nat /\ \A i \in 1 .. Len(mail) : mail[i] \in Cell
          BY <1>2
        <4>2. \A i \in 1 .. Len(mail) : [mail[i] EXCEPT !.by = None] \in Cell
          BY <4>1 DEF Cell
        <4>3. m \in [1 .. Len(mail) -> Cell]
          BY <4>1, <4>2
        <4>4. QED
          BY <4>1, <4>3
      <3>2. actor' = [actor EXCEPT ![a] = [actor[a] EXCEPT !.mail = m]]
        BY <2>4 DEF Publish
      <3> HIDE DEF m, mail
      <3>3. [actor[a] EXCEPT !.mail = m] \in ActorState
        BY <1>2, <3>1, ActorPut
      <3>4. QED
        BY <1>0, <1>1, <3>2, <3>3, Put
    <2>5. QED
      BY <2>1, <2>2, <2>3, <2>4
  <1>4. PICK v \in CallState : call' = [call EXCEPT ![t] = v] /\ (v = Idle \/ v.to = a)
    <2>1. /\ call' = [call EXCEPT ![t] = Idle]
          \/ \E w \in {"push", "publish", "signal"} : call' = [call EXCEPT ![t] = [call[t] EXCEPT !.at = w]]
      BY DEF AddCheck, Push, GiveUp, Publish, Signal, Goto
    <2>2. \A w \in {"push", "publish", "signal"} :
             [call[t] EXCEPT !.at = w] \in CallState /\ [call[t] EXCEPT !.at = w].to = a
      BY <1>1, CallPut DEF CallState
    <2>3. CASE call' = [call EXCEPT ![t] = Idle]
      BY <2>3, CallPut
    <2>4. CASE \E w \in {"push", "publish", "signal"} :
                 call' = [call EXCEPT ![t] = [call[t] EXCEPT !.at = w]]
      <3>1. PICK w \in {"push", "publish", "signal"} :
                 call' = [call EXCEPT ![t] = [call[t] EXCEPT !.at = w]]
        BY <2>4
      <3> DEFINE x == [call[t] EXCEPT !.at = w]
      <3>2. x \in CallState /\ x.to = a /\ call' = [call EXCEPT ![t] = x]
        BY <2>2, <3>1
      <3> HIDE DEF x
      <3>3. QED
        BY <3>2
    <2>5. QED
      BY <2>1, <2>3, <2>4
  <1>5. call' \in [Threads -> CallState] /\ \A u \in Threads : call'[u].at # "idle" => call'[u].to \in Actors
    BY <1>1, <1>4, CallTyped
  <1> HIDE DEF a, mail
  <1>6. QED
    BY <1>0, <1>3, <1>5 DEF TypeOK, Shaped, mailing, roots, holders, counts

LEMMA StopTyped ==
  ASSUME TypeOK, Shaped, NEW t \in Threads, StopBegin(t) \/ Join(t)
  PROVE  TypeOK' /\ Shaped'
  <1> DEFINE a == stop[t].of
  <1>0. a \in Actors /\ actor \in [Actors -> ActorState] /\ actor[a] \in ActorState
        /\ stop \in [Threads -> StopState] /\ stop[t] \in StopState
    BY DEF StopBegin, Join, Stopping, Shaped, TypeOK
  <1>1. ASSUME /\ actor' \in [Actors -> ActorState]
               /\ crash' \in {"no", "unjoined", "twojoins", "selfjoin", "nosystem", "noself", "wild"}
               /\ locked' \in Threads \union {None}
               /\ stop' \in [Threads -> StopState]
               /\ \A u \in Threads : stop'[u] # NoStop => stop'[u].of \in Actors,
               UNCHANGED <<disp, msg, pool, registry, refs, sysrefs, call, bin, cleaner,
                           system, counts>>
        PROVE  TypeOK' /\ Shaped'
    BY <1>1 DEF TypeOK, Shaped, counts
  <1>2. CASE StopBegin(t)
    <2>0. UNCHANGED <<disp, msg, pool, registry, refs, sysrefs, call, bin, cleaner,
                      system, counts>>
      BY <1>2 DEF StopBegin
    <2>1. CASE Leave(t, a, actor)
      BY <1>0, <1>1, <2>0, <2>1, LeaveTyped
    <2>2. CASE /\ actor' = [actor EXCEPT ![a].alive = FALSE, ![a].tokens = actor[a].tokens + 1]
               /\ stop' = [stop EXCEPT ![t].joins = TRUE]
               /\ crash' \in {"twojoins", crash}
               /\ UNCHANGED locked
      <3>1. actor[a].tokens + 1 \in Nat
        BY <1>0 DEF ActorState
      <3>2. [actor[a] EXCEPT !.alive = FALSE, !.tokens = actor[a].tokens + 1] \in ActorState
        BY <1>0, <3>1, ActorPut
      <3>3. actor' = [actor EXCEPT ![a] =
                        [actor[a] EXCEPT !.alive = FALSE, !.tokens = actor[a].tokens + 1]]
        BY <1>0, <2>2
      <3>4. actor' \in [Actors -> ActorState]
        BY <1>0, <3>2, <3>3, Put
      <3>5. stop' = [stop EXCEPT ![t] = [stop[t] EXCEPT !.joins = TRUE]]
        BY <2>2
      <3>6. [stop[t] EXCEPT !.joins = TRUE] \in StopState /\ [stop[t] EXCEPT !.joins = TRUE].of = a
        BY <1>0, CallPut DEF StopState
      <3>7. /\ stop' \in [Threads -> StopState]
            /\ \A u \in Threads : stop'[u] # NoStop => stop'[u].of \in Actors
        <4>1. \A u \in Threads : stop'[u] = IF u = t THEN [stop[t] EXCEPT !.joins = TRUE]
                                            ELSE stop[u]
          BY <1>0, <3>5
        <4>2. QED
          BY <1>0, <3>5, <3>6, <4>1, Put DEF Shaped
      <3>8. QED
        BY <1>1, <2>0, <2>2, <3>4, <3>7 DEF TypeOK
    <2>3. QED
      BY <1>2, <2>1, <2>2 DEF StopBegin
  <1>3. CASE Join(t)
    <2>1. CASE Crash("selfjoin")
      BY <2>1, CrashTyped
    <2>2. CASE /\ Leave(t, a, [actor EXCEPT ![a].joined = TRUE, ![a].status = "STOPPED"])
               /\ UNCHANGED <<disp, msg, pool, registry, refs, sysrefs, call, bin, cleaner,
                              system, counts>>
      <3> DEFINE then == [actor EXCEPT ![a].joined = TRUE, ![a].status = "STOPPED"]
      <3>1. then = [actor EXCEPT ![a] = [actor[a] EXCEPT !.joined = TRUE, !.status = "STOPPED"]]
        BY <1>0
      <3>2. then \in [Actors -> ActorState]
        <4>1. [actor[a] EXCEPT !.joined = TRUE, !.status = "STOPPED"] \in ActorState
          BY <1>0, ActorPut
        <4>2. [actor EXCEPT ![a] = [actor[a] EXCEPT !.joined = TRUE, !.status = "STOPPED"]]
                  \in [Actors -> ActorState]
          BY <1>0, <4>1, Put
        <4>3. QED
          BY <3>1, <4>2
      <3>3. Leave(t, a, then)
        BY <2>2
      <3> HIDE DEF then
      <3>4. QED
        BY <1>0, <1>1, <2>2, <3>2, <3>3, LeaveTyped
    <2>3. QED
      BY <1>3, <2>1, <2>2 DEF Join
  <1>4. QED
    BY <1>2, <1>3

LEMMA Places ==
  ASSUME TypeOK
  PROVE  active_actors \in Nat
  <1>1. {a \in Actors : actor[a].first} \subseteq Actors
    OBVIOUS
  <1>2. IsFiniteSet({a \in Actors : actor[a].first})
    BY <1>1, Constants, FS_Subset
  <1>3. QED
    BY <1>2, FS_CardinalityType DEF active_actors

LEMMA ConstructTyped ==
  ASSUME TypeOK, Shaped, NEW t \in {Main, Cleaner}, NEW s \in Slots, NEW i \in Ids,
         Construct(t, s, i), cleaner' \in {cleaner, [cleaner EXCEPT !.at = "settle"]}
  PROVE  TypeOK' /\ Shaped'
  <1> DEFINE a == made + 1
             x == [Unborn EXCEPT !.life = "up", !.alive = TRUE, !.status = "RUNNING",
                                 !.id = i, !.slot = s, !.first = (t = Main)]
             c == [Idle EXCEPT !.at = "set", !.to = a]
  <1>0. t \in Threads /\ a \in Actors /\ made' \in 0 .. MaxActors
    BY Constants DEF Construct, TypeOK, Actors
  <1>1. x \in ActorState
    <2>1. <<>> \in Seq(Cell) /\ (t = Main) \in BOOLEAN
      OBVIOUS
    <2>2. QED
      BY <2>1 DEF Unborn, ActorState
  <1>2. c \in CallState /\ c.to = a
    BY <1>0, CallPut
  <1>3. /\ actor' = [actor EXCEPT ![a] = x]
        /\ disp' = [disp EXCEPT ![a] = "loop"]
        /\ registry' = [registry EXCEPT ![s] = a]
        /\ refs' = [refs EXCEPT ![t] = refs[t] \union {a}]
        /\ call' = [call EXCEPT ![t] = c]
        /\ UNCHANGED <<msg, pool, locked, sysrefs, stop, bin, system, crash, sent, thrown, asked>>
    BY DEF Construct
  <1> HIDE DEF x, c, a
  <1>4. actor' \in [Actors -> ActorState]
    BY <1>0, <1>1, <1>3, Put DEF TypeOK
  <1>5. call' \in [Threads -> CallState] /\ \A u \in Threads : call'[u].at # "idle" => call'[u].to \in Actors
    BY <1>0, <1>2, <1>3, CallTyped
  <1>6. /\ registry' \in [Slots -> Actors \union {None}]
        /\ refs' \in [Threads -> SUBSET Actors]
    BY <1>0, <1>3 DEF TypeOK
  <1>7. cleaner' \in [at : {"wait", "erase", "spawn", "settle", "gone"}, idx : 0 .. Total,
                      old : Actors \union {None}]
        /\ (cleaner'.at \in {"erase", "spawn"} => cleaner'.idx < Total)
    BY DEF TypeOK, Shaped
  <1>8. TypeOK'
    BY <1>0, <1>3, <1>4, <1>5, <1>6, <1>7 DEF TypeOK
  <1>9. QED
    BY <1>3, <1>5, <1>7, <1>8 DEF Shaped

LEMMA SpawnTyped ==
  ASSUME TypeOK, Shaped, Spawn \/ Respawn
  PROVE  TypeOK' /\ Shaped'
  <1>1. CASE Spawn
    <2>1. active_actors \in Nat /\ active_actors < Total
      BY <1>1, Places DEF Spawn
    <2>2. active_actors \in Slots /\ active_actors \in Ids
      BY <2>1, Constants DEF Slots, Ids
    <2>3. Construct(Main, active_actors, active_actors) /\ cleaner' = cleaner
      BY <1>1 DEF Spawn
    <2>4. QED
      BY <2>2, <2>3, ConstructTyped
  <1>2. CASE Respawn
    <2>1. cleaner.at = "spawn" /\ cleaner.idx \in Slots /\ Wild \in Ids
      BY <1>2, Constants DEF Respawn, Cleaning, Shaped, TypeOK, Slots, Ids
    <2>2. Construct(Cleaner, cleaner.idx, Wild) /\ cleaner' = [cleaner EXCEPT !.at = "settle"]
      BY <1>2 DEF Respawn
    <2>3. QED
      BY <2>1, <2>2, ConstructTyped
  <1>3. QED
    BY <1>1, <1>2

LEMMA PlaceTyped ==
  ASSUME TypeOK, Shaped, NEW t \in Threads, SetSystem(t) \/ Place(t)
  PROVE  TypeOK' /\ Shaped'
  <1> DEFINE a == call[t].to
  <1>0. /\ a \in Actors /\ call[t] \in CallState /\ actor[a] \in ActorState
        /\ call \in [Threads -> CallState] /\ actor \in [Actors -> ActorState]
    BY DEF SetSystem, Place, At, Shaped, TypeOK
  <1>1. CASE Crash("nosystem")
    BY <1>1, CrashTyped
  <1>2. CASE SetSystem(t) /\ ~Crash("nosystem")
    <2>1. /\ actor' = [actor EXCEPT ![a] = [actor[a] EXCEPT !.owned = TRUE]]
          /\ sysrefs' = sysrefs \union {t}
          /\ \E w \in {"unset", "place"} : call' = [call EXCEPT ![t] = [call[t] EXCEPT !.at = w]]
          /\ UNCHANGED <<disp, msg, roots, refs, stop, bin, cleaner, system, crash, counts>>
      BY <1>2 DEF SetSystem, Goto
    <2>2. actor' \in [Actors -> ActorState]
      <3>1. [actor[a] EXCEPT !.owned = TRUE] \in ActorState
        BY <1>0, ActorPut
      <3>2. QED
        BY <1>0, <2>1, <3>1, Put
    <2>3. PICK w \in {"unset", "place"} : call' = [call EXCEPT ![t] = [call[t] EXCEPT !.at = w]]
      BY <2>1
    <2>4. [call[t] EXCEPT !.at = w] \in CallState /\ [call[t] EXCEPT !.at = w].to = a
      BY <1>0, CallPut DEF CallState
    <2>5. /\ call' \in [Threads -> CallState]
          /\ \A u \in Threads : call'[u].at # "idle" => call'[u].to \in Actors
      BY <1>0, <2>3, <2>4, CallTyped
    <2> HIDE DEF a
    <2>6. QED
      BY <2>1, <2>2, <2>5 DEF TypeOK, Shaped, roots, counts
  <1>3. CASE Place(t)
    <2>1. /\ pool' = [pool EXCEPT ![actor[a].slot] = a] /\ call' = [call EXCEPT ![t] = Idle]
          /\ UNCHANGED <<actor, disp, msg, registry, locked, holders, bin, cleaner, system,
                         crash, counts>>
      BY <1>3 DEF Place
    <2>2. pool' \in [Slots -> Actors \union {None}]
      BY <1>0, <2>1 DEF TypeOK, ActorState
    <2>3. /\ call' \in [Threads -> CallState]
          /\ \A u \in Threads : call'[u].at # "idle" => call'[u].to \in Actors
      BY <2>1, CallPut, CallTyped
    <2> HIDE DEF a
    <2>4. QED
      BY <2>1, <2>2, <2>3 DEF TypeOK, Shaped, holders, counts
  <1>4. QED
    BY <1>1, <1>2, <1>3

LEMMA LetGoTyped ==
  ASSUME TypeOK, Shaped, NEW t \in Threads,
         (\E a \in Actors : LetGo(t, a)) \/ LetGoSystem(t)
  PROVE  TypeOK' /\ Shaped'
  <1>1. ASSUME NEW a \in Actors, LetGo(t, a) PROVE TypeOK' /\ Shaped'
    <2>1. [refs EXCEPT ![t] = refs[t] \ {a}] \in [Threads -> SUBSET Actors]
          /\ pool \in [Slots -> Actors \union {None}]
      BY DEF TypeOK
    <2>2. Release(t, a, pool, [refs EXCEPT ![t] = refs[t] \ {a}])
      BY <1>1 DEF LetGo
    <2>3. /\ pool' \in [Slots -> Actors \union {None}] /\ refs' \in [Threads -> SUBSET Actors]
          /\ stop' \in [Threads -> StopState]
          /\ \A u \in Threads : stop'[u] # NoStop => stop'[u].of \in Actors
      BY <2>1, <2>2, ReleaseTyped
    <2>4. UNCHANGED <<actor, disp, msg, registry, locked, sysrefs, call, bin, cleaner,
                      system, crash, counts>>
      BY <1>1 DEF LetGo
    <2>5. QED
      BY <2>3, <2>4 DEF TypeOK, Shaped, counts
  <1>2. CASE LetGoSystem(t)
    <2>1. /\ sysrefs' \subseteq Threads
          /\ call' \in {call, [call EXCEPT ![t] = [call[t] EXCEPT !.at = "place"]]}
          /\ UNCHANGED <<actor, disp, msg, roots, refs, stop, cleaner, crash, counts>>
      BY <1>2 DEF LetGoSystem, TypeOK
    <2>2. \/ UNCHANGED <<bin, system>>
          \/ bin' = Append(bin, Total) /\ system' = [at |-> "join", next |-> 0, by |-> t]
      BY <1>2 DEF LetGoSystem
    <2>3. /\ bin' \in Seq(Ids)
          /\ system' \in [at : {"up", "join", "clear", "gone"}, next : 0 .. Total,
                          by : Threads \union {None}]
      <3>1. Total \in Ids /\ 0 \in 0 .. Total
        BY Constants DEF Ids
      <3>2. Append(bin, Total) \in Seq(Ids)
        BY <3>1 DEF TypeOK
      <3>3. [at |-> "join", next |-> 0, by |-> t] \in
                [at : {"up", "join", "clear", "gone"}, next : 0 .. Total,
                 by : Threads \union {None}]
        BY <3>1
      <3>4. QED
        BY <2>2, <3>2, <3>3 DEF TypeOK
    <2>4. /\ call' \in [Threads -> CallState]
          /\ \A u \in Threads : call'[u].at # "idle" => call'[u].to \in Actors
      <3>0. call \in [Threads -> CallState] /\ call[t] \in CallState
        BY DEF TypeOK
      <3>1. CASE call' = call
        BY <3>0, <3>1 DEF Shaped
      <3>2. CASE call' # call
        <4>1. call' = [call EXCEPT ![t] = [call[t] EXCEPT !.at = "place"]]
          BY <2>1, <3>2
        <4>2. call[t].at = "unset"
          BY <1>2, <3>2 DEF LetGoSystem
        <4>3. [call[t] EXCEPT !.at = "place"] \in CallState
              /\ [call[t] EXCEPT !.at = "place"].to = call[t].to
          BY <3>0, CallPut DEF CallState
        <4>4. call[t].to \in Actors
          BY <4>2 DEF Shaped
        <4>5. QED
          BY <4>1, <4>3, <4>4, CallTyped
      <3>3. QED
        BY <3>1, <3>2
    <2>5. QED
      BY <2>1, <2>3, <2>4 DEF TypeOK, Shaped, roots, counts
  <1>3. QED
    BY <1>1, <1>2

\* Whom the registry or a message's sender names is an actor that is held.
LEMMA Named ==
  ASSUME TypeOK
  PROVE  /\ \A s \in Slots : Found(s) # None => Found(s) \in Actors /\ Held(Found(s))
         /\ \A a \in Actors : /\ Sender(a) \subseteq Actors
                              /\ Sender(a) # {} => /\ Sender(a) = {msg[a].from}
                                                   /\ msg[a].from \in Actors
  BY DEF TypeOK, Found, Sender, Cell

LEMMA ClientTyped ==
  ASSUME TypeOK, Shaped, NEW c \in Clients, Send(c) \/ Stop(c)
  PROVE  TypeOK' /\ Shaped'
  <1>0. c \in Threads
    BY Constants
  <1>1. CASE Send(c)
    <2>1. PICK r \in Slots : \E s \in Slots \union {None} :
            LET to == Found(r)
                from == IF s = None THEN None ELSE Found(s)
            IN /\ to # None /\ (s # None => from # None /\ actor[from].alive)
               /\ refs' = [refs EXCEPT ![c] = @ \union ({to, from} \ {None})]
               /\ call' = [call EXCEPT ![c] = [at |-> "alive", to |-> to, from |-> from]]
               /\ asked' = (asked \/ from # None)
               /\ sent' = sent + (IF from = None THEN 1 ELSE 2) /\ sent' <= MaxMessages
      BY <1>1 DEF Send
    <2> DEFINE to == Found(r)
    <2>2. PICK from \in Actors \union {None} :
            /\ to # None
            /\ refs' = [refs EXCEPT ![c] = refs[c] \union ({to, from} \ {None})]
            /\ call' = [call EXCEPT ![c] = [at |-> "alive", to |-> to, from |-> from]]
            /\ asked' = (asked \/ from # None)
            /\ sent' = sent + (IF from = None THEN 1 ELSE 2)
      BY <2>1, Named
    <2>3. to \in Actors
      BY <2>2, Named
    <2>4. [at |-> "alive", to |-> to, from |-> from] \in CallState
      BY <2>3 DEF CallState
    <2> DEFINE x == [at |-> "alive", to |-> to, from |-> from]
    <2>5. x.to \in Actors /\ x \in CallState /\ call' = [call EXCEPT ![c] = x]
      BY <2>2, <2>3, <2>4
    <2> HIDE DEF to, x
    <2>6. /\ call' \in [Threads -> CallState]
          /\ \A u \in Threads : call'[u].at # "idle" => call'[u].to \in Actors
      BY <1>0, <2>5, CallTyped
    <2>7. refs' \in [Threads -> SUBSET Actors] /\ asked' \in BOOLEAN /\ sent' \in Nat
      BY <1>0, <2>2, <2>3 DEF TypeOK
    <2>8. UNCHANGED <<actor, disp, msg, roots, sysrefs, stop, bin, cleaner, system, crash,
                      made, thrown>>
      BY <1>1 DEF Send
    <2>9. QED
      BY <2>6, <2>7, <2>8 DEF TypeOK, Shaped, roots
  <1>2. CASE Stop(c)
    <2>1. PICK a \in refs[c] : stop' = [stop EXCEPT ![c] = [NoStop EXCEPT !.of = a]]
      BY <1>2 DEF Stop
    <2>2. a \in Actors
      BY <1>0, <2>1 DEF TypeOK
    <2>3. [NoStop EXCEPT !.of = a] \in StopState /\ [NoStop EXCEPT !.of = a].of = a
      BY <2>2, CallPut DEF NoStop
    <2>4. stop \in [Threads -> StopState]
      BY DEF TypeOK
    <2>5. /\ stop' \in [Threads -> StopState]
          /\ \A u \in Threads : stop'[u] = IF u = c THEN [NoStop EXCEPT !.of = a] ELSE stop[u]
      BY <1>0, <2>1, <2>3, <2>4, Put
    <2>6. \A u \in Threads : stop'[u] # NoStop => stop'[u].of \in Actors
      BY <2>2, <2>3, <2>5 DEF Shaped
    <2>7. UNCHANGED <<actor, disp, msg, roots, refs, sysrefs, call, bin, cleaner, system,
                      crash, counts>>
      BY <1>2 DEF Stop
    <2>8. QED
      BY <2>5, <2>6, <2>7 DEF TypeOK, Shaped, roots, counts
  <1>3. QED
    BY <1>1, <1>2

\* A dispatcher's step that moves it and may change its own actor.
LEMMA DispTyped ==
  ASSUME TypeOK, Shaped, NEW a \in Actors,
         NEW d \in {"loop", "acquire", "pop", "task", "fail", "log", "look", "exit", "drain",
                    "drainTask", "report", "bin", "done"},
         disp' = [disp EXCEPT ![a] = d],
         actor' \in [Actors -> ActorState], msg' \in [Actors -> Cell],
         refs' \in [Threads -> SUBSET Actors], sysrefs' \subseteq Threads,
         call' \in [Threads -> CallState],
         \A u \in Threads : call'[u].at # "idle" => call'[u].to \in Actors,
         bin' \in Seq(Ids), crash' \in {crash, "noself"}, thrown' \in Nat,
         UNCHANGED <<roots, stop, cleaner, system, made, sent, asked>>
  PROVE  TypeOK' /\ Shaped'
  <1>1. disp' \in [Actors -> {"none", "loop", "acquire", "pop", "task", "fail", "log", "look",
                              "exit", "drain", "drainTask", "report", "bin", "done"}]
    BY DEF TypeOK
  <1>2. QED
    BY <1>1 DEF TypeOK, Shaped, roots

LEMMA LoopTyped ==
  ASSUME TypeOK, Shaped, NEW a \in Actors,
         CheckMailbox(a) \/ Acquire(a) \/ Pop(a) \/ PopNothing(a)
  PROVE  TypeOK' /\ Shaped'
  <1>0. actor \in [Actors -> ActorState] /\ actor[a] \in ActorState
        /\ actor[a].mail \in Seq(Cell) /\ actor[a].tokens \in Nat
    BY DEF TypeOK, ActorState
  <1>1. \E d \in {"acquire", "exit", "pop", "task", "drainTask", "loop", "report"} :
           disp' = [disp EXCEPT ![a] = d]
    BY DEF CheckMailbox, Acquire, Pop, PopNothing, DispGoto
  <1>2. UNCHANGED <<still, counts>>
    BY DEF CheckMailbox, Acquire, Pop, PopNothing
  <1>3. actor' \in [Actors -> ActorState] /\ msg' \in [Actors -> Cell]
    <2>1. CASE CheckMailbox(a) \/ PopNothing(a)
      BY <2>1 DEF CheckMailbox, PopNothing, TypeOK
    <2>2. CASE Acquire(a)
      <3>1. actor[a].tokens - 1 \in Nat
        BY <1>0, <2>2 DEF Acquire
      <3>2. [actor[a] EXCEPT !.tokens = actor[a].tokens - 1] \in ActorState
        BY <1>0, <3>1, ActorPut
      <3>3. actor' = [actor EXCEPT ![a] = [actor[a] EXCEPT !.tokens = actor[a].tokens - 1]]
        BY <2>2 DEF Acquire
      <3>4. msg' = msg
        BY <2>2 DEF Acquire
      <3>5. QED
        BY <1>0, <3>2, <3>3, <3>4, Put DEF TypeOK
    <2>3. CASE Pop(a)
      <3>1. actor[a].mail # <<>>
        BY <2>3 DEF Pop, Poppable
      <3>2. Head(actor[a].mail) \in Cell /\ Tail(actor[a].mail) \in Seq(Cell)
        BY <1>0, <3>1
      <3>3. [actor[a] EXCEPT !.mail = Tail(actor[a].mail)] \in ActorState
        BY <1>0, <3>2, ActorPut
      <3>4. /\ actor' = [actor EXCEPT ![a] = [actor[a] EXCEPT !.mail = Tail(actor[a].mail)]]
            /\ msg' = [msg EXCEPT ![a] = Head(actor[a].mail)]
        BY <2>3 DEF Pop
      <3>5. actor' \in [Actors -> ActorState]
        BY <1>0, <3>3, <3>4, Put
      <3>6. msg' \in [Actors -> Cell]
        BY <3>2, <3>4 DEF TypeOK
      <3>7. QED
        BY <3>5, <3>6
    <2>4. QED
      BY <2>1, <2>2, <2>3
  <1>4. QED
    BY <1>1, <1>2, <1>3, DispTyped DEF TypeOK, Shaped, still, roots, holders, counts

LEMMA TaskTyped ==
  ASSUME TypeOK, Shaped, NEW a \in Actors, Return(a) \/ Throw(a) \/ Fail(a) \/ Exit(a)
  PROVE  TypeOK' /\ Shaped'
  <1>0. /\ actor \in [Actors -> ActorState] /\ actor[a] \in ActorState
        /\ msg \in [Actors -> Cell] /\ a \in Threads
    BY Constants DEF TypeOK
  <1>1. CASE Return(a)
    <2>1. \E d \in {"loop", "drain"} : disp' = [disp EXCEPT ![a] = d]
      BY <1>1 DEF Return, DispGoto
    <2>2. /\ refs' = [refs EXCEPT ![a] = Sender(a)] /\ msg' = [msg EXCEPT ![a] = NoMessage]
          /\ UNCHANGED <<actor, roots, sysrefs, stop, bin, cleaner, system, crash, counts>>
      BY <1>1 DEF Return
    <2>3. refs' \in [Threads -> SUBSET Actors] /\ msg' \in [Actors -> Cell]
      BY <1>0, <2>2, Named, CallPut DEF TypeOK
    <2>4. /\ call' \in [Threads -> CallState]
          /\ \A u \in Threads : call'[u].at # "idle" => call'[u].to \in Actors
      <3>1. CASE call' = call
        BY <3>1 DEF TypeOK, Shaped
      <3>2. CASE call' # call
        <4>1. Sender(a) # {} /\ call' = [call EXCEPT ![a] =
                                           [Idle EXCEPT !.at = "alive", !.to = msg[a].from]]
          BY <1>1, <3>2 DEF Return
        <4>2. msg[a].from \in Actors
          BY <4>1, Named
        <4> DEFINE x == [Idle EXCEPT !.at = "alive", !.to = msg[a].from]
        <4>3. x \in CallState /\ x.to \in Actors /\ call' = [call EXCEPT ![a] = x]
          BY <4>1, <4>2, CallPut
        <4> HIDE DEF x
        <4>4. QED
          BY <1>0, <4>3, CallTyped
      <3>3. QED
        BY <3>1, <3>2
    <2>5. QED
      BY <2>1, <2>2, <2>3, <2>4, DispTyped DEF TypeOK, counts
  <1>2. CASE Throw(a) \/ Fail(a) \/ Exit(a)
    <2>1. \E d \in {"fail", "log", "drain", "report"} : disp' = [disp EXCEPT ![a] = d]
      BY <1>2 DEF Throw, Fail, Exit, DispGoto
    <2>2. /\ UNCHANGED <<msg, still, made, sent, asked>> /\ thrown' \in {thrown, thrown + 1}
          /\ \/ actor' = actor
             \/ actor' = [actor EXCEPT ![a] = [actor[a] EXCEPT !.alive = FALSE]]
             \/ \E v \in {"STOPPING", "FAILED"} :
                   actor' = [actor EXCEPT ![a] = [actor[a] EXCEPT !.status = v]]
      BY <1>2 DEF Throw, Fail, Exit, counts
    <2>3. actor' \in [Actors -> ActorState]
      <3>1. CASE actor' = actor
        BY <1>0, <3>1
      <3>2. CASE actor' = [actor EXCEPT ![a] = [actor[a] EXCEPT !.alive = FALSE]]
        <4>1. [actor[a] EXCEPT !.alive = FALSE] \in ActorState
          BY <1>0, ActorPut
        <4>2. QED
          BY <1>0, <3>2, <4>1, Put
      <3>3. ASSUME NEW v \in {"STOPPING", "FAILED"},
                   actor' = [actor EXCEPT ![a] = [actor[a] EXCEPT !.status = v]]
            PROVE  actor' \in [Actors -> ActorState]
        <4>1. [actor[a] EXCEPT !.status = v] \in ActorState
          BY <1>0, ActorPut
        <4>2. QED
          BY <1>0, <3>3, <4>1, Put
      <3>4. QED
        BY <2>2, <3>1, <3>2, <3>3
    <2>4. thrown' \in Nat
      BY <2>2 DEF TypeOK
    <2>5. QED
      BY <2>1, <2>2, <2>3, <2>4, DispTyped DEF TypeOK, Shaped, still, roots, holders
  <1>3. QED
    BY <1>1, <1>2

LEMMA FailureTyped ==
  ASSUME TypeOK, Shaped, NEW a \in Actors, Log(a) \/ Notice(a) \/ Report(a) \/ Bin(a)
  PROVE  TypeOK' /\ Shaped'
  <1>0. /\ a \in Threads /\ Sender(a) \subseteq Actors /\ refs \in [Threads -> SUBSET Actors]
        /\ sysrefs \subseteq Threads /\ msg \in [Actors -> Cell]
    BY Constants, Named DEF TypeOK
  <1>1. CASE Log(a)
    <2>1. \E d \in {"look", "loop", "report"} : disp' = [disp EXCEPT ![a] = d]
      BY <1>1 DEF Log, DispGoto, AfterLog
    <2>2. /\ sysrefs' \in {sysrefs, sysrefs \union {a}}
          /\ \E r \in {Sender(a), {}} : refs' = [refs EXCEPT ![a] = r]
          /\ msg' \in {msg, [msg EXCEPT ![a] = NoMessage]}
          /\ UNCHANGED <<actor, roots, stop, call, bin, cleaner, system, crash, counts>>
      BY <1>1 DEF Log
    <2>3. refs' \in [Threads -> SUBSET Actors]
      BY <1>0, <2>2
    <2>4. sysrefs' \subseteq Threads
      BY <1>0, <2>2
    <2>5. msg' \in [Actors -> Cell]
      <3>1. NoMessage \in Cell
        BY CallPut
      <3>2. [msg EXCEPT ![a] = NoMessage] \in [Actors -> Cell]
        BY <1>0, <3>1, Put
      <3>3. QED
        BY <1>0, <2>2, <3>2
    <2>6. QED
      BY <2>1, <2>2, <2>3, <2>4, <2>5, DispTyped DEF TypeOK, Shaped, counts
  <1>2. CASE Notice(a)
    <2> DEFINE to == Found(actor[msg[a].from].slot)
    <2>1. \E d \in {"loop", "report"} : disp' = [disp EXCEPT ![a] = d]
      BY <1>2 DEF Notice, AfterLog
    <2>2. /\ msg' = [msg EXCEPT ![a] = NoMessage]
          /\ refs' = [refs EXCEPT ![a] = refs[a] \union ({to} \ {None})]
          /\ call' = IF to = None THEN call
                     ELSE [call EXCEPT ![a] = [Idle EXCEPT !.at = "alive", !.to = to]]
          /\ UNCHANGED <<actor, roots, sysrefs, stop, bin, cleaner, system, crash, counts>>
      BY <1>2 DEF Notice
    <2>3. to # None => to \in Actors
      BY DEF Found, Held, HeldIn, TypeOK
    <2> HIDE DEF to
    <2>4. refs' \in [Threads -> SUBSET Actors]
      BY <1>0, <2>2, <2>3
    <2>5. msg' \in [Actors -> Cell]
      <3>1. msg' = [msg EXCEPT ![a] = NoMessage] /\ NoMessage \in Cell
        BY <2>2, CallPut
      <3>2. QED
        BY <1>0, <3>1, Put
    <2>6. /\ call' \in [Threads -> CallState]
          /\ \A u \in Threads : call'[u].at # "idle" => call'[u].to \in Actors
      <3>1. CASE to = None
        BY <2>2, <3>1 DEF TypeOK, Shaped
      <3>2. CASE to # None
        <4> DEFINE x == [Idle EXCEPT !.at = "alive", !.to = to]
        <4>1. x \in CallState /\ x.to \in Actors /\ call' = [call EXCEPT ![a] = x]
          BY <2>2, <2>3, <3>2, CallPut
        <4> HIDE DEF x
        <4>2. QED
          BY <1>0, <4>1, CallTyped
      <3>3. QED
        BY <3>1, <3>2
    <2>7. QED
      BY <2>1, <2>2, <2>4, <2>5, <2>6, DispTyped DEF TypeOK, counts
  <1>3. CASE Report(a)
    <2>1. \E d \in {"bin", "done"} : disp' = [disp EXCEPT ![a] = d]
      BY <1>3 DEF Report, DispGoto
    <2>2. /\ crash' \in {crash, "noself"}
          /\ \E r \in {{a}, {}} : refs' = [refs EXCEPT ![a] = r]
          /\ sysrefs' \in {sysrefs, sysrefs \union {a}}
          /\ UNCHANGED <<actor, msg, roots, stop, call, bin, cleaner, system, counts>>
      BY <1>3 DEF Report
    <2>3. refs' \in [Threads -> SUBSET Actors]
      BY <1>0, <2>2
    <2>4. sysrefs' \subseteq Threads
      BY <1>0, <2>2
    <2>5. QED
      BY <2>1, <2>2, <2>3, <2>4, DispTyped DEF TypeOK, Shaped, counts
  <1>4. CASE Bin(a)
    <2>1. /\ disp' = [disp EXCEPT ![a] = "done"] /\ bin' = Append(bin, actor[a].id)
          /\ UNCHANGED <<actor, msg, roots, holders, call, cleaner, system, crash, counts>>
      BY <1>4 DEF Bin
    <2>2. bin' \in Seq(Ids)
      <3>1. bin \in Seq(Ids) /\ actor[a].id \in Ids
        BY DEF TypeOK, ActorState
      <3>2. QED
        BY <2>1, <3>1
    <2>3. QED
      BY <2>1, <2>2, DispTyped DEF TypeOK, Shaped, holders, counts
  <1>5. QED
    BY <1>1, <1>2, <1>3, <1>4

LEMMA CleanerTyped ==
  ASSUME TypeOK, Shaped, Take \/ Erase \/ Settled
  PROVE  TypeOK' /\ Shaped'
  <1> DEFINE CleanerState == [at : {"wait", "erase", "spawn", "settle", "gone"},
                              idx : 0 .. Total, old : Actors \union {None}]
  <1>0. cleaner \in CleanerState /\ Cleaner \in Threads /\ bin \in Seq(Ids)
    BY Constants DEF TypeOK
  <1>1. CASE Take
    <2>1. PICK idx \in IF Head(bin) = Wild THEN Indeterminate ELSE {Head(bin)} :
            \/ idx = Wild /\ Crash("wild")
            \/ /\ idx # Wild
               /\ bin' = Tail(bin)
               /\ cleaner' = IF idx = Total THEN [cleaner EXCEPT !.at = "gone"]
                             ELSE [at |-> "erase", idx |-> idx, old |-> pool[idx]]
               /\ refs' = IF idx = Total THEN refs
                          ELSE [refs EXCEPT ![Cleaner] = {pool[idx]} \ {None}]
               /\ UNCHANGED <<actor, disp, msg, roots, sysrefs, stop, call, system, crash, counts>>
      BY <1>1 DEF Take
    <2>2. CASE Crash("wild")
      BY <2>2, CrashTyped
    <2>3. CASE idx # Wild /\ ~Crash("wild")
      <3>1. bin # <<>>
        BY <1>1 DEF Take
      <3>2. idx \in 0 .. Total
        <4>1. Head(bin) \in Ids
          BY <1>0, <3>1
        <4>2. QED
          BY <2>1, <2>3, <4>1, ThreadsAssumption DEF Ids
      <3>3. bin' \in Seq(Ids)
        <4>1. bin' = Tail(bin)
          BY <2>1, <2>3
        <4>2. Tail(bin) \in Seq(Ids)
          BY <1>0, <3>1
        <4>3. QED
          BY <4>1, <4>2
      <3>4. idx # Total => idx \in Slots /\ pool[idx] \in Actors \union {None}
        BY <3>2, Constants DEF TypeOK, Slots
      <3>5. cleaner' \in CleanerState /\ (cleaner'.at \in {"erase", "spawn"} => cleaner'.idx < Total)
        BY <1>0, <2>1, <2>3, <3>2, <3>4, Constants DEF Slots
      <3>6. refs' \in [Threads -> SUBSET Actors]
        BY <2>1, <2>3, <3>4 DEF TypeOK
      <3>7. UNCHANGED <<actor, disp, msg, roots, sysrefs, stop, call, system, crash, counts>>
        BY <2>1, <2>3
      <3>8. QED
        BY <3>3, <3>5, <3>6, <3>7 DEF TypeOK, Shaped, roots, counts
    <2>4. QED
      BY <2>1, <2>2, <2>3
  <1>2. CASE Erase
    <2>1. cleaner.idx \in Slots
      BY <1>0, <1>2, Constants DEF Erase, Cleaning, Shaped, Slots
    <2>2. Unregister(Cleaner, cleaner.idx)
      BY <1>2 DEF Erase
    <2>3. /\ pool' \in [Slots -> Actors \union {None}] /\ registry' \in [Slots -> Actors \union {None}]
          /\ locked' \in Threads \union {None} /\ refs' \in [Threads -> SUBSET Actors]
          /\ stop' \in [Threads -> StopState]
          /\ \A u \in Threads : stop'[u] # NoStop => stop'[u].of \in Actors
      BY <1>0, <2>1, <2>2, UnregisterTyped
    <2>4. /\ cleaner' = [cleaner EXCEPT !.at = IF cleaner.old = None THEN "settle" ELSE "spawn"]
          /\ UNCHANGED <<actor, disp, msg, sysrefs, call, bin, system, crash, counts>>
      BY <1>2 DEF Erase
    <2>5. cleaner' \in CleanerState /\ cleaner'.idx < Total
      BY <1>0, <2>1, <2>4, Constants DEF Slots
    <2>6. QED
      BY <2>3, <2>4, <2>5 DEF TypeOK, Shaped, counts
  <1>3. CASE Settled
    <2>1. /\ cleaner' = [cleaner EXCEPT !.at = "wait", !.old = None]
          /\ UNCHANGED <<actor, disp, msg, roots, holders, call, bin, system, crash, counts>>
      BY <1>3 DEF Settled
    <2>2. cleaner' \in CleanerState /\ cleaner'.at = "wait"
      BY <1>0, <2>1
    <2>3. QED
      BY <2>1, <2>2 DEF TypeOK, Shaped, roots, holders, counts
  <1>4. QED
    BY <1>1, <1>2, <1>3

LEMMA SystemTyped ==
  ASSUME TypeOK, Shaped, NEW t \in Threads, JoinCleaner(t) \/ Clear(t) \/ Destroyed(t)
  PROVE  TypeOK' /\ Shaped'
  <1> DEFINE SystemState == [at : {"up", "join", "clear", "gone"}, next : 0 .. Total,
                             by : Threads \union {None}]
  <1>0. system \in SystemState
    BY DEF TypeOK
  <1>1. CASE Crash("selfjoin")
    BY <1>1, CrashTyped
  <1>2. CASE (JoinCleaner(t) /\ ~Crash("selfjoin")) \/ Destroyed(t)
    <2>1. /\ system' = [system EXCEPT !.at = "clear"] \/ system' = [system EXCEPT !.at = "gone", !.by = None]
          /\ UNCHANGED <<actor, disp, msg, roots, holders, call, bin, cleaner, crash, counts>>
      BY <1>2 DEF JoinCleaner, Destroyed
    <2>2. system' \in SystemState
      BY <1>0, <2>1
    <2>3. QED
      BY <2>1, <2>2 DEF TypeOK, Shaped, roots, holders, counts
  <1>3. CASE Clear(t)
    <2>1. system.next \in Slots
      BY <1>0, <1>3, Constants DEF Clear, Slots
    <2>2. Unregister(t, system.next)
      BY <1>3 DEF Clear
    <2>3. /\ pool' \in [Slots -> Actors \union {None}] /\ registry' \in [Slots -> Actors \union {None}]
          /\ locked' \in Threads \union {None} /\ refs' \in [Threads -> SUBSET Actors]
          /\ stop' \in [Threads -> StopState]
          /\ \A u \in Threads : stop'[u] # NoStop => stop'[u].of \in Actors
      BY <2>1, <2>2, UnregisterTyped
    <2>4. /\ system' = [system EXCEPT !.next = system.next + 1]
          /\ UNCHANGED <<actor, disp, msg, sysrefs, call, bin, cleaner, crash, counts>>
      BY <1>3 DEF Clear
    <2>5. system' \in SystemState
      BY <1>0, <2>1, <2>4, Constants DEF Slots
    <2>6. QED
      BY <2>3, <2>4, <2>5 DEF TypeOK, Shaped, counts
  <1>4. QED
    BY <1>1, <1>2, <1>3

LEMMA Initially == Init => TypeOK /\ Shaped
  <1> SUFFICES ASSUME Init PROVE TypeOK /\ Shaped
    OBVIOUS
  <1>1. Unborn \in ActorState
    <2>1. 0 \in Ids /\ 0 \in Slots /\ <<>> \in Seq(Cell)
      BY Constants DEF Ids, Slots
    <2>2. QED
      BY <2>1 DEF Unborn, ActorState
  <1>2. actor \in [Actors -> ActorState] /\ msg \in [Actors -> Cell]
        /\ call \in [Threads -> CallState] /\ stop \in [Threads -> StopState]
    BY <1>1, CallPut DEF Init
  <1>3. TypeOK
    <2>1. /\ disp \in [Actors -> {"none", "loop", "acquire", "pop", "task", "fail", "log",
                                 "look", "exit", "drain", "drainTask", "report", "bin", "done"}]
          /\ pool \in [Slots -> Actors \union {None}]
          /\ registry \in [Slots -> Actors \union {None}]
      BY DEF Init
    <2>2. /\ refs \in [Threads -> SUBSET Actors] /\ sysrefs \subseteq Threads
          /\ locked \in Threads \union {None}
      BY Constants DEF Init
    <2>3. bin \in Seq(Ids)
      BY DEF Init
    <2>4. 0 \in 0 .. Total
      BY Constants
    <2>5. cleaner \in [at : {"wait", "erase", "spawn", "settle", "gone"}, idx : 0 .. Total,
                      old : Actors \union {None}]
      BY <2>4 DEF Init
    <2>6. system \in [at : {"up", "join", "clear", "gone"}, next : 0 .. Total,
                     by : Threads \union {None}]
      BY <2>4 DEF Init
    <2>7. /\ crash \in {"no", "unjoined", "twojoins", "selfjoin", "nosystem", "noself", "wild"}
          /\ made \in 0 .. MaxActors /\ sent \in Nat /\ thrown \in Nat /\ asked \in BOOLEAN
      <3>1. 0 \in 0 .. MaxActors
        BY Constants
      <3>2. QED
        BY <3>1 DEF Init
    <2>8. QED
      BY <1>2, <2>1, <2>2, <2>3, <2>5, <2>6, <2>7 DEF TypeOK
  <1>4. Shaped
    BY DEF Init, Shaped, Idle
  <1>5. QED
    BY <1>3, <1>4

LEMMA TypeStep ==
  ASSUME TypeOK, Shaped, Next
  PROVE  TypeOK' /\ Shaped'
  <1>1. ASSUME NEW t \in Threads, Calling(t) PROVE TypeOK' /\ Shaped'
    BY <1>1, StopTyped, MailTyped, PlaceTyped, SystemTyped DEF Calling
  <1>2. ASSUME NEW a \in Actors, Dispatching(a) PROVE TypeOK' /\ Shaped'
    BY <1>2, LoopTyped, TaskTyped, FailureTyped, LetGoTyped, Constants DEF Dispatching
  <1>3. CASE CleaningUp
    BY <1>3, CleanerTyped, SpawnTyped, LetGoTyped, Constants DEF CleaningUp
  <1>4. ASSUME NEW c \in Clients, Using(c) PROVE TypeOK' /\ Shaped'
    BY <1>4, SpawnTyped, ClientTyped, LetGoTyped, Constants DEF Using
  <1>5. QED
    BY <1>1, <1>2, <1>3, <1>4 DEF Next

-----------------------------------------------------------------------------
(* The semaphore counts the messages                                       *)

\* The threads between their ticket of a's mailbox and its semaphore.
Sending(a) == {t \in Threads : call[t].to = a /\ call[t].at \in {"publish", "signal"}}

LEMMA Tally ==
  ASSUME NEW a \in Actors
  PROVE  /\ Counted(a) <=> Len(actor[a].mail) <= actor[a].tokens + Cardinality(Sending(a))
                                                   + (IF disp[a] = "pop" THEN 1 ELSE 0)
         /\ Counted(a)' <=> Len(actor'[a].mail) <= actor'[a].tokens + Cardinality(Sending(a)')
                                                   + (IF disp'[a] = "pop" THEN 1 ELSE 0)
         /\ IsFiniteSet(Sending(a)) /\ Cardinality(Sending(a)) \in Nat
         /\ IsFiniteSet(Sending(a)') /\ Cardinality(Sending(a)') \in Nat
  <1>1. Sending(a) \subseteq Threads /\ Sending(a)' \subseteq Threads
    BY DEF Sending
  <1>2. IsFiniteSet(Sending(a)) /\ IsFiniteSet(Sending(a)')
    BY <1>1, Constants, FS_Subset
  <1>3. Cardinality(Sending(a)) \in Nat /\ Cardinality(Sending(a)') \in Nat
    BY <1>2, FS_CardinalityType
  <1>4. Counted(a) <=> Len(actor[a].mail) <= actor[a].tokens + Cardinality(Sending(a))
                                                   + (IF disp[a] = "pop" THEN 1 ELSE 0)
    BY DEF Counted, Sending
  <1>5. Counted(a)' <=> Len(actor'[a].mail) <= actor'[a].tokens + Cardinality(Sending(a)')
                                                   + (IF disp'[a] = "pop" THEN 1 ELSE 0)
    BY DEF Counted, Sending
  <1>6. QED
    BY <1>2, <1>3, <1>4, <1>5

LEMMA MailFacts ==
  ASSUME NEW x \in ActorState
  PROVE  /\ x.mail \in Seq(Cell) /\ Len(x.mail) \in Nat /\ x.tokens \in Nat
         /\ x.overlapped \in BOOLEAN
         /\ \A i \in 1 .. Len(x.mail) : x.mail[i] \in Cell /\ x.mail[i].by \in Threads \union {None}
  <1>1. x.mail \in Seq(Cell) /\ x.tokens \in Nat /\ x.overlapped \in BOOLEAN
    BY DEF ActorState
  <1>2. Len(x.mail) \in Nat /\ \A i \in 1 .. Len(x.mail) : x.mail[i] \in Cell
    BY <1>1
  <1>3. \A c \in Cell : c.by \in Threads \union {None}
    BY DEF Cell
  <1>4. QED
    BY <1>1, <1>2, <1>3

\* A step leaves a's mailbox, semaphore and pop alone, or the mailbox is empty.
Apart(a) == \/ actor'[a].mail = <<>>
            \/ /\ actor'[a].mail = actor[a].mail
               /\ actor'[a].overlapped = actor[a].overlapped
               /\ actor'[a].tokens >= actor[a].tokens
               /\ disp[a] = "pop" => disp'[a] = "pop"

\* It is not one of a thread between its ticket and the semaphore.
Elsewhere == \A t \in Threads :
               \/ call'[t] = call[t]
               \/ call[t].at \notin {"publish", "signal"} /\ call'[t].at \notin {"publish", "signal"}

\* What such a step keeps.
LEMMA Aside ==
  ASSUME TypeOK, TypeOK', Mailed, Tokens, \A a \in Actors : Apart(a), Elsewhere,
         \A a \in Actors : disp'[a] = "look" => call'[a] = Idle
  PROVE  Mailed' /\ Tokens'
  <1>1. \A a \in Actors : Sending(a)' = Sending(a)
    BY DEF Elsewhere, Sending
  <1>2. ASSUME NEW a \in Actors, ~actor'[a].overlapped PROVE Counted(a)'
    <2>1. actor'[a].tokens \in Nat /\ actor[a].tokens \in Nat /\ Len(actor[a].mail) \in Nat
      <3>1. actor[a] \in ActorState /\ actor'[a] \in ActorState
        BY DEF TypeOK
      <3>2. QED
        BY <3>1, MailFacts
    <2>2. CASE actor'[a].mail = <<>>
      <3>1. Len(actor'[a].mail) = 0
        BY <2>2
      <3>2. QED
        BY <2>1, <3>1, Tally
    <2>3. CASE actor'[a].mail # <<>>
      <3>1. /\ actor'[a].mail = actor[a].mail /\ ~actor[a].overlapped
            /\ actor'[a].tokens >= actor[a].tokens /\ (disp[a] = "pop" => disp'[a] = "pop")
        BY <1>2, <2>3 DEF Apart
      <3>2. Counted(a)
        BY <3>1 DEF Tokens
      <3>3. /\ Cardinality(Sending(a)') = Cardinality(Sending(a))
            /\ Cardinality(Sending(a)) \in Nat
        BY <1>1, Tally
      <3>4. Len(actor[a].mail) <= actor[a].tokens + Cardinality(Sending(a))
                                    + (IF disp[a] = "pop" THEN 1 ELSE 0)
        BY <3>2, Tally
      <3>5. Len(actor'[a].mail) <= actor'[a].tokens + Cardinality(Sending(a)')
                                     + (IF disp'[a] = "pop" THEN 1 ELSE 0)
        <4>1. \A l, n, m, c \in Nat, i, j \in {0, 1} :
                 l <= n + c + i /\ m >= n /\ (i = 1 => j = 1) => l <= m + c + j
          OBVIOUS
        <4> DEFINE i == IF disp[a] = "pop" THEN 1 ELSE 0
                   j == IF disp'[a] = "pop" THEN 1 ELSE 0
        <4>2. i \in {0, 1} /\ j \in {0, 1} /\ (i = 1 => j = 1)
          BY <3>1
        <4>3. Len(actor'[a].mail) = Len(actor[a].mail)
          BY <3>1
        <4>4. Len(actor[a].mail) <= actor'[a].tokens + Cardinality(Sending(a)) + j
          BY <2>1, <3>1, <3>3, <3>4, <4>1, <4>2
        <4>5. QED
          BY <3>3, <4>3, <4>4
      <3>6. QED
        BY <3>5, Tally
    <2>4. QED
      BY <2>2, <2>3
  <1>3. ASSUME NEW a \in Actors, NEW i \in 1 .. Len(actor'[a].mail),
               Unpublished(actor'[a].mail[i])
        PROVE  /\ call'[actor'[a].mail[i].by].at = "publish"
               /\ call'[actor'[a].mail[i].by].to = a
    <2>1. actor'[a].mail = actor[a].mail
      <3>1. actor'[a].mail = <<>> => Len(actor'[a].mail) = 0
        OBVIOUS
      <3>2. QED
        BY <3>1 DEF Apart
    <2>2. /\ call[actor[a].mail[i].by].at = "publish" /\ call[actor[a].mail[i].by].to = a
          /\ actor[a].mail[i].by \in Threads
      <3>1. actor[a] \in ActorState
        BY DEF TypeOK
      <3>2. actor[a].mail[i].by \in Threads
        BY <1>3, <2>1, <3>1, MailFacts DEF Unpublished
      <3>3. QED
        BY <1>3, <2>1, <3>2 DEF Mailed
    <2>3. QED
      BY <2>1, <2>2 DEF Elsewhere
  <1>4. ASSUME NEW a \in Actors, ~actor'[a].overlapped, NEW i \in 1 .. Len(actor'[a].mail) - 1
        PROVE  ~Unpublished(actor'[a].mail[i])
    <2>1. actor'[a].mail = actor[a].mail /\ ~actor[a].overlapped
      <3>1. actor'[a].mail = <<>> => Len(actor'[a].mail) = 0
        OBVIOUS
      <3>2. QED
        BY <1>4, <3>1 DEF Apart
    <2>2. QED
      BY <2>1 DEF Mailed
  <1>5. Tokens'
    BY <1>2 DEF Tokens
  <1>6. Mailed'
    BY <1>3, <1>4 DEF Mailed
  <1>7. QED
    BY <1>5, <1>6

LEMMA CountedKept ==
  ASSUME NEW a \in Actors, Counted(a), actor'[a] = actor[a], Sending(a)' = Sending(a),
         disp'[a] = disp[a]
  PROVE  Counted(a)'
  BY Tally

\* A ticket adds a message, and its thread to those between ticket and semaphore.
LEMMA PushCounted ==
  ASSUME TypeOK, Shaped, Mailed, Tokens, NEW t \in Threads, Push(t)
  PROVE  Mailed' /\ Tokens'
  <1>a. PICK a \in Actors : a = call[t].to
    BY DEF Push, At, Shaped
  <1> DEFINE mail == actor[a].mail
             cell == [by |-> t, from |-> call[t].from]
  <1>0. /\ actor[a] \in ActorState /\ actor \in [Actors -> ActorState]
        /\ call[t].at = "push" /\ disp' = disp /\ call \in [Threads -> CallState]
    BY DEF Push, At, TypeOK, mailing
  <1>1. /\ actor' = [actor EXCEPT ![a] = [actor[a] EXCEPT !.mail = Append(mail, cell),
              !.overlapped = actor[a].overlapped \/ \E i \in 1 .. Len(mail) : Unpublished(mail[i])]]
        /\ call' = [call EXCEPT ![t] = [call[t] EXCEPT !.at = "publish"]]
    BY <1>a DEF Push, Goto
  <1>2. /\ \A b \in Actors : b # a => actor'[b] = actor[b]
        /\ \A u \in Threads : u # t => call'[u] = call[u]
        /\ call'[t].at = "publish" /\ call'[t].to = a
    BY <1>a, <1>0, <1>1 DEF CallState
  <1>3. /\ actor'[a].mail = Append(mail, cell) /\ actor'[a].tokens = actor[a].tokens
        /\ actor'[a].overlapped
             = (actor[a].overlapped \/ \E i \in 1 .. Len(mail) : Unpublished(mail[i]))
    BY <1>0, <1>1 DEF ActorState
  <1>4. mail \in Seq(Cell) /\ Len(mail) \in Nat /\ actor[a].tokens \in Nat
        /\ \A i \in 1 .. Len(mail) : mail[i].by \in Threads \union {None}
    BY <1>0, MailFacts
  <1>5. /\ Len(Append(mail, cell)) = Len(mail) + 1
        /\ \A i \in 1 .. Len(mail) : Append(mail, cell)[i] = mail[i]
        /\ Append(mail, cell)[Len(mail) + 1] = cell
    BY <1>4
  <1>6. Sending(a)' = Sending(a) \union {t} /\ t \notin Sending(a)
    BY <1>a, <1>0, <1>2 DEF Sending
  <1>7. \A b \in Actors : b # a => Sending(b)' = Sending(b)
    BY <1>a, <1>0, <1>2 DEF Sending
  <1>8. Cardinality(Sending(a)') = Cardinality(Sending(a)) + 1
    BY <1>0, <1>6, Tally, FS_AddElement
  <1> HIDE DEF mail, cell
  <1>9. ASSUME NEW b \in Actors, ~actor'[b].overlapped PROVE Counted(b)'
    <2>1. CASE b # a
      BY <1>2, <1>7, <1>9, <1>0, <2>1, CountedKept DEF Tokens
    <2>2. CASE b = a
      <3>1. Len(mail) <= actor[a].tokens + Cardinality(Sending(a))
                           + (IF disp[a] = "pop" THEN 1 ELSE 0)
        BY <1>0, <1>3, <1>9, <2>2, Tally DEF Tokens, mail
      <3>2. Len(actor'[a].mail) = Len(mail) + 1
        BY <1>3, <1>5
      <3>3. Cardinality(Sending(a)) \in Nat
        BY <1>0, Tally
      <3>4. Len(actor'[a].mail) <= actor'[a].tokens + Cardinality(Sending(a)')
                                     + (IF disp'[a] = "pop" THEN 1 ELSE 0)
        BY <1>0, <1>3, <1>4, <1>8, <3>1, <3>2, <3>3
      <3>5. QED
        BY <1>0, <2>2, <3>4, Tally
    <2>3. QED
      BY <2>1, <2>2
  <1>10. ASSUME NEW b \in Actors, NEW i \in 1 .. Len(actor'[b].mail),
                Unpublished(actor'[b].mail[i])
         PROVE  /\ call'[actor'[b].mail[i].by].at = "publish"
                /\ call'[actor'[b].mail[i].by].to = b
    <2>1. CASE b = a /\ i = Len(mail) + 1
      BY <1>2, <1>3, <1>5, <2>1 DEF cell
    <2>2. CASE ~(b = a /\ i = Len(mail) + 1)
      <3>1. i \in 1 .. Len(actor[b].mail) /\ actor'[b].mail[i] = actor[b].mail[i]
        <4>1. CASE b # a
          BY <1>2, <1>10, <4>1
        <4>2. CASE b = a
          <5>1. i \in 1 .. Len(mail) + 1 /\ i # Len(mail) + 1
            BY <1>3, <1>5, <1>10, <2>2, <4>2
          <5>2. i \in 1 .. Len(mail)
            BY <1>4, <5>1
          <5>3. QED
            BY <1>3, <1>5, <4>2, <5>2 DEF mail
        <4>3. QED
          BY <4>1, <4>2
      <3>2. actor[b] \in ActorState
        BY <1>0
      <3>3. actor[b].mail[i].by \in Threads
        BY <1>10, <3>1, <3>2, MailFacts DEF Unpublished
      <3>4. call[actor[b].mail[i].by].at = "publish" /\ call[actor[b].mail[i].by].to = b
        BY <1>10, <3>1 DEF Mailed
      <3>5. actor[b].mail[i].by # t
        BY <1>0, <3>4
      <3>6. QED
        BY <1>2, <3>1, <3>3, <3>4, <3>5
    <2>3. QED
      BY <2>1, <2>2
  <1>11. ASSUME NEW b \in Actors, ~actor'[b].overlapped, NEW i \in 1 .. Len(actor'[b].mail) - 1
         PROVE  ~Unpublished(actor'[b].mail[i])
    <2>1. CASE b # a
      BY <1>2, <1>11, <2>1 DEF Mailed
    <2>2. CASE b = a
      <3>1. i \in 1 .. Len(mail)
        BY <1>3, <1>4, <1>5, <1>11, <2>2
      <3>2. QED
        BY <1>3, <1>5, <1>11, <2>2, <3>1
    <2>3. QED
      BY <2>1, <2>2
  <1>12. \A b \in Actors : disp'[b] = "look" => call'[b] = Idle
    <2>1. Actors \subseteq Threads
      BY Constants
    <2>2. QED
      BY <1>0, <1>2, <2>1 DEF Mailed, Idle
  <1>13. Tokens'
    BY <1>9 DEF Tokens
  <1>14. Mailed'
    BY <1>10, <1>11, <1>12 DEF Mailed
  <1>15. QED
    BY <1>13, <1>14

\* Publishing changes only whose the thread's own cells are.
LEMMA PublishCounted ==
  ASSUME TypeOK, Shaped, Mailed, Tokens, NEW t \in Threads, Publish(t)
  PROVE  Mailed' /\ Tokens'
  <1>a. PICK a \in Actors : a = call[t].to
    BY DEF Publish, At, Shaped
  <1> DEFINE mail == actor[a].mail
             m == [i \in 1 .. Len(mail) |->
                     IF mail[i].by = t THEN [mail[i] EXCEPT !.by = None] ELSE mail[i]]
  <1>0. /\ actor[a] \in ActorState /\ actor \in [Actors -> ActorState]
        /\ call[t].at = "publish" /\ disp' = disp /\ call \in [Threads -> CallState]
    BY DEF Publish, At, TypeOK, mailing
  <1>1. /\ actor' = [actor EXCEPT ![a] = [actor[a] EXCEPT !.mail = m]]
        /\ call' = [call EXCEPT ![t] = [call[t] EXCEPT !.at = "signal"]]
    BY <1>a DEF Publish, Goto
  <1>2. /\ \A b \in Actors : b # a => actor'[b] = actor[b]
        /\ \A u \in Threads : u # t => call'[u] = call[u]
        /\ call'[t].at = "signal" /\ call'[t].to = a
    BY <1>a, <1>0, <1>1 DEF CallState
  <1>3. /\ actor'[a].mail = m /\ actor'[a].tokens = actor[a].tokens
        /\ actor'[a].overlapped = actor[a].overlapped
    BY <1>0, <1>1 DEF ActorState
  <1>4. mail \in Seq(Cell) /\ Len(mail) \in Nat /\ actor[a].tokens \in Nat
        /\ \A i \in 1 .. Len(mail) : mail[i] \in Cell /\ mail[i].by \in Threads \union {None}
    BY <1>0, MailFacts
  <1>5. Len(m) = Len(mail)
    BY <1>4
  <1>6. \A b \in Actors : Sending(b)' = Sending(b)
    BY <1>a, <1>0, <1>2 DEF Sending
  <1>7. \A i \in 1 .. Len(mail) : Unpublished(m[i]) => m[i] = mail[i] /\ m[i].by # t
    BY <1>4 DEF Unpublished, Cell
  <1> HIDE DEF m
  <1>8. ASSUME NEW b \in Actors, ~actor'[b].overlapped PROVE Counted(b)'
    <2>1. ~actor[b].overlapped
      BY <1>2, <1>3, <1>8
    <2>2. Counted(b)
      BY <2>1 DEF Tokens
    <2>3. /\ Len(actor'[b].mail) = Len(actor[b].mail) /\ actor'[b].tokens = actor[b].tokens
          /\ Cardinality(Sending(b)') = Cardinality(Sending(b)) /\ disp'[b] = disp[b]
      BY <1>0, <1>2, <1>3, <1>5, <1>6
    <2>4. QED
      BY <2>2, <2>3, Tally
  <1>9. ASSUME NEW b \in Actors, NEW i \in 1 .. Len(actor'[b].mail),
               Unpublished(actor'[b].mail[i])
        PROVE  /\ call'[actor'[b].mail[i].by].at = "publish"
               /\ call'[actor'[b].mail[i].by].to = b
    <2>1. i \in 1 .. Len(actor[b].mail) /\ actor'[b].mail[i] = actor[b].mail[i]
      <3>1. CASE b # a
        BY <1>2, <1>9, <3>1
      <3>2. CASE b = a
        BY <1>3, <1>5, <1>7, <1>9, <3>2
      <3>3. QED
        BY <3>1, <3>2
    <2>2. call[actor[b].mail[i].by].at = "publish" /\ call[actor[b].mail[i].by].to = b
      BY <1>9, <2>1 DEF Mailed
    <2>3. actor[b].mail[i].by # t
      <3>1. CASE b # a
        BY <1>a, <2>2, <3>1
      <3>2. CASE b = a
        BY <1>3, <1>5, <1>7, <1>9, <2>1, <3>2
      <3>3. QED
        BY <3>1, <3>2
    <2>4. actor[b].mail[i].by \in Threads
      <3>1. actor[b] \in ActorState
        BY <1>0
      <3>2. QED
        BY <1>9, <2>1, <3>1, MailFacts DEF Unpublished
    <2>5. QED
      BY <1>2, <2>1, <2>2, <2>3, <2>4
  <1>10. ASSUME NEW b \in Actors, ~actor'[b].overlapped, NEW i \in 1 .. Len(actor'[b].mail) - 1
         PROVE  ~Unpublished(actor'[b].mail[i])
    <2>1. CASE b # a
      BY <1>2, <1>10, <2>1 DEF Mailed
    <2>2. CASE b = a
      <3>1. i \in 1 .. Len(mail) - 1 /\ i \in 1 .. Len(mail)
        BY <1>3, <1>4, <1>5, <1>10, <2>2
      <3>2. ~Unpublished(mail[i])
        BY <1>3, <1>10, <2>2, <3>1 DEF Mailed
      <3>3. QED
        BY <1>3, <1>7, <2>2, <3>1, <3>2
    <2>3. QED
      BY <2>1, <2>2
  <1>11. \A b \in Actors : disp'[b] = "look" => call'[b] = Idle
    <2>1. Actors \subseteq Threads
      BY Constants
    <2>2. QED
      BY <1>0, <1>2, <2>1 DEF Mailed, Idle
  <1>12. Tokens'
    BY <1>8 DEF Tokens
  <1>13. Mailed'
    BY <1>9, <1>10, <1>11 DEF Mailed
  <1>14. QED
    BY <1>12, <1>13

\* With its release, a thread is a token.
LEMMA SignalCounted ==
  ASSUME TypeOK, Shaped, Mailed, Tokens, NEW t \in Threads, Signal(t)
  PROVE  Mailed' /\ Tokens'
  <1>a. PICK a \in Actors : a = call[t].to
    BY DEF Signal, At, Shaped
  <1>0. /\ actor[a] \in ActorState /\ actor \in [Actors -> ActorState]
        /\ call[t].at = "signal" /\ disp' = disp /\ call \in [Threads -> CallState]
    BY DEF Signal, At, TypeOK, mailing
  <1>1. /\ actor' = [actor EXCEPT ![a] = [actor[a] EXCEPT !.tokens = actor[a].tokens + 1]]
        /\ call' = [call EXCEPT ![t] = Idle]
    BY <1>a DEF Signal
  <1>2. /\ \A b \in Actors : b # a => actor'[b] = actor[b]
        /\ \A u \in Threads : u # t => call'[u] = call[u]
        /\ call'[t] = Idle /\ Idle.at = "idle"
    BY <1>0, <1>1 DEF Idle
  <1>3. /\ actor'[a].tokens = actor[a].tokens + 1
        /\ \A b \in Actors : actor'[b].mail = actor[b].mail /\ actor'[b].overlapped = actor[b].overlapped
    BY <1>0, <1>1, <1>2 DEF ActorState
  <1>4. actor[a].tokens \in Nat /\ Len(actor[a].mail) \in Nat
    BY <1>0, MailFacts
  <1>5. Sending(a)' = Sending(a) \ {t} /\ t \in Sending(a)
    BY <1>a, <1>0, <1>2 DEF Sending
  <1>6. \A b \in Actors : b # a => Sending(b)' = Sending(b)
    BY <1>a, <1>0, <1>2 DEF Sending
  <1>7. Cardinality(Sending(a)') = Cardinality(Sending(a)) - 1
    BY <1>5, Tally, FS_RemoveElement
  <1>8. ASSUME NEW b \in Actors, ~actor'[b].overlapped PROVE Counted(b)'
    <2>0. Counted(b)
      BY <1>3, <1>8 DEF Tokens
    <2>1. CASE b # a
      BY <1>0, <1>2, <1>6, <2>0, <2>1, CountedKept
    <2>2. CASE b = a
      <3>1. Len(actor[a].mail) <= actor[a].tokens + Cardinality(Sending(a))
                                    + (IF disp[a] = "pop" THEN 1 ELSE 0)
        BY <2>0, <2>2, Tally
      <3>2. Cardinality(Sending(a)) \in Nat
        BY Tally
      <3>3. Len(actor'[a].mail) <= actor'[a].tokens + Cardinality(Sending(a)')
                                     + (IF disp'[a] = "pop" THEN 1 ELSE 0)
        BY <1>0, <1>3, <1>4, <1>7, <3>1, <3>2
      <3>4. QED
        BY <2>2, <3>3, Tally
    <2>3. QED
      BY <2>1, <2>2
  <1>9. ASSUME NEW b \in Actors, NEW i \in 1 .. Len(actor'[b].mail),
               Unpublished(actor'[b].mail[i])
        PROVE  /\ call'[actor'[b].mail[i].by].at = "publish"
               /\ call'[actor'[b].mail[i].by].to = b
    <2>1. actor'[b].mail = actor[b].mail /\ actor[b] \in ActorState
      BY <1>0, <1>3
    <2>2. /\ call[actor[b].mail[i].by].at = "publish" /\ call[actor[b].mail[i].by].to = b
          /\ actor[b].mail[i].by \in Threads
      BY <1>9, <2>1, MailFacts DEF Mailed, Unpublished
    <2>3. QED
      BY <1>0, <1>2, <2>1, <2>2
  <1>10. \A b \in Actors : ~actor'[b].overlapped =>
            \A i \in 1 .. Len(actor'[b].mail) - 1 : ~Unpublished(actor'[b].mail[i])
    BY <1>3 DEF Mailed
  <1>11. \A b \in Actors : disp'[b] = "look" => call'[b] = Idle
    <2>1. Actors \subseteq Threads
      BY Constants
    <2>2. QED
      BY <1>0, <1>2, <2>1 DEF Mailed
  <1>12. Tokens'
    BY <1>8 DEF Tokens
  <1>13. Mailed'
    BY <1>9, <1>10, <1>11 DEF Mailed
  <1>14. QED
    BY <1>12, <1>13

\* A dispatcher that acquires is about to pop instead.
LEMMA AcquireCounted ==
  ASSUME TypeOK, Mailed, Tokens, NEW a \in Actors, Acquire(a)
  PROVE  Mailed' /\ Tokens'
  <1>0. /\ actor[a] \in ActorState /\ actor \in [Actors -> ActorState]
        /\ disp[a] = "acquire" /\ actor[a].tokens > 0 /\ call' = call
        /\ disp \in [Actors -> {"none", "loop", "acquire", "pop", "task", "fail", "log",
                                "look", "exit", "drain", "drainTask", "report", "bin", "done"}]
    BY DEF Acquire, DispGoto, still, TypeOK
  <1>1. /\ actor' = [actor EXCEPT ![a] = [actor[a] EXCEPT !.tokens = actor[a].tokens - 1]]
        /\ disp' = [disp EXCEPT ![a] = "pop"]
    BY DEF Acquire, DispGoto
  <1>2. /\ \A b \in Actors : b # a => actor'[b] = actor[b] /\ disp'[b] = disp[b]
        /\ disp'[a] = "pop"
    BY <1>0, <1>1
  <1>3. /\ actor'[a].tokens = actor[a].tokens - 1
        /\ \A b \in Actors : actor'[b].mail = actor[b].mail /\ actor'[b].overlapped = actor[b].overlapped
    BY <1>0, <1>1, <1>2 DEF ActorState
  <1>4. actor[a].tokens \in Nat /\ Len(actor[a].mail) \in Nat
    BY <1>0, MailFacts
  <1>5. \A b \in Actors : Sending(b)' = Sending(b)
    BY <1>0 DEF Sending
  <1>6. ASSUME NEW b \in Actors, ~actor'[b].overlapped PROVE Counted(b)'
    <2>0. Counted(b)
      BY <1>3, <1>6 DEF Tokens
    <2>1. CASE b # a
      BY <1>2, <1>5, <2>0, <2>1, CountedKept
    <2>2. CASE b = a
      <3>1. Len(actor[a].mail) <= actor[a].tokens + Cardinality(Sending(a))
        <4>1. Len(actor[a].mail) <= actor[a].tokens + Cardinality(Sending(a))
                                      + (IF disp[a] = "pop" THEN 1 ELSE 0)
          BY <2>0, <2>2, Tally
        <4>2. Cardinality(Sending(a)) \in Nat
          BY Tally
        <4>3. QED
          BY <1>0, <1>4, <4>1, <4>2
      <3>2. Cardinality(Sending(a)) \in Nat /\ Cardinality(Sending(a)') = Cardinality(Sending(a))
        BY <1>5, Tally
      <3>3. Len(actor'[a].mail) <= actor'[a].tokens + Cardinality(Sending(a)')
                                     + (IF disp'[a] = "pop" THEN 1 ELSE 0)
        BY <1>2, <1>3, <1>4, <3>1, <3>2
      <3>4. QED
        BY <2>2, <3>3, Tally
    <2>3. QED
      BY <2>1, <2>2
  <1>7. Tokens'
    BY <1>6 DEF Tokens
  <1>8. Mailed'
    <2>1. \A b \in Actors : actor'[b].mail = actor[b].mail /\ (actor'[b].overlapped <=> actor[b].overlapped)
      BY <1>3
    <2>2. \A b \in Actors : disp'[b] = "look" => disp[b] = "look"
      BY <1>2
    <2>3. \A b \in Actors : \A i \in 1 .. Len(actor'[b].mail) :
             Unpublished(actor'[b].mail[i]) => /\ call'[actor'[b].mail[i].by].at = "publish"
                                               /\ call'[actor'[b].mail[i].by].to = b
      BY <1>0, <2>1 DEF Mailed
    <2>4. \A b \in Actors : ~actor'[b].overlapped =>
             \A i \in 1 .. Len(actor'[b].mail) - 1 : ~Unpublished(actor'[b].mail[i])
      BY <2>1 DEF Mailed
    <2>5. \A b \in Actors : disp'[b] = "look" => call'[b] = Idle
      BY <1>0, <2>2 DEF Mailed
    <2>6. QED
      BY <2>3, <2>4, <2>5 DEF Mailed
  <1>9. QED
    BY <1>7, <1>8

\* It takes the message with it.
LEMMA PopCounted ==
  ASSUME TypeOK, Mailed, Tokens, NEW a \in Actors, Pop(a)
  PROVE  Mailed' /\ Tokens'
  <1> DEFINE mail == actor[a].mail
  <1>0. /\ actor[a] \in ActorState /\ actor \in [Actors -> ActorState]
        /\ mail # <<>> /\ call' = call
        /\ disp \in [Actors -> {"none", "loop", "acquire", "pop", "task", "fail", "log",
                                "look", "exit", "drain", "drainTask", "report", "bin", "done"}]
    BY DEF Pop, Poppable, still, TypeOK
  <1>1. /\ actor' = [actor EXCEPT ![a] = [actor[a] EXCEPT !.mail = Tail(mail)]]
        /\ \E d \in {"task", "drainTask"} : disp' = [disp EXCEPT ![a] = d]
    BY DEF Pop, DispGoto
  <1>2. /\ \A b \in Actors : b # a => actor'[b] = actor[b] /\ disp'[b] = disp[b]
        /\ disp'[a] \in {"task", "drainTask"}
    BY <1>0, <1>1
  <1>3. /\ actor'[a].tokens = actor[a].tokens /\ actor'[a].mail = Tail(mail)
        /\ \A b \in Actors : actor'[b].overlapped = actor[b].overlapped
    BY <1>0, <1>1, <1>2 DEF ActorState
  <1>4. actor[a].tokens \in Nat /\ mail \in Seq(Cell) /\ Len(mail) \in Nat
    BY <1>0, MailFacts
  <1>5. \A b \in Actors : Sending(b)' = Sending(b)
    BY <1>0 DEF Sending
  <1>6. /\ Len(Tail(mail)) = Len(mail) - 1
        /\ \A i \in 1 .. Len(Tail(mail)) : Tail(mail)[i] = mail[i + 1]
    BY <1>0, <1>4
  <1> HIDE DEF mail
  <1>7. ASSUME NEW b \in Actors, ~actor'[b].overlapped PROVE Counted(b)'
    <2>0. Counted(b)
      BY <1>3, <1>7 DEF Tokens
    <2>1. CASE b # a
      BY <1>2, <1>5, <2>0, <2>1, CountedKept
    <2>2. CASE b = a
      <3>1. Len(mail) <= actor[a].tokens + Cardinality(Sending(a)) + 1
        <4>1. Len(mail) <= actor[a].tokens + Cardinality(Sending(a))
                             + (IF disp[a] = "pop" THEN 1 ELSE 0)
          BY <2>0, <2>2, Tally DEF mail
        <4>2. Cardinality(Sending(a)) \in Nat
          BY Tally
        <4>3. QED
          BY <1>4, <4>1, <4>2
      <3>2. Cardinality(Sending(a)) \in Nat /\ Cardinality(Sending(a)') = Cardinality(Sending(a))
        BY <1>5, Tally
      <3>3. Len(actor'[a].mail) <= actor'[a].tokens + Cardinality(Sending(a)')
                                     + (IF disp'[a] = "pop" THEN 1 ELSE 0)
        BY <1>2, <1>3, <1>4, <1>6, <3>1, <3>2
      <3>4. QED
        BY <2>2, <3>3, Tally
    <2>3. QED
      BY <2>1, <2>2
  <1>8. Tokens'
    BY <1>7 DEF Tokens
  <1>9. \A b \in Actors : \A i \in 1 .. Len(actor'[b].mail) :
           \E j \in 1 .. Len(actor[b].mail) :
              /\ actor'[b].mail[i] = actor[b].mail[j]
              /\ i \in 1 .. Len(actor'[b].mail) - 1 => j \in 1 .. Len(actor[b].mail) - 1
    <2> SUFFICES ASSUME NEW b \in Actors, NEW i \in 1 .. Len(actor'[b].mail)
                 PROVE  \E j \in 1 .. Len(actor[b].mail) :
                           /\ actor'[b].mail[i] = actor[b].mail[j]
                           /\ i \in 1 .. Len(actor'[b].mail) - 1
                                => j \in 1 .. Len(actor[b].mail) - 1
      OBVIOUS
    <2>1. CASE b # a
      BY <1>2, <2>1
    <2>2. CASE b = a
      <3>1. i \in 1 .. Len(mail) - 1
        BY <1>3, <1>6, <2>2
      <3>2. i + 1 \in 1 .. Len(mail)
        BY <1>4, <3>1
      <3>3. i \in 1 .. Len(mail) - 1 - 1 => i + 1 \in 1 .. Len(mail) - 1
        BY <1>4, <3>1
      <3>4. actor'[b].mail[i] = mail[i + 1] /\ Len(actor'[b].mail) = Len(mail) - 1
        BY <1>3, <1>6, <2>2
      <3>5. QED
        BY <2>2, <3>2, <3>3, <3>4 DEF mail
    <2>3. QED
      BY <2>1, <2>2
  <1>10. \A b \in Actors : \A i \in 1 .. Len(actor'[b].mail) :
           Unpublished(actor'[b].mail[i]) =>
             /\ call[actor'[b].mail[i].by].at = "publish"
             /\ call[actor'[b].mail[i].by].to = b
    <2> SUFFICES ASSUME NEW b \in Actors, NEW i \in 1 .. Len(actor'[b].mail),
                        Unpublished(actor'[b].mail[i])
                 PROVE  /\ call[actor'[b].mail[i].by].at = "publish"
                        /\ call[actor'[b].mail[i].by].to = b
      OBVIOUS
    <2>1. PICK j \in 1 .. Len(actor[b].mail) : actor'[b].mail[i] = actor[b].mail[j]
      BY <1>9
    <2>2. QED
      BY <2>1 DEF Mailed
  <1>11. \A b \in Actors : ~actor'[b].overlapped =>
            \A i \in 1 .. Len(actor'[b].mail) - 1 : ~Unpublished(actor'[b].mail[i])
    <2> SUFFICES ASSUME NEW b \in Actors, ~actor'[b].overlapped,
                        NEW i \in 1 .. Len(actor'[b].mail) - 1
                 PROVE  ~Unpublished(actor'[b].mail[i])
      OBVIOUS
    <2>1. Len(actor'[b].mail) \in Nat
      <3>1. CASE b # a
        BY <1>0, <1>2, <3>1, MailFacts
      <3>2. CASE b = a
        BY <1>3, <1>4, <3>2
      <3>3. QED
        BY <3>1, <3>2
    <2>2. i \in 1 .. Len(actor'[b].mail)
      BY <2>1
    <2>3. PICK j \in 1 .. Len(actor[b].mail) - 1 : actor'[b].mail[i] = actor[b].mail[j]
      BY <1>9, <2>2
    <2>4. QED
      BY <1>3, <2>3 DEF Mailed
  <1>12. \A b \in Actors : disp'[b] = "look" => call'[b] = Idle
    BY <1>0, <1>2 DEF Mailed
  <1>13. Mailed'
    BY <1>0, <1>10, <1>11, <1>12 DEF Mailed
  <1>14. QED
    BY <1>8, <1>13

\* If it finds nothing although there is mail, the mail is one message, and its
\* sender has the semaphore before it.
LEMMA PopNothingCounted ==
  ASSUME TypeOK, Mailed, Tokens, NEW a \in Actors, PopNothing(a)
  PROVE  Mailed' /\ Tokens'
  <1>0. /\ actor \in [Actors -> ActorState] /\ actor[a] \in ActorState
        /\ actor' = actor /\ call' = call /\ ~Poppable(a)
        /\ disp \in [Actors -> {"none", "loop", "acquire", "pop", "task", "fail", "log",
                                "look", "exit", "drain", "drainTask", "report", "bin", "done"}]
        /\ \E d \in {"loop", "report"} : disp' = [disp EXCEPT ![a] = d]
    BY DEF PopNothing, DispGoto, still, TypeOK
  <1>1. /\ \A b \in Actors : b # a => disp'[b] = disp[b]
        /\ disp'[a] \in {"loop", "report"}
    BY <1>0
  <1>2. \A b \in Actors : Sending(b)' = Sending(b)
    BY <1>0 DEF Sending
  <1>3. actor[a].mail \in Seq(Cell) /\ Len(actor[a].mail) \in Nat /\ actor[a].tokens \in Nat
        /\ \A i \in 1 .. Len(actor[a].mail) : actor[a].mail[i].by \in Threads \union {None}
    BY <1>0, MailFacts
  <1>4. ASSUME NEW b \in Actors, ~actor'[b].overlapped PROVE Counted(b)'
    <2>1. CASE b # a
      BY <1>0, <1>1, <1>2, <1>4, <2>1, CountedKept DEF Tokens
    <2>2. CASE b = a
      <3>1. Cardinality(Sending(a)) \in Nat /\ Cardinality(Sending(a)') = Cardinality(Sending(a))
        BY <1>2, Tally
      <3>2. Len(actor[a].mail) <= actor[a].tokens + Cardinality(Sending(a))
        <4>1. CASE actor[a].mail = <<>>
          <5>1. Len(actor[a].mail) = 0
            BY <4>1
          <5>2. QED
            BY <1>3, <3>1, <5>1
        <4>2. CASE actor[a].mail # <<>>
          <5>1. /\ Len(actor[a].mail) >= 1 /\ Unpublished(actor[a].mail[1])
            BY <1>0, <1>3, <4>2 DEF Poppable
          <5>2. 1 \notin 1 .. Len(actor[a].mail) - 1
            BY <1>0, <1>4, <2>2, <5>1 DEF Mailed
          <5>3. Len(actor[a].mail) = 1
            <6>1. \A n \in Nat : n >= 1 /\ n # 1 => 1 \in 1 .. n - 1
              OBVIOUS
            <6>2. QED
              BY <1>3, <5>1, <5>2, <6>1
          <5>4. PICK u \in Threads : u = actor[a].mail[1].by
            BY <1>3, <5>1, <5>3 DEF Unpublished
          <5>5. u \in Sending(a)
            BY <5>1, <5>3, <5>4 DEF Mailed, Sending
          <5>6. Cardinality(Sending(a)) # 0
            <6>1. IsFiniteSet(Sending(a)) /\ Sending(a) # {}
              BY <5>5, Tally
            <6>2. QED
              BY <6>1, FS_EmptySet
          <5>7. QED
            BY <1>3, <3>1, <5>3, <5>6
        <4>3. QED
          BY <4>1, <4>2
      <3>3. Len(actor'[a].mail) <= actor'[a].tokens + Cardinality(Sending(a)')
                                     + (IF disp'[a] = "pop" THEN 1 ELSE 0)
        BY <1>0, <1>1, <1>3, <3>1, <3>2
      <3>4. QED
        BY <2>2, <3>3, Tally
    <2>3. QED
      BY <2>1, <2>2
  <1>5. Tokens'
    BY <1>4 DEF Tokens
  <1>6. Mailed'
    BY <1>0, <1>1 DEF Mailed
  <1>7. QED
    BY <1>5, <1>6

\* A step that changes an actor's own flags, or destroys it, or only adds to its
\* semaphore.
LEMMA Spared ==
  ASSUME TypeOK, NEW a \in Actors, NEW x \in ActorState,
         actor' = actor \/ actor' = [actor EXCEPT ![a] = x],
         \/ x.mail = <<>>
         \/ x.mail = actor[a].mail /\ x.overlapped = actor[a].overlapped
              /\ x.tokens >= actor[a].tokens,
         \A b \in Actors : disp[b] = "pop" => disp'[b] = "pop"
  PROVE  \A b \in Actors : Apart(b)
  <1> SUFFICES ASSUME NEW b \in Actors PROVE Apart(b)
    OBVIOUS
  <1>1. actor[b] \in ActorState /\ actor \in [Actors -> ActorState]
    BY DEF TypeOK
  <1>2. actor[b].tokens \in Nat
    BY <1>1, MailFacts
  <1>3. actor'[b] = actor[b] \/ (b = a /\ actor'[b] = x)
    BY <1>1
  <1>4. QED
    BY <1>2, <1>3 DEF Apart

\* A call that neither begins nor ends between ticket and semaphore.
LEMMA CallAway ==
  ASSUME TypeOK, NEW t \in Threads, NEW v,
         call' = call \/ call' = [call EXCEPT ![t] = v],
         call[t].at \notin {"publish", "signal"}, v.at \notin {"publish", "signal"}
  PROVE  Elsewhere
  BY DEF TypeOK, Elsewhere

LEMMA ActorFields ==
  ASSUME NEW x \in ActorState
  PROVE  /\ \A n \in Nat : LET y == [x EXCEPT !.alive = FALSE, !.tokens = n]
                           IN y.mail = x.mail /\ y.overlapped = x.overlapped /\ y.tokens = n
         /\ LET y == [x EXCEPT !.alive = FALSE]
            IN y.mail = x.mail /\ y.overlapped = x.overlapped /\ y.tokens = x.tokens
         /\ \A w : LET y == [x EXCEPT !.status = w]
                   IN y.mail = x.mail /\ y.overlapped = x.overlapped /\ y.tokens = x.tokens
         /\ LET y == [x EXCEPT !.joined = TRUE, !.status = "STOPPED"]
            IN y.mail = x.mail /\ y.overlapped = x.overlapped /\ y.tokens = x.tokens
         /\ LET y == [x EXCEPT !.owned = TRUE]
            IN y.mail = x.mail /\ y.overlapped = x.overlapped /\ y.tokens = x.tokens
         /\ Freed(x).mail = <<>>
  BY DEF ActorState, Freed, Unborn

\* stopActor releases the semaphore, and ~Actor has nothing left to count.
LEMMA StopCounted ==
  ASSUME TypeOK, TypeOK', Shaped, Mailed, Tokens, NEW t \in Threads, StopBegin(t) \/ Join(t)
  PROVE  Mailed' /\ Tokens'
  <1>a. PICK a \in Actors : a = stop[t].of
    BY DEF StopBegin, Join, Stopping, Shaped
  <1>0. actor \in [Actors -> ActorState] /\ actor[a] \in ActorState /\ actor[a].tokens \in Nat
    BY MailFacts DEF TypeOK
  <1>1. disp' = disp /\ call' = call
    BY DEF StopBegin, Join, Crash
  <1>2. \A b \in Actors : Apart(b)
    <2>1. CASE actor' = actor
      BY <1>0, <1>1, <2>1, Spared
    <2>2. CASE /\ StopBegin(t) /\ actor' # actor
      <3>1. CASE actor' = [actor EXCEPT ![a] = Freed(actor[a])]
        BY <1>0, <1>1, <3>1, ActorFields, ActorPut, Spared
      <3>2. CASE actor' = [actor EXCEPT ![a].alive = FALSE, ![a].tokens = actor[a].tokens + 1]
        <4> DEFINE x == [actor[a] EXCEPT !.alive = FALSE, !.tokens = actor[a].tokens + 1]
        <4>1. actor[a].tokens + 1 \in Nat
          BY <1>0
        <4>2. x \in ActorState /\ x.mail = actor[a].mail /\ x.overlapped = actor[a].overlapped
              /\ x.tokens = actor[a].tokens + 1
          BY <1>0, <4>1, ActorPut, ActorFields
        <4>3. actor' = [actor EXCEPT ![a] = x]
          BY <1>0, <3>2
        <4> HIDE DEF x
        <4>4. x.tokens >= actor[a].tokens
          BY <1>0, <4>2
        <4>5. QED
          BY <1>1, <4>2, <4>3, <4>4, Spared
      <3>3. QED
        BY <1>a, <2>2, <3>1, <3>2 DEF StopBegin, Leave
    <2>3. CASE Join(t) /\ actor' # actor
      <3> DEFINE x == [actor[a] EXCEPT !.joined = TRUE, !.status = "STOPPED"]
      <3>1. x \in ActorState /\ x.mail = actor[a].mail /\ x.overlapped = actor[a].overlapped
            /\ x.tokens = actor[a].tokens
        BY <1>0, ActorPut, ActorFields
      <3>2. Freed(x) \in ActorState /\ Freed(x).mail = <<>>
        BY <3>1, ActorPut, ActorFields
      <3>3. Leave(t, a, [actor EXCEPT ![a] = x])
        <4>1. [actor EXCEPT ![a].joined = TRUE, ![a].status = "STOPPED"] = [actor EXCEPT ![a] = x]
          BY <1>0
        <4>2. QED
          BY <1>a, <2>3, <4>1 DEF Join, Crash
      <3>4. actor' = [actor EXCEPT ![a] = x] \/ actor' = [actor EXCEPT ![a] = Freed(x)]
        <4>1. [actor EXCEPT ![a] = x][a] = x
          BY <1>0
        <4>2. [[actor EXCEPT ![a] = x] EXCEPT ![a] = Freed(x)] = [actor EXCEPT ![a] = Freed(x)]
          BY <1>0
        <4>3. QED
          BY <3>3, <4>1, <4>2 DEF Leave
      <3> HIDE DEF x
      <3>5. CASE actor' = [actor EXCEPT ![a] = x]
        <4>1. x.tokens >= actor[a].tokens
          BY <1>0, <3>1
        <4>2. QED
          BY <1>1, <3>1, <3>5, <4>1, Spared
      <3>6. CASE actor' = [actor EXCEPT ![a] = Freed(x)]
        BY <1>1, <3>2, <3>6, Spared
      <3>7. QED
        BY <3>4, <3>5, <3>6
    <2>4. QED
      BY <2>1, <2>2, <2>3
  <1>3. Elsewhere
    BY <1>1 DEF Elsewhere
  <1>4. \A b \in Actors : disp'[b] = "look" => call'[b] = Idle
    BY <1>1 DEF Mailed
  <1>5. QED
    BY <1>2, <1>3, <1>4, Aside

\* A step of a call, of the spawning or of a client, outside the mailboxes.
LEMMA CallCounted ==
  ASSUME TypeOK, TypeOK', Shaped, Mailed, Tokens, NEW t \in Threads,
         \/ AddCheck(t) \/ GiveUp(t) \/ SetSystem(t) \/ Place(t) \/ LetGoSystem(t)
         \/ t \in Clients /\ Send(t)
  PROVE  Mailed' /\ Tokens'
  <1>0. actor \in [Actors -> ActorState] /\ call \in [Threads -> CallState]
    BY DEF TypeOK
  <1>1. disp' = disp
    BY DEF AddCheck, GiveUp, SetSystem, Place, LetGoSystem, Send, Crash, mailing
  <1>2. \A b \in Actors : Apart(b)
    <2>1. CASE actor' = actor
      BY <1>1, <2>1 DEF Apart, TypeOK, ActorState
    <2>2. CASE actor' # actor
      <3>1. PICK a \in Actors : a = call[t].to /\ actor' = [actor EXCEPT ![a].owned = TRUE]
        BY <2>2 DEF AddCheck, GiveUp, SetSystem, Place, LetGoSystem, Send, Crash, At, Shaped
      <3> DEFINE x == [actor[a] EXCEPT !.owned = TRUE]
      <3>2. actor' = [actor EXCEPT ![a] = x] /\ actor[a] \in ActorState
        BY <1>0, <3>1
      <3>3. x \in ActorState /\ x.mail = actor[a].mail /\ x.overlapped = actor[a].overlapped
            /\ x.tokens = actor[a].tokens /\ actor[a].tokens \in Nat
        BY <3>2, ActorPut, ActorFields, MailFacts
      <3> HIDE DEF x
      <3>4. x.tokens >= actor[a].tokens
        BY <3>3
      <3>5. QED
        BY <1>1, <3>2, <3>3, <3>4, Spared
    <2>3. QED
      BY <2>1, <2>2
  <1>3. \/ call' = call
        \/ call[t].at \in {"alive", "push", "set", "place", "unset"}
        \/ t \in Clients /\ call[t] = Idle
    BY DEF AddCheck, GiveUp, SetSystem, Place, LetGoSystem, Send, Crash, At
  <1>4. \E v : /\ call' = call \/ call' = [call EXCEPT ![t] = v]
               /\ v.at \notin {"publish", "signal"}
    <2>1. \/ call' = call
          \/ call' = [call EXCEPT ![t] = Idle]
          \/ \E w \in {"push", "unset", "place"} : call' = [call EXCEPT ![t] = [call[t] EXCEPT !.at = w]]
          \/ \E b, c : call' = [call EXCEPT ![t] = [at |-> "alive", to |-> b, from |-> c]]
      <3>1. CASE AddCheck(t) \/ GiveUp(t) \/ Place(t)
        BY <3>1 DEF AddCheck, GiveUp, Place
      <3>2. CASE SetSystem(t)
        BY <3>2 DEF SetSystem, Goto, Crash
      <3>3. CASE LetGoSystem(t)
        BY <1>0, <3>3 DEF LetGoSystem
      <3>4. CASE Send(t)
        BY <3>4 DEF Send
      <3>5. QED
        BY <3>1, <3>2, <3>3, <3>4
    <2>2. \A w \in {"push", "unset", "place"} : [call[t] EXCEPT !.at = w].at = w
      BY <1>0 DEF CallState
    <2>3. Idle.at = "idle"
      BY DEF Idle
    <2>4. \A b, c : [at |-> "alive", to |-> b, from |-> c].at = "alive"
      OBVIOUS
    <2>5. CASE call' = call \/ call' = [call EXCEPT ![t] = Idle]
      BY <2>3, <2>5
    <2>6. CASE \E w \in {"push", "unset", "place"} : call' = [call EXCEPT ![t] = [call[t] EXCEPT !.at = w]]
      BY <2>2, <2>6
    <2>7. CASE \E b, c : call' = [call EXCEPT ![t] = [at |-> "alive", to |-> b, from |-> c]]
      BY <2>4, <2>7
    <2>8. QED
      BY <2>1, <2>5, <2>6, <2>7
  <1>5. Elsewhere
    <2>1. CASE call' = call
      BY <2>1 DEF Elsewhere
    <2>2. CASE call' # call
      BY <1>3, <1>4, <2>2, CallAway DEF Idle
    <2>3. QED
      BY <2>1, <2>2
  <1>6. \A b \in Actors : disp'[b] = "look" => call'[b] = Idle
    <2>1. CASE call' = call
      BY <1>1, <2>1 DEF Mailed
    <2>2. CASE call' # call
      <3>1. \A b \in Actors : disp[b] = "look" => b # t
        <4>1. \A b \in Actors : b \notin Clients
          BY Constants
        <4>2. QED
          BY <1>3, <2>2, <4>1 DEF Mailed, Idle
      <3>2. Actors \subseteq Threads
        BY Constants
      <3>3. QED
        BY <1>0, <1>1, <1>4, <3>1, <3>2 DEF Mailed
    <2>3. QED
      BY <2>1, <2>2
  <1>7. QED
    BY <1>2, <1>5, <1>6, Aside

\* What is done with references, the pool and the cleanup thread.
LEMMA ReferencesCounted ==
  ASSUME TypeOK, TypeOK', Mailed, Tokens,
         \/ \E t \in Threads : \/ JoinCleaner(t) \/ Clear(t) \/ Destroyed(t) \/ Stop(t)
                               \/ \E a \in Actors : LetGo(t, a)
         \/ Take \/ Erase \/ Settled
  PROVE  Mailed' /\ Tokens'
  <1>1. actor' = actor /\ disp' = disp /\ call' = call
    BY DEF JoinCleaner, Clear, Destroyed, Stop, LetGo, Take, Erase, Settled, Crash
  <1>2. \A a \in Actors : Apart(a)
    BY <1>1 DEF Apart, TypeOK, ActorState
  <1>3. Elsewhere
    BY <1>1 DEF Elsewhere
  <1>4. \A a \in Actors : disp'[a] = "look" => call'[a] = Idle
    BY <1>1 DEF Mailed
  <1>5. QED
    BY <1>2, <1>3, <1>4, Aside

\* A new actor has no mail.
LEMMA SpawnCounted ==
  ASSUME TypeOK, TypeOK', Mailed, Tokens, Spawn \/ Respawn
  PROVE  Mailed' /\ Tokens'
  <1>1. PICK t \in {Main, Cleaner}, s \in Nat \union {cleaner.idx}, i \in Nat \union {Wild} :
           Construct(t, s, i) /\ call[t] = Idle
    <2>1. CASE Spawn
      BY <2>1, Places DEF Spawn
    <2>2. CASE Respawn
      BY <2>2 DEF Respawn, Cleaning
    <2>3. QED
      BY <2>1, <2>2
  <1>2. PICK a \in Actors : a = made + 1
    BY <1>1 DEF Construct, TypeOK, Actors
  <1> DEFINE x == [Unborn EXCEPT !.life = "up", !.alive = TRUE, !.status = "RUNNING",
                                 !.id = i, !.slot = s, !.first = (t = Main)]
             c == [Idle EXCEPT !.at = "set", !.to = a]
  <1>3. /\ actor' = [actor EXCEPT ![a] = x] /\ disp' = [disp EXCEPT ![a] = "loop"]
        /\ call' = [call EXCEPT ![t] = c]
    BY <1>1, <1>2 DEF Construct
  <1>4. x.mail = <<>> /\ c.at = "set"
    BY DEF Unborn, Idle
  <1> HIDE DEF x, c
  <1>5. \A b \in Actors : Apart(b)
    <2>1. actor'[a].mail = <<>>
      BY <1>3, <1>4 DEF TypeOK
    <2>2. ASSUME NEW b \in Actors, b # a PROVE Apart(b)
      <3>1. actor'[b] = actor[b] /\ disp'[b] = disp[b] /\ actor[b] \in ActorState
        BY <1>3, <2>2 DEF TypeOK
      <3>2. actor[b].tokens \in Nat
        BY <3>1, MailFacts
      <3>3. QED
        BY <3>1, <3>2 DEF Apart
    <2>3. QED
      BY <2>1, <2>2 DEF Apart
  <1>6. Elsewhere
    <2>1. call[t].at = "idle" /\ t \in Threads
      BY <1>1, Constants DEF Idle
    <2>2. QED
      BY <1>3, <1>4, <2>1, CallAway
  <1>7. \A b \in Actors : disp'[b] = "look" => call'[b] = Idle
    <2>1. t \notin Actors /\ Actors \subseteq Threads
      BY Constants
    <2>2. QED
      BY <1>3, <2>1 DEF Mailed, TypeOK
  <1>8. QED
    BY <1>5, <1>6, <1>7, Aside

\* A dispatcher between its pops: it may clear flags, hold somebody and begin to send.
LEMMA DispatchCounted ==
  ASSUME TypeOK, TypeOK', Mailed, Tokens, NEW a \in Actors,
         \/ CheckMailbox(a) \/ Return(a) \/ Throw(a) \/ Fail(a) \/ Log(a)
         \/ Notice(a) \/ Exit(a) \/ Report(a) \/ Bin(a)
  PROVE  Mailed' /\ Tokens'
  <1>0. /\ actor \in [Actors -> ActorState] /\ actor[a] \in ActorState /\ actor[a].tokens \in Nat
        /\ a \in Threads /\ call \in [Threads -> CallState]
    BY Constants, MailFacts DEF TypeOK
  <1>1. disp[a] \in {"loop", "task", "drainTask", "fail", "log", "look", "exit", "report", "bin"}
    BY DEF CheckMailbox, Return, Throw, Fail, Log, Notice, Exit, Report, Bin, DispGoto
  <1>2. \E d \in {"acquire", "exit", "loop", "drain", "fail", "log", "look", "report", "bin", "done"} :
           disp' = [disp EXCEPT ![a] = d] /\ (d = "look" => call'[a] = Idle)
    <2>1. CASE CheckMailbox(a) \/ Return(a) \/ Throw(a)
      BY <2>1 DEF CheckMailbox, Return, Throw, DispGoto
    <2>2. CASE Fail(a) \/ Exit(a) \/ Report(a) \/ Bin(a)
      BY <2>2 DEF Fail, Exit, Report, Bin, DispGoto
    <2>3. CASE Log(a)
      BY <2>3 DEF Log, DispGoto, Steady, AfterLog
    <2>4. CASE Notice(a)
      BY <2>4 DEF Notice, AfterLog
    <2>5. QED
      BY <2>1, <2>2, <2>3, <2>4
  <1>3. \A b \in Actors : b # a => disp'[b] = disp[b]
    BY <1>2 DEF TypeOK
  <1>4. call' # call => call[a] = Idle
    <2>1. CASE Return(a)
      BY <2>1 DEF Return, DispGoto, Steady
    <2>2. CASE Notice(a)
      BY <2>2 DEF Notice, Mailed
    <2>3. CASE Log(a) \/ Report(a) \/ Bin(a)
      BY <2>3 DEF Log, Report, Bin
    <2>4. CASE CheckMailbox(a) \/ Throw(a) \/ Fail(a) \/ Exit(a)
      BY <2>4 DEF CheckMailbox, Throw, Fail, Exit, still
    <2>5. QED
      BY <2>1, <2>2, <2>3, <2>4
  <1>5. \E v : /\ call' = call \/ call' = [call EXCEPT ![a] = v]
               /\ v.at \notin {"publish", "signal"}
    <2>1. \/ call' = call
          \/ \E b : call' = [call EXCEPT ![a] = [Idle EXCEPT !.at = "alive", !.to = b]]
      BY DEF CheckMailbox, Return, Throw, Fail, Log, Notice, Exit, Report, Bin, still
    <2>2. \A b : [Idle EXCEPT !.at = "alive", !.to = b].at = "alive"
      BY DEF Idle
    <2>3. CASE call' = call
      BY <2>2, <2>3
    <2>4. CASE \E b : call' = [call EXCEPT ![a] = [Idle EXCEPT !.at = "alive", !.to = b]]
      BY <2>2, <2>4
    <2>5. QED
      BY <2>1, <2>3, <2>4
  <1>6. Elsewhere
    <2>1. CASE call' = call
      BY <2>1 DEF Elsewhere
    <2>2. CASE call' # call
      <3>1. call[a].at = "idle"
        BY <1>4, <2>2 DEF Idle
      <3>2. QED
        BY <1>0, <1>5, <3>1, CallAway
    <2>3. QED
      BY <2>1, <2>2
  <1>7. \A b \in Actors : Apart(b)
    <2>0. \A b \in Actors : disp[b] = "pop" => disp'[b] = "pop"
      BY <1>1, <1>3
    <2>1. \/ actor' = actor
          \/ actor' = [actor EXCEPT ![a] = [actor[a] EXCEPT !.alive = FALSE]]
          \/ \E w \in {"STOPPING", "FAILED"} :
                actor' = [actor EXCEPT ![a] = [actor[a] EXCEPT !.status = w]]
      BY DEF CheckMailbox, Return, Throw, Fail, Log, Notice, Exit, Report, Bin
    <2>2. CASE actor' = actor
      BY <1>0, <2>0, <2>2, Spared
    <2>3. CASE actor' = [actor EXCEPT ![a] = [actor[a] EXCEPT !.alive = FALSE]]
      <3> DEFINE x == [actor[a] EXCEPT !.alive = FALSE]
      <3>1. x \in ActorState /\ x.mail = actor[a].mail /\ x.overlapped = actor[a].overlapped
            /\ x.tokens = actor[a].tokens /\ actor' = [actor EXCEPT ![a] = x]
        BY <1>0, <2>3, ActorPut, ActorFields
      <3> HIDE DEF x
      <3>2. x.tokens >= actor[a].tokens
        BY <1>0, <3>1
      <3>3. QED
        BY <2>0, <3>1, <3>2, Spared
    <2>4. ASSUME NEW w \in {"STOPPING", "FAILED"},
                 actor' = [actor EXCEPT ![a] = [actor[a] EXCEPT !.status = w]]
          PROVE  \A b \in Actors : Apart(b)
      <3> DEFINE x == [actor[a] EXCEPT !.status = w]
      <3>1. x \in ActorState /\ x.mail = actor[a].mail /\ x.overlapped = actor[a].overlapped
            /\ x.tokens = actor[a].tokens /\ actor' = [actor EXCEPT ![a] = x]
        BY <1>0, <2>4, ActorPut, ActorFields
      <3> HIDE DEF x
      <3>2. x.tokens >= actor[a].tokens
        BY <1>0, <3>1
      <3>3. QED
        BY <2>0, <3>1, <3>2, Spared
    <2>5. QED
      BY <2>1, <2>2, <2>3, <2>4
  <1>8. \A b \in Actors : disp'[b] = "look" => call'[b] = Idle
    <2>1. Actors \subseteq Threads
      BY Constants
    <2>2. QED
      BY <1>0, <1>2, <1>3, <1>5, <2>1 DEF Mailed, TypeOK
  <1>9. QED
    BY <1>6, <1>7, <1>8, Aside

LEMMA CountStep ==
  ASSUME TypeOK, TypeOK', Shaped, Mailed, Tokens, Next
  PROVE  Mailed' /\ Tokens'
  <1>1. ASSUME NEW t \in Threads, Calling(t) PROVE Mailed' /\ Tokens'
    <2>1. CASE StopBegin(t) \/ Join(t)
      BY <2>1, StopCounted
    <2>2. CASE AddCheck(t) \/ GiveUp(t) \/ SetSystem(t) \/ Place(t)
      BY <2>2, CallCounted
    <2>3. CASE Push(t) \/ Publish(t) \/ Signal(t)
      BY <2>3, PushCounted, PublishCounted, SignalCounted
    <2>4. CASE JoinCleaner(t) \/ Clear(t) \/ Destroyed(t)
      BY <2>4, ReferencesCounted
    <2>5. QED
      BY <1>1, <2>1, <2>2, <2>3, <2>4 DEF Calling
  <1>2. ASSUME NEW a \in Actors, Dispatching(a) PROVE Mailed' /\ Tokens'
    <2>0. a \in Threads
      BY Constants
    <2>1. CASE \/ CheckMailbox(a) \/ Return(a) \/ Throw(a) \/ Fail(a) \/ Log(a)
               \/ Notice(a) \/ Exit(a) \/ Report(a) \/ Bin(a)
      BY <2>1, DispatchCounted
    <2>2. CASE Acquire(a) \/ Pop(a) \/ PopNothing(a)
      BY <2>2, AcquireCounted, PopCounted, PopNothingCounted
    <2>3. CASE \E b \in Actors : LetGo(a, b)
      BY <2>0, <2>3, ReferencesCounted
    <2>4. CASE LetGoSystem(a)
      BY <2>0, <2>4, CallCounted
    <2>5. QED
      BY <1>2, <2>1, <2>2, <2>3, <2>4 DEF Dispatching
  <1>3. CASE CleaningUp
    <2>1. CASE Take \/ Erase \/ Settled \/ \E a \in Actors : LetGo(Cleaner, a)
      BY <2>1, ReferencesCounted, Constants
    <2>2. CASE Respawn
      BY <2>2, SpawnCounted
    <2>3. CASE LetGoSystem(Cleaner)
      BY <2>3, CallCounted, Constants
    <2>4. QED
      BY <1>3, <2>1, <2>2, <2>3 DEF CleaningUp
  <1>4. ASSUME NEW c \in Clients, Using(c) PROVE Mailed' /\ Tokens'
    <2>0. c \in Threads
      BY Constants
    <2>1. CASE Spawn
      BY <2>1, SpawnCounted
    <2>2. CASE Send(c) \/ LetGoSystem(c)
      BY <2>0, <2>2, CallCounted
    <2>3. CASE Stop(c) \/ \E a \in Actors : LetGo(c, a)
      BY <2>0, <2>3, ReferencesCounted
    <2>4. QED
      BY <1>4, <2>1, <2>2, <2>3 DEF Using
  <1>5. QED
    BY <1>1, <1>2, <1>3, <1>4 DEF Next

LEMMA CountStutter ==
  ASSUME Mailed, Tokens, UNCHANGED vars
  PROVE  Mailed' /\ Tokens'
  <1>1. actor' = actor /\ disp' = disp /\ call' = call
    BY DEF vars
  <1>2. \A a \in Actors : Counted(a)' <=> Counted(a)
    BY <1>1 DEF Counted
  <1>3. QED
    BY <1>1, <1>2 DEF Mailed, Tokens

LEMMA CountInit == Init => Mailed /\ Tokens
  <1> SUFFICES ASSUME Init PROVE Mailed /\ Tokens
    OBVIOUS
  <1>1. \A a \in Actors : /\ Len(actor[a].mail) = 0 /\ actor[a].tokens = 0
                          /\ disp[a] = "none"
    BY DEF Init, Unborn
  <1>2. \A a \in Actors : Counted(a)
    BY <1>1, Tally
  <1>3. QED
    BY <1>1, <1>2 DEF Mailed, Tokens

-----------------------------------------------------------------------------
(* Nobody joins twice, himself, or not at all                              *)

\* What Calm and Ownership leave of the threads.
LEMMA CalmFacts ==
  ASSUME TypeOK, Shaped, Ownership
  PROVE  /\ \A t \in Threads : call[t] # Idle => t \in Clients
         /\ \A t \in Threads : call[t].at # "idle" => t \in Clients
         /\ \A t \in Threads : refs[t] # {} => t \in Clients
         /\ \A t \in Threads : stop[t] # NoStop => stop[t].of \in 1 .. made /\ stop[t].of \in Actors
         /\ \A a \in Actors : Sender(a) = {}
         /\ stop[Cleaner] = NoStop /\ call[Cleaner] = Idle
         /\ \A t \in Threads : stop[t].joins \/ stop[t].frees \/ stop[t].of # None => stop[t] # NoStop
         /\ \A a \in Actors : Held(a) => a \in 1 .. made
  <1>1. \A t \in Threads : call[t] # Idle => t \in Clients
    BY DEF Ownership, CleanerWaits, Dispatchers, Threads
  <1>2. \A t \in Threads : call[t].at # "idle" => t \in Clients
    BY <1>1 DEF Idle
  <1>3. \A t \in Threads : refs[t] # {} => t \in Clients
    BY DEF Ownership, CleanerWaits, Dispatchers, Threads
  <1>4. \A t \in Threads : stop[t] # NoStop => stop[t].of \in 1 .. made /\ stop[t].of \in Actors
    BY DEF Ownership, Constructed, Shaped
  <1>5. \A a \in Actors : Sender(a) = {}
    BY DEF Ownership, Untroubled, Sender
  <1>6. stop[Cleaner] = NoStop /\ call[Cleaner] = Idle
    BY DEF Ownership, CleanerWaits
  <1>7. \A t \in Threads : stop[t].joins \/ stop[t].frees \/ stop[t].of # None => stop[t] # NoStop
    BY DEF NoStop
  <1>8. ASSUME NEW a \in Actors, Held(a) PROVE a \in 1 .. made
    <2>1. None \notin Actors
      BY Constants
    <2>2. CASE \E s \in Slots : pool[s] = a
      BY <2>1, <2>2 DEF Ownership, Constructed
    <2>3. CASE \E t \in Threads : a \in refs[t]
      BY <2>3 DEF Ownership, Constructed
    <2>4. QED
      BY <1>8, <2>2, <2>3 DEF Held, HeldIn
  <1>9. QED
    BY <1>1, <1>2, <1>3, <1>4, <1>5, <1>6, <1>7, <1>8

\* A step that leaves references, stops and deaths alone.
LEMMA HoldersKept ==
  ASSUME Ownership, UNCHANGED <<stop, refs, pool, made>>,
         \A a \in Actors : actor'[a].alive = actor[a].alive /\ actor'[a].joined = actor[a].joined,
         \A a \in Actors : disp[a] = "none" => disp'[a] = "none", TypeOK, Shaped
  PROVE  Constructed' /\ Stopped' /\ JoinedOnce'
  <1>1. Constructed'
    BY DEF Ownership, Constructed
  <1>2. Stopped'
    BY DEF Ownership, Stopped, Held, Shaped
  <1>3. 1 .. made \subseteq Actors
    BY Constants DEF TypeOK, Actors
  <1>4. JoinedOnce'
    BY <1>3 DEF Ownership, JoinedOnce
  <1>5. QED
    BY <1>1, <1>2, <1>4

LEMMA MailOwned ==
  ASSUME TypeOK, Shaped, Ownership, NEW t \in Threads,
         AddCheck(t) \/ Push(t) \/ GiveUp(t) \/ Publish(t) \/ Signal(t)
  PROVE  Ownership'
  <1>a. PICK a \in Actors : a = call[t].to
    BY DEF AddCheck, Push, GiveUp, Publish, Signal, At, Shaped
  <1> DEFINE mail == actor[a].mail
  <1>0. /\ actor \in [Actors -> ActorState] /\ actor[a] \in ActorState
        /\ call \in [Threads -> CallState] /\ UNCHANGED mailing
        /\ call[t].at \in {"alive", "push", "publish", "signal"}
    BY DEF TypeOK, AddCheck, Push, GiveUp, Publish, Signal, At
  <1>1. t \in Clients /\ t # Cleaner /\ t \notin Actors
    BY <1>0, CalmFacts, Constants
  <1>2. /\ call'[t].from = None /\ call'[t].at \notin {"set", "unset", "place"}
        /\ \A u \in Threads : u # t => call'[u] = call[u]
    <2>1. call[t].from = None
      BY DEF Ownership, Untroubled
    <2>2. \/ call' = [call EXCEPT ![t] = Idle]
          \/ \E w \in {"push", "publish", "signal"} : call' = [call EXCEPT ![t] = [call[t] EXCEPT !.at = w]]
      BY DEF AddCheck, Push, GiveUp, Publish, Signal, Goto
    <2>3. Idle.from = None /\ Idle.at = "idle"
      BY DEF Idle
    <2>4. \A w : [call[t] EXCEPT !.at = w].at = w /\ [call[t] EXCEPT !.at = w].from = None
      BY <1>0, <2>1 DEF CallState
    <2>5. CASE call' = [call EXCEPT ![t] = Idle]
      BY <1>0, <2>3, <2>5
    <2>6. CASE \E w \in {"push", "publish", "signal"} :
                  call' = [call EXCEPT ![t] = [call[t] EXCEPT !.at = w]]
      BY <1>0, <2>4, <2>6
    <2>7. QED
      BY <2>2, <2>5, <2>6
  <1>3. /\ \A b \in Actors : b # a => actor'[b] = actor[b]
        /\ actor'[a].alive = actor[a].alive /\ actor'[a].joined = actor[a].joined
        /\ actor'[a].status = actor[a].status
    <2>1. CASE AddCheck(t) \/ GiveUp(t)
      BY <2>1 DEF AddCheck, GiveUp
    <2>2. CASE Push(t)
      BY <1>a, <1>0, <2>2 DEF Push, ActorState
    <2>3. CASE Publish(t)
      BY <1>a, <1>0, <2>3 DEF Publish, ActorState
    <2>4. CASE Signal(t)
      BY <1>a, <1>0, <2>4 DEF Signal, ActorState
    <2>5. QED
      BY <2>1, <2>2, <2>3, <2>4
  <1>4. \A i \in 1 .. Len(actor'[a].mail) : actor'[a].mail[i].from = None
    <2>0. /\ mail \in Seq(Cell) /\ Len(mail) \in Nat
          /\ \A i \in 1 .. Len(mail) : mail[i].from = None /\ mail[i] \in Cell
      BY <1>0, MailFacts DEF Ownership, Untroubled
    <2>1. CASE AddCheck(t) \/ GiveUp(t) \/ Signal(t)
      <3>1. actor'[a].mail = mail
        BY <1>a, <1>0, <2>1 DEF AddCheck, GiveUp, Signal, ActorState
      <3>2. QED
        BY <2>0, <3>1
    <2>2. CASE Push(t)
      <3> DEFINE cell == [by |-> t, from |-> call[t].from]
      <3>1. actor'[a].mail = Append(mail, cell)
        BY <1>a, <1>0, <2>2 DEF Push, ActorState
      <3>2. cell.from = None
        BY DEF Ownership, Untroubled
      <3> HIDE DEF mail, cell
      <3>3. \A i \in 1 .. Len(mail) + 1 : Append(mail, cell)[i] = IF i = Len(mail) + 1 THEN cell ELSE mail[i]
        BY <2>0
      <3>4. Len(Append(mail, cell)) = Len(mail) + 1
        BY <2>0
      <3>5. QED
        BY <2>0, <3>1, <3>2, <3>3, <3>4
    <2>3. CASE Publish(t)
      <3> DEFINE m == [i \in 1 .. Len(mail) |->
                         IF mail[i].by = t THEN [mail[i] EXCEPT !.by = None] ELSE mail[i]]
      <3>1. actor'[a].mail = m
        BY <1>a, <1>0, <2>3 DEF Publish, ActorState
      <3>2. Len(m) = Len(mail)
        BY <2>0
      <3>3. \A i \in 1 .. Len(mail) : m[i].from = None
        BY <2>0 DEF Cell
      <3> HIDE DEF m, mail
      <3>4. QED
        BY <3>1, <3>2, <3>3
    <2>4. QED
      BY <2>1, <2>2, <2>3
  <1>5. Untroubled'
    BY <1>0, <1>2, <1>3, <1>4 DEF Ownership, Untroubled, mailing
  <1>6. CleanerWaits'
    BY <1>0, <1>1, <1>2, Constants DEF Ownership, CleanerWaits, mailing, holders
  <1>7. Dispatchers'
    <2>1. \A b \in Actors : b \in Threads /\ call'[b] = call[b] /\ actor'[b].alive = actor[b].alive
      BY <1>1, <1>2, <1>3, Constants
    <2>2. QED
      BY <1>0, <2>1 DEF Ownership, Dispatchers, mailing, holders
  <1>8. Spawning'
    BY <1>0, <1>2 DEF Ownership, Spawning, mailing, holders
  <1>9. Constructed' /\ Stopped' /\ JoinedOnce'
    BY <1>0, <1>3, HoldersKept DEF mailing, holders, roots, counts
  <1>10. QED
    BY <1>5, <1>6, <1>7, <1>8, <1>9 DEF Ownership

\* Between its pops a dispatcher only learns that its actor is not alive, and may come
\* to hold the system for the log.
LEMMA DispatchOwned ==
  ASSUME TypeOK, Shaped, Ownership, thrown' = thrown, NEW a \in Actors,
         \/ CheckMailbox(a) \/ Acquire(a) \/ Pop(a) \/ PopNothing(a) \/ Return(a)
         \/ Throw(a) \/ Fail(a) \/ Log(a) \/ Notice(a) \/ Exit(a) \/ Report(a) \/ Bin(a)
  PROVE  Ownership'
  <1>0. /\ actor \in [Actors -> ActorState] /\ actor[a] \in ActorState /\ msg \in [Actors -> Cell]
        /\ a \in Threads /\ a # Cleaner /\ thrown \in Nat
    BY Constants DEF TypeOK
  <1>1. /\ actor[a].status # "FAILED" /\ disp[a] \notin {"fail", "look", "bin"}
        /\ Sender(a) = {} /\ refs[a] = {} /\ crash = "no"
    BY CalmFacts DEF Ownership, Untroubled, Dispatchers
  <1>2. Steady(a)
    BY <1>1 DEF CheckMailbox, Acquire, Pop, PopNothing, Return, Throw, Fail, Log, Notice, Exit,
                Report, Bin, DispGoto
  <1>3. ~Fail(a) /\ ~Notice(a) /\ ~Bin(a)
    BY <1>1 DEF Fail, Notice, Bin, DispGoto
  <1>4. /\ actor[a].alive \in BOOLEAN
        /\ disp[a] \in {"exit", "drain", "drainTask", "log", "report", "done"} => ~actor[a].alive
    BY <1>0 DEF Ownership, Dispatchers, ActorState
  <1>5. \E d \in {"acquire", "exit", "pop", "task", "drainTask", "loop", "report", "drain", "log", "done"} :
           /\ disp' = [disp EXCEPT ![a] = d]
           /\ disp[a] # "none"
           /\ d \in {"exit", "drain", "drainTask", "log", "report", "done"} => ~actor[a].alive
    <2>1. CASE CheckMailbox(a) \/ Acquire(a) \/ Exit(a)
      BY <1>4, <2>1 DEF CheckMailbox, Acquire, Exit, DispGoto
    <2>2. CASE Pop(a) \/ PopNothing(a) \/ Return(a)
      BY <1>4, <2>2 DEF Pop, PopNothing, Return, DispGoto
    <2>3. CASE Throw(a)
      BY <1>0, <1>4, <2>3 DEF Throw, DispGoto
    <2>4. CASE Log(a)
      BY <1>1, <1>4, <2>4 DEF Log, DispGoto, AfterLog
    <2>5. CASE Report(a)
      BY <1>1, <1>4, <2>5 DEF Report, DispGoto
    <2>6. QED
      BY <1>3, <2>1, <2>2, <2>3, <2>4, <2>5
  <1>6. /\ \A b \in Actors : b # a => disp'[b] = disp[b]
        /\ disp'[a] \in {"acquire", "exit", "pop", "task", "drainTask", "loop", "report", "drain", "log", "done"}
        /\ disp'[a] \in {"exit", "drain", "drainTask", "log", "report", "done"} => ~actor[a].alive
        /\ disp[a] # "none"
    BY <1>5 DEF TypeOK
  <1>7. /\ UNCHANGED <<pool, stop, bin, cleaner, system, made, crash, call>>
        /\ asked' = asked
    <2>1. CASE CheckMailbox(a) \/ Acquire(a) \/ Exit(a)
      BY <2>1 DEF CheckMailbox, Acquire, Exit, still, roots, holders, counts
    <2>2. CASE Pop(a) \/ PopNothing(a)
      BY <2>2 DEF Pop, PopNothing, still, roots, holders, counts
    <2>3. CASE Throw(a)
      BY <2>3 DEF Throw, still, roots, holders
    <2>4. CASE Return(a) \/ Log(a) \/ Report(a)
      BY <1>1, <2>4 DEF Return, Log, Report, roots, counts
    <2>5. QED
      BY <1>3, <2>1, <2>2, <2>3, <2>4
  <1>8. refs' = refs
    <2>1. CASE CheckMailbox(a) \/ Acquire(a) \/ Exit(a) \/ Pop(a) \/ PopNothing(a) \/ Throw(a)
      BY <2>1 DEF CheckMailbox, Acquire, Exit, Pop, PopNothing, Throw, still, holders
    <2>2. CASE Return(a) \/ Log(a) \/ Report(a)
      <3>1. refs' = [refs EXCEPT ![a] = {}]
        BY <1>1, <2>2 DEF Return, Log, Report
      <3>2. QED
        BY <1>0, <1>1, <3>1 DEF TypeOK
    <2>3. QED
      BY <1>3, <2>1, <2>2
  <1>9. sysrefs' = sysrefs \/ (sysrefs' = sysrefs \union {a} /\ disp'[a] = "report")
    <2>1. CheckMailbox(a) \/ Acquire(a) \/ Exit(a) => sysrefs' = sysrefs
      BY DEF CheckMailbox, Acquire, Exit, still, holders
    <2>2. Pop(a) \/ PopNothing(a) \/ Throw(a) => sysrefs' = sysrefs
      BY DEF Pop, PopNothing, Throw, still, holders
    <2>3. Return(a) \/ Report(a) => sysrefs' = sysrefs
      BY <1>1 DEF Return, Report
    <2>4. CASE Log(a)
      BY <1>1, <2>4 DEF Log, DispGoto, AfterLog, TypeOK
    <2>5. QED
      BY <1>3, <2>1, <2>2, <2>3, <2>4
  <1>10. /\ \A b \in Actors : b # a => actor'[b] = actor[b] /\ msg'[b] = msg[b]
         /\ actor'[a].alive = actor[a].alive /\ actor'[a].joined = actor[a].joined
         /\ actor'[a].status # "FAILED"
    <2>1. CASE CheckMailbox(a) \/ PopNothing(a) \/ Return(a) \/ Log(a) \/ Report(a)
      BY <1>0, <1>1, <2>1 DEF CheckMailbox, PopNothing, Return, Log, Report
    <2>2. CASE Throw(a)
      <3>1. actor' = actor /\ msg' = msg
        BY <1>0, <2>2 DEF Throw
      <3>2. QED
        BY <1>1, <3>1
    <2>3. CASE Acquire(a) \/ Exit(a)
      BY <1>0, <1>1, <2>3 DEF Acquire, Exit, ActorState
    <2>4. CASE Pop(a)
      BY <1>0, <1>1, <2>4 DEF Pop, ActorState
    <2>5. QED
      BY <1>3, <2>1, <2>2, <2>3, <2>4
  <1>11. /\ msg'[a].from = None
         /\ \A i \in 1 .. Len(actor'[a].mail) : actor'[a].mail[i].from = None
    <2>0. /\ msg[a].from = None /\ NoMessage.from = None
          /\ actor[a].mail \in Seq(Cell) /\ Len(actor[a].mail) \in Nat
          /\ \A i \in 1 .. Len(actor[a].mail) : actor[a].mail[i].from = None
      BY <1>0, MailFacts DEF Ownership, Untroubled, NoMessage
    <2>1. CASE CheckMailbox(a) \/ PopNothing(a) \/ Return(a) \/ Log(a) \/ Report(a)
      <3>1. actor' = actor /\ (msg' = msg \/ msg' = [msg EXCEPT ![a] = NoMessage])
        BY <2>1 DEF CheckMailbox, PopNothing, Return, Log, Report
      <3>2. msg'[a].from = None
        BY <1>0, <2>0, <3>1
      <3>3. QED
        BY <2>0, <3>1, <3>2
    <2>2. CASE Throw(a) \/ Acquire(a) \/ Exit(a)
      <3>1. actor'[a].mail = actor[a].mail /\ msg' = msg
        BY <1>0, <2>2 DEF Throw, Acquire, Exit, ActorState
      <3>2. QED
        BY <2>0, <3>1
    <2>3. CASE Pop(a)
      <3>1. actor[a].mail # <<>> /\ actor'[a].mail = Tail(actor[a].mail)
            /\ msg' = [msg EXCEPT ![a] = Head(actor[a].mail)]
        BY <1>0, <2>3 DEF Pop, Poppable, ActorState
      <3>2. /\ Head(actor[a].mail) = actor[a].mail[1] /\ 1 \in 1 .. Len(actor[a].mail)
            /\ Len(Tail(actor[a].mail)) = Len(actor[a].mail) - 1
            /\ \A i \in 1 .. Len(actor[a].mail) - 1 : Tail(actor[a].mail)[i] = actor[a].mail[i + 1]
        BY <2>0, <3>1
      <3>3. msg'[a].from = None
        BY <1>0, <2>0, <3>1, <3>2
      <3>4. \A i \in 1 .. Len(actor[a].mail) - 1 : i + 1 \in 1 .. Len(actor[a].mail)
        BY <2>0
      <3>5. QED
        BY <2>0, <3>1, <3>2, <3>3, <3>4
    <2>4. QED
      BY <1>3, <2>1, <2>2, <2>3
  <1>12. Untroubled'
    BY <1>6, <1>7, <1>10, <1>11 DEF Ownership, Untroubled
  <1>13. CleanerWaits'
    BY <1>0, <1>7, <1>8, <1>9 DEF Ownership, CleanerWaits
  <1>14. Dispatchers'
    <2>1. stop[a] = NoStop /\ system.by # a /\ a \notin sysrefs
      BY <1>2 DEF Steady, Free
    <2>2. ASSUME NEW b \in Actors, b # a
          PROVE  /\ refs'[b] = {} /\ call'[b] = Idle
                 /\ b \in sysrefs' \/ system'.by = b \/ stop'[b] # NoStop => disp'[b] = "report"
                 /\ disp'[b] \in {"exit", "drain", "drainTask", "log", "report", "done"}
                      => ~actor'[b].alive
                 /\ stop'[b].joins => stop'[b].of # b
      BY <1>6, <1>7, <1>8, <1>9, <1>10, <2>2 DEF Ownership, Dispatchers
    <2>3. /\ refs'[a] = {} /\ call'[a] = Idle
          /\ a \in sysrefs' \/ system'.by = a \/ stop'[a] # NoStop => disp'[a] = "report"
          /\ disp'[a] \in {"exit", "drain", "drainTask", "log", "report", "done"} => ~actor'[a].alive
          /\ stop'[a].joins => stop'[a].of # a
      BY <1>6, <1>7, <1>8, <1>9, <1>10, <2>1 DEF Ownership, Dispatchers
    <2>4. QED
      BY <2>2, <2>3 DEF Dispatchers
  <1>15. Spawning'
    BY <1>7, <1>8, <1>9 DEF Ownership, Spawning
  <1>16. Constructed' /\ Stopped' /\ JoinedOnce'
    <2>1. \A b \in Actors : actor'[b].alive = actor[b].alive /\ actor'[b].joined = actor[b].joined
      BY <1>10
    <2>2. \A b \in Actors : disp[b] = "none" => disp'[b] = "none"
      BY <1>6
    <2>3. QED
      BY <1>7, <1>8, <2>1, <2>2, HoldersKept
  <1>17. QED
    BY <1>12, <1>13, <1>14, <1>15, <1>16 DEF Ownership

\* An actor that is stopped or destroyed changes in itself only.
LEMMA SelfOnly ==
  ASSUME TypeOK, Shaped, Ownership, NEW a \in Actors, NEW x \in ActorState,
         actor' = [actor EXCEPT ![a] = x], x.status # "FAILED",
         x.mail = <<>> \/ x.mail = actor[a].mail,
         crash' = "no", UNCHANGED <<disp, msg, call>>
  PROVE  Untroubled'
  <1>1. \A b \in Actors : actor'[b] = IF b = a THEN x ELSE actor[b]
    BY DEF TypeOK
  <1>2. x.mail = <<>> => Len(x.mail) = 0
    OBVIOUS
  <1>3. QED
    BY <1>1, <1>2 DEF Ownership, Untroubled

\* Who leaves stopActor has joined the actor, or was not the one to do so; ~Actor
\* frees an actor that has been joined.
LEMMA LeaveOwned ==
  ASSUME TypeOK, Shaped, Ownership, NEW t \in Threads, NEW a \in Actors, NEW x \in ActorState,
         a = stop[t].of, a \in 1 .. made, stop[t] # NoStop,
         Leave(t, a, [actor EXCEPT ![a] = x]),
         ~x.alive, x.status # "FAILED", x.mail = actor[a].mail, ~actor[a].alive,
         stop[t].joins \/ stop[t].frees => x.joined,
         actor[a].joined => x.joined,
         UNCHANGED <<disp, msg, pool, registry, refs, sysrefs, call, bin, cleaner, system, counts>>
  PROVE  Ownership'
  <1> DEFINE y == IF stop[t].frees THEN Freed(x) ELSE x
  <1>0. /\ actor \in [Actors -> ActorState] /\ stop \in [Threads -> StopState]
        /\ stop[t] \in StopState /\ crash = "no" /\ t # Cleaner
    BY CalmFacts DEF TypeOK, Ownership, Untroubled
  <1>1. /\ y \in ActorState /\ ~y.alive /\ y.joined = x.joined /\ y.status # "FAILED"
        /\ y.mail = <<>> \/ y.mail = actor[a].mail
    <2>1. Freed(x) \in ActorState /\ Freed(x).mail = <<>> /\ ~Freed(x).alive
          /\ Freed(x).joined = x.joined /\ Freed(x).status = "CREATED"
      BY ActorPut DEF Freed, Unborn
    <2> HIDE DEF y
    <2>2. y = Freed(x) \/ y = x
      BY DEF y
    <2>3. QED
      BY <2>1, <2>2
  <1>2. /\ actor' = [actor EXCEPT ![a] = y] /\ stop' = [stop EXCEPT ![t] = NoStop] /\ crash' = "no"
    <2>1. [actor EXCEPT ![a] = x][a] = x
      BY <1>0
    <2>2. [[actor EXCEPT ![a] = x] EXCEPT ![a] = Freed(x)] = [actor EXCEPT ![a] = Freed(x)]
      BY <1>0
    <2>3. QED
      BY <1>0, <2>1, <2>2 DEF Leave
  <1> HIDE DEF y
  <1>3. /\ \A b \in Actors : b # a => actor'[b] = actor[b]
        /\ ~actor'[a].alive /\ actor'[a].joined = x.joined
        /\ \A u \in Threads : u # t => stop'[u] = stop[u]
        /\ stop'[t] = NoStop
    BY <1>0, <1>1, <1>2
  <1>4. Untroubled'
    BY <1>1, <1>2, SelfOnly
  <1>5. CleanerWaits'
    BY <1>0, <1>3, Constants DEF Ownership, CleanerWaits
  <1>6. Spawning'
    BY DEF Ownership, Spawning
  <1>7. /\ \A u \in Threads : stop'[u] # NoStop => u # t /\ stop'[u] = stop[u]
        /\ NoStop.of = None /\ ~NoStop.joins
    BY <1>3 DEF NoStop
  <1>8. Dispatchers'
    <2>1. ASSUME NEW b \in Actors
          PROVE  /\ refs'[b] = {} /\ call'[b] = Idle
                 /\ b \in sysrefs' \/ system'.by = b \/ stop'[b] # NoStop => disp'[b] = "report"
                 /\ disp'[b] \in {"exit", "drain", "drainTask", "log", "report", "done"}
                      => ~actor'[b].alive
                 /\ stop'[b].joins => stop'[b].of # b
      <3>1. b \in Threads
        BY Constants
      <3>2. stop'[b] = stop[b] \/ stop'[b] = NoStop
        BY <1>3, <3>1
      <3>3. QED
        BY <1>3, <1>7, <3>2 DEF Ownership, Dispatchers
    <2>2. QED
      BY <2>1 DEF Dispatchers
  <1>9. Constructed'
    BY <1>7 DEF Ownership, Constructed, counts
  <1>10. Stopped'
    <2>1. \A b \in Actors : Held(b)' <=> Held(b)
      BY DEF Held
    <2>2. ASSUME NEW u \in Threads, stop'[u] # NoStop
          PROVE  /\ ~stop'[u].frees => stop'[u].of \in refs'[u]
                 /\ stop'[u].frees => /\ ~HeldIn(stop'[u].of, pool', refs')
                                      /\ \A v \in Threads : v # u => stop'[v].of # stop'[u].of
                 /\ stop'[u].joins => ~actor'[stop'[u].of].alive
      <3>1. stop[u] # NoStop /\ stop'[u] = stop[u] /\ stop[u].of \in Actors
        BY <1>7, <2>2, CalmFacts
      <3>2. ~stop'[u].frees => stop'[u].of \in refs'[u]
        BY <3>1 DEF Ownership, Stopped
      <3>3. ASSUME stop'[u].frees
            PROVE  ~HeldIn(stop'[u].of, pool', refs') /\ \A v \in Threads : v # u => stop'[v].of # stop'[u].of
        <4>1. ~Held(stop[u].of) /\ \A v \in Threads : v # u => stop[v].of # stop[u].of
          BY <3>1, <3>3 DEF Ownership, Stopped
        <4>2. ~HeldIn(stop'[u].of, pool', refs')
          <5>1. pool' = pool /\ refs' = refs /\ stop'[u].of = stop[u].of
            BY <3>1
          <5>2. QED
            BY <4>1, <5>1 DEF Held
        <4>3. ASSUME NEW v \in Threads, v # u PROVE stop'[v].of # stop'[u].of
          <5>1. stop'[v] = stop[v] \/ stop'[v] = NoStop
            BY <1>3
          <5>2. None \notin Actors
            BY Constants
          <5>3. CASE stop'[v] = stop[v]
            BY <3>1, <4>1, <4>3, <5>3
          <5>4. CASE stop'[v] = NoStop
            BY <1>7, <3>1, <5>2, <5>4
          <5>5. QED
            BY <5>1, <5>3, <5>4
        <4>4. QED
          BY <4>2, <4>3
      <3>4. stop'[u].joins => ~actor'[stop'[u].of].alive
        <4>1. stop[u].joins => ~actor[stop[u].of].alive
          BY <3>1 DEF Ownership, Stopped
        <4>2. \A b \in Actors : ~actor[b].alive => ~actor'[b].alive
          BY <1>3
        <4>3. QED
          BY <3>1, <4>1, <4>2
      <3>5. QED
        BY <3>2, <3>3, <3>4
    <2>3. QED
      BY <2>2 DEF Stopped, Held
  <1>11. JoinedOnce'
    <2>1. ASSUME NEW b \in 1 .. made, ~actor'[b].alive
          PROVE  actor'[b].joined \/ \E u \in Threads : stop'[u].of = b /\ stop'[u].joins
      <3>1. b \in Actors
        BY Constants DEF TypeOK, Actors
      <3>2. actor[b].joined \/ \E u \in Threads : stop[u].of = b /\ stop[u].joins
        BY <1>3, <2>1, <3>1 DEF Ownership, JoinedOnce
      <3>3. CASE b = a
        <4>1. CASE actor[b].joined
          BY <1>3, <3>3, <4>1
        <4>2. CASE ~actor[b].joined
          <5>1. PICK u \in Threads : stop[u].of = b /\ stop[u].joins
            BY <3>2, <4>2
          <5>2. CASE u = t
            BY <1>3, <3>3, <5>1, <5>2
          <5>3. CASE u # t
            BY <1>3, <5>1, <5>3
          <5>4. QED
            BY <5>2, <5>3
        <4>3. QED
          BY <4>1, <4>2
      <3>4. CASE b # a
        <4>1. CASE actor[b].joined
          BY <1>3, <3>1, <3>4, <4>1
        <4>2. CASE ~actor[b].joined
          <5>1. PICK u \in Threads : stop[u].of = b /\ stop[u].joins
            BY <3>2, <4>2
          <5>2. QED
            BY <1>3, <3>4, <5>1
        <4>3. QED
          BY <4>1, <4>2
      <3>5. QED
        BY <3>3, <3>4
    <2>2. QED
      BY <2>1 DEF JoinedOnce, counts
  <1>12. QED
    BY <1>4, <1>5, <1>6, <1>8, <1>9, <1>10, <1>11 DEF Ownership

\* Who clears actor_alive_ is the one who joins; who finds it cleared has somebody
\* else to join, or has done so already.
LEMMA StopBeginOwned ==
  ASSUME TypeOK, Shaped, Ownership, NEW t \in Threads, StopBegin(t)
  PROVE  Ownership'
  <1>a. PICK a \in Actors : a = stop[t].of /\ a \in 1 .. made
    BY CalmFacts DEF StopBegin, Stopping
  <1>0. /\ actor \in [Actors -> ActorState] /\ actor[a] \in ActorState
        /\ stop \in [Threads -> StopState] /\ stop[t] \in StopState
        /\ stop[t] # NoStop /\ ~stop[t].joins /\ crash = "no" /\ actor[a].tokens + 1 \in Nat
        /\ actor[a].status # "FAILED"
    BY MailFacts DEF StopBegin, Stopping, TypeOK, Ownership, Untroubled
  <1>1. UNCHANGED <<disp, msg, pool, registry, refs, sysrefs, call, bin, cleaner, system, counts>>
    BY DEF StopBegin
  <1>2. t # Cleaner
    BY <1>0, CalmFacts
  <1>3. CleanerWaits'
    <2>1. stop'[Cleaner] = stop[Cleaner]
      BY <1>0, <1>2, Constants DEF StopBegin, Leave
    <2>2. QED
      BY <1>1, <2>1 DEF Ownership, CleanerWaits
  <1>4. Spawning'
    BY <1>1 DEF Ownership, Spawning
  <1>5. CASE actor[a].alive
    <2> DEFINE x == [actor[a] EXCEPT !.alive = FALSE, !.tokens = actor[a].tokens + 1]
               s == [stop[t] EXCEPT !.joins = TRUE]
    <2>1. \A u \in Threads : ~(stop[u].of = a /\ stop[u].joins)
      BY <1>5, CalmFacts DEF Ownership, Stopped
    <2>2. /\ actor' = [actor EXCEPT ![a] = x] /\ stop' = [stop EXCEPT ![t] = s] /\ crash' = "no"
      BY <1>a, <1>0, <1>5, <2>1 DEF StopBegin
    <2>3. /\ x \in ActorState /\ x.alive = FALSE /\ x.status # "FAILED" /\ x.mail = actor[a].mail
          /\ x.joined = actor[a].joined
      <3>1. x \in ActorState
        BY <1>0, ActorPut
      <3>2. x.alive = FALSE /\ x.status = actor[a].status /\ x.mail = actor[a].mail
            /\ x.joined = actor[a].joined
        BY <1>0 DEF ActorState
      <3>3. QED
        BY <1>0, <3>1, <3>2
    <2>4. s.of = a /\ s.frees = stop[t].frees /\ s.joins = TRUE
      BY <1>a, <1>0 DEF StopState
    <2> HIDE DEF x, s
    <2>5. /\ \A b \in Actors : b # a => actor'[b] = actor[b]
          /\ ~actor'[a].alive /\ actor'[a].joined = actor[a].joined
          /\ \A u \in Threads : u # t => stop'[u] = stop[u]
          /\ stop'[t] = s
      BY <1>0, <2>2, <2>3
    <2>6. Untroubled'
      BY <1>1, <2>2, <2>3, SelfOnly
    <2>7. Dispatchers'
      <3>1. t \in Actors => disp[t] = "report" /\ ~actor[t].alive
        BY <1>0 DEF Ownership, Dispatchers
      <3>2. t # a
        BY <1>5, <3>1
      <3>3. ASSUME NEW b \in Actors
            PROVE  /\ refs'[b] = {} /\ call'[b] = Idle
                   /\ b \in sysrefs' \/ system'.by = b \/ stop'[b] # NoStop => disp'[b] = "report"
                   /\ disp'[b] \in {"exit", "drain", "drainTask", "log", "report", "done"}
                        => ~actor'[b].alive
                   /\ stop'[b].joins => stop'[b].of # b
        <4>1. b \in Threads
          BY Constants
        <4>2. b \in sysrefs' \/ system'.by = b \/ stop'[b] # NoStop => disp'[b] = "report"
          BY <1>1, <2>5, <3>1, <4>1 DEF Ownership, Dispatchers
        <4>3. stop'[b].joins => stop'[b].of # b
          BY <2>4, <2>5, <3>2, <4>1 DEF Ownership, Dispatchers
        <4>4. QED
          BY <1>1, <2>5, <4>2, <4>3 DEF Ownership, Dispatchers
      <3>4. QED
        BY <3>3 DEF Dispatchers
    <2>8. Constructed'
      <3>1. \A u \in Threads : stop'[u].of = stop[u].of /\ (stop'[u] # NoStop => stop[u] # NoStop)
        BY <1>a, <1>0, <2>4, <2>5
      <3>2. QED
        BY <1>1, <3>1 DEF Ownership, Constructed, counts
    <2>9. Stopped'
      <3>1. \A u \in Threads : /\ stop'[u].of = stop[u].of /\ stop'[u].frees = stop[u].frees
                               /\ stop'[u] # NoStop => stop[u] # NoStop
                               /\ u # t => stop'[u].joins = stop[u].joins
        BY <1>a, <1>0, <2>4, <2>5
      <3>2. pool' = pool /\ refs' = refs
        BY <1>1
      <3>3. ASSUME NEW u \in Threads, stop'[u] # NoStop
            PROVE  /\ ~stop'[u].frees => stop'[u].of \in refs'[u]
                   /\ stop'[u].frees => /\ ~HeldIn(stop'[u].of, pool', refs')
                                        /\ \A v \in Threads : v # u => stop'[v].of # stop'[u].of
        <4>1. stop[u] # NoStop
          BY <3>1, <3>3
        <4>2. ~stop[u].frees => stop[u].of \in refs[u]
          BY <4>1 DEF Ownership, Stopped
        <4>3. stop[u].frees => /\ ~HeldIn(stop[u].of, pool, refs)
                               /\ \A v \in Threads : v # u => stop[v].of # stop[u].of
          BY <4>1 DEF Ownership, Stopped, Held
        <4>4. QED
          BY <3>1, <3>2, <4>2, <4>3
      <3>4. ASSUME NEW u \in Threads, stop'[u] # NoStop, stop'[u].joins
            PROVE  ~actor'[stop'[u].of].alive
        <4>1. stop[u].of \in Actors
          BY <3>1, <3>4, CalmFacts
        <4>2. CASE u = t
          BY <2>4, <2>5, <4>2
        <4>3. CASE u # t
          BY <2>5, <3>1, <3>4, <4>1, <4>3 DEF Ownership, Stopped
        <4>4. QED
          BY <4>2, <4>3
      <3>5. QED
        BY <3>3, <3>4 DEF Stopped, Held
    <2>10. JoinedOnce'
      <3>1. \A u \in Threads : stop[u].of # None /\ stop[u].joins => stop'[u] = stop[u]
        BY <1>0, <2>5
      <3>2. ASSUME NEW b \in 1 .. made, ~actor'[b].alive
            PROVE  actor'[b].joined \/ \E u \in Threads : stop'[u].of = b /\ stop'[u].joins
        <4>1. b \in Actors
          BY Constants DEF TypeOK, Actors
        <4>2. CASE b = a
          BY <2>4, <2>5, <4>2
        <4>3. CASE b # a
          <5>1. actor[b].joined \/ \E u \in Threads : stop[u].of = b /\ stop[u].joins
            BY <2>5, <3>2, <4>1, <4>3 DEF Ownership, JoinedOnce
          <5>2. b # None
            BY <4>1, Constants
          <5>3. QED
            BY <2>5, <3>1, <4>1, <4>3, <5>1, <5>2
        <4>4. QED
          BY <4>2, <4>3
      <3>3. QED
        BY <1>1, <3>2 DEF JoinedOnce, counts
    <2>11. QED
      BY <1>3, <1>4, <2>6, <2>7, <2>8, <2>9, <2>10 DEF Ownership
  <1>6. CASE ~actor[a].alive
    <2>1. Leave(t, a, [actor EXCEPT ![a] = actor[a]])
      <3>1. [actor EXCEPT ![a] = actor[a]] = actor
        BY <1>0
      <3>2. Leave(t, a, actor)
        BY <1>a, <1>0, <1>6 DEF StopBegin
      <3>3. QED
        BY <3>1, <3>2
    <2>2. stop[t].frees => actor[a].joined
      <3>1. actor[a].joined \/ \E u \in Threads : stop[u].of = a /\ stop[u].joins
        BY <1>a, <1>6 DEF Ownership, JoinedOnce
      <3>2. QED
        BY <1>a, <1>0, <3>1 DEF Ownership, Stopped
    <2>3. QED
      BY <1>a, <1>0, <1>1, <1>2, <2>1, <2>2, <1>6, LeaveOwned
  <1>7. QED
    BY <1>5, <1>6

\* A dispatcher is never joined by itself, and the join is on record.
LEMMA JoinOwned ==
  ASSUME TypeOK, Shaped, Ownership, NEW t \in Threads, Join(t)
  PROVE  Ownership'
  <1>a. PICK a \in Actors : a = stop[t].of /\ a \in 1 .. made
    BY CalmFacts DEF Join, Stopping
  <1> DEFINE x == [actor[a] EXCEPT !.joined = TRUE, !.status = "STOPPED"]
  <1>0. /\ actor \in [Actors -> ActorState] /\ actor[a] \in ActorState
        /\ stop[t] # NoStop /\ stop[t].joins
    BY DEF Join, Stopping, TypeOK
  <1>1. ~actor[a].alive
    BY <1>a, <1>0 DEF Ownership, Stopped
  <1>2. t # a
    BY <1>a, <1>0 DEF Ownership, Dispatchers
  <1>3. /\ Leave(t, a, [actor EXCEPT ![a].joined = TRUE, ![a].status = "STOPPED"])
        /\ UNCHANGED <<disp, msg, pool, registry, refs, sysrefs, call, bin, cleaner, system, counts>>
    BY <1>a, <1>2 DEF Join
  <1>4. [actor EXCEPT ![a].joined = TRUE, ![a].status = "STOPPED"] = [actor EXCEPT ![a] = x]
    BY <1>0
  <1>5. x \in ActorState
    BY <1>0, ActorPut
  <1>6. x.joined = TRUE /\ x.status = "STOPPED" /\ x.mail = actor[a].mail /\ x.alive = actor[a].alive
    BY <1>0 DEF ActorState
  <1>7. Leave(t, a, [actor EXCEPT ![a] = x])
    BY <1>3, <1>4
  <1> HIDE DEF x
  <1>8. QED
    BY <1>a, <1>0, <1>1, <1>3, <1>5, <1>6, <1>7, LeaveOwned

\* A spawned actor gets its place while the spawning client holds it and the system.
LEMMA PlaceOwned ==
  ASSUME TypeOK, Shaped, Ownership, NEW t \in Threads, SetSystem(t) \/ Place(t)
  PROVE  Ownership'
  <1>a. PICK a \in Actors : a = call[t].to
    BY DEF SetSystem, Place, At, Shaped
  <1>0. /\ actor \in [Actors -> ActorState] /\ actor[a] \in ActorState
        /\ call \in [Threads -> CallState] /\ call[t].at \in {"set", "place"}
        /\ actor[a].slot \in Slots
    BY DEF TypeOK, SetSystem, Place, At, ActorState
  <1>1. t = Main /\ Main \in sysrefs /\ a \in refs[t] /\ t # Cleaner /\ t \notin Actors
        /\ a \in 1 .. made /\ call[t].from = None
    BY <1>a, <1>0, Constants DEF Ownership, Spawning, Constructed, Untroubled
  <1>2. CASE SetSystem(t)
    <2>1. /\ actor' = [actor EXCEPT ![a].owned = TRUE]
          /\ call' = [call EXCEPT ![t] = [call[t] EXCEPT !.at = "place"]]
          /\ UNCHANGED <<disp, msg, roots, refs, stop, bin, cleaner, system, crash, counts>>
      BY <1>a, <1>1, <1>2 DEF SetSystem, Goto
    <2>2. sysrefs' = sysrefs
      BY <1>1, <1>2 DEF SetSystem
    <2>3. /\ \A b \in Actors : b # a => actor'[b] = actor[b]
          /\ actor'[a].alive = actor[a].alive /\ actor'[a].joined = actor[a].joined
          /\ actor'[a].status = actor[a].status /\ actor'[a].mail = actor[a].mail
      BY <1>0, <2>1 DEF ActorState
    <2>4. /\ call'[t].from = None /\ call'[t].to = a
          /\ \A u \in Threads : u # t => call'[u] = call[u]
      BY <1>a, <1>0, <1>1, <2>1 DEF CallState
    <2>5. Untroubled'
      BY <2>1, <2>3, <2>4 DEF Ownership, Untroubled
    <2>6. CleanerWaits'
      BY <1>1, <2>1, <2>2, <2>4, Constants DEF Ownership, CleanerWaits
    <2>7. Dispatchers'
      <3>1. \A b \in Actors : call'[b] = call[b] /\ actor'[b].alive = actor[b].alive
        BY <1>1, <2>3, <2>4, Constants
      <3>2. QED
        BY <2>1, <2>2, <3>1 DEF Ownership, Dispatchers
    <2>8. Spawning'
      BY <1>1, <2>1, <2>2, <2>4 DEF Ownership, Spawning
    <2>9. Constructed' /\ Stopped' /\ JoinedOnce'
      BY <2>1, <2>3, HoldersKept DEF roots, counts
    <2>10. QED
      BY <2>5, <2>6, <2>7, <2>8, <2>9 DEF Ownership
  <1>3. CASE Place(t)
    <2>1. /\ pool' = [pool EXCEPT ![actor[a].slot] = a] /\ call' = [call EXCEPT ![t] = Idle]
          /\ UNCHANGED <<actor, disp, msg, refs, sysrefs, stop, bin, cleaner, system, crash, made>>
      BY <1>a, <1>3 DEF Place, holders, counts
    <2>2. /\ call'[t] = Idle /\ Idle.from = None /\ Idle.at = "idle"
          /\ \A u \in Threads : u # t => call'[u] = call[u]
      BY <1>0, <2>1 DEF Idle
    <2>3. \A s \in Slots : pool'[s] = pool[s] \/ pool'[s] = a
      BY <2>1 DEF TypeOK
    <2>4. Untroubled'
      BY <2>1, <2>2 DEF Ownership, Untroubled
    <2>5. CleanerWaits'
      BY <1>1, <2>1, <2>2, Constants DEF Ownership, CleanerWaits
    <2>6. Dispatchers'
      <3>1. \A b \in Actors : call'[b] = call[b]
        BY <1>1, <2>2, Constants
      <3>2. QED
        BY <2>1, <3>1 DEF Ownership, Dispatchers
    <2>7. Spawning'
      BY <2>1, <2>2 DEF Ownership, Spawning
    <2>8. Constructed'
      BY <1>1, <2>1, <2>3 DEF Ownership, Constructed
    <2>9. Stopped'
      <3>1. \A b : HeldIn(b, pool', refs') => Held(b)
        <4>1. Held(a)
          BY <1>1 DEF Held, HeldIn
        <4>2. QED
          BY <2>1, <2>3, <4>1 DEF Held, HeldIn
      <3>2. ASSUME NEW u \in Threads, stop'[u] # NoStop
            PROVE  /\ ~stop'[u].frees => stop'[u].of \in refs'[u]
                   /\ stop'[u].frees => /\ ~HeldIn(stop'[u].of, pool', refs')
                                        /\ \A v \in Threads : v # u => stop'[v].of # stop'[u].of
                   /\ stop'[u].joins => ~actor'[stop'[u].of].alive
        BY <2>1, <3>1, <3>2 DEF Ownership, Stopped
      <3>3. QED
        BY <3>2 DEF Stopped, Held
    <2>10. JoinedOnce'
      BY <2>1 DEF Ownership, JoinedOnce
    <2>11. QED
      BY <2>4, <2>5, <2>6, <2>7, <2>8, <2>9, <2>10 DEF Ownership
  <1>4. QED
    BY <1>2, <1>3

\* The new actor is held by the client that spawns it, and nobody is stopping it.
LEMMA SpawnOwned ==
  ASSUME TypeOK, Shaped, Ownership, Spawn
  PROVE  Ownership'
  <1>a. PICK a \in Actors : a = made + 1
    <2>1. made \in 0 .. MaxActors /\ made < MaxActors
      BY DEF Spawn, Construct, TypeOK
    <2>2. made + 1 \in Actors
      BY <2>1, Constants DEF Actors
    <2>3. QED
      BY <2>2
  <1> DEFINE x == [Unborn EXCEPT !.life = "up", !.alive = TRUE, !.status = "RUNNING",
                                 !.id = active_actors, !.slot = active_actors,
                                 !.first = (Main = Main)]
             c == [Idle EXCEPT !.at = "set", !.to = a]
  <1>0. /\ actor \in [Actors -> ActorState] /\ Main \in sysrefs /\ made \in Nat
        /\ Main # Cleaner /\ Main \notin Actors /\ Main \in Threads /\ crash = "no"
        /\ call[Main] = Idle /\ Actors \subseteq Threads /\ Cleaner \in Threads
    BY Constants DEF Spawn, TypeOK, Ownership, Untroubled
  <1>1. /\ actor' = [actor EXCEPT ![a] = x] /\ disp' = [disp EXCEPT ![a] = "loop"]
        /\ refs' = [refs EXCEPT ![Main] = refs[Main] \union {a}]
        /\ call' = [call EXCEPT ![Main] = c] /\ made' = a
        /\ UNCHANGED <<msg, pool, locked, sysrefs, stop, bin, cleaner, system, crash>>
    BY <1>a DEF Spawn, Construct
  <1>2. x.mail = <<>> /\ x.alive = TRUE /\ x.status = "RUNNING" /\ Len(x.mail) = 0
    BY DEF Unborn
  <1>3. c.at = "set" /\ c.to = a /\ c.from = None
    BY DEF Idle
  <1> HIDE DEF x, c
  <1>4. /\ \A b \in Actors : b # a => actor'[b] = actor[b] /\ disp'[b] = disp[b]
        /\ actor'[a] = x /\ disp'[a] = "loop"
        /\ \A u \in Threads : u # Main => call'[u] = call[u] /\ refs'[u] = refs[u]
        /\ call'[Main] = c /\ refs'[Main] = refs[Main] \union {a}
    BY <1>0, <1>1 DEF TypeOK
  <1>5. a > made /\ a \notin 1 .. made /\ 1 .. made' = (1 .. made) \union {a} /\ disp[a] = "none"
        /\ \A b \in Actors : b > made' => b > made
    <2>1. a > made /\ a \notin 1 .. made
      BY <1>a, <1>0
    <2>2. 1 .. made' = (1 .. made) \union {a}
      BY <1>a, <1>0, <1>1
    <2>3. disp[a] = "none"
      BY <2>1 DEF Ownership, Constructed
    <2>4. \A b \in Actors : b > made' => b > made
      BY <1>a, <1>0, <1>1, Constants DEF Actors
    <2>5. QED
      BY <2>1, <2>2, <2>3, <2>4
  <1>6. Untroubled'
    BY <1>1, <1>2, <1>3, <1>4 DEF Ownership, Untroubled
  <1>7. CleanerWaits'
    BY <1>0, <1>1, <1>4 DEF Ownership, CleanerWaits
  <1>8. Dispatchers'
    <2>1. \A b \in Actors : refs'[b] = refs[b] /\ call'[b] = call[b]
      BY <1>0, <1>4
    <2>2. a \notin sysrefs /\ system.by # a /\ stop[a] = NoStop
      BY <1>5 DEF Ownership, Dispatchers
    <2>3. QED
      BY <1>1, <1>2, <1>4, <2>1, <2>2 DEF Ownership, Dispatchers
  <1>9. Spawning'
    BY <1>0, <1>1, <1>3, <1>4 DEF Ownership, Spawning
  <1>10. Constructed'
    <2>1. \A u \in Threads : refs'[u] \subseteq 1 .. made'
      BY <1>4, <1>5 DEF Ownership, Constructed
    <2>2. \A s \in Slots : pool'[s] \in (1 .. made') \union {None}
      BY <1>1, <1>5 DEF Ownership, Constructed
    <2>3. \A u \in Threads : stop'[u] # NoStop => stop'[u].of \in 1 .. made'
      BY <1>1, <1>5 DEF Ownership, Constructed
    <2>4. \A b \in Actors : b > made' => disp'[b] = "none"
      <3>1. ~(a > made')
        BY <1>a, <1>0, <1>1
      <3>2. QED
        BY <1>4, <1>5, <3>1 DEF Ownership, Constructed
    <2>5. QED
      BY <2>1, <2>2, <2>3, <2>4 DEF Constructed
  <1>11. Stopped'
    <2>1. \A b : HeldIn(b, pool', refs') => Held(b) \/ b = a
      BY <1>1, <1>4 DEF Held, HeldIn
    <2>2. ASSUME NEW u \in Threads, stop'[u] # NoStop
          PROVE  /\ ~stop'[u].frees => stop'[u].of \in refs'[u]
                 /\ stop'[u].frees => /\ ~HeldIn(stop'[u].of, pool', refs')
                                      /\ \A v \in Threads : v # u => stop'[v].of # stop'[u].of
                 /\ stop'[u].joins => ~actor'[stop'[u].of].alive
      <3>1. stop' = stop /\ stop[u].of \in 1 .. made /\ stop[u].of \in Actors /\ stop[u].of # a
        BY <1>1, <1>5, <2>2, CalmFacts
      <3>2. ~stop[u].frees => stop[u].of \in refs'[u]
        BY <1>4, <2>2, <3>1 DEF Ownership, Stopped
      <3>3. stop[u].frees => /\ ~HeldIn(stop[u].of, pool', refs')
                             /\ \A v \in Threads : v # u => stop[v].of # stop[u].of
        BY <2>1, <2>2, <3>1 DEF Ownership, Stopped
      <3>4. stop[u].joins => ~actor'[stop[u].of].alive
        BY <1>4, <2>2, <3>1 DEF Ownership, Stopped
      <3>5. QED
        BY <3>1, <3>2, <3>3, <3>4
    <2>3. QED
      BY <2>2 DEF Stopped, Held
  <1>12. JoinedOnce'
    <2>1. 1 .. made \subseteq Actors
      BY Constants DEF TypeOK, Actors
    <2>2. QED
      BY <1>1, <1>2, <1>4, <1>5, <2>1 DEF Ownership, JoinedOnce
  <1>13. QED
    BY <1>6, <1>7, <1>8, <1>9, <1>10, <1>11, <1>12 DEF Ownership

\* What stays when only stops and references change.
LEMMA SameOwners ==
  ASSUME Ownership, UNCHANGED <<actor, disp, msg, sysrefs, call, bin, cleaner, crash>>,
         system'.by = system.by, made' = made,
         refs'[Cleaner] = {}, stop'[Cleaner] = NoStop
  PROVE  Untroubled' /\ CleanerWaits'
  <1>1. Untroubled'
    BY DEF Ownership, Untroubled
  <1>2. CleanerWaits'
    BY DEF Ownership, CleanerWaits
  <1>3. QED
    BY <1>1, <1>2

\* The last reference goes: its thread is alone with the actor.  It is a client, or a
\* dispatcher that destroys the system.
LEMMA ReleaseOwned ==
  ASSUME TypeOK, Shaped, Ownership, NEW t \in Threads, NEW a \in Actors, a \in 1 .. made,
         NEW p \in [Slots -> Actors \union {None}], NEW r \in [Threads -> SUBSET Actors],
         Release(t, a, p, r), stop[t] = NoStop, t # Cleaner,
         t \in Actors => disp[t] = "report", Held(a),
         \A s \in Slots : p[s] = pool[s] \/ p[s] = None,
         \A u \in Threads : u # t => r[u] = refs[u],
         r[t] \subseteq refs[t], call[t] = Idle \/ r[t] = refs[t],
         UNCHANGED <<actor, disp, msg, sysrefs, call, bin, cleaner, crash, made>>,
         system'.by = system.by
  PROVE  Ownership'
  <1> DEFINE n == [of |-> a, frees |-> TRUE, joins |-> FALSE]
  <1>0. /\ pool' = p /\ refs' = r /\ stop \in [Threads -> StopState] /\ Cleaner \in Threads
        /\ Actors \subseteq Threads /\ None \notin Actors
    BY Constants DEF Release, TypeOK
  <1>1. \/ stop' = stop
        \/ stop' = [stop EXCEPT ![t] = n] /\ ~HeldIn(a, pool', refs')
    BY DEF Release
  <1>2. n.of = a /\ n.frees = TRUE /\ n.joins = FALSE
    OBVIOUS
  <1> HIDE DEF n
  <1>3. \A u \in Threads : \/ stop'[u] = stop[u]
                           \/ u = t /\ stop'[u] = n /\ ~HeldIn(a, pool', refs')
    BY <1>0, <1>1
  <1>4. \A b \in Actors : HeldIn(b, pool', refs') => Held(b)
    BY <1>0 DEF Held, HeldIn
  <1>5. Untroubled' /\ CleanerWaits'
    <2>1. refs'[Cleaner] = {} /\ stop'[Cleaner] = NoStop
      BY <1>0, <1>3 DEF Ownership, CleanerWaits
    <2>2. QED
      BY <2>1, SameOwners
  <1>6. Dispatchers'
    <2>1. \A b \in Actors : refs'[b] = {}
      BY <1>0 DEF Ownership, Dispatchers
    <2>2. \A b \in Actors : b \in sysrefs' \/ system'.by = b \/ stop'[b] # NoStop => disp'[b] = "report"
      BY <1>0, <1>3 DEF Ownership, Dispatchers
    <2>3. \A b \in Actors : stop'[b].joins => stop'[b].of # b
      BY <1>0, <1>2, <1>3 DEF Ownership, Dispatchers
    <2>4. QED
      BY <2>1, <2>2, <2>3 DEF Ownership, Dispatchers
  <1>7. Spawning'
    <2>1. \A u \in Threads : call[u].at \in {"set", "unset", "place"} => refs'[u] = refs[u]
      BY <1>0 DEF Idle
    <2>2. QED
      BY <1>0, <2>1 DEF Ownership, Spawning
  <1>8. Constructed'
    <2>1. \A u \in Threads : refs'[u] \subseteq 1 .. made
      BY <1>0 DEF Ownership, Constructed
    <2>2. \A s \in Slots : pool'[s] \in (1 .. made) \union {None}
      BY <1>0 DEF Ownership, Constructed
    <2>3. \A u \in Threads : stop'[u] # NoStop => stop'[u].of \in 1 .. made
      BY <1>2, <1>3 DEF Ownership, Constructed
    <2>4. QED
      BY <2>1, <2>2, <2>3 DEF Ownership, Constructed
  <1>9. Stopped'
    <2>1. ASSUME NEW u \in Threads, stop'[u] # NoStop
          PROVE  /\ ~stop'[u].frees => stop'[u].of \in refs'[u]
                 /\ stop'[u].frees => /\ ~HeldIn(stop'[u].of, pool', refs')
                                      /\ \A v \in Threads : v # u => stop'[v].of # stop'[u].of
                 /\ stop'[u].joins => ~actor'[stop'[u].of].alive
      <3>1. CASE stop'[u] = stop[u]
        <4>1. u # t /\ stop[u].of \in Actors
          BY <2>1, <3>1, CalmFacts
        <4>2. ~stop[u].frees => stop[u].of \in refs'[u]
          BY <1>0, <2>1, <3>1, <4>1 DEF Ownership, Stopped
        <4>3. ASSUME stop[u].frees
              PROVE  /\ ~HeldIn(stop[u].of, pool', refs')
                     /\ \A v \in Threads : v # u => stop'[v].of # stop[u].of
          <5>1. ~Held(stop[u].of) /\ \A v \in Threads : v # u => stop[v].of # stop[u].of
            BY <2>1, <3>1, <4>3 DEF Ownership, Stopped
          <5>2. stop[u].of # a
            BY <5>1
          <5>3. QED
            BY <1>2, <1>3, <1>4, <4>1, <5>1, <5>2
        <4>4. stop[u].joins => ~actor[stop[u].of].alive
          BY <2>1, <3>1 DEF Ownership, Stopped
        <4>5. QED
          BY <3>1, <4>2, <4>3, <4>4
      <3>2. CASE u = t /\ stop'[u] = n /\ ~HeldIn(a, pool', refs')
        <4>1. ASSUME NEW v \in Threads, v # t, stop[v].of = a PROVE FALSE
          <5>1. stop[v] # NoStop
            BY <1>0, <4>1 DEF NoStop
          <5>2. CASE stop[v].frees
            BY <4>1, <5>1, <5>2 DEF Ownership, Stopped
          <5>3. CASE ~stop[v].frees
            <6>1. a \in refs'[v]
              BY <1>0, <4>1, <5>1, <5>3 DEF Ownership, Stopped
            <6>2. QED
              BY <3>2, <6>1 DEF HeldIn
          <5>4. QED
            BY <5>2, <5>3
        <4>2. \A v \in Threads : v # t => stop'[v] = stop[v]
          BY <1>3
        <4>3. QED
          BY <1>2, <3>2, <4>1, <4>2
      <3>3. QED
        BY <1>3, <3>1, <3>2
    <2>2. QED
      BY <2>1 DEF Stopped, Held
  <1>10. JoinedOnce'
    <2>1. \A u \in Threads : stop[u].joins => stop'[u] = stop[u]
      BY <1>3 DEF NoStop
    <2>2. ASSUME NEW b \in 1 .. made, ~actor[b].alive
          PROVE  actor[b].joined \/ \E u \in Threads : stop'[u].of = b /\ stop'[u].joins
      <3>1. actor[b].joined \/ \E u \in Threads : stop[u].of = b /\ stop[u].joins
        BY <2>2 DEF Ownership, JoinedOnce
      <3>2. QED
        BY <2>1, <3>1
    <2>3. QED
      BY <2>2 DEF JoinedOnce
  <1>11. QED
    BY <1>5, <1>6, <1>7, <1>8, <1>9, <1>10 DEF Ownership

LEMMA LetGoOwned ==
  ASSUME TypeOK, Shaped, Ownership, NEW t \in Threads, NEW a \in Actors, LetGo(t, a)
  PROVE  Ownership'
  <1> DEFINE r == [refs EXCEPT ![t] = refs[t] \ {a}]
  <1>1. /\ Release(t, a, pool, r) /\ stop[t] = NoStop /\ call[t] = Idle /\ a \in refs[t]
        /\ UNCHANGED <<actor, disp, msg, registry, locked, sysrefs, call, bin, cleaner, system, crash, counts>>
    BY DEF LetGo, Free
  <1>2. pool \in [Slots -> Actors \union {None}] /\ r \in [Threads -> SUBSET Actors]
    BY DEF TypeOK
  <1>3. t \in Clients /\ t # Cleaner /\ t \notin Actors
    BY <1>1, CalmFacts, Constants
  <1>4. Held(a) /\ a \in 1 .. made
    <2>1. Held(a)
      BY <1>1 DEF Held, HeldIn
    <2>2. QED
      BY <2>1, CalmFacts
  <1>5. r[t] \subseteq refs[t] /\ \A u \in Threads : u # t => r[u] = refs[u]
    BY DEF TypeOK
  <1> HIDE DEF r
  <1>6. system'.by = system.by /\ made' = made
    BY <1>1 DEF counts
  <1>7. QED
    BY <1>1, <1>2, <1>3, <1>4, <1>5, <1>6, ReleaseOwned

\* A thread that destroys the system empties the pool, place by place.
LEMMA ClearOwned ==
  ASSUME TypeOK, Shaped, Ownership, NEW t \in Threads, Clear(t)
  PROVE  Ownership'
  <1>1. /\ stop[t] = NoStop /\ system.by = t /\ system.next < Total
        /\ Unregister(t, system.next) /\ system' = [system EXCEPT !.next = system.next + 1]
        /\ UNCHANGED <<actor, disp, msg, sysrefs, call, bin, cleaner, crash, counts>>
    BY DEF Clear, Destroying
  <1>2. PICK s \in Slots : s = system.next
    BY <1>1, Constants DEF TypeOK, Slots
  <1>3. t # Cleaner /\ (t \in Actors => disp[t] = "report") /\ Cleaner \in Threads
    BY <1>1, Constants DEF Ownership, CleanerWaits, Dispatchers
  <1>4. system'.by = system.by /\ made' = made
    BY <1>1 DEF TypeOK, counts
  <1>5. CASE pool[s] = None
    <2>1. pool' = pool /\ refs' = refs /\ stop' = stop
      BY <1>1, <1>2, <1>5 DEF Unregister, roots
    <2>2. Untroubled' /\ CleanerWaits'
      BY <1>1, <1>4, <2>1, SameOwners DEF Ownership, CleanerWaits
    <2>3. Dispatchers'
      BY <1>1, <1>4, <2>1 DEF Ownership, Dispatchers
    <2>4. Spawning'
      BY <1>1, <2>1 DEF Ownership, Spawning
    <2>5. Constructed' /\ Stopped' /\ JoinedOnce'
      BY <1>1, <1>4, <2>1, HoldersKept
    <2>6. QED
      BY <2>2, <2>3, <2>4, <2>5 DEF Ownership
  <1>6. CASE pool[s] # None
    <2> DEFINE p == [pool EXCEPT ![s] = None]
    <2>1. PICK a \in Actors : a = pool[s]
      BY <1>6 DEF TypeOK
    <2>2. Release(t, a, p, refs)
      BY <1>1, <1>2, <1>6, <2>1 DEF Unregister
    <2>3. p \in [Slots -> Actors \union {None}] /\ refs \in [Threads -> SUBSET Actors]
      BY DEF TypeOK
    <2>4. Held(a) /\ a \in 1 .. made
      <3>1. Held(a)
        BY <2>1 DEF Held, HeldIn
      <3>2. QED
        BY <3>1, CalmFacts
    <2>5. \A q \in Slots : p[q] = pool[q] \/ p[q] = None
      BY DEF TypeOK
    <2> HIDE DEF p
    <2>6. QED
      BY <1>1, <1>3, <1>4, <2>2, <2>3, <2>4, <2>5, ReleaseOwned
  <1>7. QED
    BY <1>5, <1>6

\* The system changes hands, and the cleanup thread is told to end.
LEMMA SystemOwned ==
  ASSUME TypeOK, Shaped, Ownership,
         \/ Take \/ Erase \/ Settled
         \/ \E t \in Threads : LetGoSystem(t) \/ JoinCleaner(t) \/ Destroyed(t)
  PROVE  Ownership'
  <1>0. /\ ~Erase /\ ~Settled /\ Cleaner \in Threads /\ None # Cleaner /\ None \notin Actors
        /\ bin \in Seq(Ids) /\ Main \in Clients /\ crash = "no"
    BY Constants DEF Erase, Settled, Cleaning, Ownership, CleanerWaits, Untroubled, TypeOK
  <1>1. CASE Take
    <2>1. bin # <<>> /\ Head(bin) = Total /\ Total # Wild
      <3>1. bin # <<>>
        BY <1>1 DEF Take
      <3>2. Head(bin) = bin[1] /\ 1 \in 1 .. Len(bin)
        BY <1>0, <3>1
      <3>3. Total # Wild
        BY ThreadsAssumption
      <3>4. QED
        BY <3>1, <3>2, <3>3 DEF Ownership, CleanerWaits
    <2>2. /\ bin' = Tail(bin) /\ cleaner' = [cleaner EXCEPT !.at = "gone"] /\ refs' = refs
          /\ UNCHANGED <<actor, disp, msg, roots, sysrefs, stop, call, system, crash, counts>>
      BY <1>1, <2>1 DEF Take
    <2>3. \A i \in 1 .. Len(bin') : bin'[i] = Total
      <3>1. /\ Len(Tail(bin)) = Len(bin) - 1 /\ Len(bin) \in Nat
            /\ \A i \in 1 .. Len(bin) - 1 : Tail(bin)[i] = bin[i + 1]
        BY <1>0, <2>1
      <3>2. \A i \in 1 .. Len(bin) - 1 : i + 1 \in 1 .. Len(bin)
        BY <3>1
      <3>3. QED
        BY <2>2, <3>1, <3>2 DEF Ownership, CleanerWaits
    <2>4. cleaner'.at = "gone"
      BY <2>2 DEF TypeOK
    <2>5. CleanerWaits'
      BY <2>2, <2>3, <2>4 DEF Ownership, CleanerWaits
    <2>6. Untroubled'
      BY <2>2 DEF Ownership, Untroubled
    <2>7. Dispatchers' /\ Spawning'
      BY <2>2 DEF Ownership, Dispatchers, Spawning
    <2>8. Constructed' /\ Stopped' /\ JoinedOnce'
      BY <2>2, HoldersKept DEF roots, counts
    <2>9. QED
      BY <2>5, <2>6, <2>7, <2>8 DEF Ownership
  <1>2. ASSUME NEW t \in Threads, LetGoSystem(t) \/ JoinCleaner(t) \/ Destroyed(t)
        PROVE  Ownership'
    <2>1. t # Cleaner
      BY <1>2 DEF LetGoSystem, JoinCleaner, Destroyed, Destroying, Ownership, CleanerWaits
    <2>2. /\ UNCHANGED <<actor, disp, msg, roots, refs, stop, call, cleaner, crash, counts>>
          /\ sysrefs' \subseteq sysrefs
      <3>1. CASE LetGoSystem(t)
        BY <2>1, <3>1 DEF LetGoSystem
      <3>2. CASE JoinCleaner(t) \/ Destroyed(t)
        BY <2>1, <3>2 DEF JoinCleaner, Destroyed, holders
      <3>3. QED
        BY <1>2, <3>1, <3>2
    <2>3. /\ bin' = bin \/ bin' = Append(bin, Total)
          /\ \/ system'.by \in {system.by, None}
             \/ system'.by = t /\ t \in sysrefs
      <3>1. CASE LetGoSystem(t)
        BY <3>1 DEF LetGoSystem
      <3>2. CASE JoinCleaner(t) \/ Destroyed(t)
        BY <2>1, <3>2 DEF JoinCleaner, Destroyed, TypeOK
      <3>3. QED
        BY <1>2, <3>1, <3>2
    <2>4. \A i \in 1 .. Len(bin') : bin'[i] = Total
      <3>1. /\ Len(Append(bin, Total)) = Len(bin) + 1 /\ Len(bin) \in Nat
            /\ \A i \in 1 .. Len(bin) + 1 : Append(bin, Total)[i] = IF i = Len(bin) + 1 THEN Total ELSE bin[i]
        BY <1>0, Constants
      <3>2. \A i \in 1 .. Len(bin) + 1 : i = Len(bin) + 1 \/ i \in 1 .. Len(bin)
        BY <3>1
      <3>3. QED
        BY <2>3, <3>1, <3>2 DEF Ownership, CleanerWaits
    <2>5. CleanerWaits'
      BY <1>0, <2>1, <2>2, <2>3, <2>4 DEF Ownership, CleanerWaits
    <2>6. Untroubled'
      BY <2>2 DEF Ownership, Untroubled
    <2>7. Dispatchers'
      BY <1>0, <2>2, <2>3 DEF Ownership, Dispatchers
    <2>8. Spawning'
      <3>1. ASSUME NEW u \in Threads, call'[u].at \in {"set", "unset", "place"}
            PROVE  u = Main /\ Main \in sysrefs' /\ call'[u].to \in refs'[u]
        <4>1. u = Main /\ Main \in sysrefs /\ call[u].to \in refs[u] /\ call[u] # Idle
          BY <2>2, <3>1 DEF Ownership, Spawning, Idle
        <4>2. sysrefs' = sysrefs \/ (sysrefs' = sysrefs \ {t} /\ call[t] = Idle)
          <5>1. CASE LetGoSystem(t)
            BY <2>1, <5>1 DEF LetGoSystem
          <5>2. JoinCleaner(t) \/ Destroyed(t) => sysrefs' = sysrefs
            BY <2>1 DEF JoinCleaner, Destroyed, holders
          <5>3. QED
            BY <1>2, <5>1, <5>2
        <4>3. QED
          BY <2>2, <4>1, <4>2
      <3>2. QED
        BY <3>1 DEF Spawning
    <2>9. Constructed' /\ Stopped' /\ JoinedOnce'
      BY <2>2, HoldersKept DEF roots, counts
    <2>10. QED
      BY <2>5, <2>6, <2>7, <2>8, <2>9 DEF Ownership
  <1>3. QED
    BY <1>0, <1>1, <1>2

\* A client takes references only to actors that are held.
LEMMA ClientOwned ==
  ASSUME TypeOK, Shaped, Ownership, asked' = asked, ~asked, NEW c \in Clients, Send(c) \/ Stop(c)
  PROVE  Ownership'
  <1>0. c \in Threads /\ c # Cleaner /\ c \notin Actors /\ None \notin Actors /\ Cleaner \in Threads
        /\ Actors \subseteq Threads
    BY Constants
  <1>1. CASE Send(c)
    <2>1. PICK r \in Slots, s \in Slots \union {None} :
            LET to == Found(r)
                from == IF s = None THEN None ELSE Found(s)
            IN /\ to # None /\ (s # None => from # None /\ actor[from].alive)
               /\ refs' = [refs EXCEPT ![c] = @ \union ({to, from} \ {None})]
               /\ call' = [call EXCEPT ![c] = [at |-> "alive", to |-> to, from |-> from]]
               /\ asked' = (asked \/ from # None)
               /\ sent' = sent + (IF from = None THEN 1 ELSE 2) /\ sent' <= MaxMessages
      BY <1>1 DEF Send
    <2>2. PICK a \in Actors : a = Found(r) /\ Held(a) /\ a \in 1 .. made
      BY <2>1, Named, CalmFacts
    <2> DEFINE v == [at |-> "alive", to |-> a, from |-> None]
    <2>3. refs' = [refs EXCEPT ![c] = refs[c] \union {a}] /\ call' = [call EXCEPT ![c] = v]
      <3>1. (IF s = None THEN None ELSE Found(s)) = None
        <4>1. s # None => Found(s) # None /\ asked' = (asked \/ Found(s) # None)
          BY <2>1
        <4>2. s # None => asked' = TRUE
          BY <4>1
        <4>3. s = None
          BY <4>2
        <4>4. QED
          BY <4>3
      <3>2. {a, None} \ {None} = {a}
        BY <1>0
      <3>3. QED
        BY <2>1, <2>2, <3>1, <3>2
    <2>4. v.at = "alive" /\ v.from = None
      OBVIOUS
    <2> HIDE DEF v
    <2>5. UNCHANGED <<actor, disp, msg, pool, sysrefs, stop, bin, cleaner, system, crash, made>>
      BY <1>1 DEF Send, roots
    <2>6. /\ refs'[c] = refs[c] \union {a} /\ call'[c] = v
          /\ \A u \in Threads : u # c => refs'[u] = refs[u] /\ call'[u] = call[u]
      BY <1>0, <2>3 DEF TypeOK
    <2>7. Untroubled'
      BY <2>4, <2>5, <2>6 DEF Ownership, Untroubled
    <2>8. CleanerWaits'
      BY <1>0, <2>5, <2>6 DEF Ownership, CleanerWaits
    <2>9. Dispatchers'
      <3>1. \A b \in Actors : refs'[b] = refs[b] /\ call'[b] = call[b]
        BY <1>0, <2>6
      <3>2. QED
        BY <2>5, <3>1 DEF Ownership, Dispatchers
    <2>10. Spawning'
      BY <2>4, <2>5, <2>6 DEF Ownership, Spawning
    <2>11. Constructed'
      BY <2>2, <2>5, <2>6 DEF Ownership, Constructed
    <2>12. Stopped'
      <3>1. \A b : HeldIn(b, pool', refs') => Held(b) \/ b = a
        BY <2>5, <2>6 DEF Held, HeldIn
      <3>2. ASSUME NEW u \in Threads, stop'[u] # NoStop
            PROVE  /\ ~stop'[u].frees => stop'[u].of \in refs'[u]
                   /\ stop'[u].frees => /\ ~HeldIn(stop'[u].of, pool', refs')
                                        /\ \A w \in Threads : w # u => stop'[w].of # stop'[u].of
                   /\ stop'[u].joins => ~actor'[stop'[u].of].alive
        <4>1. stop' = stop /\ stop[u] # NoStop
          BY <2>5, <3>2
        <4>2. ~stop[u].frees => stop[u].of \in refs'[u]
          BY <2>6, <4>1 DEF Ownership, Stopped
        <4>3. stop[u].frees => /\ ~HeldIn(stop[u].of, pool', refs')
                               /\ \A w \in Threads : w # u => stop[w].of # stop[u].of
          BY <2>2, <3>1, <4>1 DEF Ownership, Stopped
        <4>4. stop[u].joins => ~actor'[stop[u].of].alive
          BY <2>5, <4>1 DEF Ownership, Stopped
        <4>5. QED
          BY <4>1, <4>2, <4>3, <4>4
      <3>3. QED
        BY <3>2 DEF Stopped, Held
    <2>13. JoinedOnce'
      BY <2>5 DEF Ownership, JoinedOnce
    <2>14. QED
      BY <2>7, <2>8, <2>9, <2>10, <2>11, <2>12, <2>13 DEF Ownership
  <1>2. CASE Stop(c)
    <2>1. PICK a \in refs[c] : stop' = [stop EXCEPT ![c] = [NoStop EXCEPT !.of = a]]
      BY <1>2 DEF Stop
    <2> DEFINE v == [NoStop EXCEPT !.of = a]
    <2>2. a \in Actors /\ a \in 1 .. made /\ Held(a)
      BY <1>0, <2>1 DEF TypeOK, Ownership, Constructed, Held, HeldIn
    <2>3. v.of = a /\ v.frees = FALSE /\ v.joins = FALSE
      BY DEF NoStop
    <2>4. /\ stop' = [stop EXCEPT ![c] = v] /\ stop[c] = NoStop
          /\ UNCHANGED <<actor, disp, msg, roots, refs, sysrefs, call, bin, cleaner, system, crash, counts>>
      BY <1>2, <2>1 DEF Stop, Free
    <2> HIDE DEF v
    <2>5. stop'[c] = v /\ \A u \in Threads : u # c => stop'[u] = stop[u]
      BY <1>0, <2>4 DEF TypeOK
    <2>6. Untroubled' /\ CleanerWaits'
      <3>1. refs'[Cleaner] = {} /\ stop'[Cleaner] = NoStop
        BY <1>0, <2>4, <2>5 DEF Ownership, CleanerWaits
      <3>2. QED
        BY <2>4, <3>1, SameOwners DEF counts
    <2>7. Dispatchers'
      <3>1. \A b \in Actors : stop'[b] = stop[b]
        BY <1>0, <2>5
      <3>2. QED
        BY <2>4, <3>1 DEF Ownership, Dispatchers
    <2>8. Spawning'
      BY <2>4 DEF Ownership, Spawning
    <2>9. Constructed'
      BY <2>2, <2>3, <2>4, <2>5 DEF Ownership, Constructed, roots, counts
    <2>10. Stopped'
      <3>0. pool' = pool /\ refs' = refs /\ actor' = actor
        BY <2>4 DEF roots
      <3>1. ASSUME NEW u \in Threads, stop'[u] # NoStop
            PROVE  /\ ~stop'[u].frees => stop'[u].of \in refs'[u]
                   /\ stop'[u].frees => /\ ~HeldIn(stop'[u].of, pool', refs')
                                        /\ \A w \in Threads : w # u => stop'[w].of # stop'[u].of
                   /\ stop'[u].joins => ~actor'[stop'[u].of].alive
        <4>1. CASE u = c
          BY <2>1, <2>3, <2>5, <3>0, <4>1
        <4>2. CASE u # c
          <5>1. stop'[u] = stop[u] /\ stop[u] # NoStop
            BY <2>5, <3>1, <4>2
          <5>2. stop[u].frees => /\ ~HeldIn(stop[u].of, pool, refs)
                                 /\ \A w \in Threads : w # u => stop[w].of # stop[u].of
            BY <5>1 DEF Ownership, Stopped, Held
          <5>3. stop[u].frees => stop[u].of # a
            BY <2>2, <5>2 DEF Held
          <5>4. ~stop[u].frees => stop[u].of \in refs[u]
            BY <5>1 DEF Ownership, Stopped
          <5>5. stop[u].joins => ~actor[stop[u].of].alive
            BY <5>1 DEF Ownership, Stopped
          <5>6. QED
            BY <2>3, <2>5, <3>0, <5>1, <5>2, <5>3, <5>4, <5>5
        <4>3. QED
          BY <4>1, <4>2
      <3>2. QED
        BY <3>1 DEF Stopped, Held
    <2>11. JoinedOnce'
      <3>1. \A u \in Threads : stop[u].joins => stop'[u] = stop[u]
        BY <2>4, <2>5 DEF NoStop
      <3>2. ASSUME NEW b \in 1 .. made, ~actor[b].alive
            PROVE  actor[b].joined \/ \E u \in Threads : stop'[u].of = b /\ stop'[u].joins
        <4>1. actor[b].joined \/ \E u \in Threads : stop[u].of = b /\ stop[u].joins
          BY <3>2 DEF Ownership, JoinedOnce
        <4>2. QED
          BY <3>1, <4>1
      <3>3. QED
        BY <2>4, <3>2 DEF JoinedOnce, counts
    <2>12. QED
      BY <2>6, <2>7, <2>8, <2>9, <2>10, <2>11 DEF Ownership
  <1>3. QED
    BY <1>1, <1>2

\* Tasks that threw and replies asked for are not taken back.
LEMMA CalmBefore ==
  ASSUME TypeOK, TypeOK', Next, Calm'
  PROVE  Calm /\ thrown' = thrown /\ asked' = asked
  <1>0. thrown \in Nat /\ asked \in BOOLEAN /\ asked' \in BOOLEAN
    BY DEF TypeOK
  <1>1. thrown' \in {thrown, thrown + 1} /\ (asked => asked')
    <2>1. ASSUME NEW t \in Threads, Calling(t) PROVE thrown' = thrown /\ asked' = asked
      BY <2>1 DEF Calling, StopBegin, Join, AddCheck, Push, GiveUp, Publish, Signal, SetSystem,
                  Place, JoinCleaner, Clear, Destroyed, Crash, mailing, counts
    <2>2. ASSUME NEW t \in Threads, (\E a \in Actors : LetGo(t, a)) \/ LetGoSystem(t)
          PROVE  thrown' = thrown /\ asked' = asked
      BY <2>2 DEF LetGo, LetGoSystem, counts
    <2>3. ASSUME NEW a \in Actors, Dispatching(a)
          PROVE  thrown' \in {thrown, thrown + 1} /\ asked' = asked
      <3>1. CASE CheckMailbox(a) \/ Acquire(a) \/ Pop(a) \/ PopNothing(a) \/ Return(a)
        BY <3>1 DEF CheckMailbox, Acquire, Pop, PopNothing, Return, counts
      <3>2. CASE Throw(a)
        BY <3>2 DEF Throw
      <3>3. CASE Fail(a) \/ Log(a) \/ Notice(a) \/ Exit(a) \/ Report(a) \/ Bin(a)
        BY <3>3 DEF Fail, Log, Notice, Exit, Report, Bin, counts
      <3>4. QED
        BY <2>2, <2>3, <3>1, <3>2, <3>3, Constants DEF Dispatching
    <2>4. CASE CleaningUp
      BY <2>2, <2>4, Constants DEF CleaningUp, Take, Erase, Respawn, Settled, Construct, Crash, counts
    <2>5. ASSUME NEW c \in Clients, Using(c) PROVE thrown' = thrown /\ (asked => asked')
      BY <2>2, <2>5, Constants DEF Using, Spawn, Construct, Send, Stop, counts
    <2>6. QED
      BY <2>1, <2>3, <2>4, <2>5 DEF Next
  <1>2. thrown' = 0 /\ ~asked'
    BY DEF Calm
  <1>3. thrown = 0 /\ thrown' = thrown
    BY <1>0, <1>1, <1>2
  <1>4. ~asked /\ asked' = asked
    BY <1>0, <1>1, <1>2
  <1>5. QED
    BY <1>3, <1>4 DEF Calm

LEMMA OwnershipStep ==
  ASSUME TypeOK, TypeOK', Shaped, Calm => Ownership, Next, Calm'
  PROVE  Ownership'
  <1>0. Ownership /\ thrown' = thrown /\ asked' = asked /\ ~asked
    BY CalmBefore DEF Calm
  <1>1. ASSUME NEW t \in Threads, (\E a \in Actors : LetGo(t, a)) \/ LetGoSystem(t)
        PROVE  Ownership'
    BY <1>0, <1>1, LetGoOwned, SystemOwned
  <1>2. ASSUME NEW t \in Threads, Calling(t) PROVE Ownership'
    BY <1>0, <1>2, StopBeginOwned, JoinOwned, MailOwned, PlaceOwned, ClearOwned, SystemOwned
       DEF Calling
  <1>3. ASSUME NEW a \in Actors, Dispatching(a) PROVE Ownership'
    BY <1>0, <1>1, <1>3, DispatchOwned, Constants DEF Dispatching
  <1>4. CASE CleaningUp
    <2>1. ~Respawn
      BY <1>0 DEF Respawn, Cleaning, Ownership, CleanerWaits
    <2>2. QED
      BY <1>0, <1>1, <1>4, <2>1, SystemOwned, Constants DEF CleaningUp
  <1>5. ASSUME NEW c \in Clients, Using(c) PROVE Ownership'
    BY <1>0, <1>1, <1>5, SpawnOwned, ClientOwned, Constants DEF Using
  <1>6. QED
    BY <1>2, <1>3, <1>4, <1>5 DEF Next

LEMMA OwnershipInit == Init => Ownership
  <1> SUFFICES ASSUME Init PROVE Ownership
    OBVIOUS
  <1>1. /\ Cleaner \in Threads /\ Cleaner \notin Clients /\ Actors \intersect Clients = {}
        /\ None # Cleaner /\ None \notin Actors
    BY Constants
  <1>2. Untroubled
    BY DEF Init, Untroubled, Unborn, NoMessage, Idle
  <1>3. CleanerWaits
    BY <1>1 DEF Init, CleanerWaits
  <1>4. Dispatchers
    <2>1. \A a \in Actors : /\ a \in Threads /\ a \notin sysrefs /\ system.by # a
                            /\ refs[a] = {} /\ call[a] = Idle /\ stop[a] = NoStop
                            /\ disp[a] = "none"
      BY <1>1 DEF Init, Threads
    <2>2. ~NoStop.joins
      BY DEF NoStop
    <2>3. QED
      BY <2>1, <2>2 DEF Dispatchers
  <1>5. Spawning /\ Constructed /\ Stopped
    BY DEF Init, Spawning, Constructed, Stopped, Idle
  <1>6. JoinedOnce
    BY DEF Init, JoinedOnce
  <1>7. QED
    BY <1>2, <1>3, <1>4, <1>5, <1>6 DEF Ownership

LEMMA Invariance == Spec => []IInv
  <1>1. Init => IInv
    BY Initially, CountInit, OwnershipInit DEF IInv
  <1>2. IInv /\ [Next]_vars => IInv'
    <2>1. ASSUME IInv, Next PROVE IInv'
      <3>1. TypeOK' /\ Shaped'
        BY <2>1, TypeStep DEF IInv
      <3>2. Mailed' /\ Tokens'
        BY <2>1, <3>1, CountStep DEF IInv
      <3>3. Calm' => Ownership'
        BY <2>1, <3>1, OwnershipStep DEF IInv
      <3>4. QED
        BY <3>1, <3>2, <3>3 DEF IInv
    <2>2. ASSUME IInv, UNCHANGED vars PROVE IInv'
      <3>1. TypeOK' /\ Shaped'
        BY <2>2 DEF IInv, TypeOK, Shaped, vars
      <3>2. Mailed' /\ Tokens'
        BY <2>2, CountStutter DEF IInv
      <3>3. Calm' => Ownership'
        BY <2>2 DEF IInv, Calm, Ownership, Untroubled, CleanerWaits, Dispatchers, Spawning,
                    Constructed, Stopped, JoinedOnce, Held, vars
      <3>4. QED
        BY <3>1, <3>2, <3>3 DEF IInv
    <2>3. QED
      BY <2>1, <2>2
  <1>3. QED
    BY <1>1, <1>2, PTL DEF Spec

-----------------------------------------------------------------------------
(* Theorems                                                                *)

\* The state of the runtime keeps its types: a semaphore is not acquired below 0, a
\* slot and an index into the pool lie inside it whatever an uninitialised id was.
THEOREM TypeCorrect == Spec => []TypeOK
  <1>1. IInv => TypeOK
    BY DEF IInv
  <1>2. QED
    BY <1>1, Invariance, PTL

\* The semaphore counts the messages of an actor in use as long as no push overlaps
\* another: the dispatcher does not sleep beside mail that nobody will wake it for.
THEOREM NeverAsleepBesideMail == Spec => []Woken
  <1>1. IInv => Woken
    BY DEF IInv, Tokens, Woken
  <1>2. QED
    BY <1>1, Invariance, PTL

\* Actors and the system are stopped and dropped in any order, by clients and by
\* dispatchers, and no dispatcher is joined twice, by itself or not at all, as long as
\* no task has thrown and no message asked for a reply.
THEOREM StoppedInAnyOrder == Spec => []Survives
  <1>1. IInv => Survives
    <2>1. TypeOK /\ ~(thrown > 0 \/ asked) => Calm
      BY DEF TypeOK, Calm
    <2>2. QED
      BY <2>1 DEF IInv, Ownership, Untroubled, Survives
  <1>2. QED
    BY <1>1, Invariance, PTL
=============================================================================
