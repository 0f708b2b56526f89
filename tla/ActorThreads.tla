----------------------------- MODULE ActorThreads -----------------------------
(***************************************************************************)
(* The actor runtime with one dispatcher thread per actor (actor_model.h). *)
(*                                                                         *)
(* An actor lives as long as somebody holds a shared_ptr to it: the pool,  *)
(* a program's thread, the cleanup thread, another dispatcher while it     *)
(* answers, or its own dispatcher while it reports a failure.  Whoever     *)
(* lets go of the last one runs ~Actor there and then, which stops the     *)
(* actor and joins its dispatcher; the same goes for the system.  A        *)
(* dispatcher is woken by a semaphore, released once for each message.     *)
(*                                                                         *)
(* A thread t may be in the middle of a call, call[t], in stopActor,       *)
(* stop[t], or in ~ActorSystem, system.by = t; it goes on with its own     *)
(* code when it is in none.  Where the code terminates or is undefined,    *)
(* crash says why and nothing happens any more.                            *)
(***************************************************************************)
EXTENDS Naturals, Sequences, FiniteSets

CONSTANTS
  Clients,        \* threads of the program that hold the system
  Main,           \* the client that spawns the actors
  Cleaner,        \* cleanup_thread_
  None,           \* no actor, no thread
  Total,          \* total_actors_
  Wild,           \* an uninitialised id; an index outside actor_pool_
  Indeterminate,  \* what an uninitialised id turns out to be (line 359)
  MailboxSize,    \* mailbox_capacity
  MaxActors,      \* bound: actors ever constructed
  MaxMessages     \* bound: messages sent by the clients, replies asked for, throws

ASSUME ThreadsAssumption ==
  /\ Total \in Nat \ {0} /\ MailboxSize \in Nat \ {0} /\ MaxMessages \in Nat
  /\ MaxActors \in Nat /\ MaxActors >= Total
  /\ Main \in Clients /\ Cleaner \notin Clients
  /\ Indeterminate \subseteq (0 .. Total) \union {Wild}
  /\ IsFiniteSet(Clients) /\ Wild \notin 0 .. Total
  /\ None \notin Clients \union {Cleaner}
  /\ (1 .. MaxActors) \intersect (Clients \union {Cleaner, None}) = {}

VARIABLES
  actor,     \* the actors by number, in the order of construction
  disp,      \* where each dispatcher is
  msg,       \* the message it has taken
  pool,      \* actor_pool_
  registry,  \* actor_registry_, by the slot whose actor has the name
  locked,    \* who keeps registry_lock_ while it destroys an actor
  refs,      \* the actors each thread holds a shared_ptr to
  sysrefs,   \* the threads that hold a shared_ptr to the system
  call,      \* a thread's send or spawn
  stop,      \* a thread's stopActor, called or run by ~Actor
  bin,       \* binned_actor_idx
  cleaner,   \* the cleanup thread: where, with which index and actor
  system,    \* ~ActorSystem: where, and run by whom
  crash,     \* why the program ended
  made,      \* actors constructed
  sent,      \* messages sent by clients and replies asked for
  thrown,    \* how many tasks have thrown out of receive
  asked      \* some message asked for a reply

roots == <<pool, registry, locked>>
holders == <<refs, sysrefs, stop>>
counts == <<made, sent, thrown, asked>>
vars == <<actor, disp, msg, pool, registry, locked, refs, sysrefs, call, stop,
          bin, cleaner, system, crash, made, sent, thrown, asked>>

-----------------------------------------------------------------------------
Actors == 1 .. MaxActors          \* each is also the name of its dispatcher
Slots == 0 .. Total - 1
Threads == Clients \union {Cleaner} \union Actors

Idle == [at |-> "idle", to |-> None, from |-> None]
NoStop == [of |-> None, frees |-> FALSE, joins |-> FALSE]
NoMessage == [by |-> None, from |-> None]
Unborn == [life |-> "none", alive |-> FALSE, status |-> "CREATED", id |-> 0,
           slot |-> 0, tokens |-> 0, mail |-> <<>>, owned |-> FALSE,
           first |-> FALSE, joined |-> FALSE, overlapped |-> FALSE]

\* Is there a shared_ptr to actor a, given a pool and the threads' references?
HeldIn(a, p, r) == (\E s \in Slots : p[s] = a) \/ \E t \in Threads : a \in r[t]
Held(a) == HeldIn(a, pool, refs)

\* The thread goes on with its own code.
Free(t) == crash = "no" /\ stop[t] = NoStop /\ system.by # t

\* The pool and the references become p and r, which may leave actor a without
\* any: then thread t is in ~Actor.
Release(t, a, p, r) ==
  /\ pool' = p /\ refs' = r
  /\ stop' = IF HeldIn(a, p, r) THEN stop
             ELSE [stop EXCEPT ![t] = [of |-> a, frees |-> TRUE, joins |-> FALSE]]

\* getActor: the actor registered for a slot's name, None if there is none.
Found(s) == IF registry[s] # None /\ Held(registry[s]) THEN registry[s] ELSE None

Crash(why) ==
  /\ crash' = why
  /\ UNCHANGED <<actor, disp, msg, roots, holders, call, bin, cleaner, system, counts>>

-----------------------------------------------------------------------------
Init ==
  /\ actor = [a \in Actors |-> Unborn]
  /\ disp = [a \in Actors |-> "none"]
  /\ msg = [a \in Actors |-> NoMessage]
  /\ pool = [s \in Slots |-> None] /\ registry = [s \in Slots |-> None]
  /\ locked = None
  /\ refs = [t \in Threads |-> {}] /\ sysrefs = Clients
  /\ call = [t \in Threads |-> Idle] /\ stop = [t \in Threads |-> NoStop]
  /\ bin = <<>> /\ cleaner = [at |-> "wait", idx |-> 0, old |-> None]
  /\ system = [at |-> "up", next |-> 0, by |-> None]
  /\ crash = "no"
  /\ made = 0 /\ sent = 0 /\ thrown = 0 /\ asked = FALSE

(* Letting go.                                                             *)

\* A shared_ptr to an actor goes out of scope.
LetGo(t, a) ==
  /\ Free(t) /\ call[t] = Idle /\ a \in refs[t]
  /\ t \in Actors => disp[t] \notin {"look", "bin"}
  /\ t = Cleaner => cleaner.at = "settle"
  /\ Release(t, a, pool, [refs EXCEPT ![t] = @ \ {a}])
  /\ UNCHANGED <<actor, disp, msg, registry, locked, sysrefs, call, bin, cleaner,
                 system, crash, counts>>

\* So does one to the system; after the last one ~ActorSystem runs.
LetGoSystem(t) ==
  /\ Free(t) /\ t \in sysrefs
  /\ IF t = Cleaner THEN call[t].at = "unset" ELSE call[t] = Idle
  /\ t \in Actors => refs[t] = {} /\ disp[t] \notin {"look", "bin"}
  /\ sysrefs' = sysrefs \ {t}
  /\ call' = IF t = Cleaner THEN [call EXCEPT ![t].at = "place"] ELSE call
  /\ IF sysrefs = {t}
       THEN /\ bin' = Append(bin, Total)
            /\ system' = [at |-> "join", next |-> 0, by |-> t]
       ELSE UNCHANGED <<bin, system>>
  /\ UNCHANGED <<actor, disp, msg, roots, refs, stop, cleaner, crash, counts>>

(* stopActor.                                                              *)

Stopping(t) == crash = "no" /\ stop[t] # NoStop

Freed(it) == [Unborn EXCEPT !.life = "freed", !.first = it.first, !.joined = it.joined]

\* The thread leaves stopActor, and ~Actor frees the actor if it came from
\* there: a std::thread that was never joined ends the program.
Leave(t, a, then) ==
  /\ actor' = IF stop[t].frees THEN [then EXCEPT ![a] = Freed(@)] ELSE then
  /\ crash' = IF stop[t].frees /\ ~then[a].joined THEN "unjoined" ELSE crash
  /\ stop' = [stop EXCEPT ![t] = NoStop]
  /\ locked' = IF locked = t THEN None ELSE locked

\* Slips: the join left to ~Actor, and a dispatcher that is not woken.
SlipStopLater(t) ==
  LET a == stop[t].of
  IN /\ Stopping(t) /\ ~stop[t].joins
     /\ IF actor[a].alive
          THEN /\ actor' = [actor EXCEPT ![a].alive = FALSE, ![a].tokens = @ + 1]
               /\ stop' = [stop EXCEPT ![t] = IF stop[t].frees THEN [@ EXCEPT !.joins = TRUE]
                                             ELSE NoStop]
               /\ UNCHANGED <<locked, crash>>
          ELSE Leave(t, a, actor)
     /\ UNCHANGED <<disp, msg, pool, registry, refs, sysrefs, call, bin, cleaner,
                    system, counts>>

SlipStopQuiet(t) ==
  LET a == stop[t].of
  IN /\ Stopping(t) /\ ~stop[t].joins
     /\ IF actor[a].alive \/ actor[a].status = "FAILED"
          THEN /\ actor' = [actor EXCEPT ![a].alive = FALSE]
               /\ stop' = [stop EXCEPT ![t].joins = TRUE]
               /\ UNCHANGED <<locked, crash>>
          ELSE Leave(t, a, actor)
     /\ UNCHANGED <<disp, msg, pool, registry, refs, sysrefs, call, bin, cleaner,
                    system, counts>>

\* Only who clears actor_alive_, or finds the actor failed, goes on to join.
StopBegin(t) ==
  LET a == stop[t].of
      enters == actor[a].alive \/ actor[a].status = "FAILED"
  IN /\ Stopping(t) /\ ~stop[t].joins
     /\ IF enters
          THEN /\ actor' = [actor EXCEPT ![a].alive = FALSE, ![a].tokens = @ + 1]
               /\ stop' = [stop EXCEPT ![t].joins = TRUE]
               /\ crash' = IF \E u \in Threads : stop[u].of = a /\ stop[u].joins
                             THEN "twojoins" ELSE crash
               /\ UNCHANGED locked
          ELSE Leave(t, a, actor)
     /\ UNCHANGED <<disp, msg, pool, registry, refs, sysrefs, call, bin, cleaner,
                    system, counts>>

\* A dispatcher's function has returned.
Returned(a) == /\ disp[a] = "done" /\ refs[a] = {} /\ a \notin sysrefs
               /\ stop[a] = NoStop /\ system.by # a

Join(t) ==
  LET a == stop[t].of
  IN /\ Stopping(t) /\ stop[t].joins
     /\ \/ t = a /\ ~actor[a].joined /\ Crash("selfjoin")
        \/ /\ actor[a].joined \/ Returned(a)
           /\ Leave(t, a, [actor EXCEPT ![a].joined = TRUE, ![a].status = "STOPPED"])
           /\ UNCHANGED <<disp, msg, pool, registry, refs, sysrefs, call, bin, cleaner,
                          system, counts>>

(* addToMailbox, on the receiver call[t].to.                               *)

At(t, where) == Free(t) /\ call[t].at = where
Goto(t, where) == call' = [call EXCEPT ![t].at = where]
mailing == <<disp, msg, roots, holders, bin, cleaner, system, crash, counts>>

AddCheck(t) ==
  /\ At(t, "alive")
  /\ call' = [call EXCEPT ![t] = IF actor[@.to].alive THEN [@ EXCEPT !.at = "push"] ELSE Idle]
  /\ UNCHANGED <<actor, mailing>>

Unpublished(cell) == cell.by # None

\* try_push draws the ticket; the cell is published by a later step.
Push(t) ==
  LET a == call[t].to
  IN /\ At(t, "push") /\ Len(actor[a].mail) < MailboxSize
     /\ actor' = [actor EXCEPT
          ![a].mail = Append(@, [by |-> t, from |-> call[t].from]),
          ![a].overlapped = @ \/ \E i \in 1 .. Len(actor[a].mail) :
                                   Unpublished(actor[a].mail[i])]
     /\ Goto(t, "publish")
     /\ UNCHANGED mailing

\* The mailbox stays full for 17 attempts, or is and the actor is dead.
GiveUp(t) ==
  /\ At(t, "push") /\ Len(actor[call[t].to].mail) = MailboxSize
  /\ call' = [call EXCEPT ![t] = Idle]
  /\ UNCHANGED <<actor, mailing>>

Publish(t) ==
  LET a == call[t].to
  IN /\ At(t, "publish")
     /\ actor' = [actor EXCEPT ![a].mail =
          [i \in 1 .. Len(@) |-> IF @[i].by = t THEN [@[i] EXCEPT !.by = None] ELSE @[i]]]
     /\ Goto(t, "signal")
     /\ UNCHANGED mailing

\* Slip: a semaphore that only tells whether there is mail.
SlipSignal(t) ==
  /\ At(t, "signal")
  /\ actor' = [actor EXCEPT ![call[t].to].tokens = 1]
  /\ call' = [call EXCEPT ![t] = Idle]
  /\ UNCHANGED mailing

\* new_mail_arrived_.release.
Signal(t) ==
  /\ At(t, "signal")
  /\ actor' = [actor EXCEPT ![call[t].to].tokens = @ + 1]
  /\ call' = [call EXCEPT ![t] = Idle]
  /\ UNCHANGED mailing

(* spawn.                                                                  *)

\* Construct the actor and register it; the constructor starts the dispatcher.
Construct(t, s, i) ==
  LET a == made + 1
  IN /\ locked = None /\ Found(s) = None /\ made < MaxActors
     /\ made' = a
     /\ actor' = [actor EXCEPT ![a] = [Unborn EXCEPT !.life = "up", !.alive = TRUE,
                                         !.status = "RUNNING", !.id = i, !.slot = s,
                                         !.first = (t = Main)]]
     /\ disp' = [disp EXCEPT ![a] = "loop"]
     /\ registry' = [registry EXCEPT ![s] = a]
     /\ refs' = [refs EXCEPT ![t] = @ \union {a}]
     /\ call' = [call EXCEPT ![t] = [Idle EXCEPT !.at = "set", !.to = a]]
     /\ UNCHANGED <<msg, pool, locked, sysrefs, stop, bin, system, crash, sent, thrown, asked>>

\* setActorSystem(shared_from_this()), which throws when nobody holds the system.
SetSystem(t) ==
  /\ At(t, "set")
  /\ IF sysrefs = {}
       THEN Crash("nosystem")
       ELSE /\ actor' = [actor EXCEPT ![call[t].to].owned = TRUE]
            /\ sysrefs' = sysrefs \union {t}
            /\ Goto(t, IF t = Cleaner THEN "unset" ELSE "place")
            /\ UNCHANGED <<disp, msg, roots, refs, stop, bin, cleaner, system, crash, counts>>

Place(t) ==
  /\ At(t, "place")
  /\ pool' = [pool EXCEPT ![actor[call[t].to].slot] = call[t].to]
  /\ call' = [call EXCEPT ![t] = Idle]
  /\ UNCHANGED <<actor, disp, msg, registry, locked, holders, bin, cleaner, system,
                 crash, counts>>

(* The program.                                                            *)

active_actors == Cardinality({a \in Actors : actor[a].first})

Spawn ==
  /\ Free(Main) /\ call[Main] = Idle /\ Main \in sysrefs /\ active_actors < Total
  /\ Construct(Main, active_actors, active_actors)
  /\ UNCHANGED cleaner

\* Look the names up, one after the other, and send; `from` is the sender of a
\* message that asks for a reply.  A client may keep what it has looked up.
Send(c) ==
  /\ Free(c) /\ call[c] = Idle /\ c \in sysrefs /\ locked = None
  /\ \E r \in Slots, s \in Slots \union {None} :
       LET to == Found(r)
           from == IF s = None THEN None ELSE Found(s)
       IN /\ to # None /\ (s # None => from # None /\ actor[from].alive)
          /\ refs' = [refs EXCEPT ![c] = @ \union ({to, from} \ {None})]
          /\ call' = [call EXCEPT ![c] = [at |-> "alive", to |-> to, from |-> from]]
          /\ asked' = (asked \/ from # None)
          /\ sent' = sent + (IF from = None THEN 1 ELSE 2) /\ sent' <= MaxMessages
  /\ UNCHANGED <<actor, disp, msg, roots, sysrefs, stop, bin, cleaner, system, crash,
                 made, thrown>>

\* stopActor, called on an actor the client holds.
Stop(c) ==
  /\ Free(c) /\ call[c] = Idle
  /\ \E a \in refs[c] : stop' = [stop EXCEPT ![c] = [NoStop EXCEPT !.of = a]]
  /\ UNCHANGED <<actor, disp, msg, roots, refs, sysrefs, call, bin, cleaner, system,
                 crash, counts>>

(* The dispatcher of actor a.                                              *)

\* It has let go of what it held for the message before.
Steady(a) == Free(a) /\ call[a] = Idle /\ refs[a] = {} /\ a \notin sysrefs

DispGoto(a, from, to) ==
  /\ Steady(a) /\ disp[a] = from
  /\ disp' = [disp EXCEPT ![a] = to]

still == <<roots, holders, call, bin, cleaner, system, crash>>

CheckMailbox(a) ==
  /\ DispGoto(a, "loop", IF actor[a].alive THEN "acquire" ELSE "exit")
  /\ UNCHANGED <<actor, msg, still, counts>>

\* Slip: a semaphore that does not block.
SlipAcquire(a) ==
  /\ DispGoto(a, "acquire", "pop")
  /\ actor' = [actor EXCEPT ![a].tokens = @ - 1]
  /\ UNCHANGED <<msg, still, counts>>

\* new_mail_arrived_.acquire.
Acquire(a) ==
  /\ DispGoto(a, "acquire", "pop")
  /\ actor[a].tokens > 0
  /\ actor' = [actor EXCEPT ![a].tokens = @ - 1]
  /\ UNCHANGED <<msg, still, counts>>

\* try_pop in receive or drainMailbox.  It finds nothing when the oldest cell
\* is not published yet, whatever is behind it.
Poppable(a) == actor[a].mail # <<>> /\ ~Unpublished(Head(actor[a].mail))

Pop(a) ==
  /\ Poppable(a)
  /\ DispGoto(a, "pop", "task") \/ DispGoto(a, "drain", "drainTask")
  /\ msg' = [msg EXCEPT ![a] = Head(actor[a].mail)]
  /\ actor' = [actor EXCEPT ![a].mail = Tail(@)]
  /\ UNCHANGED <<still, counts>>

PopNothing(a) ==
  /\ ~Poppable(a)
  /\ DispGoto(a, "pop", "loop") \/ DispGoto(a, "drain", "report")
  /\ UNCHANGED <<actor, msg, still, counts>>

Sender(a) == IF msg[a].from # None /\ Held(msg[a].from) THEN {msg[a].from} ELSE {}

\* The task returns, and handleReply sends the reply, in the actor's own name.
Return(a) ==
  LET replies == actor[a].alive /\ Sender(a) # {}
  IN /\ DispGoto(a, "task", "loop") \/ DispGoto(a, "drainTask", "drain")
     /\ replies => Held(a)
     /\ refs' = [refs EXCEPT ![a] = Sender(a)]
     /\ call' = IF replies THEN [call EXCEPT ![a] = [Idle EXCEPT !.at = "alive", !.to = msg[a].from]]
                ELSE call
     /\ msg' = [msg EXCEPT ![a] = NoMessage]
     /\ UNCHANGED <<actor, roots, sysrefs, stop, bin, cleaner, system, crash, counts>>

\* It throws, or the reply does because ~Actor has begun: receive clears
\* actor_alive_ and then sets the state, drainMailbox does neither and drains no
\* more.
Throw(a) ==
  /\ \/ /\ DispGoto(a, "task", "fail") /\ sent + thrown <= MaxMessages
        /\ actor' = [actor EXCEPT ![a].alive = FALSE]
        /\ thrown' = thrown + 1
     \/ /\ DispGoto(a, "drainTask", "log")
        /\ UNCHANGED <<actor, thrown>>
  /\ UNCHANGED <<msg, still, made, sent, asked>>

\* Slip: the state is left as it was.
SlipFail(a) ==
  /\ DispGoto(a, "fail", "log")
  /\ UNCHANGED <<actor, msg, still, counts>>

\* The second of the two stores.
Fail(a) ==
  /\ DispGoto(a, "fail", "log")
  /\ actor' = [actor EXCEPT ![a].status = "FAILED"]
  /\ UNCHANGED <<msg, still, counts>>

\* logFailure, and where the dispatcher goes after it.
AfterLog(a) == IF actor[a].status = "FAILED" THEN "loop" ELSE "report"

Log(a) ==
  LET logs == actor[a].owned /\ sysrefs # {}
      notifies == logs /\ Sender(a) # {}
  IN /\ DispGoto(a, "log", IF notifies THEN "look" ELSE AfterLog(a))
     /\ sysrefs' = IF logs THEN sysrefs \union {a} ELSE sysrefs
     /\ refs' = [refs EXCEPT ![a] = IF notifies THEN Sender(a) ELSE {}]
     /\ msg' = IF notifies THEN msg ELSE [msg EXCEPT ![a] = NoMessage]
     /\ UNCHANGED <<actor, roots, stop, call, bin, cleaner, system, crash, counts>>

\* The notice goes to the actor that now has the sender's name.
Notice(a) ==
  LET to == Found(actor[msg[a].from].slot)
  IN /\ Free(a) /\ disp[a] = "look" /\ locked = None
     /\ disp' = [disp EXCEPT ![a] = AfterLog(a)]
     /\ msg' = [msg EXCEPT ![a] = NoMessage]
     /\ refs' = [refs EXCEPT ![a] = @ \union ({to} \ {None})]
     /\ call' = IF to = None THEN call
                ELSE [call EXCEPT ![a] = [Idle EXCEPT !.at = "alive", !.to = to]]
     /\ UNCHANGED <<actor, roots, sysrefs, stop, bin, cleaner, system, crash, counts>>

\* Out of the loop: drain, unless a task has thrown.
Exit(a) ==
  LET drains == actor[a].status = "RUNNING"
  IN /\ DispGoto(a, "exit", IF drains THEN "drain" ELSE "report")
     /\ actor' = IF drains THEN [actor EXCEPT ![a].status = "STOPPING"] ELSE actor
     /\ UNCHANGED <<msg, still, counts>>

\* notifyActorFailure(shared_from_this()), which throws when ~Actor has begun.
Report(a) ==
  LET reports == actor[a].status = "FAILED" /\ actor[a].owned /\ sysrefs # {}
  IN /\ DispGoto(a, "report", IF reports THEN "bin" ELSE "done")
     /\ crash' = IF reports /\ ~Held(a) THEN "noself" ELSE crash
     /\ refs' = [refs EXCEPT ![a] = IF reports THEN {a} ELSE {}]
     /\ sysrefs' = IF reports THEN sysrefs \union {a} ELSE sysrefs
     /\ UNCHANGED <<actor, msg, roots, stop, call, bin, cleaner, system, counts>>

Bin(a) ==
  /\ Free(a) /\ disp[a] = "bin"
  /\ disp' = [disp EXCEPT ![a] = "done"]
  /\ bin' = Append(bin, actor[a].id)
  /\ UNCHANGED <<actor, msg, roots, holders, call, cleaner, system, crash, counts>>

(* The cleanup thread.                                                     *)

Cleaning(where) == Free(Cleaner) /\ call[Cleaner] = Idle /\ cleaner.at = where

Take ==
  /\ Cleaning("wait") /\ bin # <<>>
  /\ \E idx \in IF Head(bin) = Wild THEN Indeterminate ELSE {Head(bin)} :
        \/ idx = Wild /\ Crash("wild")
        \/ /\ idx # Wild
           /\ bin' = Tail(bin)
           /\ cleaner' = IF idx = Total THEN [cleaner EXCEPT !.at = "gone"]
                         ELSE [at |-> "erase", idx |-> idx, old |-> pool[idx]]
           /\ refs' = IF idx = Total THEN refs
                      ELSE [refs EXCEPT ![Cleaner] = {pool[idx]} \ {None}]
           /\ UNCHANGED <<actor, disp, msg, roots, sysrefs, stop, call, system, crash, counts>>

\* unregisterActor, by thread t; the lock is kept while the actor is destroyed.
Unregister(t, s) ==
  LET a == pool[s]
  IN /\ locked = None
     /\ IF a = None THEN UNCHANGED <<roots, refs, stop>>
        ELSE /\ registry' = [registry EXCEPT ![actor[a].slot] = None]
             /\ Release(t, a, [pool EXCEPT ![s] = None], refs)
             /\ locked' = IF stop' = stop THEN None ELSE t

Erase ==
  /\ Cleaning("erase")
  /\ Unregister(Cleaner, cleaner.idx)
  /\ cleaner' = [cleaner EXCEPT !.at = IF cleaner.old = None THEN "settle" ELSE "spawn"]
  /\ UNCHANGED <<actor, disp, msg, sysrefs, call, bin, system, crash, counts>>

\* The spawn of the replacement, whose id is not initialised.
Respawn ==
  /\ Cleaning("spawn")
  /\ Construct(Cleaner, cleaner.idx, Wild)
  /\ cleaner' = [cleaner EXCEPT !.at = "settle"]

Settled ==
  /\ Cleaning("settle") /\ refs[Cleaner] = {}
  /\ cleaner' = [cleaner EXCEPT !.at = "wait", !.old = None]
  /\ UNCHANGED <<actor, disp, msg, roots, holders, call, bin, system, crash, counts>>

(* ~ActorSystem, run by thread t: join the cleanup thread, then unregister *)
(* every actor.                                                            *)

Destroying(t) == crash = "no" /\ stop[t] = NoStop /\ system.by = t

JoinCleaner(t) ==
  /\ Destroying(t) /\ system.at = "join"
  /\ \/ t = Cleaner /\ Crash("selfjoin")
     \/ /\ cleaner.at = "gone"
        /\ system' = [system EXCEPT !.at = "clear"]
        /\ UNCHANGED <<actor, disp, msg, roots, holders, call, bin, cleaner, crash, counts>>

Clear(t) ==
  /\ Destroying(t) /\ system.at = "clear" /\ system.next < Total
  /\ Unregister(t, system.next)
  /\ system' = [system EXCEPT !.next = @ + 1]
  /\ UNCHANGED <<actor, disp, msg, sysrefs, call, bin, cleaner, crash, counts>>

Destroyed(t) ==
  /\ Destroying(t) /\ system.at = "clear" /\ system.next = Total
  /\ system' = [system EXCEPT !.at = "gone", !.by = None]
  /\ UNCHANGED <<actor, disp, msg, roots, holders, call, bin, cleaner, crash, counts>>

-----------------------------------------------------------------------------
\* What a thread that has begun something goes on to do.
Calling(t) == \/ StopBegin(t) \/ Join(t)
              \/ AddCheck(t) \/ Push(t) \/ GiveUp(t) \/ Publish(t) \/ Signal(t)
              \/ SetSystem(t) \/ Place(t)
              \/ JoinCleaner(t) \/ Clear(t) \/ Destroyed(t)

Dispatching(a) == \/ CheckMailbox(a) \/ Acquire(a) \/ Pop(a) \/ PopNothing(a)
                  \/ Return(a) \/ Throw(a) \/ Fail(a) \/ Log(a) \/ Notice(a)
                  \/ Exit(a) \/ Report(a) \/ Bin(a)
                  \/ (\E b \in Actors : LetGo(a, b)) \/ LetGoSystem(a)

CleaningUp == \/ Take \/ Erase \/ Respawn \/ Settled
              \/ (\E a \in Actors : LetGo(Cleaner, a)) \/ LetGoSystem(Cleaner)

\* What a client begins of its own accord.
Using(c) == \/ c = Main /\ Spawn
            \/ Send(c) \/ Stop(c) \/ (\E a \in Actors : LetGo(c, a)) \/ LetGoSystem(c)

Next == \/ \E t \in Threads : Calling(t)
        \/ \E a \in Actors : Dispatching(a)
        \/ CleaningUp
        \/ \E c \in Clients : Using(c)

(* Threads are scheduled, and tasks return or throw.  Nothing obliges a    *)
(* client to begin anything.                                               *)
Fairness == /\ \A a \in Actors : WF_vars(Calling(a) \/ Dispatching(a))
            /\ WF_vars(Calling(Cleaner) \/ CleaningUp)
            /\ \A c \in Clients : WF_vars(Calling(c))

Spec == Init /\ [][Next]_vars /\ Fairness

-----------------------------------------------------------------------------
(* Properties.                                                             *)

Ids == (0 .. Total) \union {Wild}
Cell == [by : Threads \union {None}, from : Actors \union {None}]
ActorState ==
  [life : {"none", "up", "freed"}, alive : BOOLEAN,
   status : {"CREATED", "RUNNING", "STOPPING", "STOPPED", "FAILED"},
   id : Ids, slot : Slots, tokens : Nat, mail : Seq(Cell), owned : BOOLEAN,
   first : BOOLEAN, joined : BOOLEAN, overlapped : BOOLEAN]
CallState ==
  [at : {"idle", "alive", "push", "publish", "signal", "set", "unset", "place"},
   to : Actors \union {None}, from : Actors \union {None}]
StopState == [of : Actors \union {None}, frees : BOOLEAN, joins : BOOLEAN]

TypeOK ==
  /\ actor \in [Actors -> ActorState]
  /\ disp \in [Actors -> {"none", "loop", "acquire", "pop", "task", "fail", "log",
                          "look", "exit", "drain", "drainTask", "report", "bin", "done"}]
  /\ msg \in [Actors -> Cell]
  /\ pool \in [Slots -> Actors \union {None}]
  /\ registry \in [Slots -> Actors \union {None}]
  /\ locked \in Threads \union {None}
  /\ refs \in [Threads -> SUBSET Actors] /\ sysrefs \subseteq Threads
  /\ call \in [Threads -> CallState] /\ stop \in [Threads -> StopState]
  /\ bin \in Seq(Ids)
  /\ cleaner \in [at : {"wait", "erase", "spawn", "settle", "gone"}, idx : 0 .. Total,
                  old : Actors \union {None}]
  /\ system \in [at : {"up", "join", "clear", "gone"}, next : 0 .. Total,
                 by : Threads \union {None}]
  /\ crash \in {"no", "unjoined", "twojoins", "selfjoin", "nosystem", "noself", "wild"}
  /\ made \in 0 .. MaxActors /\ sent \in Nat /\ thrown \in Nat /\ asked \in BOOLEAN

\* Each message in a mailbox has a token of the semaphore, a sender that is still
\* to release it, or a dispatcher that has acquired it and is about to pop.
Counted(a) ==
  Len(actor[a].mail) <=
    actor[a].tokens
      + Cardinality({t \in Threads : call[t].to = a /\ call[t].at \in {"publish", "signal"}})
      + (IF disp[a] = "pop" THEN 1 ELSE 0)

InUse(a) == actor[a].life = "up" /\ actor[a].alive

\* new_mail_arrived_ counts the messages that wait in the mailbox, so that the
\* dispatcher never sleeps beside mail (the comment of line 84).
TokensCount == crash = "no" => \A a \in Actors : InUse(a) => Counted(a)

\* The semaphore counts the messages of a mailbox as long as no push begins in it
\* while another is unfinished.  (Once one has, the dispatcher that is woken for
\* the later message may pop nothing, and has used the token up.)
Woken == crash = "no" =>
           \A a \in Actors : InUse(a) /\ ~actor[a].overlapped => Counted(a)

\* While no task throws or asks for a reply, the actors and the system may be
\* stopped and dropped in any order: no dispatcher is joined twice, by itself or
\* not at all.
Survives == crash # "no" => thrown > 0 \/ asked

\* ~ActorSystem run by the program ends, having waited for the cleanup thread and
\* for the dispatcher of each actor that only the pool still held, unless it has
\* come to terminate.  (Run by a dispatcher or by the cleanup thread it may wait
\* for itself.)
Ended == system.at = "join" /\ system.by \in Clients ~> system.at = "gone" \/ crash # "no"

\* An actor of the pool that has failed is replaced there, if its id is that of its
\* slot and the system and the cleanup thread go on.
Restored ==
  \A a \in Actors, s \in Slots :
    disp[a] = "fail" /\ pool[s] = a /\ actor[a].id = s
      ~> pool[s] \notin {a, None} \/ crash # "no" \/ system.at # "up" \/ cleaner.at = "gone"
=============================================================================
