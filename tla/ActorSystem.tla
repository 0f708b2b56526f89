----------------------------- MODULE ActorSystem -----------------------------
(***************************************************************************)
(* actor_model_threadpool_version.h: actors whose mailboxes are drained by *)
(* the workers of a thread pool, replaced by a cleanup thread when one of  *)
(* their tasks throws, and destroyed with the system that owns them.       *)
(*                                                                         *)
(* What is shared and not under a lock is one atomic access per step: the  *)
(* flags is_valid, actor_alive_ and is_draining_, and the mailbox, whose   *)
(* push reserves a place before it publishes the message in it (see        *)
(* MpmcQueue).  The pool is taken at its word (see ThreadPool): a bounded  *)
(* queue that refuses when stopped and hands out every task it accepted.   *)
(*                                                                         *)
(* An actor is destroyed under the feet of whoever still holds a pointer   *)
(* to it: ref records which incarnation of a slot a thread works with, and *)
(* a thread that goes on with one that is gone is "undefined".             *)
(***************************************************************************)
EXTENDS Integers, Sequences, FiniteSets

CONSTANTS
  NumActors,    \* total_actors_
  Workers,      \* the threads of worker_pool_
  Clients,      \* threads that send
  Cleaner,      \* cleanup_thread_
  Owner,        \* the thread that spawns actors and destroys the system
  Msgs, NoMsg,
  Failing,      \* the messages whose task may throw a std::exception
  Foreign,      \* and those whose task may throw something else
  MailboxSize,  \* what a mailbox holds
  Direct,       \* the clients whose send lets go of registry_lock_ before it
                \* uses the actor, or never takes it
  Destroyed     \* whether the owner destroys the system

ASSUME ActorAssumption ==
  /\ IsFiniteSet(Workers) /\ IsFiniteSet(Clients)
  /\ NumActors \in Nat \ {0} /\ MailboxSize \in Nat \ {0}
  /\ Failing \subseteq Msgs /\ Foreign \subseteq Msgs /\ NoMsg \notin Msgs
  /\ Direct \subseteq Clients /\ Destroyed \in BOOLEAN
  /\ Workers \intersect Clients = {} /\ Cleaner # Owner
  /\ {Cleaner, Owner} \intersect (Workers \union Clients) = {}

Slots == 0 .. NumActors - 1
Sentinel == NumActors        \* total_actors_ in binned_actor_idx
PoolCapacity == NumActors * 4

VARIABLES
  active_actors,
  present, is_valid,   \* of each slot: actor # nullptr, is_valid
  registered,          \* the slots whose actor's name is in actor_registry_
  life,                \* which incarnation the slot is at
  linked,              \* of each slot's actor: owning_system_ is set
  alive, draining,     \* actor_alive_, is_draining_
  actor_state,
  mailbox,
  tasks,               \* the drain requests in worker_pool_
  stopped,             \* worker_pool_ refuses
  binned,              \* binned_actor_idx
  released,            \* no shared_ptr to the system is left
  pc,                  \* where each thread stands
  ref,                 \* the slot and incarnation a thread works with
  msg,                 \* the message a client sends or a worker handles
  rlock,               \* the threads that hold registry_lock_ shared
  fate,                \* what has become of each message
  restart,             \* the cleanup thread is to replace the actor it removes
  lost                 \* history, of each slot's actor: what its system was never told

slotVars == <<present, is_valid, registered, life, linked>>
actorVars == <<alive, draining, actor_state, mailbox>>
poolVars == <<tasks, stopped>>
vars == <<active_actors, slotVars, actorVars, poolVars, binned, released,
          pc, ref, msg, rlock, fate, restart, lost>>

Threads == Workers \union Clients \union {Cleaner, Owner}
Nothing == [slot |-> 0, life |-> 0]

TypeOK ==
  /\ active_actors \in 0 .. NumActors
  /\ present \in [Slots -> BOOLEAN] /\ is_valid \in [Slots -> BOOLEAN]
  /\ registered \subseteq Slots
  /\ life \in [Slots -> Nat]
  /\ linked \in [Slots -> BOOLEAN]
  /\ alive \in [Slots -> BOOLEAN] /\ draining \in [Slots -> BOOLEAN]
  /\ actor_state \in [Slots -> {"RUNNING", "FAILED", "STOPPED"}]
  /\ mailbox \in [Slots -> Seq(Msgs)]
  /\ \A s \in Slots : Len(mailbox[s]) <= MailboxSize
  /\ tasks \in Seq(Slots) /\ stopped \in BOOLEAN
  /\ binned \in Seq(Slots \union {Sentinel})
  /\ released \in BOOLEAN
  /\ pc \in [Threads ->
       {"idle", "undefined", "terminated", "exited",
        "alive", "reserve", "publish", "kick", "notify",
        "loop", "pop", "handle", "fail", "clear", "recheck", "repop", "recas",
        "renotify", "late", "lateFail",
        "erase", "stop", "spin", "reset", "spawn", "link",
        "use", "stopPool", "sentinel", "joinCleanup", "unregister", "joinPool",
        "destroyed"}]
  /\ ref \in [Threads -> [slot : Slots, life : Nat]]
  /\ msg \in [Workers \union Clients -> Msgs \union {NoMsg}]
  /\ rlock \subseteq Clients
  /\ fate \in [Msgs -> {"new", "sending", "refused", "reserved", "queued",
                        "handling", "handled", "threw", "dropped"}]
  /\ restart \in BOOLEAN
  /\ lost \in [Slots -> SUBSET {"drain", "failure"}]

Init ==
  /\ active_actors = 0
  /\ present = [s \in Slots |-> FALSE] /\ is_valid = [s \in Slots |-> FALSE]
  /\ registered = {}
  /\ life = [s \in Slots |-> 0]
  /\ linked = [s \in Slots |-> FALSE]
  /\ alive = [s \in Slots |-> FALSE] /\ draining = [s \in Slots |-> FALSE]
  /\ actor_state = [s \in Slots |-> "STOPPED"]
  /\ mailbox = [s \in Slots |-> <<>>]
  /\ tasks = <<>> /\ stopped = FALSE
  /\ binned = <<>> /\ released = FALSE
  /\ pc = [t \in Threads |-> IF t = Owner THEN "use" ELSE "idle"]
  /\ ref = [t \in Threads |-> Nothing]
  /\ msg = [t \in Workers \union Clients |-> NoMsg]
  /\ rlock = {}
  /\ fate = [m \in Msgs |-> "new"]
  /\ restart = FALSE
  /\ lost = [s \in Slots |-> {}]

Goto(t, from, to) == pc[t] = from /\ pc' = [pc EXCEPT ![t] = to]
Set(f, x, v) == f' = [f EXCEPT ![x] = v]
S(t) == ref[t].slot

\* The actor the thread works with still exists.
Holds(t) == present[S(t)] /\ life[S(t)] = ref[t].life

\* The mailbox's oldest message has been published.
Poppable(s) == mailbox[s] # <<>> /\ fate[Head(mailbox[s])] = "queued"

\* A slip: the message is read and stays in the mailbox.
SlipPop(t) == /\ Poppable(S(t))
              /\ Set(msg, t, Head(mailbox[S(t)]))
              /\ UNCHANGED <<mailbox, fate>>

\* The mailbox gives the thread its oldest message.
Pop(t) == LET m == Head(mailbox[S(t)]) IN
          /\ Poppable(S(t))
          /\ Set(mailbox, S(t), Tail(mailbox[S(t)]))
          /\ Set(msg, t, m)
          /\ Set(fate, m, "handling")

\* The right to drain, or a failure, that nobody will tell the system of.
Lose(s, what) == Set(lost, s, lost[s] \union {what})

\* A slip: is_draining_.store(true), whatever it was.
SlipTryDrain(t, won, beaten) ==
  /\ Goto(t, pc[t], won)
  /\ Set(draining, S(t), TRUE)
  /\ Set(lost, S(t), lost[S(t)] \ {"drain"})

\* compare_exchange_strong(false, true) on is_draining_.
TryDrain(t, won, beaten) ==
  IF draining[S(t)] THEN Goto(t, pc[t], beaten) /\ UNCHANGED <<draining, lost>>
  ELSE /\ Goto(t, pc[t], won)
       /\ Set(draining, S(t), TRUE)
       /\ Set(lost, S(t), lost[S(t)] \ {"drain"})

\* owning_system_.lock(), then tryPush of a drain request: nothing happens when
\* the pool refuses, the system is being destroyed, or the actor does not know it
\* yet; is_draining_ stays set all the same.
NotifyMailboxActive(s) ==
  /\ tasks' = IF released \/ ~linked[s] \/ stopped \/ Len(tasks) >= PoolCapacity
              THEN tasks ELSE Append(tasks, s)
  /\ IF linked[s] THEN UNCHANGED lost ELSE Lose(s, "drain")

\* A fresh actor in the slot (make_unique, is_valid).  It does not know its system
\* yet.  Until is_valid is set nobody uses it, so that the two stores are one step.
Install(s) ==
  /\ Set(present, s, TRUE) /\ Set(is_valid, s, TRUE)
  /\ Set(life, s, life[s] + 1)
  /\ Set(linked, s, FALSE) /\ Set(lost, s, {})
  /\ Set(alive, s, TRUE) /\ Set(draining, s, FALSE)
  /\ Set(actor_state, s, "RUNNING") /\ Set(mailbox, s, <<>>)

\* registry_lock_ can be taken exclusively: registerActor holds it from Install to
\* Link, and a sender that is no Direct one while it sends.
Registering == \E t \in {Cleaner, Owner} : pc[t] = "link"
LockFree == rlock = {} /\ ~Registering

-----------------------------------------------------------------------------
(* Plausible slips, each the changed form of the definition it is named    *)
(* after; the properties are run against them.                             *)

\* a place more than there is
SlipReserve(c) ==
  /\ pc[c] = "reserve" /\ Holds(c)
  /\ IF Len(mailbox[S(c)]) <= MailboxSize
     THEN /\ Goto(c, "reserve", "publish")
          /\ Set(mailbox, S(c), Append(mailbox[S(c)], msg[c]))
          /\ Set(fate, msg[c], "reserved")
     ELSE /\ Goto(c, "reserve", "kick")
          /\ Set(fate, msg[c], "refused")
          /\ UNCHANGED mailbox
  /\ UNCHANGED <<active_actors, slotVars, alive, draining, actor_state, poolVars,
                 binned, released, ref, msg, rlock, restart, lost>>

\* reports every exception
SlipHandleMsg(w, from, to, failed) ==
  /\ pc[w] = from /\ Holds(w)
  /\ Set(msg, w, NoMsg)
  /\ \/ /\ msg[w] \notin Failing \union Foreign
        /\ Set(fate, msg[w], "handled")
        /\ Goto(w, from, to)
        /\ UNCHANGED <<alive, actor_state>>
     \/ /\ msg[w] \in Failing \union Foreign
        /\ Set(fate, msg[w], "threw")
        /\ Set(alive, S(w), FALSE)
        /\ Goto(w, from, failed) /\ Set(actor_state, S(w), "FAILED")
  /\ UNCHANGED <<active_actors, slotVars, draining, mailbox, poolVars, binned,
                 released, ref, rlock, restart, lost>>

\* ends the drain without looking at the mailbox again
SlipClear(w) ==
  /\ Goto(w, "clear", "idle") /\ Holds(w)
  /\ Set(draining, S(w), FALSE)
  /\ UNCHANGED <<active_actors, slotVars, alive, actor_state, mailbox, poolVars,
                 binned, released, ref, msg, rlock, fate, restart, lost>>

\* leaves the actor out of the cleanup queue
SlipNotifyFailure(w, from, to) ==
  /\ Goto(w, from, to) /\ Holds(w)
  /\ IF released THEN UNCHANGED is_valid ELSE Set(is_valid, S(w), FALSE)
  /\ UNCHANGED <<active_actors, present, registered, life, linked, actorVars, poolVars,
                 binned, released, ref, msg, rlock, fate, restart, lost>>

\* joins the cleanup thread without a sentinel
SlipStopCleaner ==
  /\ Goto(Owner, "sentinel", "joinCleanup")
  /\ UNCHANGED <<active_actors, slotVars, actorVars, poolVars, binned, released,
                 ref, msg, rlock, fate, restart, lost>>

-----------------------------------------------------------------------------
(* send and addToMailbox                                                   *)

\* The three loads of the slot before the pointer is used are one step: a
\* change between them makes the call return false.
Send(c) ==
  /\ pc[c] = "idle" /\ ~released
  /\ c \in Direct \/ ~Registering
  /\ \E m \in Msgs, s \in Slots :
       /\ fate[m] = "new"
       /\ IF present[s] /\ is_valid[s] /\ (s \in registered \/ c \in Direct)
          THEN /\ Goto(c, "idle", "alive")
               /\ Set(ref, c, [slot |-> s, life |-> life[s]])
               /\ Set(msg, c, m)
               /\ Set(fate, m, "sending")
               /\ rlock' = IF c \in Direct THEN rlock ELSE rlock \union {c}
          ELSE Set(fate, m, "refused") /\ UNCHANGED <<pc, ref, msg, rlock>>
  /\ UNCHANGED <<active_actors, slotVars, actorVars, poolVars, binned,
                 released, restart, lost>>

\* The call returns; a send by name lets go of registry_lock_.
Return(c, from) ==
  /\ Goto(c, from, "idle")
  /\ Set(msg, c, NoMsg)
  /\ rlock' = rlock \ {c}

AddToMailbox(c) ==
  /\ pc[c] = "alive" /\ Holds(c)
  /\ IF alive[S(c)] THEN Goto(c, "alive", "reserve") /\ UNCHANGED <<msg, rlock, fate>>
     ELSE Return(c, "alive") /\ Set(fate, msg[c], "refused")
  /\ UNCHANGED <<active_actors, slotVars, actorVars, poolVars, binned, released,
                 ref, restart, lost>>

\* try_push draws a place, or finds the mailbox full.
Reserve(c) ==
  /\ pc[c] = "reserve" /\ Holds(c)
  /\ IF Len(mailbox[S(c)]) < MailboxSize
     THEN /\ Goto(c, "reserve", "publish")
          /\ Set(mailbox, S(c), Append(mailbox[S(c)], msg[c]))
          /\ Set(fate, msg[c], "reserved")
     ELSE /\ Goto(c, "reserve", "kick")
          /\ Set(fate, msg[c], "refused")
          /\ UNCHANGED mailbox
  /\ UNCHANGED <<active_actors, slotVars, alive, draining, actor_state, poolVars,
                 binned, released, ref, msg, rlock, restart, lost>>

Publish(c) ==
  /\ Goto(c, "publish", "kick") /\ Holds(c)
  /\ Set(fate, msg[c], "queued")
  /\ Set(msg, c, NoMsg)
  /\ UNCHANGED <<active_actors, slotVars, actorVars, poolVars, binned, released,
                 ref, rlock, restart, lost>>

\* Pushed or not, whoever sets is_draining_ asks for a drain.
Kick(c) ==
  /\ pc[c] = "kick" /\ Holds(c)
  /\ IF draining[S(c)] THEN Return(c, "kick") /\ UNCHANGED <<draining, lost>>
     ELSE /\ TryDrain(c, "notify", "idle")
          /\ UNCHANGED <<msg, rlock>>
  /\ UNCHANGED <<active_actors, slotVars, alive, actor_state, mailbox, poolVars,
                 binned, released, ref, fate, restart>>

Notify(c) ==
  /\ pc[c] = "notify" /\ Holds(c)
  /\ NotifyMailboxActive(S(c))
  /\ Return(c, "notify")
  /\ UNCHANGED <<active_actors, slotVars, actorVars, stopped, binned, released,
                 ref, fate, restart>>

-----------------------------------------------------------------------------
(* A worker: the drain request, drainMailbox and handleMsg                 *)

Drain(w) ==
  /\ pc[w] = "idle" /\ tasks # <<>>
  /\ LET s == Head(tasks) IN
     IF present[s] /\ is_valid[s]
     THEN Goto(w, "idle", "loop") /\ Set(ref, w, [slot |-> s, life |-> life[s]])
     ELSE UNCHANGED <<pc, ref>>
  /\ tasks' = Tail(tasks)
  /\ UNCHANGED <<active_actors, slotVars, actorVars, stopped, binned, released,
                 msg, rlock, fate, restart, lost>>

\* actor_alive_, the loop's first condition.
Loop(w) ==
  /\ pc[w] = "loop" /\ Holds(w)
  /\ Goto(w, "loop", IF alive[S(w)] THEN "pop" ELSE "clear")
  /\ UNCHANGED <<active_actors, slotVars, actorVars, poolVars, binned, released,
                 ref, msg, rlock, fate, restart, lost>>

PopNext(w) ==
  /\ pc[w] = "pop" /\ Holds(w)
  /\ \/ Goto(w, "pop", "handle") /\ Pop(w)
     \/ /\ ~Poppable(S(w))
        /\ Goto(w, "pop", "clear")
        /\ UNCHANGED <<mailbox, msg, fate>>
  /\ UNCHANGED <<active_actors, slotVars, alive, draining, actor_state, poolVars,
                 binned, released, ref, rlock, restart, lost>>

\* The task of the message ends, or throws: the first to throw while the actor
\* is alive marks it failed and goes on to report it.  What is no std::exception
\* leaves drainMailbox too, and the pool swallows it: the actor goes on living, with
\* is_draining_ set if the worker had set it.
HandleMsg(w, from, to, failed) ==
  /\ pc[w] = from /\ Holds(w)
  /\ Set(msg, w, NoMsg)
  /\ \/ /\ msg[w] \notin Failing \union Foreign
        /\ Set(fate, msg[w], "handled")
        /\ Goto(w, from, to)
        /\ UNCHANGED <<alive, actor_state, lost>>
     \/ /\ msg[w] \in Failing
        /\ Set(fate, msg[w], "threw")
        /\ Set(alive, S(w), FALSE)
        /\ IF alive[S(w)] /\ actor_state[S(w)] # "FAILED"
           THEN Goto(w, from, failed) /\ Set(actor_state, S(w), "FAILED")
           ELSE Goto(w, from, to) /\ UNCHANGED actor_state
        /\ UNCHANGED lost
     \/ /\ msg[w] \in Foreign
        /\ Set(fate, msg[w], "threw")
        /\ Goto(w, from, "idle")
        /\ IF from = "handle" THEN Lose(S(w), "drain") ELSE UNCHANGED lost
        /\ UNCHANGED <<alive, actor_state>>
  /\ UNCHANGED <<active_actors, slotVars, draining, mailbox, poolVars, binned,
                 released, ref, rlock, restart>>

\* notifyActorFailure, when the system can be locked.
NotifyFailure(w, from, to) ==
  /\ Goto(w, from, to) /\ Holds(w)
  /\ IF released \/ ~linked[S(w)] THEN UNCHANGED <<is_valid, binned>>
     ELSE Set(is_valid, S(w), FALSE) /\ binned' = Append(binned, S(w))
  /\ IF linked[S(w)] THEN UNCHANGED lost ELSE Lose(S(w), "failure")
  /\ UNCHANGED <<active_actors, present, registered, life, linked, actorVars, poolVars,
                 released, ref, msg, rlock, fate, restart>>

\* is_draining_.store(false)
Clear(w) ==
  /\ Goto(w, "clear", "recheck") /\ Holds(w)
  /\ Set(draining, S(w), FALSE)
  /\ UNCHANGED <<active_actors, slotVars, alive, actor_state, mailbox, poolVars,
                 binned, released, ref, msg, rlock, fate, restart, lost>>

Recheck(w) ==
  /\ pc[w] = "recheck" /\ Holds(w)
  /\ Goto(w, "recheck", IF alive[S(w)] THEN "repop" ELSE "idle")
  /\ UNCHANGED <<active_actors, slotVars, actorVars, poolVars, binned, released,
                 ref, msg, rlock, fate, restart, lost>>

Repop(w) ==
  /\ pc[w] = "repop" /\ Holds(w)
  /\ \/ Goto(w, "repop", "recas") /\ Pop(w)
     \/ /\ ~Poppable(S(w))
        /\ Goto(w, "repop", "idle")
        /\ UNCHANGED <<mailbox, msg, fate>>
  /\ UNCHANGED <<active_actors, slotVars, alive, draining, actor_state, poolVars,
                 binned, released, ref, rlock, restart, lost>>

\* A message came late: ask for another drain, then handle it.
Recas(w) ==
  /\ pc[w] = "recas" /\ Holds(w)
  /\ TryDrain(w, "renotify", "late")
  /\ UNCHANGED <<active_actors, slotVars, alive, actor_state, mailbox, poolVars,
                 binned, released, ref, msg, rlock, fate, restart>>

Renotify(w) ==
  /\ Goto(w, "renotify", "late") /\ Holds(w)
  /\ NotifyMailboxActive(S(w))
  /\ UNCHANGED <<active_actors, slotVars, actorVars, stopped, binned, released,
                 ref, msg, rlock, fate, restart>>

\* What a thread does next is done to an actor that is gone.
Stray(t) ==
  /\ pc[t] \in {"alive", "reserve", "publish", "kick", "notify",
                "loop", "pop", "handle", "fail", "clear",
                "recheck", "repop", "recas", "renotify", "late", "lateFail"}
  /\ ~Holds(t)
  /\ pc' = [pc EXCEPT ![t] = "undefined"]
  /\ UNCHANGED <<active_actors, slotVars, actorVars, poolVars, binned, released,
                 ref, msg, rlock, fate, restart, lost>>

-----------------------------------------------------------------------------
(* unregisterActor and stopActor, run by the cleanup thread and, at the    *)
(* end, by the owner                                                       *)

TakeFailed ==
  /\ pc[Cleaner] = "idle" /\ binned # <<>>
  /\ binned' = Tail(binned)
  /\ LET s == Head(binned) IN
     IF s = Sentinel
     THEN Goto(Cleaner, "idle", "exited") /\ UNCHANGED <<ref, restart, lost>>
     ELSE /\ Goto(Cleaner, "idle", "erase")
          /\ Set(ref, Cleaner, [slot |-> s, life |-> life[s]])
          /\ restart' = (present[s] /\ ~is_valid[s])
  /\ UNCHANGED <<active_actors, slotVars, actorVars, poolVars, released, msg,
                 rlock, fate, lost>>

\* After unregisterActor: the cleanup thread may spawn, the owner goes on to
\* the next slot.
Unregistered(t, from) ==
  IF t = Cleaner
  THEN Goto(t, from, IF restart THEN "spawn" ELSE "idle") /\ UNCHANGED ref
  ELSE IF S(t) + 1 < NumActors
       THEN /\ Goto(t, from, "erase")
            /\ Set(ref, t, [slot |-> S(t) + 1, life |-> life[S(t) + 1]])
       ELSE Goto(t, from, "joinPool") /\ UNCHANGED ref

\* The name goes, under registry_lock_.
Erase(t) ==
  /\ pc[t] = "erase" /\ LockFree
  /\ IF present[S(t)]
     THEN /\ registered' = registered \ {S(t)}
          /\ Goto(t, "erase", "stop") /\ UNCHANGED ref
     ELSE Unregistered(t, "erase") /\ UNCHANGED registered
  /\ UNCHANGED <<active_actors, present, is_valid, life, linked, actorVars, poolVars,
                 binned, released, msg, rlock, fate, restart, lost>>

StopActor(t) ==
  /\ Goto(t, "stop", "spin")
  /\ Set(alive, S(t), FALSE)
  /\ UNCHANGED <<active_actors, slotVars, draining, actor_state, mailbox,
                 poolVars, binned, released, ref, msg, rlock, fate, restart, lost>>

\* while (is_draining_) yield
Spin(t) ==
  /\ ~draining[S(t)]
  /\ Goto(t, "spin", "reset")
  /\ Set(actor_state, S(t), "STOPPED")
  /\ UNCHANGED <<active_actors, slotVars, alive, draining, mailbox, poolVars,
                 binned, released, ref, msg, rlock, fate, restart, lost>>

\* is_valid goes and the actor is destroyed, its mailbox with it.
Reset(t) ==
  /\ pc[t] = "reset"
  /\ Set(is_valid, S(t), FALSE) /\ Set(present, S(t), FALSE)
  /\ Set(mailbox, S(t), <<>>)
  /\ fate' = [m \in Msgs |->
                IF m \in {mailbox[S(t)][i] : i \in 1 .. Len(mailbox[S(t)])}
                THEN "dropped" ELSE fate[m]]
  /\ Unregistered(t, "reset")
  /\ UNCHANGED <<active_actors, registered, life, linked, alive, draining, actor_state,
                 poolVars, binned, released, msg, rlock, restart, lost>>

\* spawn at the slot of the failed actor: registerActor takes registry_lock_ ...
Respawn ==
  /\ pc[Cleaner] = "spawn" /\ LockFree
  /\ LET s == S(Cleaner) IN
     IF present[s] \/ s \in registered
     THEN UNCHANGED <<slotVars, actorVars, lost>> /\ Goto(Cleaner, "spawn", "idle")
     ELSE /\ Install(s) /\ UNCHANGED registered
          /\ Goto(Cleaner, "spawn", "link")
  /\ UNCHANGED <<active_actors, poolVars, binned, released, ref, msg, rlock,
                 fate, restart>>

\* ... tells the actor its system and enters its name.
Link(t, to) ==
  /\ ~released
  /\ Goto(t, "link", to)
  /\ Set(linked, S(t), TRUE)
  /\ registered' = registered \union {S(t)}
  /\ UNCHANGED <<active_actors, present, is_valid, life, actorVars, poolVars, binned,
                 released, ref, msg, rlock, fate, restart, lost>>

\* shared_from_this() throws in a system that nobody owns any more: the exception
\* leaves the cleanup thread and with it the program.
Terminate ==
  /\ released
  /\ Goto(Cleaner, "link", "terminated")
  /\ UNCHANGED <<active_actors, slotVars, actorVars, poolVars, binned, released, ref,
                 msg, rlock, fate, restart, lost>>

-----------------------------------------------------------------------------
(* The owner: spawn and ~ActorSystem                                       *)

\* spawn() of a new actor: the next slot, under its own name.
Spawn ==
  /\ LockFree
  /\ Goto(Owner, "use", "link")
  /\ active_actors < NumActors
  /\ active_actors' = active_actors + 1
  /\ Install(active_actors)
  /\ Set(ref, Owner, [slot |-> active_actors, life |-> life[active_actors] + 1])
  /\ UNCHANGED <<registered, poolVars, binned, released, msg, rlock, fate, restart>>

\* The last shared_ptr goes, so no send is under way.
Release ==
  /\ Destroyed
  /\ \A c \in Clients : pc[c] \in {"idle", "undefined"}
  /\ Goto(Owner, "use", "stopPool")
  /\ released' = TRUE
  /\ UNCHANGED <<active_actors, slotVars, actorVars, poolVars, binned, ref, msg,
                 rlock, fate, restart, lost>>

StopPool ==
  /\ Goto(Owner, "stopPool", "sentinel")
  /\ stopped' = TRUE
  /\ UNCHANGED <<active_actors, slotVars, actorVars, tasks, binned, released, ref,
                 msg, rlock, fate, restart, lost>>

StopCleaner ==
  /\ Goto(Owner, "sentinel", "joinCleanup")
  /\ binned' = Append(binned, Sentinel)
  /\ UNCHANGED <<active_actors, slotVars, actorVars, poolVars, released, ref, msg,
                 rlock, fate, restart, lost>>

JoinCleaner ==
  /\ pc[Cleaner] = "exited"
  /\ Goto(Owner, "joinCleanup", "erase")
  /\ Set(ref, Owner, [slot |-> 0, life |-> life[0]])
  /\ UNCHANGED <<active_actors, slotVars, actorVars, poolVars, binned, released,
                 msg, rlock, fate, restart, lost>>

\* ~ThreadPool_Q: the workers leave once the queue is empty.
JoinPool ==
  /\ tasks = <<>> /\ \A w \in Workers : pc[w] = "idle"
  /\ Goto(Owner, "joinPool", "destroyed")
  /\ UNCHANGED <<active_actors, slotVars, actorVars, poolVars, binned, released,
                 ref, msg, rlock, fate, restart, lost>>

-----------------------------------------------------------------------------
ClientStep(c) == \/ AddToMailbox(c) \/ Reserve(c) \/ Publish(c)
                 \/ Kick(c) \/ Notify(c)

WorkerStep(w) ==
  \/ Drain(w) \/ Loop(w) \/ PopNext(w)
  \/ HandleMsg(w, "handle", "loop", "fail")
  \/ NotifyFailure(w, "fail", "loop")
  \/ Clear(w) \/ Recheck(w) \/ Repop(w) \/ Recas(w) \/ Renotify(w)
  \/ HandleMsg(w, "late", "idle", "lateFail")
  \/ NotifyFailure(w, "lateFail", "idle")

UnregisterStep(t) == Erase(t) \/ StopActor(t) \/ Spin(t) \/ Reset(t)

CleanerStep == \/ TakeFailed \/ UnregisterStep(Cleaner)
               \/ Respawn \/ Link(Cleaner, "idle") \/ Terminate

OwnerStep == \/ Link(Owner, "use") \/ StopPool \/ StopCleaner \/ JoinCleaner
             \/ UnregisterStep(Owner) \/ JoinPool

Running == pc[Cleaner] # "terminated"

\* Destroyed, or nobody asks for anything, or a thread spins or is lost.
Quiet == UNCHANGED vars

Next ==
  \/ /\ Running
     /\ \/ \E c \in Clients : Send(c) \/ ClientStep(c)
        \/ \E w \in Workers : WorkerStep(w)
        \/ \E t \in Workers \union Clients : Stray(t)
        \/ CleanerStep
        \/ Spawn \/ Release \/ OwnerStep
  \/ Quiet

Spec == Init /\ [][Next]_vars

\* Threads run.  Nobody has to send, spawn or destroy.
Fairness ==
  /\ \A c \in Clients : WF_vars(Running /\ (ClientStep(c) \/ Stray(c)))
  /\ \A w \in Workers : WF_vars(Running /\ (WorkerStep(w) \/ Stray(w)))
  /\ WF_vars(CleanerStep)
  /\ WF_vars(Running /\ OwnerStep)

FairSpec == Spec /\ Fairness
-----------------------------------------------------------------------------
(* Properties                                                              *)

\* The threads in the part of drainMailbox, or of addToMailbox, that owns
\* is_draining_, and the requests that will become one.
InDrain(s) ==
  {w \in Workers : /\ pc[w] \in {"loop", "pop", "handle", "fail", "clear", "renotify"}
                   /\ S(w) = s /\ Holds(w)}
    \union {c \in Clients : pc[c] = "notify" /\ S(c) = s /\ Holds(c)}
Requests(s) == {i \in 1 .. Len(tasks) : tasks[i] = s}

\* No task has thrown yet.
NoFailure == \A m \in Msgs : fate[m] # "threw"

\* The pool never refuses a drain request for want of room: numActors * 4 is
\* more than can be asked for.
PoolHasRoom == Len(tasks) <= NumActors

\* "One drainMailbox() per actor at a time", while no task throws: is_draining_
\* has one owner at most, a thread or a request in the pool, and the pool has
\* room for them all.
OneDrain ==
  NoFailure =>
    /\ PoolHasRoom
    /\ \A s \in Slots :
         /\ Cardinality(InDrain(s)) + Cardinality(Requests(s)) <= 1
         /\ InDrain(s) # {} \/ Requests(s) # {} => present[s] /\ draining[s]

\* No actor has been replaced more than three times.
FewReplaced == \A s \in Slots : life[s] <= 4

\* No message is stranded in the mailbox of a living actor: somebody drains it,
\* has asked for that, or is still to look; unless somebody who had won is_draining_
\* went away with it, before the actor knew its system or by an exception that nobody
\* handles, and nobody has won it since.  (Every replacement can leave a request behind in the pool, which has
\* room for four of each actor: after many of them it may be full of requests for
\* others, and one that it refuses is never made again.)
NotStranded ==
  FewReplaced => \A s \in Slots :
    present[s] /\ alive[s] /\ Poppable(s) /\ ~released /\ "drain" \notin lost[s] =>
      \/ InDrain(s) # {} \/ Requests(s) # {}
      \/ \E c \in Clients : pc[c] = "kick" /\ S(c) = s /\ Holds(c)
      \/ \E w \in Workers : /\ pc[w] \in {"recheck", "repop", "recas"}
                            /\ S(w) = s /\ Holds(w)

\* A failed actor is reported once: exactly one of its workers is about to, or
\* it is in the cleanup queue, or the cleanup thread is at it, or the worker did not
\* find the actor's system.
ReportedOnce ==
  \A s \in Slots :
    present[s] /\ actor_state[s] = "FAILED" /\ ~released =>
      Cardinality({w \in Workers : pc[w] \in {"fail", "lateFail"} /\ S(w) = s /\ Holds(w)})
        + Cardinality({i \in 1 .. Len(binned) : binned[i] = s})
        + (IF pc[Cleaner] \in {"erase", "stop", "spin"} /\ S(Cleaner) = s THEN 1 ELSE 0)
        + (IF "failure" \in lost[s] THEN 1 ELSE 0)
        = 1

\* A task is run by the actor its message was accepted by and no other thread:
\* a message is in one hand or one mailbox at most.
HandledOnce ==
  \A m \in Msgs :
    Cardinality({t \in Workers \union Clients : msg[t] = m /\ fate[m] \in {"sending", "handling"}})
      + Cardinality({s \in Slots : \E i \in 1 .. Len(mailbox[s]) : mailbox[s][i] = m})
      = IF fate[m] \in {"sending", "handling", "reserved", "queued"} THEN 1 ELSE 0

\* Whatever workers and senders do at the same time, an actor has one drain, a
\* failure one report and a message one handler.
Once == OneDrain /\ ReportedOnce /\ HandledOnce

\* is_draining_ is set and nobody will ever clear it.
Orphaned(s) == present[s] /\ draining[s] /\ InDrain(s) = {} /\ Requests(s) = {}

\* The message is in the mailbox of an actor whose is_draining_ was lost.
Lost(m) == \E s \in Slots : /\ "drain" \in lost[s]
                            /\ \E i \in 1 .. Len(mailbox[s]) : mailbox[s][i] = m

\* A message that was accepted is handled, while no task throws and the system is in
\* use, unless a send found the actor before it knew its system.
Handled ==
  \A m \in Msgs :
    (fate[m] = "queued") ~>
      (fate[m] \in {"handled", "threw"} \/ ~NoFailure \/ released \/ Lost(m))

\* "A new actor instance is spawned with the same {id, name} and replaces it."
Replaced ==
  \A s \in Slots :
    (actor_state[s] = "FAILED" /\ present[s]) ~> (actor_state[s] = "RUNNING" \/ released)

\* The same, but for an actor whose is_draining_ is left set, or whose failure was
\* never reported.
ReplacedUnlessOrphaned ==
  \A s \in Slots :
    (actor_state[s] = "FAILED" /\ present[s]) ~>
      (actor_state[s] = "RUNNING" \/ released \/ Orphaned(s) \/ "failure" \in lost[s])

\* Once the system is released its destructor ends, unless an is_draining_ is
\* left set, a thread is lost in an actor that is gone, or the program ends.
DestructorEndsUnlessOrphaned ==
  (pc[Owner] = "stopPool") ~>
    (\/ pc[Owner] = "destroyed" \/ ~Running
     \/ \E t \in Threads : pc[t] = "undefined"
     \/ \E s \in Slots : Orphaned(s))

\* Messages are handled, failed actors replaced and the destructor ends, but for
\* the cases named above.
ActorsServed == Handled /\ ReplacedUnlessOrphaned /\ DestructorEndsUnlessOrphaned

\* "tasks from a single actor never run concurrently"
OneHandler ==
  \A v, w \in Workers :
    pc[v] \in {"handle", "late"} /\ pc[w] \in {"handle", "late"} /\ ref[v] = ref[w]
      => v = w

\* Whoever uses an actor finds the system it belongs to, and a task throws nothing
\* that drainMailbox does not expect: neither is true of the code.
NothingLost == \A s \in Slots : lost[s] = {}

\* "ActorHandle validity checked before routing": no thread is left working
\* with an actor that is gone.
NoneStray == \A t \in Threads : pc[t] # "undefined"

\* The cleanup thread ends by its sentinel and not by an exception.
CleanerEndsWell == pc[Cleaner] # "terminated"

\* "stopActor waits for is_draining_ to be false": the destructor ends, if no
\* worker is lost in an actor that is gone.
DestructorEnds ==
  (pc[Owner] = "stopPool") ~> (pc[Owner] = "destroyed" \/ ~NoneStray)
=============================================================================
