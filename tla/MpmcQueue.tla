------------------------------ MODULE MpmcQueue ------------------------------
(***************************************************************************)
(* mpmc_queue_bounded.h: the bounded multi-producer multi-consumer queue   *)
(* that is every actor's mailbox and the profiler's record buffer.         *)
(*                                                                         *)
(* A ticket is a value of enq_tail or deq_head.  Ticket t lives in cell    *)
(* t & mask_, and that cell's sequence number says what may happen to it:  *)
(* t when it is free for the producer that draws ticket t, t + 1 when it   *)
(* holds the item of ticket t, t + Capacity once the consumer has left.    *)
(*                                                                         *)
(* Every atomic access of a call is a step of its own, and so are the      *)
(* construction of the item in the cell and the move out of it, which are  *)
(* not atomic in the code: the cell's data is touched between a            *)
(* compare-and-swap and the store that publishes the sequence number.      *)
(***************************************************************************)
EXTENDS Integers

CONSTANTS
  Producers,   \* threads that call try_push / try_emplace
  Consumers,   \* threads that call try_pop
  Items,       \* values of T
  NoItem,      \* a cell, or an out parameter, without a live object
  Capacity,    \* capacity_: the size of buffer_
  SpinLimit,   \* 16: how often try_push(const T&) retries before giving up
  MaxTicket    \* bound: no push starts once MaxTicket tickets are drawn

ASSUME MpmcAssumption == /\ Capacity \in Nat \ {0}
                         /\ SpinLimit \in Nat
                         /\ MaxTicket \in Nat
                         /\ NoItem \notin Items
                         /\ Producers \intersect Consumers = {}

VARIABLES
  enq_tail, deq_head,  \* the next ticket of each side
  seq,                 \* buffer_[i].seq
  mem,                 \* buffer_[i].mem
  pc,                  \* where each thread stands in its call
  pos,                 \* local `tail` of a producer, local `head` of a consumer
  item,                \* the item a producer is pushing
  bounded,             \* TRUE when the push is try_push(const T&)
  count,               \* local `count` of that push
  out                  \* the out parameter of a consumer's last try_pop

shared == <<enq_tail, deq_head, seq, mem>>
vars == <<enq_tail, deq_head, seq, mem, pc, pos, item, bounded, count, out>>

Threads == Producers \union Consumers
Slots == 0 .. Capacity - 1
Slot(t) == t % Capacity

TypeOK ==
  /\ enq_tail \in Nat /\ deq_head \in Nat
  /\ seq \in [Slots -> Nat]
  /\ mem \in [Slots -> Items \union {NoItem}]
  /\ pc \in [Threads -> {"idle", "load", "seq", "cas", "fill", "publish",
                         "take", "release"}]
  /\ pos \in [Threads -> Nat]
  /\ item \in [Producers -> Items \union {NoItem}]
  /\ bounded \in [Producers -> BOOLEAN]
  /\ count \in [Producers -> 0 .. SpinLimit]
  /\ out \in [Consumers -> Items \union {NoItem}]

Init ==
  /\ enq_tail = 0 /\ deq_head = 0
  /\ seq = [i \in Slots |-> i]
  /\ mem = [i \in Slots |-> NoItem]
  /\ pc = [t \in Threads |-> "idle"]
  /\ pos = [t \in Threads |-> 0]
  /\ item = [p \in Producers |-> NoItem]
  /\ bounded = [p \in Producers |-> FALSE]
  /\ count = [p \in Producers |-> 0]
  /\ out = [c \in Consumers |-> NoItem]

Goto(t, from, to) == pc[t] = from /\ pc' = [pc EXCEPT ![t] = to]

-----------------------------------------------------------------------------
(* Plausible slips, each the changed form of the definition it is named    *)
(* after; the properties are run against them.                             *)

\* one retry too many
SlipPushRetry(p) ==
  /\ seq[Slot(pos[p])] > pos[p]
  /\ bounded[p] => count[p] <= SpinLimit
  /\ Goto(p, "seq", "load")
  /\ count' = IF bounded[p] THEN [count EXCEPT ![p] = @ + 1] ELSE count
  /\ UNCHANGED <<shared, pos, item, bounded, out>>

\* takes a cell that is merely not ahead for one that is full
SlipPushFull(p) ==
  /\ seq[Slot(pos[p])] # pos[p]
  /\ Goto(p, "seq", "idle")
  /\ UNCHANGED <<shared, pos, item, bounded, count, out>>

\* a plain store instead of the compare-and-swap
SlipDrawTail(p) ==
  /\ Goto(p, "cas", "fill")
  /\ enq_tail' = pos[p] + 1
  /\ UNCHANGED <<deq_head, seq, mem, pos, item, bounded, count, out>>

\* a consumer that was overtaken answers "empty"
SlipPopEmpty(c) ==
  /\ seq[Slot(pos[c])] # pos[c] + 1
  /\ Goto(c, "seq", "idle")
  /\ UNCHANGED <<shared, pos, item, bounded, count, out>>

SlipDrawHead(c) ==
  /\ Goto(c, "cas", "take")
  /\ deq_head' = pos[c] + 1
  /\ UNCHANGED <<enq_tail, seq, mem, pos, item, bounded, count, out>>

\* moves the item out but forgets to destroy it
SlipTake(c) ==
  /\ Goto(c, "take", "release")
  /\ out' = [out EXCEPT ![c] = mem[Slot(pos[c])]]
  /\ UNCHANGED <<shared, pos, item, bounded, count>>

\* forgets that sequence numbers grow by a lap at a time
SlipHasActiveData(i) == seq[i] - i = 1

-----------------------------------------------------------------------------
(* try_push(const T&), try_push(T&&) and try_emplace                       *)

PushStart(p) ==
  /\ enq_tail < MaxTicket
  /\ Goto(p, "idle", "load")
  /\ \E x \in Items : item' = [item EXCEPT ![p] = x]
  /\ \E b \in BOOLEAN : bounded' = [bounded EXCEPT ![p] = b]
  /\ count' = [count EXCEPT ![p] = 0]
  /\ UNCHANGED <<shared, pos, out>>

LoadTail(p) ==
  /\ Goto(p, "load", "seq")
  /\ pos' = [pos EXCEPT ![p] = enq_tail]
  /\ UNCHANGED <<shared, item, bounded, count, out>>

PushFree(p) ==
  /\ seq[Slot(pos[p])] = pos[p]
  /\ Goto(p, "seq", "cas")
  /\ UNCHANGED <<shared, pos, item, bounded, count, out>>

PushFull(p) ==
  /\ seq[Slot(pos[p])] < pos[p]
  /\ Goto(p, "seq", "idle")
  /\ UNCHANGED <<shared, pos, item, bounded, count, out>>

\* The cell has moved on since enq_tail was read: the move-only overloads
\* retry for ever, the copying one gives up after SpinLimit retries.
PushRetry(p) ==
  /\ seq[Slot(pos[p])] > pos[p]
  /\ bounded[p] => count[p] < SpinLimit
  /\ Goto(p, "seq", "load")
  /\ count' = IF bounded[p] THEN [count EXCEPT ![p] = @ + 1] ELSE count
  /\ UNCHANGED <<shared, pos, item, bounded, out>>

PushGiveUp(p) ==
  /\ seq[Slot(pos[p])] > pos[p]
  /\ bounded[p] /\ count[p] = SpinLimit
  /\ Goto(p, "seq", "idle")
  /\ UNCHANGED <<shared, pos, item, bounded, count, out>>

DrawTail(p) ==
  /\ enq_tail = pos[p]
  /\ Goto(p, "cas", "fill")
  /\ enq_tail' = pos[p] + 1
  /\ UNCHANGED <<deq_head, seq, mem, pos, item, bounded, count, out>>

\* compare_exchange_weak may also fail when the values agree.
MissTail(p) ==
  /\ Goto(p, "cas", "load")
  /\ UNCHANGED <<shared, pos, item, bounded, count, out>>

Fill(p) ==
  /\ Goto(p, "fill", "publish")
  /\ mem' = [mem EXCEPT ![Slot(pos[p])] = item[p]]
  /\ UNCHANGED <<enq_tail, deq_head, seq, pos, item, bounded, count, out>>

Publish(p) ==
  /\ Goto(p, "publish", "idle")
  /\ seq' = [seq EXCEPT ![Slot(pos[p])] = pos[p] + 1]
  /\ UNCHANGED <<enq_tail, deq_head, mem, pos, item, bounded, count, out>>

-----------------------------------------------------------------------------
(* try_pop                                                                 *)

PopStart(c) ==
  /\ Goto(c, "idle", "load")
  /\ UNCHANGED <<shared, pos, item, bounded, count, out>>

LoadHead(c) ==
  /\ Goto(c, "load", "seq")
  /\ pos' = [pos EXCEPT ![c] = deq_head]
  /\ UNCHANGED <<shared, item, bounded, count, out>>

PopReady(c) ==
  /\ seq[Slot(pos[c])] = pos[c] + 1
  /\ Goto(c, "seq", "cas")
  /\ UNCHANGED <<shared, pos, item, bounded, count, out>>

PopEmpty(c) ==
  /\ seq[Slot(pos[c])] <= pos[c]
  /\ Goto(c, "seq", "idle")
  /\ UNCHANGED <<shared, pos, item, bounded, count, out>>

PopRetry(c) ==
  /\ seq[Slot(pos[c])] > pos[c] + 1
  /\ Goto(c, "seq", "load")
  /\ UNCHANGED <<shared, pos, item, bounded, count, out>>

DrawHead(c) ==
  /\ deq_head = pos[c]
  /\ Goto(c, "cas", "take")
  /\ deq_head' = pos[c] + 1
  /\ UNCHANGED <<enq_tail, seq, mem, pos, item, bounded, count, out>>

MissHead(c) ==
  /\ Goto(c, "cas", "load")
  /\ UNCHANGED <<shared, pos, item, bounded, count, out>>

\* out = std::move(*data); data->~T()
Take(c) ==
  /\ Goto(c, "take", "release")
  /\ out' = [out EXCEPT ![c] = mem[Slot(pos[c])]]
  /\ mem' = [mem EXCEPT ![Slot(pos[c])] = NoItem]
  /\ UNCHANGED <<enq_tail, deq_head, seq, pos, item, bounded, count>>

Release(c) ==
  /\ Goto(c, "release", "idle")
  /\ seq' = [seq EXCEPT ![Slot(pos[c])] = pos[c] + Capacity]
  /\ UNCHANGED <<enq_tail, deq_head, mem, pos, item, bounded, count, out>>

-----------------------------------------------------------------------------
PushStep(p) == \/ LoadTail(p) \/ PushFree(p) \/ PushFull(p) \/ PushRetry(p)
               \/ PushGiveUp(p) \/ DrawTail(p) \/ MissTail(p) \/ Fill(p)
               \/ Publish(p)

PopStep(c) == \/ LoadHead(c) \/ PopReady(c) \/ PopEmpty(c) \/ PopRetry(c)
              \/ DrawHead(c) \/ MissHead(c) \/ Take(c) \/ Release(c)

Next == \/ \E p \in Producers : PushStart(p) \/ PushStep(p)
        \/ \E c \in Consumers : PopStart(c) \/ PopStep(c)

Spec == Init /\ [][Next]_vars

-----------------------------------------------------------------------------
(* Properties                                                              *)

\* A thread owns its cell's data between its compare-and-swap and the store
\* of the sequence number.
Owns(t) == pc[t] \in {"fill", "publish", "take", "release"}

\* No two threads are ever inside the same cell: the placement new, the move
\* and the destructor call of different threads never overlap on one object.
SlotExclusive ==
  \A t, u \in Threads :
    t # u /\ Owns(t) /\ Owns(u) => Slot(pos[t]) # Slot(pos[u])

\* hasActiveData
HasActiveData(i) == (seq[i] - i) % Capacity = 1

\* Placement new never lands on a live object, and the move out never reads a
\* cell without one: nothing is overwritten, leaked or destroyed twice.  And the
\* destructor, which walks the cells when no thread is inside one (the
\* assumption it states), destroys exactly those that still hold an object.
LiveObjects ==
  /\ \A p \in Producers : pc[p] = "fill" => mem[Slot(pos[p])] = NoItem
  /\ \A c \in Consumers : pc[c] = "take" => mem[Slot(pos[c])] # NoItem
  /\ (\A t \in Threads : ~Owns(t)) =>
       \A i \in Slots : HasActiveData(i) <=> mem[i] # NoItem

\* The next ticket's cell still belongs to the item Capacity tickets earlier.
FullNow == \/ enq_tail - deq_head = Capacity
           \/ \E c \in Consumers : Owns(c) /\ pos[c] = enq_tail - Capacity

\* Nothing is queued, or the oldest ticket's producer has not published its item.
EmptyNow == \/ enq_tail = deq_head
            \/ \E p \in Producers : Owns(p) /\ pos[p] = deq_head

\* A push that answers "full" is right at that instant, and a pop that answers
\* "empty" is right up to a push in progress: neither is misled by a counter
\* that others have advanced since it was read.
RefusalsTrue ==
  [][/\ \A p \in Producers : PushFull(p) => pos[p] = enq_tail /\ FullNow
     /\ \A c \in Consumers : PopEmpty(c) => pos[c] = deq_head /\ EmptyNow]_vars

(***************************************************************************)
(* The ring implements a bounded FIFO queue.  A ticket's item is in its    *)
(* cell once published and still in its producer's hands before that; a    *)
(* consumer has received its item as soon as it has drawn the ticket.      *)
(***************************************************************************)
TicketItem(t) ==
  IF \E p \in Producers : pc[p] \in {"fill", "publish"} /\ pos[p] = t
    THEN item[CHOOSE p \in Producers :
                pc[p] \in {"fill", "publish"} /\ pos[p] = t]
    ELSE mem[Slot(t)]

QueueView == [i \in 1 .. enq_tail - deq_head |-> TicketItem(deq_head + i - 1)]

GotView == [c \in Consumers |->
              IF pc[c] = "take" THEN mem[Slot(pos[c])] ELSE out[c]]

Fifo == INSTANCE BoundedFifo WITH Takers <- Consumers,
                                  queue <- QueueView, got <- GotView

\* Every behaviour of the ring is one of the atomic bounded queue: FIFO order
\* over all producers and consumers, no item lost, duplicated or torn.
ImplementsFifo == Fifo!Spec
=============================================================================
