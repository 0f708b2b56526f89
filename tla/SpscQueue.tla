------------------------------ MODULE SpscQueue ------------------------------
(***************************************************************************)
(* The queue of one producer and one consumer (lock_free_queue.h): a ring  *)
(* with one slot more than its capacity, the consumer's index head and the *)
(* producer's index tail.  No step writes both, so what can go wrong is    *)
(* what each side may believe about the other.                             *)
(*                                                                         *)
(* The atomics are those of the C++ memory model.  A load of the other     *)
(* side's index returns any value it has had since the one this thread saw *)
(* last; and only an acquire load that reads a release store orders what   *)
(* was done before the store ahead of what is done after the load.  The    *)
(* copying push loads head relaxed, everything else that matters acquires. *)
(***************************************************************************)
EXTENDS Integers, Sequences

CONSTANTS Items,     \* what can be queued
          NoItem,    \* a slot or variable that holds none
          Capacity   \* the argument of the constructor

ASSUME ParamAssumption == Capacity \in Nat \ {0} /\ NoItem \notin Items

VARIABLES
  head,      \* head.index: the first item; stored by the consumer
  tail,      \* tail.index: the slot after the last item; by the producer
  ring,      \* ring_buff
  headSeen,  \* the latest value of head that the producer has loaded
  tailSeen,  \* the latest value of tail that the consumer has loaded
  writable,  \* slots whose last use by the consumer happens before whatever
             \* the producer does next
  readable,  \* slots whose last use by the producer happens before whatever
             \* the consumer does next
  push,      \* the producer: where it is, its item, and whether it acquired
  pop,       \* the consumer: where it is
  out,       \* the item the consumer took last
  room,      \* since its last push the producer was told size() < capacity()
  more       \* since its last pop the consumer was told size() > 0

indices == <<head, tail, headSeen, tailSeen>>
order == <<writable, readable>>
producer_side == <<push, room>>
consumer_side == <<pop, out, more>>
vars == <<head, tail, ring, headSeen, tailSeen, writable, readable, push, pop,
          out, room, more>>

-----------------------------------------------------------------------------
(* Indices of the ring.                                                    *)

Slots == 0 .. Capacity

\* Slip: no wrapping.
SlipAdvance(i) == i + 1

\* advance: the next index, round the ring.
advance(i) == (i + 1) % (Capacity + 1)

\* How far it is from i round to j; size() of the indices i and j.
Distance(i, j) == (Capacity + 1 + j - i) % (Capacity + 1)

\* The slots from i up to, and without, j.
Between(i, j) == {s \in Slots : Distance(i, s) < Distance(i, j)}

\* What a load can return of an index that was at `seen` when the thread
\* loaded it last and is at `now`: no value from before the one it saw.
Loads(seen, now) == Between(seen, now) \union {now}

-----------------------------------------------------------------------------
Init == /\ head = 0 /\ tail = 0
        /\ headSeen = 0 /\ tailSeen = 0
        /\ ring = [s \in Slots |-> NoItem]
        /\ writable = Slots /\ readable = Slots
        /\ push = [at |-> "idle", item |-> NoItem, acquired |-> FALSE]
        /\ pop = "idle" /\ out = NoItem
        /\ room = FALSE /\ more = FALSE

(* The producer.  Its own index it always loads up to date.  An acquire    *)
(* that reads head = h orders the consumer's work on every slot ahead of   *)
(* the producer's, but for what the consumer has moved out since that      *)
(* store: the slots from h to head, and the one it is moving from.         *)

Unpublished == IF pop = "publish" THEN {head} ELSE {}

Acquired(h, acquires) ==
  IF acquires THEN writable \union (Slots \ (Between(h, head) \union Unpublished))
              ELSE writable

\* Slips: the ring filled to the last slot, and one item less than it holds.
SlipPushFull(x, acquires) ==
  /\ push.at = "idle"
  /\ \E h \in Loads(headSeen, head) :
       /\ headSeen' = h
       /\ writable' = Acquired(h, acquires)
       /\ push' = [at |-> "write", item |-> x, acquired |-> acquires]
  /\ room' = FALSE
  /\ UNCHANGED <<head, tail, tailSeen, ring, readable, consumer_side>>

SlipPushEarly(x, acquires) ==
  /\ push.at = "idle"
  /\ \E h \in Loads(headSeen, head) :
       /\ headSeen' = h
       /\ writable' = Acquired(h, acquires)
       /\ IF advance(advance(tail)) = h
            THEN UNCHANGED push
            ELSE push' = [at |-> "write", item |-> x, acquired |-> acquires]
  /\ room' = FALSE
  /\ UNCHANGED <<head, tail, tailSeen, ring, readable, consumer_side>>

\* The load of head, and the test for a full ring.
PushCheck(x, acquires) ==
  /\ push.at = "idle"
  /\ \E h \in Loads(headSeen, head) :
       /\ headSeen' = h
       /\ writable' = Acquired(h, acquires)
       /\ IF advance(tail) = h
            THEN UNCHANGED push
            ELSE push' = [at |-> "write", item |-> x, acquired |-> acquires]
  /\ room' = FALSE
  /\ UNCHANGED <<head, tail, tailSeen, ring, readable, consumer_side>>

PushCopy(x) == PushCheck(x, FALSE)
PushMove(x) == PushCheck(x, TRUE)

\* ring_buff[back] = item.
PushWrite ==
  /\ push.at = "write"
  /\ ring' = [ring EXCEPT ![tail] = push.item]
  /\ readable' = readable \ {tail}
  /\ push' = [push EXCEPT !.at = "publish"]
  /\ UNCHANGED <<indices, writable, consumer_side, room>>

PushPublish ==
  /\ push.at = "publish"
  /\ tail' = advance(tail)
  /\ push' = [at |-> "idle", item |-> NoItem, acquired |-> FALSE]
  /\ UNCHANGED <<head, headSeen, tailSeen, ring, order, consumer_side, room>>

\* size() called by the producer; both of its loads are relaxed.
ProducerSize ==
  /\ push.at = "idle"
  /\ \E h \in Loads(headSeen, head) :
       /\ headSeen' = h
       /\ room' = (room \/ Distance(h, tail) < Capacity)
  /\ UNCHANGED <<head, tail, tailSeen, ring, order, push, consumer_side>>

(* The consumer.                                                           *)

Unread == IF push.at = "publish" THEN {tail} ELSE {}

\* Slip: tail loaded relaxed, as the copying push loads head.
SlipPopCheck ==
  /\ pop = "idle"
  /\ \E t \in Loads(tailSeen, tail) :
       /\ tailSeen' = t
       /\ pop' = IF head = t THEN "idle" ELSE "move"
  /\ more' = FALSE
  /\ UNCHANGED <<head, tail, headSeen, ring, order, producer_side, out>>

\* Slip: tail compared with a cached value, which is never refreshed.
SlipPopCached ==
  /\ pop = "idle"
  /\ readable' = readable \union (Slots \ (Between(tailSeen, tail) \union Unread))
  /\ pop' = IF head = tailSeen THEN "idle" ELSE "move"
  /\ more' = FALSE
  /\ UNCHANGED <<indices, ring, writable, producer_side, out>>

\* The load of tail, and the test for an empty ring.
PopCheck ==
  /\ pop = "idle"
  /\ \E t \in Loads(tailSeen, tail) :
       /\ tailSeen' = t
       /\ readable' = readable \union (Slots \ (Between(t, tail) \union Unread))
       /\ pop' = IF head = t THEN "idle" ELSE "move"
  /\ more' = FALSE
  /\ UNCHANGED <<head, tail, headSeen, ring, writable, producer_side, out>>

\* out = std::move(ring_buff[front]), which writes the slot as well.
PopMove ==
  /\ pop = "move"
  /\ out' = ring[head]
  /\ ring' = [ring EXCEPT ![head] = NoItem]
  /\ writable' = writable \ {head}
  /\ pop' = "publish"
  /\ UNCHANGED <<indices, readable, producer_side, more>>

PopPublish ==
  /\ pop = "publish"
  /\ head' = advance(head)
  /\ pop' = "idle"
  /\ UNCHANGED <<tail, headSeen, tailSeen, ring, order, producer_side, out, more>>

ConsumerSize ==
  /\ pop = "idle"
  /\ \E t \in Loads(tailSeen, tail) :
       /\ tailSeen' = t
       /\ more' = (more \/ Distance(head, t) > 0)
  /\ UNCHANGED <<head, tail, headSeen, ring, order, producer_side, pop, out>>

-----------------------------------------------------------------------------
Producing == \/ \E x \in Items : PushCopy(x) \/ PushMove(x)
             \/ PushWrite \/ PushPublish \/ ProducerSize

Consuming == PopCheck \/ PopMove \/ PopPublish \/ ConsumerSize

Next == Producing \/ Consuming

(* Both sides call again for as long as they are refused, as the loops of  *)
(* lock_free_queue.cpp do, and a store becomes visible to a thread that    *)
(* keeps loading (the standard asks for it in a reasonable time).          *)
FreshPush == (\E x \in Items : PushCopy(x) \/ PushMove(x)) /\ headSeen' = head
FreshPop == PopCheck /\ tailSeen' = tail

Fairness == /\ WF_vars(PushWrite) /\ WF_vars(PushPublish) /\ WF_vars(FreshPush)
            /\ WF_vars(PopMove) /\ WF_vars(PopPublish) /\ WF_vars(FreshPop)

Spec == Init /\ [][Next]_vars /\ Fairness

-----------------------------------------------------------------------------
(* Properties.                                                             *)

TypeOK ==
  /\ {head, tail, headSeen, tailSeen} \subseteq Slots
  /\ ring \in [Slots -> Items \union {NoItem}]
  /\ writable \subseteq Slots /\ readable \subseteq Slots
  /\ push \in [at : {"idle", "write", "publish"}, item : Items \union {NoItem},
               acquired : BOOLEAN]
  /\ pop \in {"idle", "move", "publish"}
  /\ out \in Items \union {NoItem}
  /\ room \in BOOLEAN /\ more \in BOOLEAN

\* No data race on a slot: when a push that has acquired head is about to write
\* its slot, the consumer's last use of that slot happens before, and when a pop
\* is about to move from its slot, the producer's write of it happens before
\* (the orderings of lines 118, 128, 142 and 154).
Ordered == /\ push.at = "write" /\ push.acquired => tail \in writable
           /\ pop = "move" => head \in readable

\* The same of the copying push, whose comment says that it acquires head
\* (line 88) and whose code loads it relaxed (line 90).
CopyOrdered == push.at = "write" => tail \in writable

\* What size() tells the producer or the consumer stays good until its next
\* call: a push is not refused after size() was less than capacity(), nor a pop
\* after it was more than 0, however old the indices that size() loaded.
SizesHold ==
  [][/\ room /\ UNCHANGED <<push, tail>> => room'
     /\ more /\ UNCHANGED <<pop, head>> => more']_vars

\* The items inside, oldest first: those not moved out yet.
First == IF pop = "publish" THEN advance(head) ELSE head
Inside == [i \in 1 .. Distance(First, tail) |-> ring[(First + i - 1) % (Capacity + 1)]]

\* Whatever the loads return, and with either push, the queue is a bounded FIFO:
\* a push adds its item where tail is stored, a pop takes the oldest where it is
\* moved out.
Fifo == INSTANCE BoundedFifo WITH Takers <- {"consumer"}, queue <- Inside,
                                  got <- [t \in {"consumer"} |-> out]
ImplementsFifo == Fifo!Spec

\* Two sides that go on calling go on transferring: each index moves on from
\* wherever it is.
KeepsMoving == \A s \in Slots : /\ head = s ~> head # s
                                /\ tail = s ~> tail # s
=============================================================================
