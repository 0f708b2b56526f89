----------------------------- MODULE BoundedFifo -----------------------------
(***************************************************************************)
(* What a bounded queue promises its callers: items leave in the order in  *)
(* which they entered, each one once, and never more than Capacity of them *)
(* are inside.  The queue is an atomic sequence; how a ring of cells, two  *)
(* counters and a sequence number per cell provide it is in MpmcQueue.     *)
(***************************************************************************)
EXTENDS Naturals, Sequences

CONSTANTS Takers,    \* who receives items
          Items,     \* what can be queued
          NoItem,    \* "nothing received yet"
          Capacity   \* the most items the queue ever holds

VARIABLES queue,     \* the items inside, oldest first
          got        \* the item each taker received last

vars == <<queue, got>>

TypeOK == /\ queue \in Seq(Items)
          /\ got \in [Takers -> Items \union {NoItem}]

Init == /\ queue = <<>>
        /\ got = [t \in Takers |-> NoItem]

Enqueue(x) == /\ Len(queue) < Capacity
              /\ queue' = Append(queue, x)
              /\ UNCHANGED got

Dequeue(t) == /\ queue # <<>>
              /\ got' = [got EXCEPT ![t] = Head(queue)]
              /\ queue' = Tail(queue)

Next == \/ \E x \in Items : Enqueue(x)
        \/ \E t \in Takers : Dequeue(t)

Spec == Init /\ [][Next]_vars
=============================================================================
