--------------------------- MODULE MpmcQueueProofs ---------------------------
(***************************************************************************)
(* What holds of the ring for every number of producers, consumers and     *)
(* items, every bound on the tickets, and every Capacity but 1.            *)
(*                                                                         *)
(* The argument: the Capacity consecutive tickets from enq_tail - Capacity *)
(* on occupy the cells one to one, and the number in a cell says at which  *)
(* of its four stages the ticket of the cell is: drawn by a producer and   *)
(* not published (t), published (t + 1), drawn by a consumer (still t + 1) *)
(* and released (t + Capacity).  A cell's number never goes back, so a     *)
(* compare-and-swap that succeeds confirms what was read before it.        *)
(* At the end: the ring implements the atomic bounded queue.               *)
(***************************************************************************)
EXTENDS MpmcQueue, Sequences, TLAPS

Filling(p) == pc[p] \in {"fill", "publish"}
Taking(c) == pc[c] \in {"take", "release"}

\* The tickets inside are the oldest ones not drawn by a consumer, and there
\* are cells for all of them.
Window == deq_head <= enq_tail /\ enq_tail <= deq_head + Capacity

\* A ticket inside is published or in the hands of a producer.
Queued ==
  \A t \in Nat : deq_head <= t /\ t < enq_tail =>
    \/ /\ seq[Slot(t)] = t
       /\ \E p \in Producers : Filling(p) /\ pos[p] = t
    \/ seq[Slot(t)] = t + 1 /\ mem[Slot(t)] \in Items

\* The cell of a ticket that can be drawn next is free, or a consumer is
\* still emptying it.
Vacant ==
  \A t \in Nat : enq_tail <= t /\ t < deq_head + Capacity =>
    \/ seq[Slot(t)] = t /\ mem[Slot(t)] = NoItem
    \/ /\ seq[Slot(t)] = t - Capacity + 1
       /\ \E c \in Consumers : Taking(c) /\ pos[c] = t - Capacity

\* Sequence numbers never fall behind the tickets drawn.
Past ==
  \A t \in Nat : /\ t < enq_tail => seq[Slot(t)] >= t
                 /\ t < deq_head => seq[Slot(t)] >= t + 1

\* What a producer knows at each point of its call.
ProducerOK ==
  \A p \in Producers :
    /\ pc[p] \in {"idle", "load", "seq", "cas", "fill", "publish"}
    /\ pc[p] # "idle" => item[p] \in Items
    /\ pos[p] <= enq_tail
    /\ pc[p] = "cas" => seq[Slot(pos[p])] >= pos[p]
    /\ Filling(p) => /\ deq_head <= pos[p] /\ pos[p] < enq_tail
                     /\ seq[Slot(pos[p])] = pos[p]
    /\ pc[p] = "fill" => mem[Slot(pos[p])] = NoItem
    /\ pc[p] = "publish" => mem[Slot(pos[p])] = item[p]
    /\ \A q \in Producers : Filling(p) /\ Filling(q) /\ p # q => pos[p] # pos[q]

\* What a consumer knows at each point of its call.
ConsumerOK ==
  \A c \in Consumers :
    /\ pc[c] \in {"idle", "load", "seq", "cas", "take", "release"}
    /\ pos[c] <= deq_head
    /\ pc[c] = "cas" => seq[Slot(pos[c])] >= pos[c] + 1
    /\ Taking(c) => /\ enq_tail - Capacity <= pos[c] /\ pos[c] < deq_head
                    /\ seq[Slot(pos[c])] = pos[c] + 1
    /\ pc[c] = "take" => mem[Slot(pos[c])] \in Items
    /\ pc[c] = "release" => mem[Slot(pos[c])] = NoItem
    /\ \A d \in Consumers : Taking(c) /\ Taking(d) /\ c # d => pos[c] # pos[d]

IInv == /\ TypeOK /\ Window /\ Queued /\ Vacant /\ Past
        /\ ProducerOK /\ ConsumerOK

-----------------------------------------------------------------------------
(* Arithmetic of the ring                                                  *)

\* A cell number is an index of buffer_.
LEMMA SlotType == \A t \in Nat : Slot(t) \in Slots
  BY MpmcAssumption DEF Slot, Slots

LEMMA Lap == ASSUME NEW a \in Int, NEW b \in Int, a < b
             PROVE  Capacity * a + Capacity <= Capacity * b
  <1>1. PICK k \in Nat : b = a + 1 + k
    <2>1. b - a - 1 \in Nat /\ b = a + 1 + (b - a - 1)
      OBVIOUS
    <2> QED
      BY <2>1
  <1>2. Capacity * b = Capacity * a + Capacity + Capacity * k
    BY <1>1, MpmcAssumption
  <1>3. Capacity * k \in Nat /\ Capacity * a \in Int
    BY <1>1, MpmcAssumption
  <1> QED
    BY <1>2, <1>3, MpmcAssumption

LEMMA Division == ASSUME NEW t \in Nat
                  PROVE  \E a \in Int : t = Capacity * a + (t % Capacity)
  <1>1. t = Capacity * (t \div Capacity) + (t % Capacity) /\ (t \div Capacity) \in Int
    BY MpmcAssumption
  <1> QED
    BY <1>1

\* Tickets a lap apart share a cell: the number a consumer stores when it
\* leaves is the next ticket of that cell.
LEMMA SlotLap == \A t \in Nat : Slot(t + Capacity) = Slot(t)
  <1> SUFFICES ASSUME NEW t \in Nat PROVE (t + Capacity) % Capacity = t % Capacity
    BY DEF Slot
  <1>a. t + Capacity \in Nat
    BY MpmcAssumption
  <1>1. PICK a \in Int : t = Capacity * a + (t % Capacity)
    BY Division
  <1>2. PICK b \in Int : t + Capacity = Capacity * b + ((t + Capacity) % Capacity)
    BY Division, <1>a
  <1>3. t % Capacity \in 0 .. Capacity-1 /\ (t + Capacity) % Capacity \in 0 .. Capacity-1
    BY MpmcAssumption
  <1>4. Capacity * a \in Int /\ Capacity * b \in Int
    BY MpmcAssumption
  <1>5. a < b
    <2>1. CASE b < a
      BY <2>1, Lap, <1>1, <1>2, <1>3, <1>4, MpmcAssumption
    <2>2. CASE b = a
      BY <2>2, <1>1, <1>2, <1>3, <1>4, MpmcAssumption
    <2> QED
      BY <2>1, <2>2
  <1>6. b <= a + 1
    <2>1. ASSUME a + 1 < b PROVE FALSE
      <3>1. Capacity * (a + 1) + Capacity <= Capacity * b
        BY <2>1, Lap
      <3>2. Capacity * (a + 1) = Capacity * a + Capacity
        BY MpmcAssumption
      <3> QED
        BY <3>1, <3>2, <1>1, <1>2, <1>3, <1>4, MpmcAssumption
    <2> QED
      BY <2>1
  <1>7. Capacity * b = Capacity * a + Capacity
    BY <1>5, <1>6, MpmcAssumption
  <1> QED
    BY <1>1, <1>2, <1>3, <1>4, <1>7, MpmcAssumption

\* Different tickets in one cell are at least a lap apart.
LEMMA SlotApart ==
  \A t, u \in Nat : Slot(t) = Slot(u) /\ t < u => u >= t + Capacity
  <1> SUFFICES ASSUME NEW t \in Nat, NEW u \in Nat,
                      t % Capacity = u % Capacity, t < u
               PROVE  u >= t + Capacity
    BY DEF Slot
  <1>1. PICK a \in Int : t = Capacity * a + (t % Capacity)
    BY Division
  <1>2. PICK b \in Int : u = Capacity * b + (u % Capacity)
    BY Division
  <1>3. t % Capacity \in Int /\ Capacity * a \in Int /\ Capacity * b \in Int
    BY MpmcAssumption
  <1>4. Capacity * a < Capacity * b
    BY <1>1, <1>2, <1>3
  <1>5. a < b
    <2>1. CASE b < a
      BY <2>1, Lap, <1>3, <1>4, MpmcAssumption
    <2>2. CASE b = a
      BY <2>2, <1>3, <1>4
    <2> QED
      BY <2>1, <2>2
  <1>6. Capacity * a + Capacity <= Capacity * b
    BY <1>5, Lap
  <1> QED
    BY <1>1, <1>2, <1>3, <1>6, MpmcAssumption

\* On the first lap, ticket t lives in cell t.
LEMMA SlotHome == \A t \in Nat : t < Capacity => Slot(t) = t
  <1> SUFFICES ASSUME NEW t \in Nat, t < Capacity PROVE t % Capacity = t
    BY DEF Slot
  <1>1. PICK a \in Int : t = Capacity * a + (t % Capacity)
    BY Division
  <1>2. t % Capacity \in 0 .. Capacity-1 /\ Capacity * a \in Int
    BY MpmcAssumption
  <1>3. Capacity * 0 = 0 /\ Capacity * 1 = Capacity /\ Capacity * (-1) = -Capacity
    BY MpmcAssumption
  <1>4. CASE a < 0
    <2>1. Capacity * a + Capacity <= 0
      BY <1>3, <1>4, Lap
    <2> QED
      BY <2>1, <1>1, <1>2, MpmcAssumption
  <1>5. CASE 0 < a
    <2>1. Capacity <= Capacity * a
      BY <1>3, <1>5, Lap, MpmcAssumption
    <2> QED
      BY <2>1, <1>1, <1>2, MpmcAssumption
  <1>6. CASE a = 0
    BY <1>6, <1>1, <1>2, <1>3
  <1> QED
    BY <1>4, <1>5, <1>6

-----------------------------------------------------------------------------
(* The invariant                                                           *)

LEMMA InitInvariant == Init => IInv
  <1> SUFFICES ASSUME Init PROVE IInv
    OBVIOUS
  <1> USE MpmcAssumption DEF Init
  <1>1. TypeOK
    BY DEF TypeOK, Slots, Threads
  <1>2. Window /\ Queued
    BY DEF Window, Queued
  <1>3. Vacant /\ Past
    <2>1. \A t \in Nat : t < Capacity => t \in Slots
      BY DEF Slots
    <2> QED
      BY <2>1, SlotHome DEF Vacant, Past
  <1>4. ProducerOK /\ ConsumerOK
    BY DEF ProducerOK, ConsumerOK, Filling, Taking, Threads
  <1> QED
    BY <1>1, <1>2, <1>3, <1>4 DEF IInv

\* Every step keeps the variables in their types.
LEMMA TypeInvariant == TypeOK /\ [Next]_vars => TypeOK'
  <1> SUFFICES ASSUME TypeOK, [Next]_vars PROVE TypeOK'
    OBVIOUS
  <1> USE MpmcAssumption DEF TypeOK, shared, Goto
  <1>1. ASSUME NEW p \in Producers, PushStart(p) PROVE TypeOK'
    BY <1>1, SlotType DEF PushStart, Threads
  <1>2. ASSUME NEW p \in Producers, LoadTail(p) PROVE TypeOK'
    BY <1>2, SlotType DEF LoadTail, Threads
  <1>3. ASSUME NEW p \in Producers, PushFree(p) PROVE TypeOK'
    BY <1>3, SlotType DEF PushFree, Threads
  <1>4. ASSUME NEW p \in Producers, PushFull(p) PROVE TypeOK'
    BY <1>4, SlotType DEF PushFull, Threads
  <1>5. ASSUME NEW p \in Producers, PushRetry(p) PROVE TypeOK'
    BY <1>5, SlotType DEF PushRetry, Threads
  <1>6. ASSUME NEW p \in Producers, PushGiveUp(p) PROVE TypeOK'
    BY <1>6, SlotType DEF PushGiveUp, Threads
  <1>7. ASSUME NEW p \in Producers, MissTail(p) PROVE TypeOK'
    BY <1>7, SlotType DEF MissTail, Threads
  <1>8. ASSUME NEW p \in Producers, DrawTail(p) PROVE TypeOK'
    BY <1>8, SlotType DEF DrawTail, Threads
  <1>9. ASSUME NEW p \in Producers, Fill(p) PROVE TypeOK'
    BY <1>9, SlotType DEF Fill, Threads
  <1>10. ASSUME NEW p \in Producers, Publish(p) PROVE TypeOK'
    BY <1>10, SlotType DEF Publish, Threads
  <1>11. ASSUME NEW c \in Consumers, PopStart(c) PROVE TypeOK'
    BY <1>11, SlotType DEF PopStart, Threads
  <1>12. ASSUME NEW c \in Consumers, LoadHead(c) PROVE TypeOK'
    BY <1>12, SlotType DEF LoadHead, Threads
  <1>13. ASSUME NEW c \in Consumers, PopReady(c) PROVE TypeOK'
    BY <1>13, SlotType DEF PopReady, Threads
  <1>14. ASSUME NEW c \in Consumers, PopEmpty(c) PROVE TypeOK'
    BY <1>14, SlotType DEF PopEmpty, Threads
  <1>15. ASSUME NEW c \in Consumers, PopRetry(c) PROVE TypeOK'
    BY <1>15, SlotType DEF PopRetry, Threads
  <1>16. ASSUME NEW c \in Consumers, MissHead(c) PROVE TypeOK'
    BY <1>16, SlotType DEF MissHead, Threads
  <1>17. ASSUME NEW c \in Consumers, DrawHead(c) PROVE TypeOK'
    BY <1>17, SlotType DEF DrawHead, Threads
  <1>18. ASSUME NEW c \in Consumers, Take(c) PROVE TypeOK'
    BY <1>18, SlotType DEF Take, Threads
  <1>19. ASSUME NEW c \in Consumers, Release(c) PROVE TypeOK'
    BY <1>19, SlotType DEF Release, Threads
  <1>20. CASE UNCHANGED vars
    BY <1>20 DEF vars
  <1> QED
    BY <1>1, <1>2, <1>3, <1>4, <1>5, <1>6, <1>7, <1>8, <1>9, <1>10, <1>11, <1>12, <1>13, <1>14, <1>15, <1>16, <1>17, <1>18, <1>19, <1>20 DEF Next, PushStep, PopStep

\* A step that changes no shared variable, and no thread inside a cell, leaves
\* what is said of tickets and cells alone.
LEMMA QuietStep ==
  ASSUME IInv, UNCHANGED shared,
         \A p \in Producers : Filling(p) => Filling(p)' /\ pos'[p] = pos[p],
         \A c \in Consumers : Taking(c) => Taking(c)' /\ pos'[c] = pos[c]
  PROVE  Window' /\ Queued' /\ Vacant' /\ Past'
  <1> USE DEF IInv, shared
  <1>1. Window'
    BY DEF Window
  <1>2. Queued'
    BY DEF Queued
  <1>3. Vacant'
    BY DEF Vacant
  <1>4. Past'
    BY DEF Past
  <1> QED
    BY <1>1, <1>2, <1>3, <1>4

\* Steps of a producer outside its cell.
LEMMA ProducerQuiet ==
  ASSUME IInv, NEW p \in Producers,
         \/ PushStart(p) \/ LoadTail(p) \/ PushFree(p) \/ PushFull(p)
         \/ PushRetry(p) \/ PushGiveUp(p) \/ MissTail(p)
  PROVE  Window' /\ Queued' /\ Vacant' /\ Past' /\ ProducerOK' /\ ConsumerOK'
  <1> USE MpmcAssumption, SlotType
  <1>0. UNCHANGED shared /\ TypeOK
    BY DEF PushStart, LoadTail, PushFree, PushFull, PushRetry, PushGiveUp, MissTail, shared, IInv
  <1>1. \A q \in Producers : Filling(q) => Filling(q)' /\ pos'[q] = pos[q]
    BY DEF PushStart, LoadTail, PushFree, PushFull, PushRetry, PushGiveUp, MissTail, Goto, Filling, IInv, TypeOK, Threads
  <1>2. \A c \in Consumers : pc'[c] = pc[c] /\ pos'[c] = pos[c]
    BY DEF PushStart, LoadTail, PushFree, PushFull, PushRetry, PushGiveUp, MissTail, Goto, IInv, TypeOK, Threads
  <1>3. Window' /\ Queued' /\ Vacant' /\ Past'
    BY <1>0, <1>1, <1>2, QuietStep DEF Taking
  <1>4. ConsumerOK'
    BY <1>0, <1>2 DEF ConsumerOK, Taking, IInv, shared
  <1>5. ProducerOK'
    <2>1. CASE PushStart(p)
      BY <2>1, <1>0 DEF PushStart, Goto, ProducerOK, Filling, IInv, TypeOK, Threads, shared, Past
    <2>2. CASE LoadTail(p)
      BY <2>2, <1>0 DEF LoadTail, Goto, ProducerOK, Filling, IInv, TypeOK, Threads, shared, Past
    <2>3. CASE PushFree(p)
      BY <2>3, <1>0 DEF PushFree, Goto, ProducerOK, Filling, IInv, TypeOK, Threads, shared, Past
    <2>4. CASE PushFull(p)
      BY <2>4, <1>0 DEF PushFull, Goto, ProducerOK, Filling, IInv, TypeOK, Threads, shared, Past
    <2>5. CASE PushRetry(p)
      BY <2>5, <1>0 DEF PushRetry, Goto, ProducerOK, Filling, IInv, TypeOK, Threads, shared, Past
    <2>6. CASE PushGiveUp(p)
      BY <2>6, <1>0 DEF PushGiveUp, Goto, ProducerOK, Filling, IInv, TypeOK, Threads, shared, Past
    <2>7. CASE MissTail(p)
      BY <2>7, <1>0 DEF MissTail, Goto, ProducerOK, Filling, IInv, TypeOK, Threads, shared, Past
    <2> QED
      BY <2>1, <2>2, <2>3, <2>4, <2>5, <2>6, <2>7
  <1> QED
    BY <1>3, <1>4, <1>5

\* Steps of a consumer outside its cell.
LEMMA ConsumerQuiet ==
  ASSUME IInv, NEW c \in Consumers,
         \/ PopStart(c) \/ LoadHead(c) \/ PopReady(c) \/ PopEmpty(c)
         \/ PopRetry(c) \/ MissHead(c)
  PROVE  Window' /\ Queued' /\ Vacant' /\ Past' /\ ProducerOK' /\ ConsumerOK'
  <1> USE MpmcAssumption, SlotType
  <1>0. UNCHANGED shared /\ UNCHANGED item /\ TypeOK
    BY DEF PopStart, LoadHead, PopReady, PopEmpty, PopRetry, MissHead, shared, IInv
  <1>1. \A d \in Consumers : Taking(d) => Taking(d)' /\ pos'[d] = pos[d]
    BY DEF PopStart, LoadHead, PopReady, PopEmpty, PopRetry, MissHead, Goto, Taking, IInv, TypeOK, Threads
  <1>2. \A p \in Producers : pc'[p] = pc[p] /\ pos'[p] = pos[p]
    BY DEF PopStart, LoadHead, PopReady, PopEmpty, PopRetry, MissHead, Goto, IInv, TypeOK, Threads
  <1>3. Window' /\ Queued' /\ Vacant' /\ Past'
    BY <1>0, <1>1, <1>2, QuietStep DEF Filling
  <1>4. ProducerOK'
    BY <1>0, <1>2 DEF ProducerOK, Filling, IInv, shared
  <1>5. ConsumerOK'
    <2>1. CASE PopStart(c)
      BY <2>1, <1>0 DEF PopStart, Goto, ConsumerOK, Taking, IInv, TypeOK, Threads, shared, Past
    <2>2. CASE LoadHead(c)
      BY <2>2, <1>0 DEF LoadHead, Goto, ConsumerOK, Taking, IInv, TypeOK, Threads, shared, Past
    <2>3. CASE PopReady(c)
      BY <2>3, <1>0 DEF PopReady, Goto, ConsumerOK, Taking, IInv, TypeOK, Threads, shared, Past
    <2>4. CASE PopEmpty(c)
      BY <2>4, <1>0 DEF PopEmpty, Goto, ConsumerOK, Taking, IInv, TypeOK, Threads, shared, Past
    <2>5. CASE PopRetry(c)
      BY <2>5, <1>0 DEF PopRetry, Goto, ConsumerOK, Taking, IInv, TypeOK, Threads, shared, Past
    <2>6. CASE MissHead(c)
      BY <2>6, <1>0 DEF MissHead, Goto, ConsumerOK, Taking, IInv, TypeOK, Threads, shared, Past
    <2> QED
      BY <2>1, <2>2, <2>3, <2>4, <2>5, <2>6
  <1> QED
    BY <1>3, <1>4, <1>5

\* A producer's compare-and-swap succeeds only on a free cell of a new ticket.
LEMMA DrawTailStep ==
  ASSUME IInv, Capacity > 1, NEW p \in Producers, DrawTail(p)
  PROVE  Window' /\ Queued' /\ Vacant' /\ Past' /\ ProducerOK' /\ ConsumerOK'
  <1> DEFINE t0 == enq_tail
  <1> USE MpmcAssumption, SlotType DEF IInv
  <1>1. /\ t0 \in Nat /\ deq_head \in Nat /\ pos[p] = t0 /\ pc[p] = "cas"
        /\ enq_tail' = t0 + 1 /\ UNCHANGED <<deq_head, seq, mem, pos, item>>
        /\ pc' = [pc EXCEPT ![p] = "fill"]
    BY DEF DrawTail, Goto, TypeOK
  <1>2. seq[Slot(t0)] >= t0
    BY <1>1 DEF ProducerOK
  <1>3. t0 < deq_head + Capacity
    <2> SUFFICES ASSUME t0 = deq_head + Capacity PROVE FALSE
      BY <1>1 DEF Window
    <2>1. Slot(t0) = Slot(deq_head)
      BY <1>1, SlotLap
    <2>2. seq[Slot(deq_head)] \in {deq_head, deq_head + 1}
      BY <1>1 DEF Queued
    <2> QED
      BY <2>1, <2>2, <1>1, <1>2
  <1>4. seq[Slot(t0)] = t0 /\ mem[Slot(t0)] = NoItem
    BY <1>1, <1>2, <1>3 DEF Vacant, Window
  <1>5. \A q \in Producers : pc'[q] = IF q = p THEN "fill" ELSE pc[q]
    BY <1>1 DEF TypeOK, Threads
  <1>6. \A c \in Consumers : pc'[c] = pc[c]
    BY <1>1 DEF TypeOK, Threads
  <1> HIDE DEF IInv
  <1>a. TypeOK /\ Window /\ Queued /\ Vacant /\ Past /\ ProducerOK /\ ConsumerOK
    BY DEF IInv
  <1>7. Window'
    BY <1>1, <1>3, <1>a DEF Window
  <1>8. Queued'
    <2> SUFFICES ASSUME NEW t \in Nat, deq_head <= t, t < t0 + 1
                 PROVE  \/ /\ seq[Slot(t)] = t
                           /\ \E q \in Producers : Filling(q)' /\ pos[q] = t
                        \/ seq[Slot(t)] = t + 1 /\ mem[Slot(t)] \in Items
      BY <1>1 DEF Queued
    <2>1. CASE t = t0
      BY <2>1, <1>1, <1>4, <1>5 DEF Filling
    <2>2. CASE t < t0
      BY <2>2, <1>1, <1>5, <1>a DEF Queued, Filling
    <2> QED
      BY <2>1, <2>2, <1>1
  <1>9. Vacant'
    BY <1>1, <1>6, <1>a DEF Vacant, Taking
  <1>10. Past'
    BY <1>1, <1>4, <1>a DEF Past
  <1>11. ProducerOK'
    <2>1. \A q \in Producers : Filling(q) => pos[q] # t0
      BY <1>1, <1>a DEF ProducerOK, TypeOK, Threads
    <2>2. \A q \in Producers : item[q] \in Items \union {NoItem} /\ pos[q] \in Nat
      BY <1>a DEF TypeOK, Threads
    <2> QED
      BY <1>1, <1>4, <1>5, <1>a, <2>1, <2>2 DEF ProducerOK, Filling, Window
  <1>12. ConsumerOK'
    <2>1. \A c \in Consumers : Taking(c) => enq_tail' - Capacity <= pos[c]
      <3> SUFFICES ASSUME NEW c \in Consumers, Taking(c), pos[c] < t0 + 1 - Capacity
                   PROVE  FALSE
        BY <1>1, <1>a DEF TypeOK, Threads
      <3>1. /\ pos[c] \in Nat /\ t0 - Capacity <= pos[c]
            /\ seq[Slot(pos[c])] = pos[c] + 1
        BY <1>a DEF ConsumerOK, TypeOK, Threads
      <3>2. pos[c] + Capacity = t0
        BY <3>1, <1>1
      <3>3. Slot(t0) = Slot(pos[c])
        BY <3>1, <3>2, SlotLap
      <3> QED
        BY <3>1, <3>2, <3>3, <1>4
    <2> QED
      BY <1>1, <1>6, <1>a, <2>1 DEF ConsumerOK, Taking
  <1> QED
    BY <1>7, <1>8, <1>9, <1>10, <1>11, <1>12

\* The placement new touches the producer's own cell only.
LEMMA FillStep ==
  ASSUME IInv, Capacity > 1, NEW p \in Producers, Fill(p)
  PROVE  Window' /\ Queued' /\ Vacant' /\ Past' /\ ProducerOK' /\ ConsumerOK'
  <1> USE MpmcAssumption, SlotType DEF Fill, Goto, IInv, TypeOK, Threads, Filling, Taking
  <1>1. Window'
    BY DEF Window, Queued, Vacant, ProducerOK, ConsumerOK
  <1>2. Queued'
    BY SlotApart, SlotLap DEF Queued, Vacant, Window, Past, ProducerOK, ConsumerOK
  <1>3. Vacant'
    BY SlotApart, SlotLap DEF Queued, Vacant, Window, Past, ProducerOK, ConsumerOK
  <1>4. Past'
    BY SlotApart, SlotLap DEF Queued, Vacant, Window, Past, ProducerOK, ConsumerOK
  <1>5. ProducerOK'
    BY SlotApart, SlotLap DEF Queued, Vacant, Window, Past, ProducerOK, ConsumerOK
  <1>6. ConsumerOK'
    BY SlotApart, SlotLap DEF Queued, Vacant, Window, Past, ProducerOK, ConsumerOK
  <1> QED
    BY <1>1, <1>2, <1>3, <1>4, <1>5, <1>6

\* Publishing turns the producer's cell into a full one.
LEMMA PublishStep ==
  ASSUME IInv, Capacity > 1, NEW p \in Producers, Publish(p)
  PROVE  Window' /\ Queued' /\ Vacant' /\ Past' /\ ProducerOK' /\ ConsumerOK'
  <1> USE MpmcAssumption, SlotType DEF Publish, Goto, IInv, TypeOK, Threads, Filling, Taking
  <1>1. Window'
    BY DEF Window, Queued, Vacant, ProducerOK, ConsumerOK
  <1>2. Queued'
    BY SlotApart, SlotLap DEF Queued, Vacant, Window, Past, ProducerOK, ConsumerOK
  <1>3. Vacant'
    BY SlotApart, SlotLap DEF Queued, Vacant, Window, Past, ProducerOK, ConsumerOK
  <1>4. Past'
    BY SlotApart, SlotLap DEF Queued, Vacant, Window, Past, ProducerOK, ConsumerOK
  <1>5. ProducerOK'
    BY SlotApart, SlotLap DEF Queued, Vacant, Window, Past, ProducerOK, ConsumerOK
  <1>6. ConsumerOK'
    BY SlotApart, SlotLap DEF Queued, Vacant, Window, Past, ProducerOK, ConsumerOK
  <1> QED
    BY <1>1, <1>2, <1>3, <1>4, <1>5, <1>6

\* A consumer's compare-and-swap succeeds only on a published ticket.
LEMMA DrawHeadStep ==
  ASSUME IInv, Capacity > 1, NEW c \in Consumers, DrawHead(c)
  PROVE  Window' /\ Queued' /\ Vacant' /\ Past' /\ ProducerOK' /\ ConsumerOK'
  <1> USE MpmcAssumption, SlotType DEF DrawHead, Goto, IInv, TypeOK, Threads, Filling, Taking
  <1>1. Window'
    BY DEF Window, Queued, Vacant, ProducerOK, ConsumerOK
  <1>2. Queued'
    BY SlotApart, SlotLap DEF Queued, Vacant, Window, Past, ProducerOK, ConsumerOK
  <1>3. Vacant'
    <2>1. deq_head = pos[c] /\ deq_head \in Nat /\ seq[Slot(deq_head)] >= deq_head + 1
      BY DEF ConsumerOK
    <2>2. deq_head < enq_tail
      BY <2>1 DEF Vacant, Window
    <2>3. seq[Slot(deq_head)] = deq_head + 1
      BY <2>1, <2>2 DEF Queued
    <2>4. Slot(deq_head + Capacity) = Slot(deq_head)
      BY <2>1, SlotLap
    <2>5. /\ deq_head' = deq_head + 1 /\ UNCHANGED <<enq_tail, seq, mem, pos>>
          /\ pc' = [pc EXCEPT ![c] = "take"] /\ pc[c] = "cas"
      BY <2>1
    <2> SUFFICES ASSUME NEW t \in Nat, enq_tail <= t, t < deq_head + 1 + Capacity
                 PROVE  \/ seq[Slot(t)] = t /\ mem[Slot(t)] = NoItem
                        \/ /\ seq[Slot(t)] = t - Capacity + 1
                           /\ \E d \in Consumers : Taking(d)' /\ pos[d] = t - Capacity
      BY <2>5 DEF Vacant
    <2>6. CASE t = deq_head + Capacity
      <3>1. seq[Slot(t)] = t - Capacity + 1
        BY <2>6, <2>3, <2>4, <2>1
      <3>2. Taking(c)' /\ pos[c] = t - Capacity
        BY <2>6, <2>5, <2>1
      <3> QED
        BY <3>1, <3>2
    <2>7. CASE t < deq_head + Capacity
      BY <2>7, <2>5 DEF Vacant
    <2> QED
      BY <2>6, <2>7, <2>1
  <1>4. Past'
    BY SlotApart, SlotLap DEF Queued, Vacant, Window, Past, ProducerOK, ConsumerOK
  <1>5. ProducerOK'
    BY SlotApart, SlotLap DEF Queued, Vacant, Window, Past, ProducerOK, ConsumerOK
  <1>6. ConsumerOK'
    <2>1. /\ deq_head = pos[c] /\ deq_head \in Nat /\ enq_tail \in Nat /\ Window
          /\ seq[Slot(deq_head)] >= deq_head + 1
      BY DEF ConsumerOK
    <2>2. deq_head < enq_tail
      BY <2>1 DEF Vacant, Window
    <2>3. seq[Slot(deq_head)] = deq_head + 1 /\ mem[Slot(deq_head)] \in Items
      BY <2>1, <2>2 DEF Queued
    <2>4. /\ deq_head' = deq_head + 1 /\ UNCHANGED <<enq_tail, seq, mem, pos>>
          /\ \A d \in Consumers : pc'[d] = IF d = c THEN "take" ELSE pc[d]
          /\ \A d \in Consumers : pos[d] \in Nat
      BY <2>1
    <2>5. ConsumerOK
      OBVIOUS
    <2> HIDE DEF IInv, TypeOK, DrawHead, Goto, Threads
    <2>6. \A d \in Consumers : Taking(d) => pos[d] # deq_head
      BY <2>1, <2>4, <2>5 DEF ConsumerOK
    <2> QED
      BY <2>1, <2>3, <2>4, <2>5, <2>6 DEF ConsumerOK, Window
  <1> QED
    BY <1>1, <1>2, <1>3, <1>4, <1>5, <1>6

\* The move out touches the consumer's own cell only.
LEMMA TakeStep ==
  ASSUME IInv, Capacity > 1, NEW c \in Consumers, Take(c)
  PROVE  Window' /\ Queued' /\ Vacant' /\ Past' /\ ProducerOK' /\ ConsumerOK'
  <1> USE MpmcAssumption, SlotType DEF Take, Goto, IInv, TypeOK, Threads, Filling, Taking
  <1>1. Window'
    BY DEF Window, Queued, Vacant, ProducerOK, ConsumerOK
  <1>2. Queued'
    BY SlotApart, SlotLap DEF Queued, Vacant, Window, Past, ProducerOK, ConsumerOK
  <1>3. Vacant'
    BY SlotApart, SlotLap DEF Queued, Vacant, Window, Past, ProducerOK, ConsumerOK
  <1>4. Past'
    BY SlotApart, SlotLap DEF Queued, Vacant, Window, Past, ProducerOK, ConsumerOK
  <1>5. ProducerOK'
    BY SlotApart, SlotLap DEF Queued, Vacant, Window, Past, ProducerOK, ConsumerOK
  <1>6. ConsumerOK'
    <2>1. \A d \in Consumers : Taking(d) /\ d # c => Slot(pos[d]) # Slot(pos[c])
      <3> SUFFICES ASSUME NEW d \in Consumers, Taking(d), d # c, Slot(pos[d]) = Slot(pos[c])
                   PROVE  FALSE
        OBVIOUS
      <3>1. /\ pos[d] \in Nat /\ pos[c] \in Nat /\ pos[d] # pos[c]
            /\ enq_tail - Capacity <= pos[d] /\ pos[d] < deq_head
            /\ enq_tail - Capacity <= pos[c] /\ pos[c] < deq_head
        BY DEF ConsumerOK
      <3>2. pos[d] < pos[c] => pos[c] >= pos[d] + Capacity
        BY <3>1, SlotApart
      <3>3. pos[c] < pos[d] => pos[d] >= pos[c] + Capacity
        BY <3>1, SlotApart
      <3> QED
        BY <3>1, <3>2, <3>3 DEF Window
    <2>2. \A d \in Consumers : d # c => pc'[d] = pc[d]
      OBVIOUS
    <2>3. \A d \in Consumers : Taking(d) /\ d # c => mem'[Slot(pos[d])] = mem[Slot(pos[d])]
      BY <2>1
    <2>4. mem'[Slot(pos[c])] = NoItem
      OBVIOUS
    <2>5. UNCHANGED <<enq_tail, deq_head, seq, pos>> /\ pc[c] = "take" /\ pc'[c] = "release"
      OBVIOUS
    <2> QED
      BY <2>2, <2>3, <2>4, <2>5 DEF ConsumerOK
  <1> QED
    BY <1>1, <1>2, <1>3, <1>4, <1>5, <1>6

\* Releasing turns the consumer's cell into the free cell of the next lap.
LEMMA ReleaseStep ==
  ASSUME IInv, Capacity > 1, NEW c \in Consumers, Release(c)
  PROVE  Window' /\ Queued' /\ Vacant' /\ Past' /\ ProducerOK' /\ ConsumerOK'
  <1> USE MpmcAssumption, SlotType DEF Release, Goto, IInv, TypeOK, Threads, Filling, Taking
  <1>1. Window'
    BY DEF Window, Queued, Vacant, ProducerOK, ConsumerOK
  <1>a. /\ pos[c] \in Nat /\ enq_tail - Capacity <= pos[c] /\ pos[c] < deq_head
        /\ mem[Slot(pos[c])] = NoItem /\ seq \in [Slots -> Nat] /\ Slot(pos[c]) \in Slots
        /\ deq_head <= enq_tail /\ enq_tail \in Nat /\ deq_head \in Nat
    BY DEF ConsumerOK, Window
  <1>b. /\ UNCHANGED <<enq_tail, deq_head, mem, pos>>
        /\ seq' = [seq EXCEPT ![Slot(pos[c])] = pos[c] + Capacity]
        /\ pc' = [pc EXCEPT ![c] = "idle"]
    OBVIOUS
  <1>c. \A p \in Producers : pc'[p] = pc[p]
    OBVIOUS
  <1>4. Past'
    BY SlotApart, SlotLap DEF Queued, Vacant, Window, Past, ProducerOK, ConsumerOK
  <1>5. ProducerOK'
    BY SlotApart, SlotLap DEF Queued, Vacant, Window, Past, ProducerOK, ConsumerOK
  <1>6. ConsumerOK'
    BY SlotApart, SlotLap DEF Queued, Vacant, Window, Past, ProducerOK, ConsumerOK
  <1>d. Queued /\ Vacant
    OBVIOUS
  <1> HIDE DEF IInv, TypeOK, Release, Goto, Threads
  <1>2. Queued'
    <2>1. \A t \in Nat : deq_head <= t /\ t < enq_tail => Slot(t) # Slot(pos[c])
      BY <1>a, SlotApart
    <2>2. \A t \in Nat : deq_head <= t /\ t < enq_tail => seq'[Slot(t)] = seq[Slot(t)]
      BY <2>1, <1>b
    <2> QED
      BY <2>2, <1>b, <1>c, <1>d DEF Queued
  <1>3. Vacant'
    <2> SUFFICES ASSUME NEW t \in Nat, enq_tail <= t, t < deq_head + Capacity
                 PROVE  \/ seq'[Slot(t)] = t /\ mem[Slot(t)] = NoItem
                        \/ /\ seq'[Slot(t)] = t - Capacity + 1
                           /\ \E d \in Consumers : Taking(d)' /\ pos[d] = t - Capacity
      BY <1>b DEF Vacant
    <2>1. CASE t = pos[c] + Capacity
      <3>1. Slot(t) = Slot(pos[c])
        BY <2>1, <1>a, SlotLap
      <3> QED
        BY <3>1, <2>1, <1>a, <1>b
    <2>2. CASE t # pos[c] + Capacity
      <3>1. Slot(t) # Slot(pos[c])
        <4> SUFFICES ASSUME Slot(t) = Slot(pos[c]) PROVE FALSE
          OBVIOUS
        <4>1. t >= pos[c] + Capacity
          BY <1>a, SlotApart
        <4>2. Slot(pos[c] + Capacity) = Slot(t) /\ pos[c] + Capacity \in Nat
          BY <1>a, SlotLap
        <4>3. pos[c] + Capacity < t
          BY <4>1, <2>2, <1>a
        <4>4. t >= (pos[c] + Capacity) + Capacity
          BY <4>2, <4>3, SlotApart
        <4> QED
          BY <4>4, <1>a
      <3>2. seq'[Slot(t)] = seq[Slot(t)]
        BY <3>1, <1>b
      <3>3. \A d \in Consumers : pos[d] = t - Capacity => pc'[d] = pc[d]
        BY <2>2, <1>b, <1>a
      <3> QED
        BY <3>2, <3>3, <1>a, <1>b, <1>d DEF Vacant
    <2> QED
      BY <2>1, <2>2
  <1> QED
    BY <1>1, <1>2, <1>3, <1>4, <1>5, <1>6

LEMMA Inductive ==
  ASSUME Capacity > 1, IInv, [Next]_vars
  PROVE  IInv'
  <1>0. TypeOK'
    BY TypeInvariant DEF IInv
  <1>1. ASSUME NEW p \in Producers, PushStart(p) \/ PushStep(p) PROVE IInv'
    <2>1. CASE \/ PushStart(p) \/ LoadTail(p) \/ PushFree(p) \/ PushFull(p)
               \/ PushRetry(p) \/ PushGiveUp(p) \/ MissTail(p)
      BY <2>1, <1>0, ProducerQuiet DEF IInv
    <2>2. CASE DrawTail(p)
      BY <2>2, <1>0, DrawTailStep DEF IInv
    <2>3. CASE Fill(p)
      BY <2>3, <1>0, FillStep DEF IInv
    <2>4. CASE Publish(p)
      BY <2>4, <1>0, PublishStep DEF IInv
    <2> QED
      BY <1>1, <2>1, <2>2, <2>3, <2>4 DEF PushStep
  <1>2. ASSUME NEW c \in Consumers, PopStart(c) \/ PopStep(c) PROVE IInv'
    <2>1. CASE \/ PopStart(c) \/ LoadHead(c) \/ PopReady(c) \/ PopEmpty(c)
               \/ PopRetry(c) \/ MissHead(c)
      BY <2>1, <1>0, ConsumerQuiet DEF IInv
    <2>2. CASE DrawHead(c)
      BY <2>2, <1>0, DrawHeadStep DEF IInv
    <2>3. CASE Take(c)
      BY <2>3, <1>0, TakeStep DEF IInv
    <2>4. CASE Release(c)
      BY <2>4, <1>0, ReleaseStep DEF IInv
    <2> QED
      BY <1>2, <2>1, <2>2, <2>3, <2>4 DEF PopStep
  <1>3. CASE UNCHANGED vars
    BY <1>3 DEF vars, IInv, TypeOK, Window, Queued, Vacant, Past, ProducerOK,
                ConsumerOK, Filling, Taking
  <1> QED
    BY <1>1, <1>2, <1>3 DEF Next

\* The invariant holds in every reachable state of a queue of two cells or more.
THEOREM Invariance == ASSUME Capacity > 1 PROVE Spec => []IInv
  <1>1. Init => IInv
    BY InitInvariant
  <1>2. IInv /\ [Next]_vars => IInv'
    BY Inductive
  <1> QED
    BY <1>1, <1>2, PTL DEF Spec

\* Every reachable state is well typed, for a queue of any size.
THEOREM TypeCorrect == Spec => []TypeOK
  <1>1. Init => TypeOK
    BY InitInvariant DEF IInv
  <1> QED
    BY <1>1, TypeInvariant, PTL DEF Spec

\* The cells of two owners differ: their tickets differ and lie within a lap.
LEMMA OwnersApart == IInv => SlotExclusive
  <1> SUFFICES ASSUME IInv, NEW t \in Threads, NEW u \in Threads, t # u,
                      Owns(t), Owns(u), Slot(pos[t]) = Slot(pos[u])
               PROVE  FALSE
    BY DEF SlotExclusive
  <1> USE MpmcAssumption
  <1>0. enq_tail \in Nat /\ deq_head \in Nat /\ Window
    BY DEF IInv, TypeOK
  <1>1. \A v \in Threads : Owns(v) =>
          pos[v] \in Nat /\ enq_tail - Capacity <= pos[v] /\ pos[v] < enq_tail
    BY <1>0 DEF IInv, TypeOK, Window, ProducerOK, ConsumerOK, Owns, Filling, Taking, Threads
  <1>2. pos[t] # pos[u]
    <2>1. CASE t \in Producers /\ u \in Producers
      BY <2>1 DEF IInv, ProducerOK, Owns, Filling
    <2>2. CASE t \in Consumers /\ u \in Consumers
      BY <2>2 DEF IInv, ConsumerOK, Owns, Taking
    <2>3. ASSUME NEW p \in Producers, NEW c \in Consumers, Owns(p), Owns(c)
          PROVE  pos[c] < deq_head /\ deq_head <= pos[p] /\ pos[c] \in Nat /\ pos[p] \in Nat
      BY <2>3 DEF IInv, TypeOK, Threads, ProducerOK, ConsumerOK, Owns, Filling, Taking
    <2> QED
      BY <2>1, <2>2, <2>3, <1>0 DEF Threads
  <1>3. pos[t] < pos[u] => pos[u] >= pos[t] + Capacity
    BY <1>1, SlotApart
  <1>4. pos[u] < pos[t] => pos[t] >= pos[u] + Capacity
    BY <1>1, SlotApart
  <1> QED
    BY <1>0, <1>1, <1>2, <1>3, <1>4

\* No two threads are ever inside one cell.
THEOREM Exclusive == ASSUME Capacity > 1 PROVE Spec => []SlotExclusive
  BY Invariance, OwnersApart, PTL

\* Division with remainder has one result.
LEMMA Remainder ==
  ASSUME NEW a \in Int, NEW r \in 0 .. Capacity - 1
  PROVE  (Capacity * a + r) % Capacity = r
  <1> DEFINE x == Capacity * a + r
             q == x \div Capacity
             m == x % Capacity
  <1>1. x \in Int /\ Capacity * a \in Int
    BY MpmcAssumption
  <1>2. x = Capacity * q + m /\ q \in Int /\ m \in 0 .. Capacity - 1
    BY <1>1, MpmcAssumption
  <1>3. Capacity * q \in Int /\ x = Capacity * a + r
    BY <1>2, MpmcAssumption
  <1> HIDE DEF x, q, m
  <1>4. q = a
    <2>1. CASE q < a
      BY <2>1, <1>1, <1>2, <1>3, Lap, MpmcAssumption
    <2>2. CASE a < q
      BY <2>2, <1>1, <1>2, <1>3, Lap, MpmcAssumption
    <2> QED
      BY <2>1, <2>2, <1>2
  <1>5. m = r
    BY <1>1, <1>2, <1>3, <1>4, MpmcAssumption
  <1> QED
    BY <1>5 DEF m, x

\* Every cell is that of a ticket of the lap that begins at deq_head.
LEMMA SlotCovered ==
  ASSUME NEW h \in Nat, NEW i \in Slots
  PROVE  \E t \in Nat, a \in Int : h <= t /\ t < h + Capacity /\ t = Capacity * a + i
  <1>1. PICK a \in Int : h = Capacity * a + (h % Capacity)
    BY Division
  <1>2. h % Capacity \in 0 .. Capacity - 1 /\ i \in 0 .. Capacity - 1 /\ Capacity * a \in Int
    BY MpmcAssumption DEF Slots
  <1>3. Capacity * (a + 1) = Capacity * a + Capacity /\ a + 1 \in Int
    BY MpmcAssumption
  <1>4. CASE h % Capacity <= i
    <2>1. LET t == Capacity * a + i IN t \in Nat /\ h <= t /\ t < h + Capacity
      BY <1>1, <1>2, <1>4, MpmcAssumption
    <2> QED
      BY <2>1
  <1>5. CASE i < h % Capacity
    <2>1. LET t == Capacity * (a + 1) + i IN t \in Nat /\ h <= t /\ t < h + Capacity
      BY <1>1, <1>2, <1>3, <1>5, MpmcAssumption
    <2> QED
      BY <2>1, <1>3
  <1> QED
    BY <1>2, <1>4, <1>5

\* When nobody is inside a cell, its number tells the destructor whether it
\* holds an object.
LEMMA DestructorExact ==
  ASSUME IInv, Capacity > 1, \A t \in Threads : ~Owns(t), NEW i \in Slots
  PROVE  HasActiveData(i) <=> mem[i] # NoItem
  <1>0. deq_head \in Nat /\ enq_tail \in Nat
    BY DEF IInv, TypeOK
  <1>1. PICK t \in Nat, a \in Int :
          deq_head <= t /\ t < deq_head + Capacity /\ t = Capacity * a + i
    BY SlotCovered, <1>0
  <1>2. i \in 0 .. Capacity - 1 /\ Capacity \in Int /\ Capacity * a \in Int
    BY MpmcAssumption DEF Slots
  <1>3. Slot(t) = i
    BY <1>1, <1>2, Remainder DEF Slot
  <1>4. /\ \A p \in Producers : ~Filling(p)
        /\ \A c \in Consumers : ~Taking(c)
    BY DEF Owns, Filling, Taking, Threads
  <1>5. CASE t < enq_tail
    <2>1. seq[i] = t + 1 /\ mem[i] \in Items
      BY <1>1, <1>3, <1>4, <1>5 DEF IInv, Queued
    <2>2. seq[i] - i = Capacity * a + 1
      BY <1>1, <1>2, <2>1
    <2>3. (Capacity * a + 1) % Capacity = 1
      <3>1. 1 \in 0 .. Capacity - 1
        BY <1>2
      <3>2. QED
        BY <3>1, Remainder
    <2> QED
      BY <2>1, <2>2, <2>3, MpmcAssumption DEF HasActiveData
  <1>6. CASE enq_tail <= t
    <2>1. seq[i] = t /\ mem[i] = NoItem
      BY <1>1, <1>3, <1>4, <1>6 DEF IInv, Vacant
    <2>2. seq[i] - i = Capacity * a + 0
      BY <1>1, <1>2, <2>1
    <2>3. (Capacity * a + 0) % Capacity = 0
      BY <1>2, Remainder
    <2> QED
      BY <2>1, <2>2, <2>3 DEF HasActiveData
  <1> QED
    BY <1>0, <1>1, <1>5, <1>6

\* Nothing is constructed over a live object nor moved from a dead one, and the
\* destructor finds the live ones.
THEOREM Live == ASSUME Capacity > 1 PROVE Spec => []LiveObjects
  <1>1. ASSUME IInv PROVE LiveObjects
    <2>1. /\ \A p \in Producers : pc[p] = "fill" => mem[Slot(pos[p])] = NoItem
          /\ \A c \in Consumers : pc[c] = "take" => mem[Slot(pos[c])] # NoItem
      BY <1>1, MpmcAssumption DEF IInv, ProducerOK, ConsumerOK, Filling, Taking
    <2> QED
      BY <1>1, <2>1, DestructorExact DEF LiveObjects
  <1>2. IInv => LiveObjects
    BY <1>1
  <1> QED
    BY <1>2, Invariance, PTL

\* "Full" is answered only when the next ticket's cell is still occupied.
LEMMA FullTrue ==
  ASSUME Capacity > 1, IInv, NEW p \in Producers, PushFull(p)
  PROVE  pos[p] = enq_tail /\ FullNow
  <1>1. /\ pos[p] \in Nat /\ enq_tail \in Nat /\ deq_head \in Nat /\ pos[p] <= enq_tail
        /\ seq[Slot(pos[p])] < pos[p] /\ seq[Slot(pos[p])] \in Nat
    BY SlotType DEF IInv, TypeOK, Threads, ProducerOK, PushFull
  <1>2. pos[p] = enq_tail
    BY <1>1 DEF IInv, Past
  <1>3. CASE enq_tail < deq_head + Capacity
    <2>1. PICK c \in Consumers : Taking(c) /\ pos[c] = enq_tail - Capacity
      BY <1>1, <1>2, <1>3, MpmcAssumption DEF IInv, Vacant
    <2> QED
      BY <2>1, <1>2 DEF FullNow, Owns, Taking
  <1>4. CASE enq_tail >= deq_head + Capacity
    <2>1. enq_tail - deq_head = Capacity
      BY <1>1, <1>4, MpmcAssumption DEF IInv, Window
    <2> QED
      BY <1>2, <2>1 DEF FullNow
  <1> QED
    BY <1>1, <1>3, <1>4, MpmcAssumption

\* "Empty" is answered only when no published item is next.
LEMMA EmptyTrue ==
  ASSUME Capacity > 1, IInv, NEW c \in Consumers, PopEmpty(c)
  PROVE  pos[c] = deq_head /\ EmptyNow
  <1>1. /\ pos[c] \in Nat /\ enq_tail \in Nat /\ deq_head \in Nat /\ pos[c] <= deq_head
        /\ seq[Slot(pos[c])] <= pos[c] /\ seq[Slot(pos[c])] \in Nat
    BY SlotType DEF IInv, TypeOK, Threads, ConsumerOK, PopEmpty
  <1>2. pos[c] = deq_head
    BY <1>1 DEF IInv, Past
  <1>3. CASE deq_head < enq_tail
    <2>1. PICK p \in Producers : Filling(p) /\ pos[p] = deq_head
      BY <1>1, <1>2, <1>3 DEF IInv, Queued
    <2> QED
      BY <2>1, <1>2 DEF EmptyNow, Owns, Filling
  <1>4. CASE deq_head = enq_tail
    BY <1>2, <1>4 DEF EmptyNow
  <1> QED
    BY <1>1, <1>3, <1>4 DEF IInv, Window

\* No push is refused for a queue that was full, and no pop for one that was
\* empty, only when the counter was read.
THEOREM Refusals == ASSUME Capacity > 1 PROVE Spec => RefusalsTrue
  <1>1. IInv => [/\ \A p \in Producers : PushFull(p) => pos[p] = enq_tail /\ FullNow
                 /\ \A c \in Consumers : PopEmpty(c) => pos[c] = deq_head /\ EmptyNow]_vars
    BY FullTrue, EmptyTrue
  <1> QED
    BY <1>1, Invariance, PTL DEF RefusalsTrue

-----------------------------------------------------------------------------
(***************************************************************************)
(* The ring implements BoundedFifo.  Two steps count: a producer's         *)
(* successful compare-and-swap appends its item, a consumer's successful   *)
(* one hands the oldest item over.  Every other step moves an item from    *)
(* one place TicketItem and GotView look at to another, and so changes     *)
(* neither.                                                                *)
(***************************************************************************)

\* Ticket t is in the hands of a producer.
Held(t) == \E p \in Producers : Filling(p) /\ pos[p] = t

\* The items of all tickets.
ItemOf == [t \in Nat |-> TicketItem(t)]

\* Where the item of a ticket is found.
ItemPlaces ==
  \A t \in Nat :
    /\ \A p \in Producers : Filling(p) /\ pos[p] = t => ItemOf[t] = item[p]
    /\ ~Held(t) => ItemOf[t] = mem[Slot(t)]
    /\ deq_head <= t /\ t < enq_tail => ItemOf[t] \in Items

LEMMA ItemFound == IInv => ItemPlaces
  <1> SUFFICES ASSUME IInv, NEW t \in Nat
               PROVE  /\ \A p \in Producers : Filling(p) /\ pos[p] = t => TicketItem(t) = item[p]
                      /\ ~Held(t) => TicketItem(t) = mem[Slot(t)]
                      /\ deq_head <= t /\ t < enq_tail => TicketItem(t) \in Items
    BY DEF ItemPlaces, ItemOf
  <1>1. ASSUME NEW p \in Producers, Filling(p), pos[p] = t
        PROVE  TicketItem(t) = item[p]
    <2> DEFINE h == CHOOSE q \in Producers : pc[q] \in {"fill", "publish"} /\ pos[q] = t
    <2>1. h \in Producers /\ Filling(h) /\ pos[h] = t
      BY <1>1 DEF Filling
    <2>2. h = p
      BY <1>1, <2>1 DEF IInv, ProducerOK
    <2>3. TicketItem(t) = item[h]
      BY <1>1 DEF TicketItem, Filling
    <2> QED
      BY <2>2, <2>3
  <1>2. ~Held(t) => TicketItem(t) = mem[Slot(t)]
    BY DEF Held, TicketItem, Filling
  <1>3. ASSUME deq_head <= t, t < enq_tail PROVE TicketItem(t) \in Items
    <2>1. CASE Held(t)
      BY <1>1, <2>1 DEF Held, IInv, ProducerOK, Filling
    <2>2. CASE ~Held(t)
      BY <1>2, <1>3, <2>2 DEF Held, IInv, Queued
    <2> QED
      BY <2>1, <2>2
  <1> QED
    BY <1>1, <1>2, <1>3

\* The queue's contents are the items of the tickets inside, in order.
ViewOK == /\ enq_tail \in Nat /\ deq_head \in Nat /\ deq_head <= enq_tail
          /\ enq_tail <= deq_head + Capacity
          /\ QueueView \in Seq(Items)
          /\ Len(QueueView) = enq_tail - deq_head
          /\ \A i \in 1 .. enq_tail - deq_head : QueueView[i] = ItemOf[deq_head + i - 1]

LEMMA ViewTypes == IInv => ViewOK
  <1> SUFFICES ASSUME IInv PROVE ViewOK
    OBVIOUS
  <1> DEFINE n == enq_tail - deq_head
  <1>1. /\ n \in Nat /\ deq_head \in Nat /\ enq_tail \in Nat
        /\ deq_head <= enq_tail /\ enq_tail <= deq_head + Capacity
    BY DEF IInv, TypeOK, Window
  <1>2. \A i \in 1 .. n : deq_head + i - 1 \in Nat
    BY <1>1
  <1>3. \A i \in 1 .. n : QueueView[i] = ItemOf[deq_head + i - 1]
    BY <1>2 DEF QueueView, ItemOf
  <1>4. \A i \in 1 .. n : ItemOf[deq_head + i - 1] \in Items
    BY <1>1, <1>2, ItemFound DEF ItemPlaces
  <1>5. QueueView \in [1 .. n -> Items]
    <2>1. QueueView = [i \in 1 .. n |-> QueueView[i]]
      BY DEF QueueView
    <2> QED
      BY <1>3, <1>4, <2>1
  <1> HIDE DEF n
  <1>6. QueueView \in Seq(Items) /\ Len(QueueView) = n
    BY <1>1, <1>5
  <1> QED
    BY <1>1, <1>3, <1>6 DEF n, ViewOK

\* Both facts hold again after a step.
LEMMA NextFacts ==
  Capacity > 1 /\ IInv /\ [Next]_vars => /\ ItemPlaces /\ ViewOK
                                         /\ ItemPlaces' /\ ViewOK' /\ IInv'
  <1>1. Capacity > 1 /\ IInv /\ [Next]_vars => IInv'
    BY Inductive
  <1>2. IInv' => ItemPlaces' /\ ViewOK'
    BY ItemFound, ViewTypes, PTL
  <1> QED
    BY <1>1, <1>2, ItemFound, ViewTypes

\* Two sequences of the same tickets' items are one.
LEMMA SameView ==
  ASSUME ViewOK, ViewOK', UNCHANGED <<enq_tail, deq_head>>,
         \A t \in Nat : deq_head <= t /\ t < enq_tail => ItemOf'[t] = ItemOf[t]
  PROVE  QueueView' = QueueView
  <1>1. \A i \in 1 .. enq_tail - deq_head : QueueView'[i] = QueueView[i]
    <2> SUFFICES ASSUME NEW i \in 1 .. enq_tail - deq_head
                 PROVE  QueueView'[i] = QueueView[i]
      OBVIOUS
    <2>1. /\ deq_head + i - 1 \in Nat
          /\ deq_head <= deq_head + i - 1 /\ deq_head + i - 1 < enq_tail
      BY DEF ViewOK
    <2>2. QueueView[i] = ItemOf[deq_head + i - 1] /\ QueueView'[i] = ItemOf'[deq_head + i - 1]
      BY DEF ViewOK
    <2> QED
      BY <2>1, <2>2
  <1>2. QueueView = [i \in 1 .. enq_tail - deq_head |-> QueueView[i]]
    BY DEF QueueView
  <1>3. QueueView' = [i \in 1 .. enq_tail - deq_head |-> QueueView'[i]]
    BY DEF QueueView
  <1> QED
    BY <1>1, <1>2, <1>3
\* A ticket keeps its item while its producer, or its cell, keeps it.
LEMMA KeepItem ==
  ASSUME ItemPlaces, ItemPlaces', NEW t \in Nat,
         \A q \in Producers :
           (Filling(q) /\ pos[q] = t) <=> (Filling(q)' /\ pos'[q] = t),
         \A q \in Producers : Filling(q) /\ pos[q] = t => item'[q] = item[q],
         ~Held(t) => mem'[Slot(t)] = mem[Slot(t)]
  PROVE  ItemOf'[t] = ItemOf[t]
  <1>1. CASE Held(t)
    <2>1. PICK q \in Producers : Filling(q) /\ pos[q] = t
      BY <1>1 DEF Held
    <2> QED
      BY <2>1 DEF ItemPlaces
  <1>2. CASE ~Held(t)
    <2>1. ~(\E q \in Producers : Filling(q)' /\ pos'[q] = t)
      BY <1>2 DEF Held
    <2>2. ItemOf'[t] = mem'[Slot(t)]
      BY <2>1 DEF ItemPlaces, Held
    <2> QED
      BY <1>2, <2>2 DEF ItemPlaces
  <1> QED
    BY <1>1, <1>2

\* A producer's successful compare-and-swap is Enqueue.
LEMMA EnqueueStep ==
  ASSUME Capacity > 1, IInv, NEW p \in Producers, DrawTail(p)
  PROVE  item[p] \in Items /\ Fifo!Enqueue(item[p])
  <1> DEFINE n == enq_tail - deq_head
  <1>1. ItemPlaces /\ ViewOK /\ ItemPlaces' /\ ViewOK'
    BY NextFacts DEF Next, PushStep
  <1>2. /\ enq_tail' = enq_tail + 1 /\ pos[p] = enq_tail /\ pc[p] = "cas"
        /\ UNCHANGED <<deq_head, mem, pos, item, out>> /\ pc' = [pc EXCEPT ![p] = "fill"]
    BY DEF DrawTail, Goto
  <1>3. \A q \in Threads : pc'[q] = IF q = p THEN "fill" ELSE pc[q]
    BY <1>2 DEF IInv, TypeOK
  <1>4. item[p] \in Items
    BY <1>2 DEF IInv, ProducerOK
  <1>5. n \in Nat /\ n < Capacity /\ Len(QueueView) = n /\ Len(QueueView') = n + 1
    BY <1>1, <1>2, MpmcAssumption DEF ViewOK
  <1>6. ASSUME NEW i \in 1 .. n PROVE QueueView'[i] = QueueView[i]
    <2> DEFINE t == deq_head + i - 1
    <2>1. t \in Nat /\ t < enq_tail
      BY <1>1 DEF ViewOK
    <2>2. QueueView[i] = ItemOf[t] /\ QueueView'[i] = ItemOf'[t]
      BY <1>1, <1>2 DEF ViewOK
    <2> HIDE DEF t
    <2>3. ItemOf'[t] = ItemOf[t]
      BY <1>1, <1>2, <1>3, <2>1, KeepItem DEF Filling, Threads
    <2> QED
      BY <2>2, <2>3
  <1>7. QueueView'[n + 1] = item[p]
    <2>1. QueueView'[n + 1] = ItemOf'[enq_tail]
      BY <1>1, <1>2 DEF ViewOK
    <2>2. Filling(p)' /\ pos'[p] = enq_tail
      BY <1>2, <1>3 DEF Filling, Threads
    <2>3. ItemOf'[enq_tail] = item'[p]
      BY <1>1, <2>2 DEF ItemPlaces, ViewOK
    <2> QED
      BY <1>2, <2>1, <2>3
  <1>8. QueueView \in Seq(Items) /\ QueueView' \in Seq(Items)
    BY <1>1 DEF ViewOK
  <1> HIDE DEF n
  <1>9. QueueView' = Append(QueueView, item[p])
    <2>1. Append(QueueView, item[p]) \in Seq(Items)
      BY <1>4, <1>8
    <2>2. Len(Append(QueueView, item[p])) = n + 1
      BY <1>4, <1>5, <1>8
    <2>3. \A i \in 1 .. n + 1 : QueueView'[i] = Append(QueueView, item[p])[i]
      BY <1>4, <1>5, <1>6, <1>7, <1>8
    <2> QED
      BY <1>5, <1>8, <2>1, <2>2, <2>3
  <1>10. GotView' = GotView
    BY <1>2, <1>3, MpmcAssumption DEF GotView, Threads
  <1> QED
    BY <1>4, <1>5, <1>9, <1>10 DEF Fifo!Enqueue

\* A consumer's successful compare-and-swap is Dequeue.
LEMMA DequeueStep ==
  ASSUME Capacity > 1, IInv, NEW c \in Consumers, DrawHead(c)
  PROVE  Fifo!Dequeue(c)
  <1> DEFINE n == enq_tail - deq_head
  <1>1. ItemPlaces /\ ViewOK /\ ItemPlaces' /\ ViewOK' /\ IInv'
    BY NextFacts DEF Next, PopStep
  <1>2. /\ deq_head' = deq_head + 1 /\ pos[c] = deq_head /\ pc[c] = "cas"
        /\ UNCHANGED <<enq_tail, seq, mem, pos, item, out>> /\ pc' = [pc EXCEPT ![c] = "take"]
    BY DEF DrawHead, Goto
  <1>3. \A q \in Threads : pc'[q] = IF q = c THEN "take" ELSE pc[q]
    BY <1>2 DEF IInv, TypeOK
  <1>4. n \in Nat /\ n > 0 /\ Len(QueueView) = n /\ Len(QueueView') = n - 1
    BY <1>1, <1>2 DEF ViewOK
  <1>5. QueueView \in Seq(Items) /\ QueueView' \in Seq(Items)
    BY <1>1 DEF ViewOK
  <1>6. ASSUME NEW i \in 1 .. n - 1 PROVE QueueView'[i] = QueueView[i + 1]
    <2> DEFINE t == deq_head + i
    <2>1. t \in Nat /\ t < enq_tail
      BY <1>1 DEF ViewOK
    <2>2. QueueView[i + 1] = ItemOf[t] /\ QueueView'[i] = ItemOf'[t]
      BY <1>1, <1>2 DEF ViewOK
    <2> HIDE DEF t
    <2>3. ItemOf'[t] = ItemOf[t]
      BY <1>1, <1>2, <1>3, <2>1, MpmcAssumption, KeepItem DEF Filling, Threads
    <2> QED
      BY <2>2, <2>3
  <1>7. Head(QueueView) = mem[Slot(deq_head)]
    <2>1. seq[Slot(deq_head)] = deq_head + 1
      BY <1>1, <1>2, <1>3 DEF IInv, ConsumerOK, Taking, Threads
    <2>2. deq_head \in Nat
      BY <1>1 DEF ViewOK
    <2>3. ~Held(deq_head)
      BY <2>1, <2>2 DEF Held, IInv, ProducerOK
    <2>4. ItemOf[deq_head] = mem[Slot(deq_head)]
      BY <1>1, <2>2, <2>3 DEF ItemPlaces
    <2>5. QueueView[1] = ItemOf[deq_head + 1 - 1] /\ deq_head + 1 - 1 = deq_head
      <3>1. 1 \in 1 .. enq_tail - deq_head
        BY <1>4
      <3> QED
        BY <1>1, <3>1, <2>2 DEF ViewOK
    <2> QED
      BY <1>4, <1>5, <2>4, <2>5
  <1> HIDE DEF n
  <1>8. QueueView # <<>>
    BY <1>4, <1>5
  <1>9. QueueView' = Tail(QueueView)
    <2>1. Tail(QueueView) \in Seq(Items) /\ Len(Tail(QueueView)) = n - 1
      BY <1>4, <1>5, <1>8
    <2>2. \A i \in 1 .. n - 1 : Tail(QueueView)[i] = QueueView[i + 1]
      BY <1>4, <1>5, <1>8
    <2> QED
      BY <1>4, <1>5, <1>6, <2>1, <2>2
  <1>10. GotView' = [GotView EXCEPT ![c] = Head(QueueView)]
    BY <1>2, <1>3, <1>7, MpmcAssumption DEF GotView, Threads
  <1> QED
    BY <1>8, <1>9, <1>10 DEF Fifo!Dequeue
-----------------------------------------------------------------------------
(* The steps the atomic queue does not see                                 *)

\* A step outside every cell.
LEMMA QuietStutter ==
  ASSUME Capacity > 1, IInv, [Next]_vars, UNCHANGED <<shared, out>>,
         \A p \in Producers : /\ Filling(p) <=> Filling(p)'
                              /\ Filling(p) => pos'[p] = pos[p] /\ item'[p] = item[p],
         \A c \in Consumers : /\ (pc[c] = "take") <=> (pc'[c] = "take")
                              /\ pc[c] = "take" => pos'[c] = pos[c]
  PROVE  UNCHANGED <<QueueView, GotView>>
  <1>1. ItemPlaces /\ ViewOK /\ ItemPlaces' /\ ViewOK'
    BY NextFacts
  <1>2. UNCHANGED <<enq_tail, deq_head, mem, out>>
    BY DEF shared
  <1>3. \A t \in Nat : ItemOf'[t] = ItemOf[t]
    <2> SUFFICES ASSUME NEW t \in Nat PROVE ItemOf'[t] = ItemOf[t]
      OBVIOUS
    <2>1. \A q \in Producers : (Filling(q) /\ pos[q] = t) <=> (Filling(q)' /\ pos'[q] = t)
      OBVIOUS
    <2> QED
      BY <1>1, <1>2, <2>1, KeepItem
  <1>4. QueueView' = QueueView
    BY <1>1, <1>2, <1>3, SameView
  <1>5. GotView' = GotView
    BY <1>2 DEF GotView
  <1> QED
    BY <1>4, <1>5

LEMMA ProducerStutter ==
  ASSUME Capacity > 1, IInv, NEW p \in Producers,
         \/ PushStart(p) \/ LoadTail(p) \/ PushFree(p) \/ PushFull(p)
         \/ PushRetry(p) \/ PushGiveUp(p) \/ MissTail(p)
  PROVE  UNCHANGED <<QueueView, GotView>>
  <1>1. [Next]_vars
    BY DEF Next, PushStep
  <1>2. UNCHANGED <<shared, out>>
    BY DEF PushStart, LoadTail, PushFree, PushFull, PushRetry, PushGiveUp, MissTail, shared
  <1>3. \A q \in Producers : /\ Filling(q) <=> Filling(q)'
                             /\ Filling(q) => pos'[q] = pos[q] /\ item'[q] = item[q]
    BY DEF PushStart, LoadTail, PushFree, PushFull, PushRetry, PushGiveUp, MissTail, Goto, Filling, IInv, TypeOK, Threads
  <1>4. \A c \in Consumers : pc'[c] = pc[c] /\ pos'[c] = pos[c]
    BY MpmcAssumption DEF PushStart, LoadTail, PushFree, PushFull, PushRetry, PushGiveUp, MissTail, Goto, IInv, TypeOK, Threads
  <1> QED
    BY <1>1, <1>2, <1>3, <1>4, QuietStutter

LEMMA ConsumerStutter ==
  ASSUME Capacity > 1, IInv, NEW c \in Consumers,
         \/ PopStart(c) \/ LoadHead(c) \/ PopReady(c) \/ PopEmpty(c)
         \/ PopRetry(c) \/ MissHead(c)
  PROVE  UNCHANGED <<QueueView, GotView>>
  <1>1. [Next]_vars
    BY DEF Next, PopStep
  <1>2. UNCHANGED <<shared, out>> /\ UNCHANGED item
    BY DEF PopStart, LoadHead, PopReady, PopEmpty, PopRetry, MissHead, shared
  <1>3. \A p \in Producers : pc'[p] = pc[p] /\ pos'[p] = pos[p]
    BY MpmcAssumption DEF PopStart, LoadHead, PopReady, PopEmpty, PopRetry, MissHead, Goto, IInv, TypeOK, Threads
  <1>4. \A d \in Consumers : /\ (pc[d] = "take") <=> (pc'[d] = "take")
                             /\ pc[d] = "take" => pos'[d] = pos[d]
    BY DEF PopStart, LoadHead, PopReady, PopEmpty, PopRetry, MissHead, Goto, IInv, TypeOK, Threads
  <1> QED
    BY <1>1, <1>2, <1>3, <1>4, QuietStutter DEF Filling

\* Constructing the item moves it from the producer's hands to its own cell.
LEMMA FillStutter ==
  ASSUME Capacity > 1, IInv, NEW p \in Producers, Fill(p)
  PROVE  UNCHANGED <<QueueView, GotView>>
  <1>1. ItemPlaces /\ ViewOK /\ ItemPlaces' /\ ViewOK'
    BY NextFacts DEF Next, PushStep
  <1>2. /\ pc[p] = "fill" /\ UNCHANGED <<enq_tail, deq_head, seq, pos, item, out>>
        /\ pc' = [pc EXCEPT ![p] = "publish"]
        /\ mem' = [mem EXCEPT ![Slot(pos[p])] = item[p]]
    BY DEF Fill, Goto
  <1>3. \A q \in Threads : pc'[q] = IF q = p THEN "publish" ELSE pc[q]
    BY <1>2 DEF IInv, TypeOK
  <1>4. /\ pos[p] \in Nat /\ deq_head <= pos[p] /\ pos[p] < enq_tail
        /\ enq_tail \in Nat /\ deq_head \in Nat /\ enq_tail <= deq_head + Capacity
    BY <1>1, <1>2 DEF IInv, ProducerOK, TypeOK, Threads, Filling, ViewOK
  <1>5. ASSUME NEW t \in Nat, deq_head <= t, t < enq_tail PROVE ItemOf'[t] = ItemOf[t]
    <2>1. \A q \in Producers : (Filling(q) /\ pos[q] = t) <=> (Filling(q)' /\ pos'[q] = t)
      BY <1>2, <1>3 DEF Filling, Threads
    <2>2. ASSUME ~Held(t) PROVE mem'[Slot(t)] = mem[Slot(t)]
      <3>1. t # pos[p]
        BY <1>2, <2>2 DEF Held, Filling
      <3>2. t < pos[p] => Slot(t) # Slot(pos[p])
        BY <1>4, <1>5, SlotApart, MpmcAssumption
      <3>3. pos[p] < t => Slot(t) # Slot(pos[p])
        BY <1>4, <1>5, SlotApart, MpmcAssumption
      <3> QED
        BY <1>2, <1>4, <3>1, <3>2, <3>3
    <2> QED
      BY <1>1, <1>2, <2>1, <2>2, KeepItem
  <1>6. QueueView' = QueueView
    BY <1>1, <1>2, <1>5, SameView
  <1>7. GotView' = GotView
    <2>1. ASSUME NEW c \in Consumers, pc[c] = "take"
          PROVE  mem'[Slot(pos[c])] = mem[Slot(pos[c])]
      BY <1>2, <2>1, OwnersApart, MpmcAssumption DEF SlotExclusive, Owns, Threads
    <2>2. \A c \in Consumers : pc'[c] = pc[c]
      BY <1>3, MpmcAssumption DEF Threads
    <2> QED
      BY <1>2, <2>1, <2>2 DEF GotView
  <1> QED
    BY <1>6, <1>7

\* Publishing hands the item's place over from the producer to the cell.
LEMMA PublishStutter ==
  ASSUME Capacity > 1, IInv, NEW p \in Producers, Publish(p)
  PROVE  UNCHANGED <<QueueView, GotView>>
  <1>1. ItemPlaces /\ ViewOK /\ ItemPlaces' /\ ViewOK'
    BY NextFacts DEF Next, PushStep
  <1>2. /\ pc[p] = "publish" /\ UNCHANGED <<enq_tail, deq_head, mem, pos, item, out>>
        /\ pc' = [pc EXCEPT ![p] = "idle"]
    BY DEF Publish, Goto
  <1>3. \A q \in Threads : pc'[q] = IF q = p THEN "idle" ELSE pc[q]
    BY <1>2 DEF IInv, TypeOK
  <1>4. ASSUME NEW t \in Nat PROVE ItemOf'[t] = ItemOf[t]
    <2>1. CASE t = pos[p]
      <3>1. ItemOf[t] = item[p] /\ mem[Slot(t)] = item[p]
        BY <1>1, <1>2, <2>1 DEF ItemPlaces, Filling, IInv, ProducerOK
      <3>2. ~(\E q \in Producers : Filling(q)' /\ pos'[q] = t)
        BY <1>2, <1>3, <2>1 DEF Filling, Threads, IInv, ProducerOK
      <3>3. ItemOf'[t] = mem'[Slot(t)]
        BY <1>1, <3>2 DEF ItemPlaces, Held
      <3> QED
        BY <1>2, <3>1, <3>3
    <2>2. CASE t # pos[p]
      <3>1. \A q \in Producers : (Filling(q) /\ pos[q] = t) <=> (Filling(q)' /\ pos'[q] = t)
        BY <1>2, <1>3, <2>2 DEF Filling, Threads
      <3> QED
        BY <1>1, <1>2, <3>1, KeepItem
    <2> QED
      BY <2>1, <2>2
  <1>5. QueueView' = QueueView
    BY <1>1, <1>2, <1>4, SameView
  <1>6. GotView' = GotView
    BY <1>2, <1>3, MpmcAssumption DEF GotView, Threads
  <1> QED
    BY <1>5, <1>6

\* Moving the item out takes it from the consumer's cell to its out parameter.
LEMMA TakeStutter ==
  ASSUME Capacity > 1, IInv, NEW c \in Consumers, Take(c)
  PROVE  UNCHANGED <<QueueView, GotView>>
  <1>1. ItemPlaces /\ ViewOK /\ ItemPlaces' /\ ViewOK'
    BY NextFacts DEF Next, PopStep
  <1>2. /\ pc[c] = "take" /\ UNCHANGED <<enq_tail, deq_head, pos, item>>
        /\ pc' = [pc EXCEPT ![c] = "release"]
        /\ mem' = [mem EXCEPT ![Slot(pos[c])] = NoItem]
        /\ out' = [out EXCEPT ![c] = mem[Slot(pos[c])]]
    BY DEF Take, Goto
  <1>3. \A q \in Threads : pc'[q] = IF q = c THEN "release" ELSE pc[q]
    BY <1>2 DEF IInv, TypeOK
  <1>4. /\ pos[c] \in Nat /\ enq_tail - Capacity <= pos[c] /\ pos[c] < deq_head
        /\ enq_tail \in Nat /\ deq_head \in Nat
    BY <1>1, <1>2 DEF IInv, ConsumerOK, TypeOK, Threads, Taking, ViewOK
  <1>5. ASSUME NEW t \in Nat, deq_head <= t, t < enq_tail PROVE ItemOf'[t] = ItemOf[t]
    <2>1. \A q \in Producers : (Filling(q) /\ pos[q] = t) <=> (Filling(q)' /\ pos'[q] = t)
      BY <1>2, <1>3, MpmcAssumption DEF Filling, Threads
    <2>2. Slot(t) # Slot(pos[c])
      BY <1>4, <1>5, SlotApart, MpmcAssumption
    <2>3. mem'[Slot(t)] = mem[Slot(t)]
      BY <1>2, <2>2
    <2> QED
      BY <1>1, <1>2, <2>1, <2>3, KeepItem
  <1>6. QueueView' = QueueView
    BY <1>1, <1>2, <1>5, SameView
  <1>7. GotView' = GotView
    <2>1. ASSUME NEW d \in Consumers, pc[d] = "take", d # c
          PROVE  mem'[Slot(pos[d])] = mem[Slot(pos[d])]
      BY <1>2, <2>1, OwnersApart DEF SlotExclusive, Owns, Threads
    <2>2. \A d \in Consumers : pc'[d] = IF d = c THEN "release" ELSE pc[d]
      BY <1>3 DEF Threads
    <2>3. out \in [Consumers -> Items \union {NoItem}]
      BY DEF IInv, TypeOK
    <2> QED
      BY <1>2, <2>1, <2>2, <2>3 DEF GotView
  <1> QED
    BY <1>6, <1>7

\* Releasing changes a number only.
LEMMA ReleaseStutter ==
  ASSUME Capacity > 1, IInv, NEW c \in Consumers, Release(c)
  PROVE  UNCHANGED <<QueueView, GotView>>
  <1>1. ItemPlaces /\ ViewOK /\ ItemPlaces' /\ ViewOK'
    BY NextFacts DEF Next, PopStep
  <1>2. /\ pc[c] = "release" /\ UNCHANGED <<enq_tail, deq_head, mem, pos, item, out>>
        /\ pc' = [pc EXCEPT ![c] = "idle"]
    BY DEF Release, Goto
  <1>3. \A q \in Threads : pc'[q] = IF q = c THEN "idle" ELSE pc[q]
    BY <1>2 DEF IInv, TypeOK
  <1>4. ASSUME NEW t \in Nat PROVE ItemOf'[t] = ItemOf[t]
    <2>1. \A q \in Producers : (Filling(q) /\ pos[q] = t) <=> (Filling(q)' /\ pos'[q] = t)
      BY <1>2, <1>3, MpmcAssumption DEF Filling, Threads
    <2> QED
      BY <1>1, <1>2, <2>1, KeepItem
  <1>5. QueueView' = QueueView
    BY <1>1, <1>2, <1>4, SameView
  <1>6. GotView' = GotView
    BY <1>2, <1>3 DEF GotView, Threads
  <1> QED
    BY <1>5, <1>6

-----------------------------------------------------------------------------
LEMMA InitImplements == Init => Fifo!Init
  <1> SUFFICES ASSUME Init PROVE Fifo!Init
    OBVIOUS
  <1>1. QueueView = <<>>
    BY DEF Init, QueueView
  <1>2. GotView = [c \in Consumers |-> NoItem]
    BY DEF Init, GotView, Threads
  <1> QED
    BY <1>1, <1>2 DEF Fifo!Init

LEMMA StepImplements ==
  ASSUME Capacity > 1, IInv, [Next]_vars
  PROVE  [Fifo!Next]_<<QueueView, GotView>>
  <1>1. ASSUME NEW p \in Producers, PushStart(p) \/ PushStep(p)
        PROVE  [Fifo!Next]_<<QueueView, GotView>>
    <2>1. CASE DrawTail(p)
      BY <2>1, EnqueueStep DEF Fifo!Next
    <2>2. CASE Fill(p)
      BY <2>2, FillStutter
    <2>3. CASE Publish(p)
      BY <2>3, PublishStutter
    <2>4. CASE \/ PushStart(p) \/ LoadTail(p) \/ PushFree(p) \/ PushFull(p)
               \/ PushRetry(p) \/ PushGiveUp(p) \/ MissTail(p)
      BY <2>4, ProducerStutter
    <2> QED
      BY <1>1, <2>1, <2>2, <2>3, <2>4 DEF PushStep
  <1>2. ASSUME NEW c \in Consumers, PopStart(c) \/ PopStep(c)
        PROVE  [Fifo!Next]_<<QueueView, GotView>>
    <2>1. CASE DrawHead(c)
      BY <2>1, DequeueStep DEF Fifo!Next
    <2>2. CASE Take(c)
      BY <2>2, TakeStutter
    <2>3. CASE Release(c)
      BY <2>3, ReleaseStutter
    <2>4. CASE \/ PopStart(c) \/ LoadHead(c) \/ PopReady(c) \/ PopEmpty(c)
               \/ PopRetry(c) \/ MissHead(c)
      BY <2>4, ConsumerStutter
    <2> QED
      BY <1>2, <2>1, <2>2, <2>3, <2>4 DEF PopStep
  <1>3. CASE UNCHANGED vars
    BY <1>3 DEF vars, QueueView, GotView, TicketItem
  <1> QED
    BY <1>1, <1>2, <1>3 DEF Next

\* Every behaviour of a ring of two cells or more is one of the atomic
\* bounded queue.
THEOREM Implements == ASSUME Capacity > 1 PROVE Spec => ImplementsFifo
  <1>1. Init => Fifo!Init
    BY InitImplements
  <1>2. IInv /\ [Next]_vars => [Fifo!Next]_(Fifo!vars)
    BY StepImplements DEF Fifo!vars
  <1> QED
    BY <1>1, <1>2, Invariance, PTL DEF Spec, ImplementsFifo, Fifo!Spec
=============================================================================
