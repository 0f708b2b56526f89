----------------------- MODULE ProducerConsumerProofs -----------------------
(***************************************************************************)
(* What holds of the three programs that hand something over from one      *)
(* producer to one consumer without a lock around it: SpscQueue, Telemetry *)
(* and CameraPipeline, each for every value of its constants.              *)
(*                                                                         *)
(* SpscQueue.  The argument is one about places on the ring.  Going round  *)
(* from headSeen one meets head, then tailSeen, then tail, and tail never  *)
(* reaches headSeen again: each side sees the other too far back, never    *)
(* too far on, so what it believes free or filled is.  The slot at tail is *)
(* ordered for a producer that acquired, because it lies outside what the  *)
(* consumer did after the store that was acquired, and the slot at head is *)
(* ordered for the consumer likewise.                                      *)
(*                                                                         *)
(* Telemetry.  The ring has one writer and one reader because the device   *)
(* has one owner and the owner one producer: that is `Sessions`.  What     *)
(* each of the two has found (room, a record) stays true until it acts on  *)
(* it, since the other one only makes more of it.                          *)
(*                                                                         *)
(* CameraPipeline.  The figures add up because what the consumer is about  *)
(* to record is newer than all it has recorded, and because the logger     *)
(* hands on to the new window which frame was the last.                    *)
(***************************************************************************)
EXTENDS SpscQueue, Telemetry, CameraPipeline, TLAPS

-----------------------------------------------------------------------------
(* The arithmetic of the ring.                                             *)

LEMMA Times ==
  ASSUME NEW n \in Nat \ {0}, NEW q \in Int
  PROVE  /\ q < 0 => n * q <= -n
         /\ q = 0 => n * q = 0
         /\ q = 1 => n * q = n
         /\ q > 1 => n * q >= 2 * n
  <1>1. q > 1 => n * (q - 2) \in Nat
    BY SMT
  <1>2. q < 0 => n * (-1 - q) \in Nat
    BY SMT
  <1>3. n * (q - 2) = n * q - 2 * n /\ n * (-1 - q) = -n - n * q /\ n * q \in Int
    BY SMT
  <1> QED
    BY <1>1, <1>2, <1>3, SMT

\* Up to two turns, the remainder takes at most one off.
LEMMA Remainder ==
  ASSUME NEW x \in Nat, x < 2 * (Capacity + 1)
  PROVE  /\ x <= Capacity => x % (Capacity + 1) = x
         /\ x > Capacity => x % (Capacity + 1) = x - (Capacity + 1)
  <1> DEFINE n == Capacity + 1
             q == x \div n
             r == x % n
  <1>1. n \in Nat \ {0}
    BY ParamAssumption
  <1>2. q \in Int /\ r \in 0 .. n - 1 /\ x = n * q + r
    BY <1>1, SMT
  <1>3. n = Capacity + 1
    OBVIOUS
  <1> HIDE DEF n, q, r
  <1>4. n * q \in Int
    BY <1>1, <1>2
  <1>5. q = 0 \/ q = 1
    BY <1>1, <1>2, <1>3, <1>4, Times
  <1>a. (q = 0 => n * q = 0) /\ (q = 1 => n * q = n)
    BY <1>1, <1>2, Times
  <1>6. CASE q = 0
    <2>1. n * q = 0
      BY <1>6, <1>a
    <2>2. r = x /\ r <= Capacity
      BY <1>1, <1>2, <1>3, <2>1, ParamAssumption
    <2> QED
      BY <2>2, ParamAssumption DEF r, n
  <1>7. CASE q = 1
    <2>1. n * q = n
      BY <1>7, <1>a
    <2>2. r = x - n /\ x > Capacity
      BY <1>1, <1>2, <1>3, <2>1, ParamAssumption
    <2> QED
      BY <2>2, ParamAssumption DEF r, n
  <1> QED
    BY <1>5, <1>6, <1>7

\* The two operators on indices, without remainders.
LEMMA Ring ==
  ASSUME NEW i \in Slots, NEW j \in Slots
  PROVE  /\ advance(i) = IF i = Capacity THEN 0 ELSE i + 1
         /\ advance(i) \in Slots
         /\ Distance(i, j) = IF i <= j THEN j - i ELSE Capacity + 1 + j - i
         /\ Distance(i, j) \in Slots
  <1>1. /\ i \in Nat /\ j \in Nat /\ i <= Capacity /\ j <= Capacity
        /\ Capacity \in Nat \ {0}
    BY ParamAssumption DEF Slots
  <1>2. advance(i) = IF i = Capacity THEN 0 ELSE i + 1
    BY <1>1, Remainder DEF advance
  <1> DEFINE x == Capacity + 1 + j - i
  <1>3. /\ x \in Nat /\ x < 2 * (Capacity + 1) /\ (x <= Capacity <=> ~(i <= j))
        /\ x - (Capacity + 1) = j - i
    BY <1>1
  <1>4. Distance(i, j) = IF i <= j THEN j - i ELSE Capacity + 1 + j - i
    <2>1. Distance(i, j) = x % (Capacity + 1)
      BY DEF Distance
    <2> HIDE DEF x
    <2>2. Distance(i, j) = IF i <= j THEN x - (Capacity + 1) ELSE x
      BY <1>1, <1>3, <2>1, Remainder
    <2> QED
      BY <1>3, <2>2 DEF x
  <1> QED
    BY <1>1, <1>2, <1>4 DEF Slots

\* One step of the nearer or of the farther end.
LEMMA Stepped ==
  ASSUME NEW i \in Slots, NEW j \in Slots
  PROVE  /\ Distance(i, j) = 0 <=> i = j
         /\ Distance(i, j) = Capacity <=> advance(j) = i
         /\ advance(j) # i => Distance(i, advance(j)) = Distance(i, j) + 1
         /\ i # j => Distance(advance(i), j) = Distance(i, j) - 1
  <1>1. /\ i \in Nat /\ j \in Nat /\ i <= Capacity /\ j <= Capacity
        /\ Capacity \in Nat \ {0}
    BY ParamAssumption DEF Slots
  <1>2. /\ advance(i) \in Slots /\ advance(j) \in Slots
        /\ advance(i) = IF i = Capacity THEN 0 ELSE i + 1
        /\ advance(j) = IF j = Capacity THEN 0 ELSE j + 1
    BY Ring
  <1>3. /\ Distance(i, j) = IF i <= j THEN j - i ELSE Capacity + 1 + j - i
        /\ Distance(i, advance(j)) =
             IF i <= advance(j) THEN advance(j) - i ELSE Capacity + 1 + advance(j) - i
        /\ Distance(advance(i), j) =
             IF advance(i) <= j THEN j - advance(i) ELSE Capacity + 1 + j - advance(i)
    BY <1>2, Ring
  <1> QED
    BY <1>1, <1>2, <1>3

\* Three places in the order a, b, c, or their distances added up.
LEMMA Turned ==
  ASSUME NEW a \in Slots, NEW b \in Slots, NEW c \in Slots
  PROVE  /\ Distance(a, b) <= Distance(a, c) =>
              Distance(b, c) = Distance(a, c) - Distance(a, b)
         /\ Distance(a, b) + Distance(b, c) <= Capacity =>
              Distance(a, c) = Distance(a, b) + Distance(b, c)
         /\ Distance(a, b) = Distance(a, c) => b = c
  <1>1. /\ a \in Nat /\ b \in Nat /\ c \in Nat /\ Capacity \in Nat \ {0}
        /\ a <= Capacity /\ b <= Capacity /\ c <= Capacity
    BY ParamAssumption DEF Slots
  <1>2. /\ Distance(a, b) = IF a <= b THEN b - a ELSE Capacity + 1 + b - a
        /\ Distance(a, c) = IF a <= c THEN c - a ELSE Capacity + 1 + c - a
        /\ Distance(b, c) = IF b <= c THEN c - b ELSE Capacity + 1 + c - b
    BY Ring
  <1> QED
    BY <1>1, <1>2

-----------------------------------------------------------------------------
\* Round the ring: headSeen, head, tailSeen, tail.
Round == /\ Distance(headSeen, head) <= Distance(headSeen, tail)
         /\ Distance(head, tailSeen) <= Distance(head, tail)

\* A producer past its check has room for its item.
ProducerKnows ==
  /\ push.at # "idle" \/ room => advance(tail) # headSeen
  /\ room => push.at = "idle"
  /\ push.at # "idle" => push.item \in Items
  /\ push.at = "publish" => ring[tail] = push.item
  /\ push.at = "write" /\ push.acquired => tail \in writable

\* A consumer past its check has an item, and may read it.
ConsumerKnows ==
  /\ pop # "idle" \/ more => head # tailSeen
  /\ more => pop = "idle"
  /\ pop = "move" => head \in readable

\* Every slot inside holds an item.
Filled == \A s \in Between(First, tail) : ring[s] \in Items

IInv == TypeOK /\ Round /\ ProducerKnows /\ ConsumerKnows /\ Filled

LEMMA InitIInv == Init => IInv
  <1> SUFFICES ASSUME Init PROVE IInv
    OBVIOUS
  <1>1. 0 \in Slots
    BY ParamAssumption DEF Slots
  <1>2. Distance(0, 0) = 0 /\ advance(0) # 0
    BY <1>1, Ring, ParamAssumption
  <1>3. Between(0, 0) = {}
    BY <1>1, <1>2, Ring DEF Between, Slots
  <1>4. TypeOK
    BY <1>1 DEF Init, TypeOK
  <1>5. Round /\ ProducerKnows
    BY <1>2 DEF Init, Round, ProducerKnows
  <1>6. ConsumerKnows /\ Filled
    BY <1>3 DEF Init, ConsumerKnows, Filled, First
  <1> QED
    BY <1>4, <1>5, <1>6 DEF IInv

\* What a load returns is between what was seen and what is.
LEMMA LoadFound ==
  ASSUME NEW a \in Slots, NEW b \in Slots, NEW v \in Loads(a, b)
  PROVE  v \in Slots /\ Distance(a, v) <= Distance(a, b)
  <1>1. CASE v \in Between(a, b)
    BY <1>1, Ring DEF Between, Slots
  <1>2. CASE v = b
    BY <1>2, Ring DEF Slots
  <1> QED
    BY <1>1, <1>2 DEF Loads

\* What the invariant says of the four indices and of the slot being moved from.
LEMMA Facts ==
  ASSUME IInv
  PROVE  /\ head \in Slots /\ tail \in Slots /\ headSeen \in Slots /\ tailSeen \in Slots
         /\ First \in Slots
         /\ Distance(headSeen, head) <= Distance(headSeen, tail)
         /\ Distance(head, tailSeen) <= Distance(head, tail)
         /\ Distance(headSeen, First) <= Distance(headSeen, tail)
         /\ pop # "idle" => head # tail
         /\ Distance(First, tail) <= Distance(head, tail)
  <1>1. /\ head \in Slots /\ tail \in Slots /\ headSeen \in Slots /\ tailSeen \in Slots
        /\ Distance(headSeen, head) <= Distance(headSeen, tail)
        /\ Distance(head, tailSeen) <= Distance(head, tail)
    BY DEF IInv, TypeOK, Round
  <1>2. ASSUME pop # "idle" PROVE head # tail
    <2>1. head # tailSeen
      BY <1>2 DEF IInv, ConsumerKnows
    <2>2. Distance(head, tailSeen) # 0 /\ Distance(head, tailSeen) \in Slots
      BY <1>1, <2>1, Stepped, Ring
    <2>3. Distance(head, tail) # 0
      BY <1>1, <2>2, Ring DEF Slots
    <2> QED
      BY <1>1, <2>3, Stepped
  <1>3. CASE pop = "publish"
    <2>1. First = advance(head) /\ First \in Slots
      BY <1>1, <1>3, Ring DEF First
    <2>2. Distance(headSeen, head) < Distance(headSeen, tail)
      <3>1. Distance(headSeen, head) # Distance(headSeen, tail)
        BY <1>1, <1>2, <1>3, Turned
      <3>2. Distance(headSeen, head) \in Int /\ Distance(headSeen, tail) \in Int
        BY <1>1, Ring DEF Slots
      <3> QED
        BY <1>1, <3>1, <3>2
    <2>3. Distance(headSeen, First) = Distance(headSeen, head) + 1
      <3>1. Distance(headSeen, head) # Capacity
        BY <1>1, <2>2, Ring DEF Slots
      <3> QED
        BY <1>1, <2>1, <3>1, Stepped
    <2>4. Distance(First, tail) = Distance(head, tail) - 1
      BY <1>1, <1>2, <1>3, <2>1, Stepped
    <2>5. /\ Distance(headSeen, head) \in Int /\ Distance(headSeen, tail) \in Int
          /\ Distance(head, tail) \in Int
      BY <1>1, Ring DEF Slots
    <2> QED
      BY <1>1, <1>2, <2>1, <2>2, <2>3, <2>4, <2>5
  <1>4. CASE pop # "publish"
    <2>1. First = head /\ Distance(head, tail) \in Int
      BY <1>1, <1>4, Ring DEF First, Slots
    <2> QED
      BY <1>1, <1>2, <2>1
  <1> QED
    BY <1>3, <1>4

\* A load of head keeps the indices in their order, and the room there was.
LEMMA HeadLoaded ==
  ASSUME IInv, NEW h \in Loads(headSeen, head)
  PROVE  /\ h \in Slots
         /\ Distance(h, head) <= Distance(h, tail)
         /\ advance(tail) # headSeen => advance(tail) # h
         /\ Distance(h, tail) <= Distance(headSeen, tail)
  <1>1. /\ h \in Slots /\ Distance(headSeen, h) <= Distance(headSeen, head)
        /\ head \in Slots /\ tail \in Slots /\ headSeen \in Slots
        /\ Distance(headSeen, head) <= Distance(headSeen, tail)
    BY LoadFound, Facts
  <1>2. /\ Distance(headSeen, h) \in Nat /\ Distance(headSeen, head) \in Nat
        /\ Distance(headSeen, tail) \in Nat /\ Distance(headSeen, tail) <= Capacity
        /\ Capacity \in Nat
    BY <1>1, Ring, ParamAssumption DEF Slots
  <1>3. Distance(headSeen, h) <= Distance(headSeen, tail)
    BY <1>1, <1>2
  <1>4. /\ Distance(h, head) = Distance(headSeen, head) - Distance(headSeen, h)
        /\ Distance(h, tail) = Distance(headSeen, tail) - Distance(headSeen, h)
    BY <1>1, <1>3, Turned
  <1>5. /\ advance(tail) = h <=> Distance(h, tail) = Capacity
        /\ advance(tail) = headSeen <=> Distance(headSeen, tail) = Capacity
    BY <1>1, Stepped
  <1> QED
    BY <1>1, <1>2, <1>4, <1>5

\* The same of a load of tail.
LEMMA TailLoaded ==
  ASSUME IInv, NEW t \in Loads(tailSeen, tail)
  PROVE  /\ t \in Slots
         /\ Distance(head, t) <= Distance(head, tail)
         /\ Distance(head, tailSeen) <= Distance(head, t)
         /\ Distance(t, tail) = Distance(head, tail) - Distance(head, t)
  <1>1. /\ t \in Slots /\ Distance(tailSeen, t) <= Distance(tailSeen, tail)
        /\ head \in Slots /\ tail \in Slots /\ tailSeen \in Slots
        /\ Distance(head, tailSeen) <= Distance(head, tail)
    BY LoadFound, Facts
  <1>2. /\ Distance(tailSeen, t) \in Nat /\ Distance(head, tailSeen) \in Nat
        /\ Distance(head, tail) \in Nat /\ Distance(head, tail) <= Capacity
        /\ Distance(tailSeen, tail) \in Nat /\ Capacity \in Nat
    BY <1>1, Ring, ParamAssumption DEF Slots
  <1>3. Distance(tailSeen, tail) = Distance(head, tail) - Distance(head, tailSeen)
    BY <1>1, Turned
  <1>4. Distance(head, t) = Distance(head, tailSeen) + Distance(tailSeen, t)
    BY <1>1, <1>2, <1>3, Turned
  <1>5. Distance(head, t) <= Distance(head, tail)
    BY <1>1, <1>2, <1>3, <1>4
  <1> QED
    BY <1>1, <1>2, <1>4, <1>5, Turned

-----------------------------------------------------------------------------
(* The steps.                                                              *)

LEMMA PushCheckStep ==
  ASSUME IInv, NEW x \in Items, NEW acquires \in BOOLEAN, PushCheck(x, acquires)
  PROVE  IInv'
  <1> USE DEF IInv
  <1>1. PICK h \in Loads(headSeen, head) :
          /\ headSeen' = h
          /\ writable' = Acquired(h, acquires)
          /\ IF advance(tail) = h
               THEN UNCHANGED push
               ELSE push' = [at |-> "write", item |-> x, acquired |-> acquires]
    BY DEF PushCheck
  <1>2. /\ push.at = "idle" /\ room' = FALSE
        /\ UNCHANGED <<head, tail, tailSeen, ring, readable, pop, out, more>>
    BY DEF PushCheck, consumer_side
  <1>3. h \in Slots /\ Distance(h, head) <= Distance(h, tail)
    BY <1>1, HeadLoaded
  <1>4. TypeOK'
    <2>1. writable' \subseteq Slots
      BY <1>1 DEF TypeOK, Acquired
    <2>2. push' \in [at : {"idle", "write", "publish"}, item : Items \union {NoItem},
                     acquired : BOOLEAN]
      BY <1>1 DEF TypeOK
    <2> QED
      BY <1>1, <1>2, <1>3, <2>1, <2>2 DEF TypeOK
  <1>5. Round'
    BY <1>1, <1>2, <1>3 DEF Round
  <1>6. acquires => tail \in writable'
    <2>1. tail \notin Between(h, head)
      <3>1. /\ Distance(h, head) \in Int /\ Distance(h, tail) \in Int
        BY <1>3, Facts, Ring DEF Slots
      <3> QED
        BY <1>3, <3>1 DEF Between
    <2>2. tail \notin Unpublished
      BY Facts DEF Unpublished
    <2> QED
      BY <1>1, <2>1, <2>2, Facts DEF Acquired
  <1>7. ProducerKnows'
    BY <1>1, <1>2, <1>6 DEF ProducerKnows
  <1>8. ConsumerKnows' /\ Filled'
    BY <1>2 DEF ConsumerKnows, Filled, First
  <1> QED
    BY <1>4, <1>5, <1>7, <1>8

LEMMA PushWriteStep == ASSUME IInv, PushWrite PROVE IInv'
  <1> USE DEF IInv
  <1>1. /\ push.at = "write" /\ push' = [push EXCEPT !.at = "publish"]
        /\ ring' = [ring EXCEPT ![tail] = push.item]
        /\ readable' = readable \ {tail}
        /\ UNCHANGED <<head, tail, headSeen, tailSeen, writable, pop, out, more, room>>
    BY DEF PushWrite, indices, consumer_side
  <1>2. push.item \in Items /\ tail \in Slots
    BY <1>1 DEF ProducerKnows, TypeOK
  <1>3. TypeOK' /\ Round'
    BY <1>1, <1>2 DEF TypeOK, Round
  <1>4. ring'[tail] = push.item /\ \A s \in Slots \ {tail} : ring'[s] = ring[s]
    BY <1>1, <1>2 DEF TypeOK
  <1>5. push'.at = "publish" /\ push'.item = push.item
    BY <1>1 DEF TypeOK
  <1>6. ProducerKnows'
    BY <1>1, <1>4, <1>5 DEF ProducerKnows
  <1>8. ConsumerKnows'
    BY <1>1, Facts DEF ConsumerKnows
  <1>9. Filled'
    <2>1. Distance(First, tail) \in Int
      BY Facts, Ring DEF Slots
    <2>2. tail \notin Between(First, tail)
      BY <2>1 DEF Between
    <2> QED
      BY <1>1, <1>4, <2>2 DEF Filled, First, Between
  <1> QED
    BY <1>3, <1>6, <1>8, <1>9

LEMMA PushPublishStep == ASSUME IInv, PushPublish PROVE IInv'
  <1> USE DEF IInv
  <1>1. /\ push.at = "publish" /\ tail' = advance(tail)
        /\ push' = [at |-> "idle", item |-> NoItem, acquired |-> FALSE]
        /\ UNCHANGED <<head, headSeen, tailSeen, ring, writable, readable, pop, out,
                       more, room>>
    BY DEF PushPublish, order, consumer_side
  <1>2. advance(tail) # headSeen /\ ring[tail] \in Items /\ ~room
    BY <1>1 DEF ProducerKnows
  <1>3. TypeOK'
    BY <1>1, Ring DEF TypeOK
  <1>4. \A f \in {head, First} :
          Distance(headSeen, f) <= Distance(headSeen, tail) => advance(tail) # f
    <2> SUFFICES ASSUME NEW f \in {head, First},
                        Distance(headSeen, f) <= Distance(headSeen, tail),
                        advance(tail) = f
                 PROVE  FALSE
      OBVIOUS
    <2>1. f \in Slots /\ tail \in Slots /\ headSeen \in Slots
      BY Facts
    <2>2. Distance(headSeen, f) = Distance(headSeen, tail) + 1
      BY <1>2, <2>1, Stepped
    <2>3. Distance(headSeen, tail) \in Int
      BY <2>1, Ring DEF Slots
    <2> QED
      BY <2>2, <2>3
  <1>5. /\ Distance(headSeen, tail') = Distance(headSeen, tail) + 1
        /\ Distance(head, tail') = Distance(head, tail) + 1
        /\ Distance(First, tail') = Distance(First, tail) + 1
    BY <1>1, <1>2, <1>4, Facts, Stepped
  <1>6. Round'
    <2>1. /\ Distance(headSeen, head) \in Int /\ Distance(headSeen, tail) \in Int
          /\ Distance(head, tailSeen) \in Int /\ Distance(head, tail) \in Int
      BY Facts, Ring DEF Slots
    <2> QED
      BY <1>1, <1>5, <2>1 DEF Round
  <1>7. ProducerKnows' /\ ConsumerKnows'
    BY <1>1, <1>2 DEF ProducerKnows, ConsumerKnows
  <1>8. Filled'
    <2>1. First' = First
      BY <1>1 DEF First
    <2> SUFFICES ASSUME NEW s \in Slots, Distance(First, s) < Distance(First, tail) + 1
                 PROVE  ring[s] \in Items
      BY <1>1, <1>5, <2>1 DEF Filled, Between
    <2>2. Distance(First, s) \in Int /\ Distance(First, tail) \in Int
      BY Facts, Ring DEF Slots
    <2>3. CASE Distance(First, s) = Distance(First, tail)
      BY <1>2, <2>3, Facts, Turned
    <2>4. CASE Distance(First, s) # Distance(First, tail)
      BY <2>2, <2>4 DEF Filled, Between
    <2> QED
      BY <2>3, <2>4
  <1> QED
    BY <1>3, <1>6, <1>7, <1>8

LEMMA ProducerSizeStep == ASSUME IInv, ProducerSize PROVE IInv'
  <1> USE DEF IInv
  <1>1. PICK h \in Loads(headSeen, head) :
          headSeen' = h /\ room' = (room \/ Distance(h, tail) < Capacity)
    BY DEF ProducerSize
  <1>2. /\ push.at = "idle"
        /\ UNCHANGED <<head, tail, tailSeen, ring, writable, readable, push, pop, out, more>>
    BY DEF ProducerSize, order, consumer_side
  <1>3. /\ h \in Slots /\ Distance(h, head) <= Distance(h, tail)
        /\ advance(tail) # headSeen => advance(tail) # h
    BY <1>1, HeadLoaded
  <1>4. TypeOK' /\ Round'
    BY <1>1, <1>2, <1>3 DEF TypeOK, Round
  <1>5. Distance(h, tail) < Capacity => advance(tail) # h
    BY <1>3, Facts, Stepped, ParamAssumption
  <1>6. ProducerKnows'
    BY <1>1, <1>2, <1>3, <1>5 DEF ProducerKnows, TypeOK
  <1>7. ConsumerKnows' /\ Filled'
    BY <1>2 DEF ConsumerKnows, Filled, First
  <1> QED
    BY <1>4, <1>6, <1>7

LEMMA PopCheckStep == ASSUME IInv, PopCheck PROVE IInv'
  <1> USE DEF IInv
  <1>1. PICK t \in Loads(tailSeen, tail) :
          /\ tailSeen' = t
          /\ readable' = readable \union (Slots \ (Between(t, tail) \union Unread))
          /\ pop' = IF head = t THEN "idle" ELSE "move"
    BY DEF PopCheck
  <1>2. /\ pop = "idle" /\ more' = FALSE
        /\ UNCHANGED <<head, tail, headSeen, ring, writable, push, room, out>>
    BY DEF PopCheck, producer_side
  <1>3. /\ t \in Slots /\ Distance(head, t) <= Distance(head, tail)
        /\ Distance(t, tail) = Distance(head, tail) - Distance(head, t)
    BY <1>1, TailLoaded
  <1>4. TypeOK' /\ Round'
    BY <1>1, <1>2, <1>3 DEF TypeOK, Round
  <1>5. ProducerKnows' /\ Filled'
    BY <1>1, <1>2 DEF ProducerKnows, Filled, First
  <1>6. ASSUME head # t PROVE head \in readable'
    <2> DEFINE s == head
    <2>1. s \in Slots /\ Distance(head, s) < Distance(head, t)
      <3>1. Distance(head, t) # 0 /\ Distance(head, head) = 0 /\ Distance(head, t) \in Nat
        BY <1>3, <1>6, Facts, Stepped, Ring DEF Slots
      <3> QED
        BY <3>1, Facts
    <2>2. /\ Distance(head, s) \in Nat /\ Distance(head, t) \in Nat
          /\ Distance(head, tail) \in Nat /\ Distance(head, tail) <= Capacity
      BY <1>3, <2>1, Facts, Ring, ParamAssumption DEF Slots
    <2>3. s # tail
      BY <1>3, <2>1, <2>2
    <2>4. s \notin Between(t, tail)
      <3> SUFFICES ASSUME Distance(t, s) < Distance(t, tail) PROVE FALSE
        BY DEF Between
      <3>1. Distance(t, s) \in Nat /\ Capacity \in Nat
        BY <1>3, <2>1, Ring, ParamAssumption DEF Slots
      <3>2. Distance(head, s) = Distance(head, t) + Distance(t, s)
        BY <1>3, <2>1, <2>2, <3>1, Facts, Turned
      <3> QED
        BY <2>1, <2>2, <3>1, <3>2
    <2> QED
      BY <1>1, <2>1, <2>3, <2>4 DEF Unread
  <1>7. ConsumerKnows'
    BY <1>1, <1>2, <1>6 DEF ConsumerKnows
  <1> QED
    BY <1>4, <1>5, <1>7

LEMMA PopMoveStep == ASSUME IInv, PopMove PROVE IInv'
  <1> USE DEF IInv
  <1>1. /\ pop = "move" /\ pop' = "publish" /\ out' = ring[head]
        /\ ring' = [ring EXCEPT ![head] = NoItem]
        /\ writable' = writable \ {head}
        /\ UNCHANGED <<head, tail, headSeen, tailSeen, readable, push, room, more>>
    BY DEF PopMove, indices, producer_side
  <1>2. head \in Slots /\ tail \in Slots /\ head # tail
    BY <1>1, Facts
  <1>3. TypeOK' /\ Round'
    BY <1>1, <1>2 DEF TypeOK, Round
  <1>4. \A s \in Slots \ {head} : ring'[s] = ring[s]
    BY <1>1, <1>2 DEF TypeOK
  <1>5. ProducerKnows' /\ ConsumerKnows'
    BY <1>1, <1>2, <1>4 DEF ProducerKnows, ConsumerKnows
  <1>6. Filled'
    <2>1. First = head /\ First' = advance(head) /\ advance(head) \in Slots
      BY <1>1, <1>2, Ring DEF First
    <2> SUFFICES ASSUME NEW s \in Slots,
                        Distance(advance(head), s) < Distance(advance(head), tail)
                 PROVE  ring'[s] \in Items
      BY <1>1, <2>1 DEF Filled, Between
    <2>2. Distance(advance(head), tail) = Distance(head, tail) - 1
      BY <1>2, Stepped
    <2>3. /\ Distance(head, s) \in Int /\ Distance(head, tail) \in Int
          /\ Distance(head, tail) <= Capacity /\ Distance(advance(head), s) \in Int
          /\ Capacity \in Int
      BY <1>2, <2>1, Ring, ParamAssumption DEF Slots
    <2>4. s # head
      <3>1. Distance(advance(head), head) = Capacity
        BY <1>2, <2>1, Stepped
      <3> QED
        BY <2>2, <2>3, <3>1
    <2>5. Distance(advance(head), s) = Distance(head, s) - 1
      BY <1>2, <2>4, Stepped
    <2>6. s \in Between(head, tail)
      BY <2>2, <2>3, <2>5 DEF Between
    <2> QED
      BY <1>4, <2>1, <2>4, <2>6 DEF Filled
  <1> QED
    BY <1>3, <1>5, <1>6

LEMMA PopPublishStep == ASSUME IInv, PopPublish PROVE IInv'
  <1> USE DEF IInv
  <1>1. /\ pop = "publish" /\ pop' = "idle" /\ head' = advance(head)
        /\ UNCHANGED <<tail, headSeen, tailSeen, ring, writable, readable, push, room,
                       out, more>>
    BY DEF PopPublish, order, producer_side
  <1>2. head # tail /\ head # tailSeen /\ ~more /\ First = advance(head)
    BY <1>1, Facts DEF ConsumerKnows, First
  <1>3. /\ head \in Slots /\ tail \in Slots /\ tailSeen \in Slots /\ head' \in Slots
        /\ headSeen \in Slots
    BY <1>1, <1>2, Facts
  <1>4. TypeOK'
    BY <1>1, <1>3 DEF TypeOK
  <1>5. /\ Distance(head', tail) = Distance(head, tail) - 1
        /\ Distance(head', tailSeen) = Distance(head, tailSeen) - 1
    BY <1>1, <1>2, <1>3, Stepped
  <1>6. Round'
    <2>1. Distance(headSeen, head') <= Distance(headSeen, tail)
      BY <1>1, <1>2, Facts
    <2>2. Distance(head, tail) \in Int /\ Distance(head, tailSeen) \in Int
      BY <1>3, Ring DEF Slots
    <2> QED
      BY <1>1, <1>5, <2>1, <2>2, Facts DEF Round
  <1>7. ProducerKnows' /\ Filled'
    <2>1. First' = First
      BY <1>1, <1>2 DEF First
    <2> QED
      BY <1>1, <2>1 DEF ProducerKnows, Filled
  <1>9. ConsumerKnows'
    BY <1>1, <1>2 DEF ConsumerKnows
  <1> QED
    BY <1>4, <1>6, <1>7, <1>9

LEMMA ConsumerSizeStep == ASSUME IInv, ConsumerSize PROVE IInv'
  <1> USE DEF IInv
  <1>1. PICK t \in Loads(tailSeen, tail) :
          tailSeen' = t /\ more' = (more \/ Distance(head, t) > 0)
    BY DEF ConsumerSize
  <1>2. /\ pop = "idle"
        /\ UNCHANGED <<head, tail, headSeen, ring, writable, readable, push, room, pop, out>>
    BY DEF ConsumerSize, order, producer_side
  <1>3. /\ t \in Slots /\ Distance(head, t) <= Distance(head, tail)
        /\ Distance(head, tailSeen) <= Distance(head, t)
        /\ Distance(t, tail) = Distance(head, tail) - Distance(head, t)
    BY <1>1, TailLoaded
  <1>4. TypeOK' /\ Round'
    BY <1>1, <1>2, <1>3 DEF TypeOK, Round
  <1>5. ProducerKnows' /\ Filled'
    BY <1>2 DEF ProducerKnows, Filled, First
  <1>6. head # tailSeen \/ Distance(head, t) > 0 => head # t
    <2>1. /\ Distance(head, tailSeen) \in Nat /\ Distance(head, t) \in Nat
          /\ Distance(head, head) = 0 /\ (Distance(head, tailSeen) = 0 <=> head = tailSeen)
      <3>1. head \in Slots /\ tailSeen \in Slots
        BY Facts
      <3>2. Distance(head, tailSeen) \in Slots /\ Distance(head, t) \in Slots
        BY <1>3, <3>1, Ring
      <3> QED
        BY <3>1, <3>2, Stepped DEF Slots
    <2> QED
      BY <1>3, <2>1
  <1>7. ConsumerKnows'
    BY <1>1, <1>2, <1>6 DEF ConsumerKnows, TypeOK
  <1> QED
    BY <1>4, <1>5, <1>7

-----------------------------------------------------------------------------
LEMMA Inductive == IInv /\ [Next]_vars => IInv'
  <1> SUFFICES ASSUME IInv, [Next]_vars PROVE IInv'
    OBVIOUS
  <1>1. ASSUME NEW x \in Items, PushCopy(x) \/ PushMove(x) PROVE IInv'
    BY <1>1, PushCheckStep DEF PushCopy, PushMove
  <1>2. CASE PushWrite
    BY <1>2, PushWriteStep
  <1>3. CASE PushPublish
    BY <1>3, PushPublishStep
  <1>4. CASE ProducerSize
    BY <1>4, ProducerSizeStep
  <1>5. CASE PopCheck
    BY <1>5, PopCheckStep
  <1>6. CASE PopMove
    BY <1>6, PopMoveStep
  <1>7. CASE PopPublish
    BY <1>7, PopPublishStep
  <1>8. CASE ConsumerSize
    BY <1>8, ConsumerSizeStep
  <1>9. CASE UNCHANGED vars
    BY <1>9 DEF vars, IInv, TypeOK, Round, ProducerKnows, ConsumerKnows, Filled, First,
       Between, Distance
  <1> QED
    BY <1>1, <1>2, <1>3, <1>4, <1>5, <1>6, <1>7, <1>8, <1>9 DEF Next, Producing, Consuming

LEMMA Invariance == Spec => []IInv
  BY InitIInv, Inductive, PTL DEF Spec

\* The indices stay on the ring and the rest keeps its types.
THEOREM TypeCorrect == Spec => []TypeOK
  BY Invariance, PTL DEF IInv

\* An acquiring push and every pop use a slot in the order of happens-before
\* (lines 118 to 128 and 142 to 154), for every capacity.
THEOREM RaceFree == Spec => []Ordered
  <1>1. IInv => Ordered
    BY DEF IInv, ProducerKnows, ConsumerKnows, Ordered
  <1> QED
    BY <1>1, Invariance, PTL

\* What size() promised its caller (line 167) the next push or pop keeps.
THEOREM SizesTrusted == Spec => SizesHold
  <1>1. ASSUME IInv, [Next]_vars
        PROVE  /\ room /\ UNCHANGED <<push, tail>> => room'
               /\ more /\ UNCHANGED <<pop, head>> => more'
    <2>1. CASE UNCHANGED vars
      BY <2>1 DEF vars
    <2>2. ASSUME NEW x \in Items, NEW acquires \in BOOLEAN, PushCheck(x, acquires),
                 room, UNCHANGED <<push, tail>>
          PROVE  FALSE
      <3>1. PICK h \in Loads(headSeen, head) :
              IF advance(tail) = h
                THEN UNCHANGED push
                ELSE push' = [at |-> "write", item |-> x, acquired |-> acquires]
        BY <2>2 DEF PushCheck
      <3>2. advance(tail) # h
        BY <1>1, <2>2, HeadLoaded DEF IInv, ProducerKnows
      <3>3. push.at = "idle" /\ push'.at = "write"
        BY <2>2, <3>1, <3>2 DEF PushCheck
      <3> QED
        BY <2>2, <3>3
    <2>3. ASSUME PopCheck, more, UNCHANGED pop PROVE FALSE
      <3>1. PICK t \in Loads(tailSeen, tail) : pop' = IF head = t THEN "idle" ELSE "move"
        BY <2>3 DEF PopCheck
      <3>2. /\ t \in Slots /\ head \in Slots /\ tailSeen \in Slots /\ head # tailSeen
            /\ Distance(head, tailSeen) <= Distance(head, t)
        BY <1>1, <2>3, TailLoaded, Facts DEF IInv, ConsumerKnows
      <3>3. /\ Distance(head, tailSeen) \in Nat /\ Distance(head, head) = 0
            /\ (Distance(head, tailSeen) = 0 <=> head = tailSeen)
        BY <3>2, Stepped, Ring DEF Slots
      <3>4. head # t
        BY <3>2, <3>3
      <3> QED
        BY <2>3, <3>1, <3>4 DEF PopCheck
    <2>4. CASE Producing
      <3>1. \A x \in Items : PushCopy(x) \/ PushMove(x) => UNCHANGED more
        BY DEF PushCopy, PushMove, PushCheck, consumer_side
      <3>2. PushWrite \/ PushPublish \/ ProducerSize => UNCHANGED more
        BY DEF PushWrite, PushPublish, ProducerSize, consumer_side
      <3>3. PushWrite \/ PushPublish => UNCHANGED room
        BY DEF PushWrite, PushPublish
      <3>4. ProducerSize /\ room => room'
        BY Zenon DEF ProducerSize
      <3>5. CASE PushWrite \/ PushPublish \/ ProducerSize
        BY <3>2, <3>3, <3>4, <3>5
      <3>6. CASE \E x \in Items : PushCopy(x) \/ PushMove(x)
        BY <2>2, <3>1, <3>6 DEF PushCopy, PushMove
      <3> QED
        BY <2>4, <3>5, <3>6 DEF Producing
    <2>5. CASE Consuming
      <3>1. PopCheck => UNCHANGED room
        BY DEF PopCheck, producer_side
      <3>2. PopMove \/ PopPublish \/ ConsumerSize => UNCHANGED room
        BY DEF PopMove, PopPublish, ConsumerSize, producer_side
      <3>3. PopMove \/ PopPublish => UNCHANGED more
        BY DEF PopMove, PopPublish
      <3>4. ConsumerSize /\ more => more'
        BY Zenon DEF ConsumerSize
      <3> QED
        BY <2>3, <2>5, <3>1, <3>2, <3>3, <3>4 DEF Consuming
    <2> QED
      BY <1>1, <2>1, <2>4, <2>5 DEF Next
  <1>2. IInv /\ [Next]_vars =>
          [/\ room /\ UNCHANGED <<push, tail>> => room'
           /\ more /\ UNCHANGED <<pop, head>> => more']_vars
    BY <1>1
  <1> QED
    BY <1>2, Invariance, PTL DEF Spec, SizesHold

-----------------------------------------------------------------------------
(* The refinement.                                                         *)

\* The slot k places after f.
Place(f, k) == (f + k) % (Capacity + 1)

LEMMA PlaceFound ==
  ASSUME NEW f \in Slots, NEW k \in Slots
  PROVE  Place(f, k) \in Slots /\ Distance(f, Place(f, k)) = k
  <1>1. f \in Nat /\ k \in Nat /\ f <= Capacity /\ k <= Capacity /\ Capacity \in Nat \ {0}
    BY ParamAssumption DEF Slots
  <1> DEFINE x == f + k
  <1>2. x \in Nat /\ x < 2 * (Capacity + 1)
    BY <1>1
  <1>3. /\ x <= Capacity => x % (Capacity + 1) = x
        /\ x > Capacity => x % (Capacity + 1) = x - (Capacity + 1)
    BY <1>2, Remainder
  <1>4. Place(f, k) = IF f + k <= Capacity THEN f + k ELSE f + k - (Capacity + 1)
    BY <1>1, <1>2, <1>3 DEF Place
  <1>5. Place(f, k) \in Slots
    BY <1>1, <1>4 DEF Slots
  <1> QED
    BY <1>1, <1>4, <1>5, Ring

\* Inside is what the slots hold from First to tail.
InsideOK ==
  /\ Distance(First, tail) \in Nat /\ Distance(First, tail) <= Capacity
  /\ Inside \in Seq(Items) /\ Len(Inside) = Distance(First, tail)
  /\ \A i \in 1 .. Distance(First, tail) :
       /\ Inside[i] = ring[Place(First, i - 1)]
       /\ i - 1 \in Slots /\ Place(First, i - 1) \in Between(First, tail)

LEMMA InsideFound == IInv => InsideOK
  <1> SUFFICES ASSUME IInv PROVE InsideOK
    OBVIOUS
  <1> DEFINE n == Distance(First, tail)
  <1>1. First \in Slots /\ tail \in Slots /\ n \in Nat /\ n <= Capacity /\ Capacity \in Nat
    BY Facts, Ring, ParamAssumption DEF Slots
  <1>2. \A i \in 1 .. n : Inside[i] = ring[(First + i - 1) % (Capacity + 1)]
    BY DEF Inside
  <1>3. ASSUME NEW i \in 1 .. n
        PROVE  /\ i - 1 \in Slots /\ First + i - 1 = First + (i - 1) /\ i - 1 < n
    BY <1>1 DEF Slots
  <1> HIDE DEF n
  <1>4. ASSUME NEW i \in 1 .. n
        PROVE  /\ Inside[i] = ring[Place(First, i - 1)]
               /\ Place(First, i - 1) \in Between(First, tail)
    BY <1>1, <1>2, <1>3, PlaceFound DEF Place, Between, n
  <1>5. \A i \in 1 .. n : Inside[i] \in Items
    BY <1>4 DEF IInv, Filled
  <1>6. Inside = [i \in 1 .. n |-> Inside[i]]
    BY DEF Inside, n
  <1>7. Inside \in [1 .. n -> Items]
    BY <1>5, <1>6
  <1>8. Inside \in Seq(Items) /\ Len(Inside) = n
    BY <1>1, <1>7
  <1> QED
    BY <1>1, <1>3, <1>4, <1>8 DEF n, InsideOK

\* The contents stay if the slots inside do.
LEMMA SameInside ==
  ASSUME IInv, IInv', First' = First, tail' = tail,
         \A s \in Between(First, tail) : ring'[s] = ring[s]
  PROVE  Inside' = Inside
  <1> DEFINE n == Distance(First, tail)
  <1>1. Inside = [i \in 1 .. n |-> ring[(First + i - 1) % (Capacity + 1)]]
    BY DEF Inside
  <1>2. Inside' = [i \in 1 .. n |-> ring'[(First + i - 1) % (Capacity + 1)]]
    BY DEF Inside, Distance
  <1>3. ASSUME NEW i \in 1 .. n
        PROVE  (First + i - 1) % (Capacity + 1) \in Between(First, tail)
    <2>1. First + i - 1 = First + (i - 1)
      BY Facts, InsideFound, ParamAssumption DEF Slots, InsideOK
    <2> QED
      BY <2>1, InsideFound DEF InsideOK, Place
  <1> QED
    BY <1>1, <1>2, <1>3

\* The store of tail is Enqueue.
LEMMA PublishEnqueues ==
  ASSUME IInv, PushPublish
  PROVE  \E x \in Items : Fifo!Enqueue(x)
  <1> DEFINE n == Distance(First, tail)
             x == ring[tail]
  <1>1. InsideOK /\ InsideOK'
    <2>1. IInv' => InsideOK'
      BY InsideFound, PTL
    <2> QED
      BY <2>1, InsideFound, PushPublishStep
  <1>2. /\ push.at = "publish" /\ tail' = advance(tail) /\ UNCHANGED <<head, ring, pop, out>>
        /\ First' = First /\ tail \in Slots /\ First \in Slots /\ headSeen \in Slots
        /\ Distance(headSeen, First) <= Distance(headSeen, tail)
    BY Facts DEF PushPublish, consumer_side, First
  <1>3. x \in Items /\ advance(tail) # headSeen
    BY <1>2 DEF IInv, ProducerKnows
  <1>4. advance(tail) # First
    <2> SUFFICES ASSUME advance(tail) = First PROVE FALSE
      OBVIOUS
    <2>1. Distance(headSeen, First) = Distance(headSeen, tail) + 1
      BY <1>2, <1>3, Stepped
    <2>2. Distance(headSeen, tail) \in Int
      BY <1>2, Ring DEF Slots
    <2> QED
      BY <1>2, <2>1, <2>2
  <1>5. Distance(First', tail') = n + 1 /\ n < Capacity
    <2>1. n # Capacity /\ Distance(First, advance(tail)) = n + 1
      BY <1>2, <1>4, Stepped
    <2> QED
      BY <1>1, <1>2, <2>1, ParamAssumption DEF InsideOK
  <1>6. /\ Inside \in Seq(Items) /\ Len(Inside) = n /\ n \in Nat
        /\ \A i \in 1 .. n : Inside[i] = ring[Place(First, i - 1)]
    BY <1>1 DEF InsideOK
  <1>7. /\ Inside' \in Seq(Items) /\ Len(Inside') = n + 1
        /\ \A i \in 1 .. n + 1 : Inside'[i] = ring[Place(First, i - 1)]
    BY <1>1, <1>2, <1>5 DEF InsideOK, Place
  <1>8. Place(First, n) = tail
    <2>1. n \in Slots
      BY <1>2, Ring
    <2> QED
      BY <1>2, <2>1, PlaceFound, Turned
  <1> HIDE DEF n
  <1>9. Inside'[n + 1] = x
    BY <1>6, <1>7, <1>8
  <1> HIDE DEF x
  <1>10. Inside' = Append(Inside, x)
    <2>1. Append(Inside, x) \in Seq(Items) /\ Len(Append(Inside, x)) = n + 1
      BY <1>3, <1>6
    <2>2. \A i \in 1 .. n + 1 : Inside'[i] = Append(Inside, x)[i]
      BY <1>3, <1>6, <1>7, <1>9
    <2> QED
      BY <1>7, <2>1, <2>2
  <1> QED
    BY <1>2, <1>3, <1>5, <1>6, <1>10 DEF Fifo!Enqueue

\* The move out of the slot is Dequeue.
LEMMA MoveDequeues == ASSUME IInv, PopMove PROVE Fifo!Dequeue("consumer")
  <1> DEFINE n == Distance(First, tail)
  <1>1. InsideOK /\ InsideOK'
    <2>1. IInv' => InsideOK'
      BY InsideFound, PTL
    <2> QED
      BY <2>1, InsideFound, PopMoveStep
  <1>2. /\ pop = "move" /\ out' = ring[head] /\ ring' = [ring EXCEPT ![head] = NoItem]
        /\ First = head /\ First' = advance(head) /\ tail' = tail
        /\ head \in Slots /\ tail \in Slots /\ advance(head) \in Slots /\ head # tail
    BY Facts, Ring DEF PopMove, indices, First
  <1>3. /\ Distance(First', tail') = n - 1 /\ n \in Nat /\ n - 1 \in Nat
        /\ n <= Capacity /\ Capacity \in Nat
    <2>1. n # 0 /\ Distance(advance(head), tail) = n - 1 /\ n \in Nat
      BY <1>1, <1>2, Stepped DEF InsideOK
    <2> QED
      BY <1>1, <1>2, <2>1, ParamAssumption DEF Distance, InsideOK
  <1>4. /\ Inside \in Seq(Items) /\ Len(Inside) = n
        /\ \A i \in 1 .. n : Inside[i] = ring[Place(head, i - 1)]
    BY <1>1, <1>2 DEF InsideOK
  <1>5. /\ Inside' \in Seq(Items) /\ Len(Inside') = n - 1
        /\ \A i \in 1 .. n - 1 : Inside'[i] = ring'[Place(advance(head), i - 1)]
    BY <1>1, <1>2, <1>3 DEF InsideOK, Place
  <1> HIDE DEF n
  <1>6. ASSUME NEW i \in 1 .. n - 1 PROVE Inside'[i] = Inside[i + 1]
    <2>1. /\ i \in Slots /\ i - 1 \in Slots /\ i + 1 \in 1 .. n /\ (i + 1) - 1 = i
      BY <1>3 DEF Slots
    <2>2. /\ Place(head, i) \in Slots /\ Distance(head, Place(head, i)) = i
          /\ Place(advance(head), i - 1) \in Slots
          /\ Distance(advance(head), Place(advance(head), i - 1)) = i - 1
      BY <1>2, <2>1, PlaceFound
    <2>3. Place(head, i) # head
      BY <1>2, <2>2, Stepped, <1>3
    <2>4. Distance(advance(head), Place(head, i)) = i - 1
      BY <1>2, <2>2, <2>3, Stepped
    <2>5. Place(head, i) = Place(advance(head), i - 1)
      BY <1>2, <2>2, <2>4, Turned
    <2>6. ring'[Place(head, i)] = ring[Place(head, i)]
      BY <1>2, <2>2, <2>3 DEF IInv, TypeOK
    <2> QED
      BY <1>4, <1>5, <2>1, <2>5, <2>6
  <1>7. Inside[1] = ring[head]
    <2>1. 0 \in Slots /\ 1 \in 1 .. n /\ 1 - 1 = 0
      BY <1>3 DEF Slots
    <2>2. Place(head, 0) = head
      BY <1>2, <2>1, PlaceFound, Stepped
    <2> QED
      BY <1>4, <2>1, <2>2
  <1>8. Inside # <<>> /\ Head(Inside) = ring[head]
    BY <1>3, <1>4, <1>7
  <1>9. Inside' = Tail(Inside)
    <2>1. Tail(Inside) \in Seq(Items) /\ Len(Tail(Inside)) = n - 1
      BY <1>3, <1>4, <1>8
    <2>2. \A i \in 1 .. n - 1 : Tail(Inside)[i] = Inside[i + 1]
      BY <1>3, <1>4, <1>8
    <2> QED
      BY <1>5, <1>6, <2>1, <2>2
  <1> QED
    BY <1>2, <1>8, <1>9 DEF Fifo!Dequeue

\* No other step is seen.
LEMMA OthersStutter ==
  ASSUME IInv, [Next]_vars, ~PushPublish, ~PopMove
  PROVE  UNCHANGED <<Inside, out>>
  <1>1. IInv'
    BY Inductive
  <1>2. CASE PushWrite
    <2>1. /\ ring' = [ring EXCEPT ![tail] = push.item]
          /\ UNCHANGED <<head, tail, pop, out>> /\ First' = First
      BY <1>2 DEF PushWrite, indices, consumer_side, First
    <2>2. tail \notin Between(First, tail)
      <3>1. Distance(First, tail) \in Int
        BY InsideFound DEF InsideOK
      <3> QED
        BY <3>1 DEF Between
    <2> QED
      BY <1>1, <2>1, <2>2, SameInside DEF IInv, TypeOK, Between
  <1>3. CASE PopPublish
    <2>1. UNCHANGED <<tail, ring, out>> /\ First' = First
      BY <1>3 DEF PopPublish, First
    <2> QED
      BY <1>1, <2>1, SameInside
  <1>4. CASE PopCheck
    <2>1. UNCHANGED <<tail, ring, head, out>> /\ pop = "idle" /\ pop' # "publish"
      BY <1>4 DEF PopCheck
    <2> QED
      BY <1>1, <2>1, SameInside DEF First
  <1>5. ASSUME \/ \E x \in Items : PushCopy(x) \/ PushMove(x)
               \/ ProducerSize \/ ConsumerSize \/ UNCHANGED vars
        PROVE  UNCHANGED <<Inside, out>>
    <2>1. UNCHANGED <<tail, ring, head, pop, out>>
      BY <1>5 DEF PushCopy, PushMove, PushCheck, ProducerSize, ConsumerSize, vars,
         consumer_side, producer_side
    <2> QED
      BY <1>1, <2>1, SameInside DEF First
  <1> QED
    BY <1>2, <1>3, <1>4, <1>5 DEF Next, Producing, Consuming

\* Whatever the loads return, and whichever push is called, the ring is the
\* atomic bounded queue of BoundedFifo, for every capacity.
THEOREM Refinement == Spec => ImplementsFifo
  <1>1. Init => Fifo!Init
    <2> SUFFICES ASSUME Init PROVE Fifo!Init
      OBVIOUS
    <2>1. InsideOK /\ First = 0 /\ tail = 0 /\ out = NoItem
      BY InitIInv, InsideFound DEF Init, First
    <2>2. Len(Inside) = 0
      <3>1. 0 \in Slots
        BY ParamAssumption DEF Slots
      <3> QED
        BY <2>1, <3>1, Stepped DEF InsideOK
    <2> QED
      BY <2>1, <2>2 DEF Fifo!Init, InsideOK
  <1>2. IInv /\ [Next]_vars => [Fifo!Next]_(Fifo!vars)
    <2> SUFFICES ASSUME IInv, [Next]_vars PROVE [Fifo!Next]_(Fifo!vars)
      OBVIOUS
    <2>1. CASE PushPublish
      BY <2>1, PublishEnqueues DEF Fifo!Next
    <2>2. CASE PopMove
      BY <2>2, MoveDequeues DEF Fifo!Next
    <2>3. CASE ~PushPublish /\ ~PopMove
      BY <2>3, OthersStutter DEF Fifo!vars
    <2> QED
      BY <2>1, <2>2, <2>3
  <1> QED
    BY <1>1, <1>2, Invariance, PTL DEF Spec, ImplementsFifo, Fifo!Spec

-----------------------------------------------------------------------------
(* The invariant                                                           *)

\* The process uses the device, or closes it; the producer is there meanwhile.
Using == {"open", "wait", "asleep", "size", "copy", "advance", "uncount", "wake"}
Closing == {"wakeAll", "stop", "join", "undefined"}

\* One process is in the driver at a time, the producer lives while it uses the
\* device, and outside of that the ring is as ring_reset leaves it.
Sessions ==
    /\ \A p \in Procs : pc[p] # "closed" => has_owner
    /\ \A p, q \in Procs : pc[p] # "closed" /\ pc[q] # "closed" => p = q
    /\ \A p \in Procs : pc[p] \in Using => Live /\ ~shutdown_session /\ ~should_stop
    /\ \A p \in Procs : pc[p] = "opening" => ~shutdown_session
    /\ thread # "none" => \E p \in Procs : pc[p] \in Using \union Closing
    /\ (\A p \in Procs : pc[p] \in {"closed", "opening", "disown"}) =>
            read_idx = 0 /\ write_idx = 0 /\ available = 0

\* Whether a record is published and not yet counted, or given back and still
\* counted.
Uncounted == IF thread = "count" THEN 1 ELSE 0
Overcounted == IF \E p \in Procs : pc[p] = "uncount" THEN 1 ELSE 0

\* What the producer knows of the ring, and the count of it.
Pushing == Live =>
    /\ available = Stored - Uncounted + Overcounted
    /\ thread = "count" => Stored >= 1
    /\ thread \in {"copy", "publish"} => Stored < Size - 1
    /\ thread = "publish" => records[write_idx] = seq_no - 1

\* What the reader knows of it.
Popping == \A p \in Procs :
    /\ pc[p] \in {"wait", "asleep", "size"} => want[p] >= 1
    /\ pc[p] \in {"copy", "advance", "uncount"} => 1 <= want[p] /\ want[p] <= available
    /\ pc[p] \in {"advance", "uncount"} => got[p] >= first

\* The records of the session are numbered from `first`.
Numbered ==
    /\ seq_no >= first
    /\ thread \in {"wait", "asleep", "copy", "publish"} => seq_no > first

Sequence == Live => \A i \in 0 .. Size - 2 :
    i < Stored => /\ records[Cell(i)] = Newest - (Stored - 1 - i)
                  /\ records[Cell(i)] >= first

TelIInv == TelTypeOK /\ Sessions /\ Pushing /\ Popping /\ Numbered /\ Sequence

-----------------------------------------------------------------------------
(* The arithmetic of the ring                                              *)

\* One turn round the ring ends at the cell where it began.
LEMMA NextCell ==
    ASSUME NEW i \in Cells
    PROVE  /\ NextIdx(i) = IF i = Size - 1 THEN 0 ELSE i + 1
           /\ NextIdx(i) \in Cells
  <1>1. Size \in Nat /\ Size >= 2 /\ i \in Nat /\ i <= Size - 1
    BY TelemetryAssumption DEF Cells
  <1> DEFINE x == i + 1
             q == x \div Size
             r == x % Size
  <1>2. x = Size * q + r /\ q \in Int /\ r \in 0 .. Size - 1
    BY <1>1
  <1>3. x \in Nat /\ x <= Size
    BY <1>1
  <1>4. x = i + 1 /\ NextIdx(i) = r
    BY DEF NextIdx
  <1> HIDE DEF x, q, r
  <1>5. CASE q <= -1
    <2>1. Size * (-1 - q) \in Nat /\ Size * (-1 - q) = -Size - Size * q
      BY <1>1, <1>2, <1>5
    <2>2. QED
      BY <1>1, <1>2, <1>3, <2>1
  <1>6. CASE q >= 2
    <2>1. Size * (q - 2) \in Nat /\ Size * (q - 2) = Size * q - 2 * Size
      BY <1>1, <1>2, <1>6
    <2>2. QED
      BY <1>1, <1>2, <1>3, <2>1
  <1>7. CASE q = 0
    <2>1. Size * q = 0
      BY <1>1, <1>7
    <2>2. x = r /\ r <= Size - 1
      BY <1>1, <1>2, <1>3, <2>1
    <2>3. QED
      BY <1>1, <1>4, <2>2 DEF Cells
  <1>8. CASE q = 1
    <2>1. Size * q = Size
      BY <1>1, <1>8
    <2>2. x = Size + r /\ r = 0
      BY <1>1, <1>2, <1>3, <2>1
    <2>3. QED
      BY <1>1, <1>4, <2>2 DEF Cells
  <1>9. QED
    BY <1>2, <1>5, <1>6, <1>7, <1>8

\* What the indices say of the number of records.
LEMMA Holding ==
    ASSUME TelTypeOK
    PROVE  /\ Stored \in 0 .. Size - 1
           /\ Empty <=> Stored = 0
           /\ Full <=> Stored = Size - 1
           /\ \A i \in 0 .. Size - 1 : Cell(i) \in Cells
           /\ Cell(0) = read_idx /\ Cell(Stored) = write_idx
           /\ \A i \in 0 .. Size - 1 : i < Stored => Cell(i) # write_idx
  <1>1. /\ Size \in Nat /\ Size >= 2 /\ read_idx \in Nat /\ write_idx \in Nat
        /\ read_idx <= Size - 1 /\ write_idx <= Size - 1
    BY TelemetryAssumption DEF TelTypeOK, Cells
  <1>2. NextIdx(write_idx) = IF write_idx = Size - 1 THEN 0 ELSE write_idx + 1
    BY NextCell DEF TelTypeOK
  <1>3. Full <=> Stored = Size - 1
    BY <1>1, <1>2 DEF Full, Stored
  <1>4. QED
    BY <1>1, <1>3 DEF Stored, Empty, Cell, Cells

\* A record more at one end, or one less at the other.
LEMMA Published ==
    ASSUME TelTypeOK, Stored < Size - 1, write_idx' = NextIdx(write_idx), UNCHANGED read_idx
    PROVE  /\ Stored' = Stored + 1 /\ write_idx' \in Cells
           /\ \A i \in 0 .. Size - 1 : Cell(i)' = Cell(i)
  <1>1. /\ Size \in Nat /\ Size >= 2 /\ read_idx \in Nat /\ write_idx \in Nat
        /\ read_idx <= Size - 1 /\ write_idx <= Size - 1
    BY TelemetryAssumption DEF TelTypeOK, Cells
  <1>2. write_idx' = (IF write_idx = Size - 1 THEN 0 ELSE write_idx + 1) /\ write_idx' \in Cells
    BY NextCell DEF TelTypeOK
  <1>3. QED
    BY <1>1, <1>2 DEF Stored, Cell

LEMMA GivenBack ==
    ASSUME TelTypeOK, Stored >= 1, read_idx' = NextIdx(read_idx), UNCHANGED write_idx
    PROVE  /\ Stored' = Stored - 1 /\ read_idx' \in Cells
           /\ \A i \in 0 .. Size - 2 : Cell(i)' = Cell(i + 1)
  <1>1. /\ Size \in Nat /\ Size >= 2 /\ read_idx \in Nat /\ write_idx \in Nat
        /\ read_idx <= Size - 1 /\ write_idx <= Size - 1
    BY TelemetryAssumption DEF TelTypeOK, Cells
  <1>2. read_idx' = (IF read_idx = Size - 1 THEN 0 ELSE read_idx + 1) /\ read_idx' \in Cells
    BY NextCell DEF TelTypeOK
  <1>3. QED
    BY <1>1, <1>2 DEF Stored, Cell

\* One step of one process, and what the count is off by.
LEMMA Moves ==
    ASSUME TelTypeOK, NEW p \in Procs, NEW v, pc' = [pc EXCEPT ![p] = v]
    PROVE  pc'[p] = v /\ \A q \in Procs : q # p => pc'[q] = pc[q]
  BY DEF TelTypeOK

LEMMA Woken ==
    ASSUME TelTypeOK, WakeReaders
    PROVE  \A p \in Procs : \/ pc'[p] = pc[p]
                            \/ pc[p] = "asleep" /\ pc'[p] = "wait"
  BY DEF TelTypeOK, WakeReaders, Awake

LEMMA Off ==
    ASSUME Sessions, NEW p \in Procs, pc[p] # "closed"
    PROVE  /\ \A q \in Procs : q # p => pc[q] = "closed"
           /\ Overcounted = IF pc[p] = "uncount" THEN 1 ELSE 0
  BY DEF Sessions, Overcounted

LEMMA TelInitially == TelInit => TelIInv
  <1> SUFFICES ASSUME TelInit PROVE TelIInv
    OBVIOUS
  <1>1. Size \in Nat /\ Size >= 2 /\ MaxRead \in Nat
    BY TelemetryAssumption
  <1>2. TelTypeOK
    <2>1. records \in [Cells -> Nat] /\ pc \in [Procs -> {"closed"}]
      BY DEF TelInit
    <2>2. want \in [Procs -> 0 .. MaxRead] /\ got \in [Procs -> Nat]
      BY <1>1 DEF TelInit
    <2>3. 0 \in Cells /\ 0 \in 0 .. Size
      BY <1>1 DEF Cells
    <2>4. QED
      BY <2>1, <2>2, <2>3 DEF TelInit, TelTypeOK
  <1>3. Sessions
    BY DEF TelInit, Sessions, Using, Closing
  <1>4. Pushing /\ Popping /\ Sequence
    BY DEF TelInit, Pushing, Popping, Sequence, Live
  <1>5. Numbered
    BY DEF TelInit, Numbered
  <1>6. QED
    BY <1>2, <1>3, <1>4, <1>5 DEF TelIInv

-----------------------------------------------------------------------------
(* Typing                                                                  *)

LEMMA TelTypeStep ==
    ASSUME TelIInv, TelNext PROVE TelTypeOK'
  <1>0. TelTypeOK
    BY DEF TelIInv
  <1>a. Size \in Nat /\ Size >= 2 /\ MaxRead \in Nat \ {0} /\ Cells \subseteq Nat
    BY TelemetryAssumption DEF Cells
  <1>b. Stored \in 0 .. Size - 1
    BY <1>0, Holding
  <1>1. CASE Generate \/ WaitForSpace \/ Slept
    BY <1>0, <1>1 DEF TelTypeOK, Generate, WaitForSpace, Slept, Proceed, ring_buf, session
  <1>2. CASE PushRecord
    <2>1. CASE Full
      BY <1>0, <1>2, <2>1 DEF TelTypeOK, PushRecord, Proceed, session
    <2>2. CASE ~Full
      <3>1. seq_no - 1 \in Nat
        BY <1>0, <1>2, <2>2 DEF TelIInv, Numbered, TelTypeOK, PushRecord, Proceed
      <3>2. records' \in [Cells -> Nat]
        BY <1>0, <1>2, <2>2, <3>1 DEF TelTypeOK, PushRecord
      <3>3. QED
        BY <1>0, <1>2, <2>2, <3>2 DEF TelTypeOK, PushRecord, Proceed, session
    <2>3. QED
      BY <2>1, <2>2
  <1>3. CASE PushIndex
    <2>1. write_idx' \in Cells
      BY <1>0, <1>3, NextCell DEF TelTypeOK, PushIndex
    <2>2. QED
      BY <1>0, <1>3, <2>1 DEF TelTypeOK, PushIndex, Proceed, session
  <1>4. CASE PushCount
    <2>1. available = Stored - 1 + Overcounted
      BY <1>4 DEF TelIInv, Pushing, PushCount, Proceed, Live, Uncounted
    <2>2. Overcounted \in 0 .. 1
      BY DEF Overcounted
    <2>3. available + 1 \in 0 .. Size
      BY <1>0, <1>a, <1>b, <2>1, <2>2 DEF TelTypeOK
    <2>4. QED
      BY <1>0, <1>4, <2>3 DEF TelTypeOK, PushCount, Proceed, session
  <1>5. CASE PushWake
    <2>1. pc' \in [Procs -> {"closed", "opening", "open", "wait", "asleep", "size", "copy",
                             "advance", "uncount", "wake", "wakeAll", "stop", "join",
                             "reset", "disown", "undefined"}]
      BY <1>0, <1>5 DEF TelTypeOK, PushWake, WakeReaders, Awake
    <2>2. QED
      BY <1>0, <1>5, <2>1 DEF TelTypeOK, PushWake, Proceed, ring_buf, session
  <1>6. ASSUME NEW p \in Procs, Open(p) \/ StartProducer(p) PROVE TelTypeOK'
    BY <1>0, <1>6 DEF TelTypeOK, Open, StartProducer, Goto, ring_buf
  <1>7. ASSUME NEW p \in Procs, Read(p) PROVE TelTypeOK'
    <2>1. want' \in [Procs -> 0 .. MaxRead]
      BY <1>0, <1>a, <1>7 DEF TelTypeOK, Read
    <2>2. QED
      BY <1>0, <1>7, <2>1 DEF TelTypeOK, Read, Goto, ring_buf, session
  <1>8. ASSUME NEW p \in Procs, WaitForData(p) \/ Interrupted(p) PROVE TelTypeOK'
    BY <1>0, <1>8 DEF TelTypeOK, WaitForData, Interrupted, Goto, ring_buf, session
  <1>9. ASSUME NEW p \in Procs, SizeRead(p) PROVE TelTypeOK'
    <2>1. want' \in [Procs -> 0 .. MaxRead]
      <3> DEFINE n == IF available < want[p] THEN available ELSE want[p]
      <3>1. n \in 0 .. MaxRead
        BY <1>0, <1>a DEF TelTypeOK
      <3>2. want' = want \/ want' = [want EXCEPT ![p] = n]
        BY <1>9 DEF SizeRead
      <3> HIDE DEF n
      <3>3. QED
        BY <1>0, <3>1, <3>2 DEF TelTypeOK
    <2>2. pc' = [pc EXCEPT ![p] = "copy"] \/ pc' = [pc EXCEPT ![p] = "open"]
      BY <1>9 DEF SizeRead, Goto
    <2>3. QED
      BY <1>0, <1>9, <2>1, <2>2 DEF TelTypeOK, SizeRead, ring_buf, session
  <1>10. ASSUME NEW p \in Procs, PopCopy(p) PROVE TelTypeOK'
    <2>1. want[p] \in 1 .. MaxRead
      BY <1>0, <1>10 DEF TelTypeOK, PopCopy, TelIInv, Popping
    <2>2. want' \in [Procs -> 0 .. MaxRead]
      <3>1. want[p] - 1 \in 0 .. MaxRead
        BY <1>a, <2>1
      <3>2. want' = want \/ want' = [want EXCEPT ![p] = want[p] - 1]
        BY <1>10 DEF PopCopy
      <3>3. QED
        BY <1>0, <3>1, <3>2 DEF TelTypeOK
    <2>3. got' \in [Procs -> Nat]
      BY <1>0, <1>10 DEF TelTypeOK, PopCopy
    <2>4. QED
      BY <1>0, <1>10, <2>2, <2>3 DEF TelTypeOK, PopCopy, ring_buf, session
  <1>11. ASSUME NEW p \in Procs, PopIndex(p) PROVE TelTypeOK'
    <2>1. read_idx' \in Cells
      BY <1>0, <1>11, NextCell DEF TelTypeOK, PopIndex
    <2>2. QED
      BY <1>0, <1>11, <2>1 DEF TelTypeOK, PopIndex, Goto, session
  <1>12. ASSUME NEW p \in Procs, PopCount(p) PROVE TelTypeOK'
    <2>1. want[p] \in 1 .. MaxRead /\ want[p] <= available /\ available \in 0 .. Size
      BY <1>0, <1>12 DEF TelTypeOK, PopCount, TelIInv, Popping
    <2>2. want[p] - 1 \in 0 .. MaxRead /\ available - 1 \in 0 .. Size
      BY <1>a, <2>1
    <2>3. want' \in [Procs -> 0 .. MaxRead] /\ available' \in 0 .. Size
      BY <1>0, <1>12, <2>2 DEF TelTypeOK, PopCount
    <2>4. QED
      BY <1>0, <1>12, <2>3 DEF TelTypeOK, PopCount, session
  <1>13. ASSUME NEW p \in Procs, ReadWake(p) \/ ReleaseWake(p) \/ StopThread(p)
         PROVE TelTypeOK'
    <2>1. thread' \in {"none", "generate", "wait", "asleep", "copy", "publish", "count",
                         "wake", "sleep", "exited", "gone"}
      BY <1>0, <1>13 DEF TelTypeOK, ReadWake, ReleaseWake, StopThread, Awake
    <2>2. got' \in [Procs -> Nat]
      BY <1>0, <1>13 DEF TelTypeOK, ReadWake, ReleaseWake, StopThread
    <2>3. should_stop' \in BOOLEAN
      BY <1>0, <1>13 DEF TelTypeOK, ReadWake, ReleaseWake, StopThread, session
    <2>4. QED
      BY <1>0, <1>13, <2>1, <2>2, <2>3 DEF TelTypeOK, ReadWake, ReleaseWake, StopThread, Goto, ring_buf,
         session
  <1>14. ASSUME NEW p \in Procs, Release(p) \/ JoinThread(p) \/ Disown(p) PROVE TelTypeOK'
    BY <1>0, <1>14 DEF TelTypeOK, Release, JoinThread, Disown, Goto, ring_buf, session
  <1>15. ASSUME NEW p \in Procs, Reset(p) PROVE TelTypeOK'
    <2>1. 0 \in Cells /\ 0 \in 0 .. Size
      BY <1>a DEF Cells
    <2>2. QED
      BY <1>0, <1>15, <2>1 DEF TelTypeOK, Reset, Goto, session
  <1>16. CASE Reap
    BY <1>0, <1>16 DEF TelTypeOK, Reap, Proceed, ring_buf, session
  <1>17. QED
    BY <1>1, <1>2, <1>3, <1>4, <1>5, <1>6, <1>7, <1>8, <1>9, <1>10, <1>11, <1>12, <1>13,
       <1>14, <1>15, <1>16 DEF TelNext, ProducerStep, ProcStep

-----------------------------------------------------------------------------
(* Sessions                                                                *)

\* A session goes on while its process does and nothing stops the producer.
LEMMA SessionKept ==
    ASSUME TelTypeOK, Sessions, UNCHANGED <<has_owner, shutdown_session, should_stop>>,
           \A p \in Procs : /\ pc'[p] = "closed" <=> pc[p] = "closed"
                            /\ pc'[p] \in Using <=> pc[p] \in Using
                            /\ pc'[p] \in Closing <=> pc[p] \in Closing
                            /\ pc'[p] = "opening" <=> pc[p] = "opening"
                            /\ pc'[p] = "disown" <=> pc[p] = "disown",
           thread' = "none" <=> thread = "none",
           \/ thread' \in {"exited", "gone"} => thread' = thread
           \/ \A p \in Procs : pc[p] \notin Using,
           \/ UNCHANGED <<read_idx, write_idx, available>>
           \/ thread # "none"
    PROVE  Sessions'
  <1>1. \A p \in Procs : pc'[p] # "closed" => has_owner'
    BY DEF Sessions
  <1>2. \A p, q \in Procs : pc'[p] # "closed" /\ pc'[q] # "closed" => p = q
    BY DEF Sessions
  <1>3. \A p \in Procs :
            pc'[p] \in Using => Live' /\ ~shutdown_session' /\ ~should_stop'
    BY DEF Sessions, Live
  <1>4. \A p \in Procs : pc'[p] = "opening" => ~shutdown_session'
    BY DEF Sessions
  <1>5. thread' # "none" => \E p \in Procs : pc'[p] \in Using \union Closing
    BY DEF Sessions
  <1>6. (\A p \in Procs : pc'[p] \in {"closed", "opening", "disown"}) =>
            read_idx' = 0 /\ write_idx' = 0 /\ available' = 0
    <2>1. SUFFICES ASSUME \A p \in Procs : pc'[p] \in {"closed", "opening", "disown"}
                   PROVE  read_idx' = 0 /\ write_idx' = 0 /\ available' = 0
      OBVIOUS
    <2>2. \A p \in Procs : pc[p] \in {"closed", "opening", "disown"}
      BY <2>1
    <2>3. thread = "none"
      BY <2>2 DEF Sessions, Using, Closing
    <2>4. QED
      BY <2>2, <2>3 DEF Sessions
  <1>7. QED
    BY <1>1, <1>2, <1>3, <1>4, <1>5, <1>6 DEF Sessions

LEMMA SessionsStep ==
    ASSUME TelTypeOK, Sessions, TelNext PROVE Sessions'
  <1>1. CASE ProducerStep
    <2>1. CASE PushWake
      <3>1. /\ UNCHANGED <<has_owner, shutdown_session, should_stop, ring_buf>>
            /\ thread' = "sleep" /\ thread = "wake" /\ WakeReaders
        BY <2>1 DEF PushWake, Proceed, session
      <3>2. QED
        BY <3>1, Woken, SessionKept DEF Using, Closing, ring_buf
    <2>2. CASE ~PushWake
      <3>1. /\ UNCHANGED <<has_owner, shutdown_session, should_stop, pc>>
            /\ thread # "none" /\ thread' # "none"
        BY <1>1, <2>2 DEF ProducerStep, Generate, WaitForSpace, PushRecord, PushIndex,
           PushCount, Slept, Proceed, session
      <3>2. /\ thread' # "gone"
            /\ thread' = "exited" => should_stop \/ shutdown_session
        BY <1>1, <2>2 DEF ProducerStep, Generate, WaitForSpace, PushRecord, PushIndex,
           PushCount, Slept, Proceed
      <3>3. should_stop \/ shutdown_session => \A p \in Procs : pc[p] \notin Using
        BY DEF Sessions
      <3>4. QED
        BY <3>1, <3>2, <3>3, SessionKept
    <2>3. QED
      BY <2>1, <2>2
  <1>2. ASSUME NEW p \in Procs,
               Read(p) \/ WaitForData(p) \/ Interrupted(p) \/ SizeRead(p) \/ PopCopy(p)
                  \/ PopIndex(p) \/ PopCount(p) \/ ReadWake(p)
        PROVE  Sessions'
    <2>1. PICK v \in Using : pc' = [pc EXCEPT ![p] = v]
      BY <1>2 DEF Read, WaitForData, Interrupted, SizeRead, PopCopy, PopIndex, PopCount,
         ReadWake, Goto, Using
    <2>2. pc[p] \in Using
      BY <1>2 DEF Read, WaitForData, Interrupted, SizeRead, PopCopy, PopIndex, PopCount,
         ReadWake, Goto, Using
    <2>3. UNCHANGED <<has_owner, shutdown_session, should_stop>>
      BY <1>2 DEF Read, WaitForData, Interrupted, SizeRead, PopCopy, PopIndex, PopCount,
         ReadWake, session
    <2>4. /\ thread # "none"
          /\ \/ thread' = thread
             \/ thread = "asleep" /\ thread' = "wait"
      <3>1. thread # "none"
        BY <2>2 DEF Sessions, Live
      <3>2. thread' = thread \/ thread' = Awake(thread)
        BY <1>2 DEF Read, WaitForData, Interrupted, SizeRead, PopCopy, PopIndex, PopCount,
           ReadWake
      <3>3. QED
        BY <3>1, <3>2 DEF Awake
    <2>5. \A q \in Procs : q # p => pc'[q] = pc[q]
      BY <2>1, Moves
    <2>6. pc'[p] \in Using
      BY <2>1, Moves
    <2>7. QED
      BY <2>2, <2>3, <2>4, <2>5, <2>6, SessionKept DEF Using, Closing
  <1>3. ASSUME NEW p \in Procs, ReleaseWake(p) \/ StopThread(p) PROVE Sessions'
    <2>1. /\ pc[p] \in {"wakeAll", "stop"} /\ pc'[p] \in {"stop", "join", "undefined"}
          /\ \A q \in Procs : q # p => pc'[q] = pc[q]
      BY <1>3, Moves DEF ReleaseWake, StopThread, Goto
    <2>2. UNCHANGED <<has_owner, shutdown_session, ring_buf>>
      BY <1>3 DEF ReleaseWake, StopThread, session
    <2>3. \A q \in Procs : q # p => pc[q] = "closed"
      BY <2>1 DEF Sessions
    <2>4. \/ thread' = thread
          \/ thread = "asleep" /\ thread' = "wait"
      BY <1>3 DEF ReleaseWake, StopThread, Awake
    <2>5. QED
      BY <2>1, <2>2, <2>3, <2>4 DEF Sessions, Using, Closing, ring_buf
  <1>4. ASSUME NEW p \in Procs, Open(p) PROVE Sessions'
    <2>1. /\ pc'[p] = "opening" /\ \A q \in Procs : q # p => pc'[q] = pc[q]
          /\ \A q \in Procs : pc[q] = "closed"
      BY <1>4, Moves DEF Open, Goto, Sessions
    <2>2. has_owner' /\ ~shutdown_session' /\ UNCHANGED <<read_idx, write_idx, available, thread>>
      BY <1>4 DEF Open, ring_buf
    <2>3. QED
      BY <2>1, <2>2 DEF Sessions, Using, Closing
  <1>5. ASSUME NEW p \in Procs, StartProducer(p) PROVE Sessions'
    <2>1. /\ pc[p] = "opening" /\ \A q \in Procs : q # p => pc'[q] = pc[q]
          /\ \A q \in Procs : q # p => pc[q] = "closed"
          /\ has_owner /\ ~shutdown_session
      BY <1>5, Moves DEF StartProducer, Goto, Sessions
    <2>2. thread = "none" /\ read_idx = 0 /\ write_idx = 0 /\ available = 0
      <3>1. \A q \in Procs : pc[q] \in {"closed", "opening", "disown"}
        BY <2>1
      <3>2. QED
        BY <3>1 DEF Sessions, Using, Closing
    <2>3. UNCHANGED <<read_idx, write_idx, available, shutdown_session>>
      BY <1>5 DEF StartProducer, ring_buf
    <2>4. CASE pc'[p] = "open"
      <3>1. thread' = "generate" /\ ~should_stop' /\ has_owner'
        BY <1>5, <2>1, <2>4, Moves DEF StartProducer, Goto
      <3>2. QED
        BY <2>1, <2>3, <2>4, <3>1 DEF Sessions, Using, Closing, Live
    <2>5. CASE pc'[p] = "closed"
      <3>1. thread' = "none" /\ \A q \in Procs : pc'[q] = "closed"
        BY <1>5, <2>1, <2>2, <2>5, Moves DEF StartProducer, Goto
      <3>2. QED
        BY <2>2, <2>3, <3>1 DEF Sessions, Using, Closing
    <2>6. QED
      BY <1>5, <2>4, <2>5, Moves DEF StartProducer, Goto
  <1>6. ASSUME NEW p \in Procs, Release(p) PROVE Sessions'
    <2>1. /\ pc[p] = "open" /\ pc'[p] = "wakeAll"
          /\ \A q \in Procs : q # p => pc'[q] = pc[q]
      BY <1>6, Moves DEF Release, Goto
    <2>2. UNCHANGED <<has_owner, should_stop, ring_buf, thread>>
      BY <1>6 DEF Release
    <2>3. \A q \in Procs : q # p => pc[q] = "closed"
      BY <2>1 DEF Sessions
    <2>4. QED
      BY <2>1, <2>2, <2>3 DEF Sessions, Using, Closing, ring_buf
  <1>7. ASSUME NEW p \in Procs, JoinThread(p) PROVE Sessions'
    <2>1. /\ pc[p] = "join" /\ pc'[p] = "reset" /\ thread' = "none"
          /\ \A q \in Procs : q # p => pc'[q] = pc[q]
      BY <1>7, Moves DEF JoinThread, Goto
    <2>2. UNCHANGED <<has_owner, should_stop, shutdown_session>>
      BY <1>7 DEF JoinThread, session
    <2>3. \A q \in Procs : q # p => pc[q] = "closed"
      BY <2>1 DEF Sessions
    <2>4. QED
      BY <2>1, <2>2, <2>3 DEF Sessions, Using, Closing
  <1>8. ASSUME NEW p \in Procs, Reset(p) PROVE Sessions'
    <2>1. /\ pc[p] = "reset" /\ pc'[p] = "disown"
          /\ \A q \in Procs : q # p => pc'[q] = pc[q]
      BY <1>8, Moves DEF Reset, Goto
    <2>2. UNCHANGED <<has_owner, should_stop, shutdown_session, thread>>
          /\ available' = 0 /\ read_idx' = 0 /\ write_idx' = 0
      BY <1>8 DEF Reset, session
    <2>3. \A q \in Procs : q # p => pc[q] = "closed"
      BY <2>1 DEF Sessions
    <2>4. QED
      BY <2>1, <2>2, <2>3 DEF Sessions, Using, Closing
  <1>9. ASSUME NEW p \in Procs, Disown(p) PROVE Sessions'
    <2>1. /\ pc[p] = "disown" /\ pc'[p] = "closed"
          /\ \A q \in Procs : q # p => pc'[q] = pc[q]
      BY <1>9, Moves DEF Disown, Goto
    <2>2. UNCHANGED <<should_stop, shutdown_session, thread, ring_buf>>
      BY <1>9 DEF Disown
    <2>3. \A q \in Procs : q # p => pc[q] = "closed"
      BY <2>1 DEF Sessions
    <2>4. QED
      BY <2>1, <2>2, <2>3 DEF Sessions, Using, Closing, ring_buf
  <1>10. CASE Reap
    <2>1. /\ thread = "exited" /\ thread' = "gone"
          /\ UNCHANGED <<ring_buf, session, pc>>
      BY <1>10 DEF Reap, Proceed
    <2>2. \A p \in Procs : pc[p] \notin Using
      BY <2>1 DEF Sessions, Live
    <2>3. QED
      BY <2>1, <2>2 DEF Sessions, ring_buf, session
  <1>11. QED
    BY <1>1, <1>2, <1>3, <1>4, <1>5, <1>6, <1>7, <1>8, <1>9, <1>10 DEF TelNext, ProcStep

\* The thread that is reaped has returned: nothing is said of it.
LEMMA ReapStep ==
    ASSUME TelIInv, Reap PROVE TelIInv'
  <1>1. /\ TelTypeOK /\ Sessions /\ Pushing /\ Popping /\ Numbered
        /\ thread = "exited" /\ thread' = "gone" /\ ~Live /\ ~Live'
        /\ UNCHANGED <<ring_buf, session, seq_no, pc, want, got>>
    BY DEF TelIInv, Reap, Proceed, Live
  <1>2. TelTypeOK'
    BY <1>1 DEF TelTypeOK, ring_buf, session
  <1>3. Sessions'
    BY <1>1, SessionsStep DEF TelNext
  <1>4. Pushing' /\ Sequence'
    BY <1>1 DEF Pushing, Sequence
  <1>5. Popping' /\ Numbered'
    BY <1>1 DEF Popping, Numbered, ring_buf, session
  <1>6. QED
    BY <1>2, <1>3, <1>4, <1>5 DEF TelIInv

-----------------------------------------------------------------------------
(* What the producer knows                                                 *)

LEMMA PushingKept ==
    ASSUME Pushing, UNCHANGED ring_buf, Live' => Live,
           \A p \in Procs : pc'[p] = "uncount" <=> pc[p] = "uncount",
           thread' \in {"copy", "publish", "count"} => thread' = thread,
           thread' = "publish" => UNCHANGED seq_no,
           thread = "count" => thread' = "count"
    PROVE  Pushing'
  <1>1. Overcounted' = Overcounted
    BY DEF Overcounted
  <1>2. Uncounted' = Uncounted
    BY DEF Uncounted
  <1>3. Stored' = Stored
    BY DEF Stored, ring_buf
  <1>4. QED
    BY <1>1, <1>2, <1>3 DEF Pushing, ring_buf

LEMMA PushingStep ==
    ASSUME TelIInv, TelNext PROVE Pushing'
  <1>0. TelTypeOK /\ Sessions /\ Pushing /\ Popping
    BY DEF TelIInv
  <1>a. Size \in Nat /\ Size >= 2
    BY TelemetryAssumption
  <1>b. Stored \in 0 .. Size - 1 /\ available \in Nat
    BY <1>0, Holding DEF TelTypeOK
  <1>1. CASE Generate \/ Slept
    <2>1. UNCHANGED <<ring_buf, pc>>
      BY <1>1 DEF Generate, Slept
    <2>2. thread \in {"generate", "sleep"} /\ thread' \in {"exited", "wait", "generate"}
      BY <1>1 DEF Generate, Slept, Proceed
    <2>3. QED
      BY <1>0, <2>1, <2>2, PushingKept DEF Live
  <1>2. CASE WaitForSpace
    <2>1. UNCHANGED <<ring_buf, pc, seq_no>> /\ thread = "wait"
      BY <1>2 DEF WaitForSpace, Proceed
    <2>2. CASE thread' \in {"asleep", "exited"}
      BY <1>0, <2>1, <2>2, PushingKept DEF Live
    <2>3. CASE thread' = "copy"
      <3>1. ~Full
        BY <1>2, <2>3 DEF WaitForSpace, Proceed
      <3>2. Stored < Size - 1
        BY <1>0, <1>a, <1>b, <3>1, Holding
      <3>3. Stored' = Stored /\ Overcounted' = Overcounted /\ Uncounted' = 0 /\ Uncounted = 0
        BY <2>1, <2>3 DEF Stored, Overcounted, Uncounted, ring_buf
      <3>4. QED
        BY <1>0, <2>1, <2>3, <3>2, <3>3 DEF Pushing, Live, ring_buf
    <2>4. QED
      BY <1>2, <2>2, <2>3 DEF WaitForSpace, Proceed
  <1>3. CASE PushRecord
    <2>1. thread = "copy" /\ UNCHANGED <<read_idx, write_idx, available, pc, seq_no>>
      BY <1>3 DEF PushRecord, Proceed
    <2>2. Stored < Size - 1
      BY <1>0, <2>1 DEF Pushing, Live
    <2>3. ~Full
      BY <1>0, <1>a, <1>b, <2>2, Holding
    <2>4. thread' = "publish" /\ records' = [records EXCEPT ![write_idx] = seq_no - 1]
      BY <1>3, <2>3 DEF PushRecord, Proceed
    <2>5. records'[write_idx'] = seq_no' - 1
      BY <1>0, <2>1, <2>4 DEF TelTypeOK
    <2>6. Stored' = Stored /\ Overcounted' = Overcounted /\ Uncounted' = 0 /\ Uncounted = 0
      BY <2>1, <2>4 DEF Stored, Overcounted, Uncounted
    <2>7. QED
      BY <1>0, <2>1, <2>2, <2>4, <2>5, <2>6 DEF Pushing, Live
  <1>4. CASE PushIndex
    <2>1. /\ thread = "publish" /\ thread' = "count" /\ UNCHANGED <<read_idx, available, pc>>
          /\ write_idx' = NextIdx(write_idx)
      BY <1>4 DEF PushIndex, Proceed
    <2>2. Stored < Size - 1 /\ available = Stored - Uncounted + Overcounted
      BY <1>0, <2>1 DEF Pushing, Live
    <2>3. Stored' = Stored + 1
      BY <1>0, <2>1, <2>2, Published
    <2>4. Overcounted' = Overcounted /\ Uncounted' = 1 /\ Uncounted = 0 /\ Overcounted \in Nat
      BY <2>1 DEF Overcounted, Uncounted
    <2>5. QED
      BY <1>b, <2>1, <2>2, <2>3, <2>4 DEF Pushing
  <1>5. CASE PushCount
    <2>1. /\ thread = "count" /\ thread' = "wake" /\ UNCHANGED <<read_idx, write_idx, pc>>
          /\ available' = available + 1
      BY <1>5 DEF PushCount, Proceed
    <2>2. available = Stored - Uncounted + Overcounted
      BY <1>0, <2>1 DEF Pushing, Live
    <2>3. /\ Stored' = Stored /\ Overcounted' = Overcounted /\ Uncounted' = 0 /\ Uncounted = 1
          /\ Overcounted \in Nat
      BY <2>1 DEF Overcounted, Uncounted, Stored
    <2>4. QED
      BY <1>b, <2>1, <2>2, <2>3 DEF Pushing
  <1>6. CASE PushWake
    <2>1. UNCHANGED ring_buf /\ thread = "wake" /\ thread' = "sleep" /\ WakeReaders
      BY <1>6 DEF PushWake, Proceed
    <2>2. \A p \in Procs : pc'[p] = "uncount" <=> pc[p] = "uncount"
      BY <1>0, <2>1, Woken
    <2>3. QED
      BY <1>0, <2>1, <2>2, PushingKept DEF Live
  <1>7. ASSUME NEW p \in Procs,
               Open(p) \/ Read(p) \/ WaitForData(p) \/ Interrupted(p) \/ SizeRead(p)
                  \/ PopCopy(p) \/ Release(p) \/ JoinThread(p) \/ Disown(p)
        PROVE  Pushing'
    <2>1. UNCHANGED <<ring_buf, seq_no>> /\ (thread' = thread \/ thread' = "none")
      BY <1>7 DEF Open, Read, WaitForData, Interrupted, SizeRead, PopCopy, Release, JoinThread,
         Disown
    <2>2. thread' = "none" => thread \in {"none", "exited"}
      BY <1>7 DEF Open, Read, WaitForData, Interrupted, SizeRead, PopCopy, Release, JoinThread,
         Disown
    <2>3. pc[p] # "uncount"
      BY <1>7 DEF Open, Read, WaitForData, Interrupted, SizeRead, PopCopy, Release, JoinThread,
         Disown, Goto
    <2>4. \E v : pc' = [pc EXCEPT ![p] = v] /\ v # "uncount"
      BY <1>7 DEF Open, Read, WaitForData, Interrupted, SizeRead, PopCopy, Release, JoinThread,
         Disown, Goto
    <2>5. \A q \in Procs : pc'[q] = "uncount" <=> pc[q] = "uncount"
      BY <1>0, <2>3, <2>4, Moves
    <2>6. QED
      BY <1>0, <2>1, <2>2, <2>5, PushingKept DEF Live
  <1>8. ASSUME NEW p \in Procs, ReadWake(p) \/ ReleaseWake(p) \/ StopThread(p)
        PROVE  Pushing'
    <2>1. UNCHANGED <<ring_buf, seq_no>> /\ (thread' = Awake(thread) \/ thread' = thread)
      BY <1>8 DEF ReadWake, ReleaseWake, StopThread
    <2>2. pc[p] # "uncount" /\ \E v : pc' = [pc EXCEPT ![p] = v] /\ v # "uncount"
      BY <1>8 DEF ReadWake, ReleaseWake, StopThread, Goto
    <2>3. \A q \in Procs : pc'[q] = "uncount" <=> pc[q] = "uncount"
      BY <1>0, <2>2, Moves
    <2>4. QED
      BY <1>0, <2>1, <2>3, PushingKept DEF Live, Awake
  <1>9. ASSUME NEW p \in Procs, StartProducer(p) PROVE Pushing'
    <2>1. CASE pc' = [pc EXCEPT ![p] = "closed"] /\ UNCHANGED thread
      <3>1. \A q \in Procs : pc'[q] = "uncount" <=> pc[q] = "uncount"
        BY <1>0, <1>9, <2>1, Moves DEF StartProducer, Goto
      <3>2. UNCHANGED <<ring_buf, seq_no>>
        BY <1>9 DEF StartProducer
      <3>3. QED
        BY <1>0, <2>1, <3>1, <3>2, PushingKept DEF Live
    <2>2. CASE pc' = [pc EXCEPT ![p] = "open"] /\ thread' = "generate"
      <3>1. pc[p] = "opening" /\ \A q \in Procs : q # p => pc[q] = "closed"
        BY <1>0, <1>9 DEF StartProducer, Goto, Sessions
      <3>2. read_idx = 0 /\ write_idx = 0 /\ available = 0
        <4>1. \A q \in Procs : pc[q] \in {"closed", "opening", "disown"}
          BY <3>1
        <4>2. QED
          BY <1>0, <4>1 DEF Sessions
      <3>3. UNCHANGED ring_buf
        BY <1>9 DEF StartProducer
      <3>4. \A q \in Procs : pc'[q] # "uncount"
        BY <1>0, <2>2, <3>1, Moves
      <3>5. Stored' = 0 /\ Uncounted' = 0 /\ Overcounted' = 0 /\ available' = 0
        BY <2>2, <3>2, <3>3, <3>4 DEF Stored, Uncounted, Overcounted, ring_buf
      <3>6. QED
        BY <2>2, <3>5 DEF Pushing
    <2>3. QED
      BY <1>9, <2>1, <2>2 DEF StartProducer, Goto
  <1>10. ASSUME NEW p \in Procs, PopIndex(p) PROVE Pushing'
    <2>1. /\ pc[p] = "advance" /\ pc' = [pc EXCEPT ![p] = "uncount"]
          /\ read_idx' = NextIdx(read_idx)
          /\ UNCHANGED <<records, write_idx, available, thread, seq_no>>
      BY <1>10 DEF PopIndex, Goto
    <2>2. Live /\ 1 <= want[p] /\ want[p] <= available /\ want[p] \in Nat
      BY <1>0, <2>1 DEF Sessions, Using, Popping, TelTypeOK
    <2>3. Overcounted = 0 /\ pc'[p] = "uncount" /\ Overcounted' = 1
      BY <1>0, <2>1, Off, Moves DEF Overcounted
    <2>4. available = Stored - Uncounted + Overcounted
      BY <1>0, <2>2 DEF Pushing
    <2>5. Uncounted' = Uncounted /\ Uncounted \in 0 .. 1
      BY <2>1 DEF Uncounted
    <2>6. Stored >= 1 + Uncounted
      BY <1>a, <1>b, <2>2, <2>3, <2>4, <2>5
    <2>7. Stored' = Stored - 1
      BY <1>0, <1>b, <2>1, <2>5, <2>6, GivenBack
    <2>8. available' = Stored' - Uncounted' + Overcounted'
      BY <1>b, <2>1, <2>3, <2>4, <2>5, <2>7
    <2>9. thread = "count" => Stored' >= 1
      BY <1>b, <2>6, <2>7 DEF Uncounted
    <2>10. thread \in {"copy", "publish"} => Stored' < Size - 1
      BY <1>a, <1>b, <2>7
    <2>11. thread = "publish" => records[write_idx] = seq_no - 1
      BY <1>0, <2>2 DEF Pushing
    <2>12. QED
      BY <2>1, <2>8, <2>9, <2>10, <2>11 DEF Pushing
  <1>11. ASSUME NEW p \in Procs, PopCount(p) PROVE Pushing'
    <2>1. /\ pc[p] = "uncount" /\ available' = available - 1
          /\ \E v \in {"wake", "copy"} : pc' = [pc EXCEPT ![p] = v]
          /\ UNCHANGED <<records, read_idx, write_idx, thread, seq_no>>
      BY <1>11 DEF PopCount
    <2>2. Live
      BY <1>0, <2>1 DEF Sessions, Using
    <2>3. Overcounted = 1
      BY <2>1 DEF Overcounted
    <2>4. \A q \in Procs : pc'[q] # "uncount"
      <3>1. PICK v \in {"wake", "copy"} : pc' = [pc EXCEPT ![p] = v]
        BY <2>1
      <3>2. pc'[p] = v /\ \A q \in Procs : q # p => pc'[q] = pc[q]
        BY <1>0, <3>1, Moves
      <3>3. \A q \in Procs : q # p => pc[q] = "closed"
        BY <1>0, <2>1, Off
      <3>4. QED
        BY <3>2, <3>3
    <2>5. Overcounted' = 0 /\ Uncounted' = Uncounted /\ Stored' = Stored /\ Uncounted \in Nat
      BY <2>1, <2>4 DEF Overcounted, Uncounted, Stored
    <2>6. available' = Stored' - Uncounted' + Overcounted'
      BY <1>0, <1>b, <2>1, <2>2, <2>3, <2>5 DEF Pushing
    <2>7. QED
      BY <1>0, <2>1, <2>2, <2>5, <2>6 DEF Pushing
  <1>12. ASSUME NEW p \in Procs, Reset(p) PROVE Pushing'
    <2>1. pc[p] = "reset" /\ thread' = thread
      BY <1>12 DEF Reset, Goto
    <2>2. thread = "none"
      <3>1. \A q \in Procs : pc[q] \notin Using \union Closing
        BY <1>0, <2>1 DEF Sessions, Using, Closing
      <3>2. QED
        BY <1>0, <3>1 DEF Sessions
    <2>3. QED
      BY <2>1, <2>2 DEF Pushing, Live
  <1>13. QED
    BY <1>1, <1>2, <1>3, <1>4, <1>5, <1>6, <1>7, <1>8, <1>9, <1>10, <1>11, <1>12,
       ReapStep DEF TelIInv, TelNext, ProducerStep, ProcStep

-----------------------------------------------------------------------------
(* What the reader knows                                                   *)

LEMMA PoppingStep ==
    ASSUME TelIInv, TelNext PROVE Popping'
  <1>0. TelTypeOK /\ Sessions /\ Pushing /\ Popping /\ Sequence
    BY DEF TelIInv
  <1>a. Size \in Nat /\ Size >= 2
    BY TelemetryAssumption
  <1>b. Stored \in 0 .. Size - 1 /\ available \in Nat
    BY <1>0, Holding DEF TelTypeOK
  <1>1. CASE ProducerStep
    <2>1. UNCHANGED <<want, got, first>> /\ available' >= available /\ available' \in Nat
      BY <1>1, <1>b DEF ProducerStep, Generate, WaitForSpace, PushRecord, PushIndex, PushCount,
         PushWake, Slept, session, ring_buf
    <2>2. \A p \in Procs : \/ pc'[p] = pc[p]
                           \/ pc[p] = "asleep" /\ pc'[p] = "wait"
      BY <1>0, <1>1, Woken DEF ProducerStep, Generate, WaitForSpace, PushRecord, PushIndex,
         PushCount, PushWake, Slept
    <2>3. \A p \in Procs : want[p] \in Nat
      BY <1>0 DEF TelTypeOK
    <2>4. QED
      BY <1>0, <1>b, <2>1, <2>2, <2>3 DEF Popping
  <1>2. ASSUME NEW p \in Procs,
               /\ pc'[p] \in {"wait", "asleep", "size"} => want'[p] >= 1
               /\ pc'[p] \in {"copy", "advance", "uncount"} =>
                     1 <= want'[p] /\ want'[p] <= available'
               /\ pc'[p] \in {"advance", "uncount"} => got'[p] >= first',
               \A q \in Procs : q # p => pc'[q] = "closed"
        PROVE  Popping'
    BY <1>2 DEF Popping
  <1>3. ASSUME NEW p \in Procs, pc[p] # "closed", NEW v, pc' = [pc EXCEPT ![p] = v]
        PROVE  pc'[p] = v /\ \A q \in Procs : q # p => pc'[q] = "closed"
    BY <1>0, <1>3, Moves, Off
  <1>4. ASSUME NEW p \in Procs, Open(p) PROVE Popping'
    <2>1. pc' = [pc EXCEPT ![p] = "opening"] /\ \A q \in Procs : pc[q] = "closed"
      BY <1>0, <1>4 DEF Open, Goto, Sessions
    <2>2. pc'[p] = "opening" /\ \A q \in Procs : q # p => pc'[q] = "closed"
      BY <1>0, <2>1, Moves
    <2>3. QED
      BY <1>2, <2>2
  <1>5. ASSUME NEW p \in Procs,
               StartProducer(p) \/ Interrupted(p) \/ ReadWake(p) \/ Release(p)
                  \/ ReleaseWake(p) \/ StopThread(p) \/ JoinThread(p) \/ Reset(p) \/ Disown(p)
        PROVE  Popping'
    <2>1. pc[p] # "closed" /\ \E v \in {"open", "closed", "wakeAll", "stop", "join", "reset",
                                      "disown", "undefined"} :
                                 pc' = [pc EXCEPT ![p] = v]
      BY <1>5 DEF StartProducer, Interrupted, ReadWake, Release, ReleaseWake, StopThread,
         JoinThread, Reset, Disown, Goto
    <2>2. QED
      BY <1>2, <1>3, <2>1
  <1>6. ASSUME NEW p \in Procs, Read(p) PROVE Popping'
    <2>1. pc[p] = "open" /\ pc' = [pc EXCEPT ![p] = "wait"]
      BY <1>6 DEF Read, Goto
    <2>2. want'[p] >= 1
      BY <1>0, <1>6 DEF Read, TelTypeOK
    <2>3. pc'[p] = "wait" /\ \A q \in Procs : q # p => pc'[q] = "closed"
      BY <1>3, <2>1
    <2>4. QED
      BY <1>2, <2>2, <2>3
  <1>7. ASSUME NEW p \in Procs, WaitForData(p) PROVE Popping'
    <2>1. pc[p] = "wait" /\ \E v \in {"asleep", "size"} : pc' = [pc EXCEPT ![p] = v]
      BY <1>7 DEF WaitForData, Goto
    <2>2. want'[p] >= 1
      BY <1>0, <1>7, <2>1 DEF WaitForData, Popping
    <2>3. PICK v \in {"asleep", "size"} : pc' = [pc EXCEPT ![p] = v]
      BY <2>1
    <2>4. pc'[p] \in {"asleep", "size"} /\ \A q \in Procs : q # p => pc'[q] = "closed"
      BY <1>3, <2>1, <2>3
    <2>5. QED
      BY <1>2, <2>2, <2>4
  <1>8. ASSUME NEW p \in Procs, SizeRead(p) PROVE Popping'
    <2> DEFINE n == IF available < want[p] THEN available ELSE want[p]
    <2>1. pc[p] = "size" /\ UNCHANGED ring_buf
      BY <1>8 DEF SizeRead, Goto
    <2>2. want[p] \in Nat
      BY <1>0 DEF TelTypeOK
    <2>3. CASE pc' = [pc EXCEPT ![p] = "open"]
      BY <1>2, <1>3, <2>1, <2>3
    <2>4. CASE n > 0 /\ pc' = [pc EXCEPT ![p] = "copy"] /\ want' = [want EXCEPT ![p] = n]
      <3>1. n <= available /\ n >= 1 /\ want'[p] = n /\ available' = available
        BY <1>0, <1>b, <2>1, <2>2, <2>4 DEF TelTypeOK, ring_buf
      <3> HIDE DEF n
      <3>2. QED
        BY <1>2, <1>3, <2>1, <2>4, <3>1
    <2>5. QED
      BY <1>8, <2>3, <2>4 DEF SizeRead, Goto
  <1>9. ASSUME NEW p \in Procs, PopCopy(p) PROVE Popping'
    <2>1. pc[p] = "copy" /\ 1 <= want[p] /\ want[p] <= available /\ want[p] \in Nat
      BY <1>0, <1>9 DEF PopCopy, Popping, TelTypeOK
    <2>2. Live /\ Overcounted = 0
      BY <1>0, <2>1, Off DEF Sessions, Using
    <2>3. available = Stored - Uncounted + Overcounted /\ Uncounted \in 0 .. 1
      BY <1>0, <2>2 DEF Pushing, Uncounted
    <2>4. Stored >= 1
      BY <1>a, <1>b, <2>1, <2>2, <2>3
    <2>5. ~Empty
      BY <1>0, <1>b, <2>4, Holding
    <2>6. /\ got' = [got EXCEPT ![p] = records[read_idx]]
          /\ pc' = [pc EXCEPT ![p] = "advance"]
          /\ UNCHANGED <<want, available, first>>
      BY <1>9, <2>5 DEF PopCopy, ring_buf, session
    <2>7. records[Cell(0)] >= first /\ Cell(0) = read_idx
      BY <1>0, <1>a, <1>b, <2>2, <2>4, Holding DEF Sequence
    <2>8. got'[p] >= first'
      BY <1>0, <2>6, <2>7 DEF TelTypeOK
    <2>9. QED
      BY <1>2, <1>3, <2>1, <2>6, <2>8
  <1>10. ASSUME NEW p \in Procs, PopIndex(p) PROVE Popping'
    <2>1. /\ pc[p] = "advance" /\ pc' = [pc EXCEPT ![p] = "uncount"]
          /\ UNCHANGED <<want, got, available, first>>
      BY <1>10 DEF PopIndex, Goto, session
    <2>2. QED
      BY <1>0, <1>2, <1>3, <2>1 DEF Popping
  <1>11. ASSUME NEW p \in Procs, PopCount(p) PROVE Popping'
    <2>1. /\ pc[p] = "uncount" /\ available' = available - 1
          /\ want' = [want EXCEPT ![p] = want[p] - 1]
          /\ pc' = [pc EXCEPT ![p] = IF want[p] = 1 THEN "wake" ELSE "copy"]
      BY <1>11 DEF PopCount
    <2>2. 1 <= want[p] /\ want[p] <= available /\ want[p] \in Nat
      BY <1>0, <2>1 DEF Popping, TelTypeOK
    <2>3. want'[p] = want[p] - 1
      BY <1>0, <2>1 DEF TelTypeOK
    <2>4. CASE want[p] = 1
      <3>1. pc' = [pc EXCEPT ![p] = "wake"]
        BY <2>1, <2>4
      <3>2. pc'[p] = "wake" /\ \A q \in Procs : q # p => pc'[q] = "closed"
        BY <1>3, <2>1, <3>1
      <3>3. QED
        BY <1>2, <3>2
    <2>5. CASE want[p] # 1
      <3>1. want'[p] >= 1 /\ want'[p] <= available'
        BY <1>b, <2>1, <2>2, <2>3, <2>5
      <3>2. pc' = [pc EXCEPT ![p] = "copy"]
        BY <2>1, <2>5
      <3>3. pc'[p] = "copy" /\ \A q \in Procs : q # p => pc'[q] = "closed"
        BY <1>3, <2>1, <3>2
      <3>4. QED
        BY <1>2, <3>1, <3>3
    <2>6. QED
      BY <2>4, <2>5
  <1>12. QED
    BY <1>1, <1>4, <1>5, <1>6, <1>7, <1>8, <1>9, <1>10, <1>11, ReapStep
       DEF TelIInv, TelNext, ProcStep

LEMMA NumberedStep ==
    ASSUME TelIInv, TelNext PROVE Numbered'
  <1>0. TelTypeOK /\ Sessions /\ Numbered
    BY DEF TelIInv
  <1>1. seq_no \in Nat /\ first \in Nat
    BY <1>0 DEF TelTypeOK
  <1>2. CASE ProducerStep
    BY <1>0, <1>1, <1>2 DEF Numbered, ProducerStep, Generate, WaitForSpace, PushRecord, PushIndex,
       PushCount, PushWake, Slept, Proceed, session
  <1>3. ASSUME NEW p \in Procs, Open(p) PROVE Numbered'
    <2>1. \A q \in Procs : pc[q] = "closed"
      BY <1>0, <1>3 DEF Open, Sessions
    <2>2. thread = "none"
      BY <1>0, <2>1 DEF Sessions, Using, Closing
    <2>3. QED
      BY <1>1, <1>3, <2>2 DEF Open, Numbered
  <1>4. ASSUME NEW p \in Procs,
               Read(p) \/ Interrupted(p) \/ Release(p) \/ ProcStep(p)
        PROVE  Numbered'
    <2>1. UNCHANGED <<seq_no, first>>
      BY <1>4 DEF Read, Interrupted, Release, ProcStep, StartProducer, WaitForData, SizeRead,
         PopCopy, PopIndex, PopCount, ReadWake, ReleaseWake, StopThread, JoinThread, Reset,
         Disown, session
    <2>2. \/ thread' = thread \/ thread' \in {"none", "generate"}
          \/ thread' = Awake(thread)
      BY <1>4 DEF Read, Interrupted, Release, ProcStep, StartProducer, WaitForData, SizeRead,
         PopCopy, PopIndex, PopCount, ReadWake, ReleaseWake, StopThread, JoinThread, Reset,
         Disown
    <2>3. QED
      BY <1>0, <2>1, <2>2 DEF Numbered, Awake
  <1>5. QED
    BY <1>2, <1>3, <1>4, ReapStep DEF TelIInv, TelNext

-----------------------------------------------------------------------------
(* The records                                                             *)

\* A step that leaves the ring alone, and what counts as the newest record.
LEMMA SequenceKept ==
    ASSUME Sequence, UNCHANGED <<records, read_idx, write_idx, first>>, Live' => Live,
           Live => Newest' = Newest
    PROVE  Sequence'
  <1>1. Stored' = Stored /\ \A i : Cell(i)' = Cell(i)
    BY DEF Stored, Cell
  <1>2. QED
    BY <1>1 DEF Sequence

LEMMA SequenceStep ==
    ASSUME TelIInv, TelNext PROVE Sequence'
  <1>0. TelTypeOK /\ Sessions /\ Pushing /\ Popping /\ Sequence /\ Numbered
    BY DEF TelIInv
  <1>a. Size \in Nat /\ Size >= 2
    BY TelemetryAssumption
  <1>b. Stored \in 0 .. Size - 1 /\ seq_no \in Nat /\ first \in Nat
    BY <1>0, Holding DEF TelTypeOK
  <1>1. CASE Generate \/ WaitForSpace \/ PushCount \/ PushWake \/ Slept
    <2>1. UNCHANGED <<records, read_idx, write_idx, first>>
      BY <1>1 DEF Generate, WaitForSpace, PushCount, PushWake, Slept, ring_buf, session
    <2>2. Live
      BY <1>1 DEF Generate, WaitForSpace, PushCount, PushWake, Slept, Proceed, Live
    <2>3. CASE Live'
      <3>1. Newest' = Newest
        BY <1>1, <1>b, <2>3 DEF Generate, WaitForSpace, PushCount, PushWake, Slept, Proceed,
           Live, Newest
      <3>2. QED
        BY <1>0, <2>1, <2>2, <3>1, SequenceKept
    <2>4. CASE ~Live'
      BY <2>4 DEF Sequence
    <2>5. QED
      BY <2>3, <2>4
  <1>2. CASE PushRecord
    <2>1. thread = "copy" /\ UNCHANGED <<read_idx, write_idx, first, seq_no>>
      BY <1>2 DEF PushRecord, Proceed, session
    <2>2. Live /\ Stored < Size - 1
      BY <1>0, <2>1 DEF Pushing, Live
    <2>3. ~Full
      BY <1>0, <1>a, <1>b, <2>2, Holding
    <2>4. thread' = "publish" /\ records' = [records EXCEPT ![write_idx] = seq_no - 1]
      BY <1>2, <2>3 DEF PushRecord, Proceed
    <2>5. Stored' = Stored /\ Newest' = Newest /\ \A i : Cell(i)' = Cell(i)
      BY <2>1, <2>4 DEF Stored, Newest, Cell
    <2>6. ASSUME NEW i \in 0 .. Size - 2, i < Stored
          PROVE  records'[Cell(i)] = records[Cell(i)]
      <3>1. i \in 0 .. Size - 1
        BY <1>a
      <3>2. Cell(i) \in Cells /\ Cell(i) # write_idx
        BY <1>0, <2>6, <3>1, Holding
      <3>3. QED
        BY <1>0, <2>4, <3>2 DEF TelTypeOK
    <2>7. QED
      BY <1>0, <2>1, <2>2, <2>5, <2>6 DEF Sequence
  <1>3. CASE PushIndex
    <2>1. /\ thread = "publish" /\ thread' = "count"
          /\ UNCHANGED <<records, read_idx, first, seq_no>> /\ write_idx' = NextIdx(write_idx)
      BY <1>3 DEF PushIndex, Proceed, session
    <2>2. Live /\ Stored < Size - 1 /\ records[write_idx] = seq_no - 1 /\ seq_no > first
      BY <1>0, <2>1 DEF Pushing, Live, Numbered
    <2>3. Stored' = Stored + 1 /\ \A i \in 0 .. Size - 1 : Cell(i)' = Cell(i)
      BY <1>0, <2>1, <2>2, Published
    <2>4. Newest = seq_no - 2 /\ Newest' = seq_no - 1
      BY <2>1 DEF Newest
    <2>5. ASSUME NEW i \in 0 .. Size - 2, i < Stored'
          PROVE  /\ records'[Cell(i)'] = Newest' - (Stored' - 1 - i)
                 /\ records'[Cell(i)'] >= first'
      <3>1. Cell(i)' = Cell(i) /\ i \in Nat
        BY <1>a, <2>3
      <3>2. CASE i < Stored
        <4>1. records[Cell(i)] = Newest - (Stored - 1 - i) /\ records[Cell(i)] >= first
          BY <1>0, <2>2, <3>2 DEF Sequence
        <4>2. Newest - (Stored - 1 - i) = Newest' - (Stored' - 1 - i)
          BY <1>a, <1>b, <2>3, <2>4, <3>1
        <4>3. QED
          BY <2>1, <3>1, <4>1, <4>2
      <3>3. CASE i = Stored
        <4>1. Cell(i) = write_idx
          BY <1>0, <3>3, Holding
        <4>2. Newest' - (Stored' - 1 - i) = seq_no - 1 /\ seq_no - 1 >= first
          BY <1>a, <1>b, <2>2, <2>3, <2>4, <3>3
        <4>3. QED
          BY <2>1, <2>2, <3>1, <4>1, <4>2
      <3>4. QED
        BY <1>a, <1>b, <2>3, <2>5, <3>1, <3>2, <3>3
    <2>6. QED
      BY <2>5 DEF Sequence
  <1>4. ASSUME NEW p \in Procs,
               Read(p) \/ WaitForData(p) \/ Interrupted(p) \/ SizeRead(p) \/ PopCopy(p)
                  \/ PopCount(p) \/ ReadWake(p) \/ Release(p) \/ ReleaseWake(p)
                  \/ StopThread(p) \/ JoinThread(p) \/ Disown(p)
        PROVE  Sequence'
    <2>1. UNCHANGED <<records, read_idx, write_idx, first, seq_no>>
      BY <1>4 DEF Read, WaitForData, Interrupted, SizeRead, PopCopy, PopCount, ReadWake,
         Release, ReleaseWake, StopThread, JoinThread, Disown, ring_buf, session
    <2>2. thread' = thread \/ thread' = "none" \/ thread' = Awake(thread)
      BY <1>4 DEF Read, WaitForData, Interrupted, SizeRead, PopCopy, PopCount, ReadWake,
         Release, ReleaseWake, StopThread, JoinThread, Disown
    <2>3. Live' => Live /\ Newest' = Newest
      BY <2>1, <2>2 DEF Live, Newest, Awake
    <2>4. CASE Live'
      BY <1>0, <2>1, <2>3, <2>4, SequenceKept
    <2>5. QED
      BY <2>4 DEF Sequence
  <1>5. ASSUME NEW p \in Procs, PopIndex(p) PROVE Sequence'
    <2>1. /\ pc[p] = "advance" /\ read_idx' = NextIdx(read_idx)
          /\ UNCHANGED <<records, write_idx, available, thread, seq_no, first>>
      BY <1>5 DEF PopIndex, Goto, session
    <2>2. Live /\ 1 <= want[p] /\ want[p] <= available /\ want[p] \in Nat
      BY <1>0, <2>1 DEF Sessions, Using, Popping, TelTypeOK
    <2>3. Overcounted = 0 /\ Uncounted \in 0 .. 1
      BY <1>0, <2>1, Off DEF Uncounted
    <2>4. available = Stored - Uncounted + Overcounted /\ available \in Nat
      BY <1>0, <2>2 DEF Pushing, TelTypeOK
    <2>5. Stored >= 1
      BY <1>a, <1>b, <2>2, <2>3, <2>4
    <2>6. Stored' = Stored - 1 /\ \A i \in 0 .. Size - 2 : Cell(i)' = Cell(i + 1)
      BY <1>0, <2>1, <2>5, GivenBack
    <2>7. Newest' = Newest /\ Newest \in Int
      BY <1>b, <2>1 DEF Newest
    <2>8. ASSUME NEW i \in 0 .. Size - 2, i < Stored'
          PROVE  /\ records'[Cell(i)'] = Newest' - (Stored' - 1 - i)
                 /\ records'[Cell(i)'] >= first'
      <3>1. i + 1 \in 0 .. Size - 2 /\ i + 1 < Stored
        BY <1>a, <1>b, <2>6, <2>8
      <3>2. records[Cell(i + 1)] = Newest - (Stored - 1 - (i + 1)) /\ records[Cell(i + 1)] >= first
        BY <1>0, <2>2, <3>1 DEF Sequence
      <3>3. Newest - (Stored - 1 - (i + 1)) = Newest' - (Stored' - 1 - i)
        BY <1>a, <1>b, <2>6, <2>7
      <3>4. QED
        BY <2>1, <2>6, <3>2, <3>3
    <2>9. QED
      BY <2>8 DEF Sequence
  <1>6. ASSUME NEW p \in Procs, Open(p) \/ Reset(p) PROVE Sequence'
    <2>1. thread' = thread
      BY <1>6 DEF Open, Reset
    <2>2. \A q \in Procs : pc[q] \notin Using \union Closing
      BY <1>0, <1>6 DEF Open, Reset, Goto, Sessions, Using, Closing
    <2>3. QED
      BY <1>0, <2>1, <2>2 DEF Sessions, Sequence, Live
  <1>7. ASSUME NEW p \in Procs, StartProducer(p) PROVE Sequence'
    <2>1. pc[p] = "opening" /\ UNCHANGED <<ring_buf, first>>
      BY <1>7 DEF StartProducer, Goto
    <2>2. read_idx = 0 /\ write_idx = 0 /\ available = 0
      <3>1. \A q \in Procs : pc[q] \in {"closed", "opening", "disown"}
        BY <1>0, <2>1, Off
      <3>2. QED
        BY <1>0, <3>1 DEF Sessions
    <2>3. Stored' = 0
      BY <2>1, <2>2 DEF Stored, ring_buf
    <2>4. QED
      BY <1>a, <2>3 DEF Sequence
  <1>8. QED
    BY <1>1, <1>2, <1>3, <1>4, <1>5, <1>6, <1>7, ReapStep
       DEF TelIInv, TelNext, ProducerStep, ProcStep

-----------------------------------------------------------------------------
(* The theorems                                                            *)

LEMMA TelInvariance == TelSpec => []TelIInv
  <1>1. TelIInv /\ [TelNext]_telVars => TelIInv'
    <2>1. CASE TelNext
      BY <2>1, TelTypeStep, SessionsStep, PushingStep, PoppingStep, NumberedStep, SequenceStep
         DEF TelIInv
    <2>2. CASE UNCHANGED telVars
      <3>1. TelIInv => TelTypeOK'
        BY <2>2 DEF TelIInv, TelTypeOK, telVars, ring_buf, session
      <3>2. TelIInv => Sessions'
        BY <2>2 DEF TelIInv, Sessions, telVars, ring_buf, session, Live
      <3>3. TelIInv => Pushing' /\ Popping' /\ Numbered'
        BY <2>2 DEF TelIInv, Pushing, Popping, Numbered, telVars, ring_buf, session, Live, Stored,
           Uncounted, Overcounted
      <3>4. TelIInv => Sequence'
        BY <2>2, SequenceKept DEF TelIInv, telVars, ring_buf, session, Live, Newest
      <3>5. QED
        BY <3>1, <3>2, <3>3, <3>4 DEF TelIInv
    <2>3. QED
      BY <2>1, <2>2
  <1>2. QED
    BY <1>1, TelInitially, PTL DEF TelSpec

\* The state of the ring and of the two sides keeps its types: the indices stay
\* inside the ring, and the count between nothing and its size.
THEOREM TelTypeCorrect == TelSpec => []TelTypeOK
  <1>1. TelIInv => TelTypeOK
    BY DEF TelIInv
  <1>2. QED
    BY <1>1, TelInvariance, PTL

\* ring_push and ring_pop, without a lock: the ring holds the newest records of
\* this session in order, its count is off by no more than the record that is
\* being pushed and the one being popped, and a read that has sized itself finds
\* its records.
THEOREM RecordsTrue == TelSpec => []RingTrue
  <1>1. ASSUME TelIInv PROVE RingTrue
    <2>0. TelTypeOK /\ Sessions /\ Pushing /\ Popping /\ Sequence
      BY <1>1 DEF TelIInv
    <2>1. InOrder
      BY <2>0 DEF Sequence, Popping, InOrder
    <2>2. Live => available = Stored - (IF thread = "count" THEN 1 ELSE 0)
                            + (IF \E p \in Procs : pc[p] = "uncount" THEN 1 ELSE 0)
      BY <2>0 DEF Pushing, Uncounted, Overcounted
    <2>3. ASSUME NEW p \in Procs, pc[p] = "copy" PROVE Stored >= want[p]
      <3>1. Live /\ Overcounted = 0 /\ want[p] <= available
        BY <2>0, <2>3, Off DEF Sessions, Using, Popping
      <3>2. available = Stored - Uncounted /\ Uncounted \in 0 .. 1
        <4>1. available = Stored - Uncounted + Overcounted
          BY <2>0, <3>1 DEF Pushing
        <4>2. Stored \in 0 .. Size - 1 /\ Size \in Nat /\ Uncounted \in 0 .. 1
          BY <2>0, Holding, TelemetryAssumption DEF Uncounted
        <4>3. QED
          BY <3>1, <4>1, <4>2
      <3>3. want[p] \in Nat /\ Stored \in 0 .. Size - 1 /\ Size \in Nat
        BY <2>0, Holding, TelemetryAssumption DEF TelTypeOK
      <3>4. QED
        BY <3>1, <3>2, <3>3
    <2>4. QED
      BY <2>1, <2>2, <2>3 DEF RingTrue, CountFollows
  <1>2. QED
    BY <1>1, TelInvariance, PTL

-----------------------------------------------------------------------------
(* The camera pipeline                                                     *)

FramePublished ==
    /\ frame_ = seq_ - 1
    /\ producer = "publish" => seq_ < MaxFrames

Newer ==
    /\ last_seen_seq_ <= frame_
    /\ consumer \in {"infer", "record"} => last_seen_seq_ < snapshot /\ snapshot <= frame_

HandedOn == windowed_stats_.last_seq = lifetime_stats_.last_seq

CamIInv == CamTypeOK /\ FramePublished /\ Newer /\ HandedOn /\ Accounted

LEMMA CamInitially == CamInit => CamIInv
  BY CameraAssumption DEF CamInit, CamIInv, CamTypeOK, FramePublished, Newer, HandedOn, Accounted,
     Fresh, Stats, Frames, None

\* A step that touches neither the frames nor the figures.
LEMMA Aside ==
    ASSUME CamIInv, CamTypeOK',
           UNCHANGED <<frame_, seq_, last_seen_seq_, stats>>,
           producer' = "publish" => producer = "publish",
           consumer' \in {"infer", "record"} =>
               consumer \in {"infer", "record"} /\ snapshot' = snapshot
    PROVE  CamIInv'
  BY DEF CamIInv, FramePublished, Newer, HandedOn, Accounted, stats

LEMMA ProduceKeeps ==
    ASSUME CamIInv, Produce
    PROVE  CamIInv'
  <1>1. CASE OpenCamera \/ Check \/ ReadFails
    <2>1. CamTypeOK'
      <3>1. CASE OpenCamera \/ Check
        BY <3>1 DEF CamIInv, CamTypeOK, OpenCamera, Check, sink, stats
      <3>2. CASE ReadFails
        <4>1. retry_count' \in 0 .. RETRY_COUNT
          BY <3>2, CameraAssumption DEF CamIInv, CamTypeOK, ReadFails
        <4>2. producer' \in {"check", "done"} /\ running' \in BOOLEAN
          BY <3>2 DEF CamIInv, CamTypeOK, ReadFails
        <4> QED BY <3>2, <4>1, <4>2 DEF CamIInv, CamTypeOK, ReadFails, sink, stats
      <3> QED BY <1>1, <3>1, <3>2
    <2> QED BY <1>1, <2>1, Aside DEF OpenCamera, Check, ReadFails, sink
  <1>2. CASE ReadFrame
    BY <1>2, CameraAssumption DEF CamIInv, CamTypeOK, FramePublished, Newer, HandedOn, Accounted,
       ReadFrame, sink, stats, Frames
  <1>3. CASE Publish
    <2>1. CamTypeOK'
      BY <1>3, CameraAssumption DEF CamIInv, CamTypeOK, FramePublished, Publish, sink, stats, Frames
    <2>2. FramePublished' /\ Newer' /\ HandedOn'
      BY <1>3, CameraAssumption DEF CamIInv, CamTypeOK, FramePublished, Newer, HandedOn, Publish,
         sink, stats, Frames, None
    <2>3. Accounted'
      BY <1>3, CameraAssumption DEF CamIInv, CamTypeOK, FramePublished, Accounted, Publish, sink,
         stats, Frames, None
    <2> QED BY <2>1, <2>2, <2>3 DEF CamIInv
  <1> QED BY <1>1, <1>2, <1>3 DEF Produce

LEMMA RecordKeeps ==
    ASSUME CamIInv, Record
    PROVE  CamIInv'
  <1>1. /\ last_seen_seq_ < snapshot /\ snapshot <= frame_
        /\ snapshot \in Frames \cup {None} /\ last_seen_seq_ \in Frames \cup {None}
        /\ lifetime_stats_ \in Stats /\ windowed_stats_ \in Stats /\ logged \in Stats
        /\ lifetime_stats_.last_seq = last_seen_seq_
        /\ windowed_stats_.last_seq = last_seen_seq_
    BY DEF CamIInv, CamTypeOK, Newer, HandedOn, Accounted, Record
  <1>2. snapshot \in Frames /\ snapshot \in Nat /\ snapshot - last_seen_seq_ - 1 \in Nat
    BY <1>1, CameraAssumption DEF Frames, None
  <1>3. ASSUME NEW s \in Stats, s.last_seq = last_seen_seq_
        PROVE  /\ Recorded(s, snapshot) \in Stats
               /\ Recorded(s, snapshot).frame_count = s.frame_count + 1
               /\ Recorded(s, snapshot).dropped_frames
                      = s.dropped_frames + (snapshot - last_seen_seq_ - 1)
               /\ Recorded(s, snapshot).last_seq = snapshot
    BY <1>2, <1>3 DEF Recorded, Stats
  <1>4. CamTypeOK'
    BY <1>1, <1>2, <1>3 DEF CamIInv, CamTypeOK, Record, source
  <1>5. FramePublished' /\ Newer' /\ HandedOn'
    BY <1>1, <1>3 DEF CamIInv, FramePublished, Newer, HandedOn, Record, source
  <1>6. Accounted'
    <2>1. /\ lifetime_stats_.frame_count \in Nat /\ lifetime_stats_.dropped_frames \in Nat
          /\ windowed_stats_.frame_count \in Nat /\ windowed_stats_.dropped_frames \in Nat
          /\ logged.frame_count \in Nat /\ logged.dropped_frames \in Nat
          /\ last_seen_seq_ \in Int
      BY <1>1 DEF Stats, Frames, None
    <2> QED BY <1>1, <1>2, <1>3, <2>1 DEF CamIInv, Accounted, Record
  <1> QED BY <1>4, <1>5, <1>6 DEF CamIInv

LEMMA ConsumeKeeps ==
    ASSUME CamIInv, Consume
    PROVE  CamIInv'
  <1>1. CASE Get
    <2>1. frame_ \notin {None, last_seen_seq_} => last_seen_seq_ < frame_
      BY CameraAssumption DEF CamIInv, CamTypeOK, Newer, Frames, None
    <2> QED BY <1>1, <2>1 DEF CamIInv, CamTypeOK, FramePublished, Newer, HandedOn, Accounted, Get,
               source, stats
  <1>2. CASE StillRuns \/ Infer \/ Show \/ StopLogger \/ JoinLogger
    <2>1. CamTypeOK'
      BY <1>2 DEF CamIInv, CamTypeOK, StillRuns, Infer, Show, StopLogger, JoinLogger, source,
         stats
    <2> QED BY <1>2, <2>1, Aside DEF StillRuns, Infer, Show, StopLogger, JoinLogger,
               source
  <1> QED BY <1>1, <1>2, RecordKeeps DEF Consume

LEMMA LogKeeps ==
    ASSUME CamIInv, Log
    PROVE  CamIInv'
  <1>1. /\ lifetime_stats_ \in Stats /\ windowed_stats_ \in Stats /\ logged \in Stats
    BY DEF CamIInv, CamTypeOK
  <1>2. /\ windowed_stats_' \in Stats /\ logged' \in Stats
        /\ windowed_stats_'.frame_count = 0 /\ windowed_stats_'.dropped_frames = 0
        /\ windowed_stats_'.last_seq = windowed_stats_.last_seq
        /\ logged'.frame_count = logged.frame_count + windowed_stats_.frame_count
        /\ logged'.dropped_frames
               = logged.dropped_frames + windowed_stats_.dropped_frames
    BY <1>1 DEF Log, Fresh, Stats
  <1>3. CamTypeOK'
    BY <1>1, <1>2 DEF CamIInv, CamTypeOK, Log, source, sink
  <1>4. FramePublished' /\ Newer' /\ HandedOn'
    BY <1>2 DEF CamIInv, FramePublished, Newer, HandedOn, Log, source, sink
  <1>5. Accounted'
    BY <1>1, <1>2 DEF CamIInv, Accounted, Log, source, sink, Stats
  <1> QED BY <1>3, <1>4, <1>5 DEF CamIInv

LEMMA CamInvariance == CamSpec => []CamIInv
  <1>1. CamIInv /\ [CamNext]_camVars => CamIInv'
    <2> SUFFICES ASSUME CamIInv, [CamNext]_camVars PROVE CamIInv'
      OBVIOUS
    <2>1. CASE UNCHANGED camVars
      BY <2>1 DEF CamIInv, CamTypeOK, FramePublished, Newer, HandedOn, Accounted, camVars, source,
         sink, stats
    <2>2. CASE LogAgain \/ Wait
      <3>1. CamTypeOK'
        BY <2>2 DEF CamIInv, CamTypeOK, LogAgain, Wait, JoinNext, StopStats, EndMain, source,
           sink, stats
      <3> QED BY <2>2, <3>1, Aside DEF LogAgain, Wait, JoinNext, StopStats, EndMain,
                 source, sink
    <2> QED BY <2>1, <2>2, ProduceKeeps, ConsumeKeeps, LogKeeps DEF CamNext, Report
  <1> QED BY <1>1, CamInitially, PTL DEF CamSpec

\* The pipeline's state keeps its types: no figure of the statistics goes
\* negative, since no frame is recorded twice.
THEOREM CamTypeCorrect == CamSpec => []CamTypeOK
  <1>1. CamIInv => CamTypeOK
    BY DEF CamIInv
  <1> QED BY <1>1, CamInvariance, PTL

\* Every frame up to the last one shown is counted once, in the lifetime's
\* figures and in one window.
THEOREM FramesAccounted == CamSpec => []Accounted
  <1>1. CamIInv => Accounted
    BY DEF CamIInv
  <1> QED BY <1>1, CamInvariance, PTL
=============================================================================
