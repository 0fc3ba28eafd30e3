-------------------------- MODULE ExternalCommsProofs --------------------------
(***************************************************************************)
(* Proofs about ExternalComms for any number of producers, any depth of    *)
(* the queue and any ring with two buffers more than that: no buffer is    *)
(* overwritten while a pointer to it is under way, and the queue of        *)
(* pointers implements a queue of documents.                               *)
(***************************************************************************)
EXTENDS ExternalComms, SequenceTheorems, TLAPS

(* Two submissions that are less than a ring apart have different buffers. *)
LEMMA RingApart ==
    ASSUME NEW R \in Nat \ {0}, NEW a \in Nat, NEW b \in Nat, a < b, b - a < R
    PROVE  a % R # b % R
<1> SUFFICES ASSUME a % R = b % R PROVE FALSE
  OBVIOUS
<1> DEFINE q == (b \div R) - (a \div R)
<1>1. a = R * (a \div R) + (a % R) /\ b = R * (b \div R) + (b % R)
  OBVIOUS
<1>2. q \in Int
  OBVIOUS
<1>3. b - a = R * q
  BY <1>1
<1>4. CASE q <= 0
  <2>1. R * q <= 0
    BY <1>2, <1>4
  <2>2. QED
    BY <1>3, <2>1
<1>5. CASE q >= 1
  <2>1. R * q >= R
    BY <1>2, <1>5
  <2>2. QED
    BY <1>3, <2>1
<1>6. QED
  BY <1>2, <1>4, <1>5

(* What TypeOK says of a message.                                          *)
LEMMA MessageTypes ==
    ASSUME TypeOK
    PROVE  /\ Len(queue) \in 0 .. QueueDepth /\ DOMAIN queue = 1 .. Len(queue)
           /\ \A i \in DOMAIN queue : queue[i] \in Pointer
           /\ \A m \in Pointer : m.owner \in Producer /\ m.nr \in Nat
           /\ ext.pc = "held" => ext.msg \in Pointer
<1>1. queue \in Seq(Pointer) /\ Len(queue) <= QueueDepth
  BY DEF TypeOK
<1>2. Len(queue) \in Nat /\ DOMAIN queue = 1 .. Len(queue)
  BY <1>1, LenProperties
<1>3. \A i \in DOMAIN queue : queue[i] \in Pointer
  BY <1>1, <1>2, ElementOfSeq
<1>4. QED
  BY <1>1, <1>2, <1>3 DEF TypeOK, Pointer

(* What a submission does to the queue, and what taking a message does.    *)
LEMMA SubmitQueue ==
    ASSUME TypeOK, NEW p \in Producer, Submit(p), queue' # queue
    PROVE  /\ Len(queue) < QueueDepth
           /\ Len(queue') = Len(queue) + 1 /\ queue' \in Seq(Pointer)
           /\ DOMAIN queue' = 1 .. Len(queue) + 1
           /\ \A i \in 1 .. Len(queue) : queue'[i] = queue[i]
           /\ queue'[Len(queue) + 1].owner = p /\ queue'[Len(queue) + 1].nr = count[p]
           /\ \A q \in Producer : /\ count[q] \in Nat
                                 /\ count'[q] = IF q = p THEN count[q] + 1 ELSE count[q]
<1> DEFINE msg == [owner |-> p, nr |-> count[p]]
<1>1. /\ Len(queue) < QueueDepth /\ queue' = Append(queue, msg)
      /\ count' = [count EXCEPT ![p] = @ + 1]
  BY DEF Submit
<1>2. msg \in Pointer /\ queue \in Seq(Pointer)
  BY DEF TypeOK, Pointer
<1>3. /\ Len(queue') = Len(queue) + 1 /\ queue' \in Seq(Pointer)
      /\ \A i \in 1 .. Len(queue) : queue'[i] = queue[i]
      /\ queue'[Len(queue) + 1] = msg
  BY <1>1, <1>2, AppendProperties
<1>4. DOMAIN queue' = 1 .. Len(queue')
  BY <1>3, LenProperties
<1>5. \A q \in Producer : /\ count[q] \in Nat
                         /\ count'[q] = IF q = p THEN count[q] + 1 ELSE count[q]
  BY <1>1 DEF TypeOK
<1>6. QED
  BY <1>1, <1>3, <1>4, <1>5

LEMMA ReceiveQueue ==
    ASSUME TypeOK, Receive
    PROVE  /\ Len(queue) \in Nat \ {0} /\ Len(queue') = Len(queue) - 1
           /\ queue' \in Seq(Pointer) /\ DOMAIN queue' = 1 .. Len(queue')
           /\ \A i \in 1 .. Len(queue') : queue'[i] = queue[i + 1] /\ i + 1 \in DOMAIN queue
           /\ 1 \in DOMAIN queue
           /\ ext' = [ext EXCEPT !.pc = "held", !.msg = queue[1]]
           /\ ext'.pc = "held" /\ ext'.msg = queue[1] /\ ext'.doc = ext.doc
<1>1. queue \in Seq(Pointer) /\ queue # <<>> /\ queue' = Tail(queue)
  BY DEF TypeOK, Receive
<1>2. /\ Len(queue) \in Nat \ {0} /\ Len(queue') = Len(queue) - 1 /\ queue' \in Seq(Pointer)
      /\ \A i \in 1 .. Len(queue') : queue'[i] = queue[i + 1]
  BY <1>1, HeadTailProperties, EmptySeq
<1>3. DOMAIN queue' = 1 .. Len(queue') /\ DOMAIN queue = 1 .. Len(queue)
  BY <1>1, <1>2, LenProperties
<1>4. Head(queue) = queue[1]
  OBVIOUS
<1>5. ext' = [ext EXCEPT !.pc = "held", !.msg = queue[1]]
  BY <1>4 DEF Receive
<1>6. QED
  BY <1>2, <1>3, <1>5 DEF TypeOK

LEMMA LeavesHeld ==
    ASSUME TypeOK, Parse \/ Finish
    PROVE  ext'.pc # "held"
<1>1. CASE Parse
  <2>1. [ext EXCEPT !.pc = "import", !.msg = NoPointer, !.doc = Bytes(ext.msg)].pc = "import"
    BY DEF TypeOK
  <2>2. QED
    BY <1>1, <2>1 DEF Parse
<1>2. CASE Finish
  BY <1>2 DEF Finish, Waiting
<1>3. QED
  BY <1>1, <1>2

LEMMA TypeStep ==
    ASSUME ExternalCommsConstants, TypeOK, PointersAreFilled, [Next]_vars
    PROVE  TypeOK'
<1> USE DEF ExternalCommsConstants
<1>1. ASSUME NEW p \in Producer, NEW d \in Document, Fill(p, d) PROVE TypeOK'
  <2>1. count[p] % RingSize \in Ring
    BY DEF TypeOK, Ring
  <2>2. buffer' \in [Producer -> [Ring -> Document \cup {NoDocument}]]
    BY <1>1, <2>1 DEF Fill, TypeOK
  <2>3. QED
    BY <1>1, <2>2 DEF Fill, TypeOK
<1>2. ASSUME NEW p \in Producer, Submit(p) PROVE TypeOK'
  <2>1. queue' \in Seq(Pointer) /\ Len(queue') <= QueueDepth
    <3>1. CASE queue' = queue
      BY <3>1 DEF TypeOK
    <3>2. CASE queue' # queue
      BY <1>2, <3>2, SubmitQueue, MessageTypes
    <3>3. QED
      BY <3>1, <3>2
  <2>2. count' \in [Producer -> Nat]
    <3>1. count[p] + 1 \in Nat
      BY DEF TypeOK
    <3>2. count' = count \/ count' = [count EXCEPT ![p] = count[p] + 1]
      BY <1>2 DEF Submit
    <3>3. QED
      BY <3>1, <3>2 DEF TypeOK
  <2>3. filled' \in [Producer -> BOOLEAN] /\ UNCHANGED <<buffer, ext, inputs>>
    BY <1>2 DEF Submit, TypeOK
  <2>4. QED
    BY <2>1, <2>2, <2>3 DEF TypeOK
<1>3. CASE Receive
  <2>1. queue' \in Seq(Pointer) /\ Len(queue') <= QueueDepth
    BY <1>3, ReceiveQueue, MessageTypes
  <2>2. queue[1] \in Pointer
    BY <1>3, ReceiveQueue, MessageTypes
  <2>3. /\ ext' \in [pc : {"receive", "held", "import"},
                     msg : Pointer \cup {NoPointer}, doc : Document \cup {NoDocument}]
        /\ ext'.pc = "held" /\ ext'.msg \in Pointer /\ ext'.doc = NoDocument
    BY <1>3, <2>2, ReceiveQueue DEF Receive, TypeOK
  <2>4. QED
    BY <1>3, <2>1, <2>3 DEF Receive, TypeOK
<1>4. CASE Parse
  <2>1. Bytes(ext.msg) \in Document
    BY <1>4 DEF Parse, PointersAreFilled
  <2>2. QED
    BY <1>4, <2>1 DEF Parse, TypeOK
<1>5. CASE Finish
  BY <1>5 DEF Finish, TypeOK, Waiting
<1>6. CASE UNCHANGED vars
  BY <1>6 DEF vars, TypeOK
<1>7. QED
  BY <1>1, <1>2, <1>3, <1>4, <1>5, <1>6 DEF Next

(* A pointer under way and the next submission of its owner are less than  *)
(* a ring apart, so the buffer that is filled next is none of those.       *)
LEMMA FillSpares ==
    ASSUME ExternalCommsConstants, TypeOK, PointersAreRecent,
           NEW p \in Producer, NEW d \in Document, Fill(p, d)
    PROVE  /\ \A i \in DOMAIN queue : Bytes(queue[i])' = Bytes(queue[i])
           /\ ext.pc = "held" => Bytes(ext.msg)' = Bytes(ext.msg)
<1> USE DEF ExternalCommsConstants
<1>1. ASSUME NEW m \in Pointer, m.nr < count[m.owner], count[m.owner] - m.nr < RingSize
      PROVE  buffer'[m.owner][m.nr % RingSize] = buffer[m.owner][m.nr % RingSize]
  <2>1. m.owner \in Producer /\ m.nr \in Nat /\ count[m.owner] \in Nat
    BY MessageTypes DEF TypeOK
  <2>2. m.nr % RingSize # count[m.owner] % RingSize
    BY <1>1, <2>1, RingApart
  <2>3. buffer' = [buffer EXCEPT ![p][count[p] % RingSize] = d]
    BY DEF Fill
  <2>4. QED
    BY <2>1, <2>2, <2>3 DEF TypeOK
<1>2. queue' = queue /\ ext' = ext
  BY DEF Fill
<1>3. ASSUME NEW i \in DOMAIN queue
      PROVE  queue[i].nr < count[queue[i].owner] /\ count[queue[i].owner] - queue[i].nr < RingSize
  <2>1. /\ queue[i].nr < count[queue[i].owner]
        /\ count[queue[i].owner] - queue[i].nr <= Len(queue) - i + 1
    BY DEF PointersAreRecent
  <2>2. i \in 1 .. Len(queue) /\ Len(queue) \in 0 .. QueueDepth
        /\ queue[i].nr \in Nat /\ count[queue[i].owner] \in Nat
    BY MessageTypes DEF TypeOK
  <2> DEFINE c == count[queue[i].owner]
             n == queue[i].nr
             l == Len(queue)
  <2>3. n < c /\ c - n <= l - i + 1 /\ i \in Nat /\ i >= 1 /\ l \in Nat /\ l <= QueueDepth
        /\ n \in Nat /\ c \in Nat
    BY <2>1, <2>2
  <2> SUFFICES n < c /\ c - n < RingSize
    OBVIOUS
  <2> HIDE DEF c, n, l
  <2>4. QED
    BY <2>3
<1>4. ASSUME ext.pc = "held"
      PROVE  ext.msg.nr < count[ext.msg.owner] /\ count[ext.msg.owner] - ext.msg.nr < RingSize
  <2>1. /\ ext.msg.nr < count[ext.msg.owner]
        /\ count[ext.msg.owner] - ext.msg.nr <= Len(queue) + 1
    BY <1>4 DEF PointersAreRecent
  <2>2. Len(queue) \in 0 .. QueueDepth /\ ext.msg.nr \in Nat /\ count[ext.msg.owner] \in Nat
    BY <1>4, MessageTypes DEF TypeOK
  <2>3. QED
    BY <2>1, <2>2
<1>5. QED
  BY <1>1, <1>2, <1>3, <1>4, MessageTypes DEF Bytes

LEMMA OneMore ==
    ASSUME NEW c \in Nat, NEW d \in {c, c + 1}, NEW n \in Nat, NEW k \in Int, n < c, c - n <= k
    PROVE  n < d /\ d - n <= k + 1
  OBVIOUS

LEMMA RecentStep ==
    ASSUME ExternalCommsConstants, TypeOK, PointersAreRecent, [Next]_vars
    PROVE  PointersAreRecent'
<1>1. CASE UNCHANGED <<count, queue, ext>>
  BY <1>1 DEF PointersAreRecent
<1>2. ASSUME NEW p \in Producer, Submit(p), queue' # queue
      PROVE  PointersAreRecent'
  <2>1. \A q \in Producer : /\ count[q] \in Nat
                            /\ count'[q] = IF q = p THEN count[q] + 1 ELSE count[q]
    BY <1>2, SubmitQueue
  <2>2. ASSUME NEW i \in DOMAIN queue'
        PROVE  /\ queue'[i].nr < count'[queue'[i].owner]
               /\ count'[queue'[i].owner] - queue'[i].nr <= Len(queue') - i + 1
    <3>1. CASE i \in 1 .. Len(queue)
      <4>1. /\ i \in DOMAIN queue /\ queue'[i] = queue[i] /\ Len(queue) \in Nat
            /\ queue[i].owner \in Producer /\ queue[i].nr \in Nat
            /\ Len(queue') = Len(queue) + 1
        BY <1>2, <3>1, SubmitQueue, MessageTypes
      <4>2. /\ queue[i].nr < count[queue[i].owner]
            /\ count[queue[i].owner] - queue[i].nr <= Len(queue) - i + 1
        BY <4>1 DEF PointersAreRecent
      <4>3. count'[queue[i].owner] \in {count[queue[i].owner], count[queue[i].owner] + 1}
        BY <2>1, <4>1
      <4>4. i \in Nat /\ count[queue[i].owner] \in Nat
        BY <2>1, <3>1, <4>1
      <4>5. Len(queue') - i + 1 = (Len(queue) - i + 1) + 1
        BY <4>1, <4>4
      <4>6. /\ queue[i].nr < count'[queue[i].owner]
            /\ count'[queue[i].owner] - queue[i].nr <= (Len(queue) - i + 1) + 1
        <5> DEFINE c == count[queue[i].owner]
                   d == count'[queue[i].owner]
                   n == queue[i].nr
                   k == Len(queue) - i + 1
        <5>1. c \in Nat /\ d \in {c, c + 1} /\ n \in Nat /\ k \in Int /\ n < c /\ c - n <= k
          BY <4>1, <4>2, <4>3, <4>4
        <5> HIDE DEF c, d, n, k
        <5>2. n < d /\ d - n <= k + 1
          BY <5>1, OneMore
        <5> QED
          BY <5>2 DEF d, n, k
      <4>7. QED
        BY <4>1, <4>5, <4>6
    <3>2. CASE i = Len(queue) + 1
      <4>1. /\ queue'[i].owner = p /\ queue'[i].nr = count[p] /\ Len(queue) \in Nat
            /\ Len(queue') = Len(queue) + 1
        BY <1>2, <3>2, SubmitQueue, MessageTypes
      <4>2. count'[p] = count[p] + 1 /\ count[p] \in Nat
        BY <2>1
      <4>3. QED
        BY <3>2, <4>1, <4>2
    <3>3. i \in 1 .. Len(queue) + 1 /\ Len(queue) \in Nat
      BY <1>2, SubmitQueue, MessageTypes
    <3>4. QED
      BY <3>1, <3>2, <3>3
  <2>3. ASSUME ext.pc = "held"
        PROVE  /\ ext.msg.nr < count'[ext.msg.owner]
               /\ count'[ext.msg.owner] - ext.msg.nr <= Len(queue') + 1
    <3>1. /\ ext.msg.nr < count[ext.msg.owner]
          /\ count[ext.msg.owner] - ext.msg.nr <= Len(queue) + 1
      BY <2>3 DEF PointersAreRecent
    <3>2. /\ Len(queue) \in Nat /\ ext.msg.owner \in Producer /\ ext.msg.nr \in Nat
          /\ Len(queue') = Len(queue) + 1
      BY <1>2, <2>3, SubmitQueue, MessageTypes
    <3> DEFINE c == count[ext.msg.owner]
               d == count'[ext.msg.owner]
               n == ext.msg.nr
               k == Len(queue) + 1
    <3>3. c \in Nat /\ d \in {c, c + 1}
      BY <2>1, <3>2
    <3>4. n \in Nat /\ k \in Int /\ n < c /\ c - n <= k /\ Len(queue') + 1 = k + 1
      BY <3>1, <3>2
    <3> SUFFICES n < d /\ d - n <= Len(queue') + 1
      OBVIOUS
    <3> HIDE DEF c, d, n, k
    <3>5. n < d /\ d - n <= k + 1
      BY <3>3, <3>4, OneMore
    <3>6. QED
      BY <3>4, <3>5
  <2>4. ext' = ext
    BY <1>2 DEF Submit
  <2>5. QED
    BY <2>2, <2>3, <2>4 DEF PointersAreRecent
<1>3. CASE Receive
  <2>1. count' = count
    BY <1>3 DEF Receive
  <2>2. ASSUME NEW i \in DOMAIN queue'
        PROVE  /\ queue'[i].nr < count'[queue'[i].owner]
               /\ count'[queue'[i].owner] - queue'[i].nr <= Len(queue') - i + 1
    <3>1. /\ i + 1 \in DOMAIN queue /\ queue'[i] = queue[i + 1] /\ i \in Nat
          /\ Len(queue) \in Nat /\ Len(queue') = Len(queue) - 1
      BY <1>3, ReceiveQueue
    <3>2. /\ queue[i + 1].nr < count[queue[i + 1].owner]
          /\ count[queue[i + 1].owner] - queue[i + 1].nr <= Len(queue) - (i + 1) + 1
      BY <3>1 DEF PointersAreRecent
    <3>3. Len(queue) - (i + 1) + 1 = Len(queue') - i + 1
      BY <3>1
    <3>4. QED
      BY <2>1, <3>1, <3>2, <3>3
  <2>3. /\ ext'.msg.nr < count'[ext'.msg.owner]
        /\ count'[ext'.msg.owner] - ext'.msg.nr <= Len(queue') + 1
    <3>1. /\ queue[1].nr < count[queue[1].owner]
          /\ count[queue[1].owner] - queue[1].nr <= Len(queue) - 1 + 1
      BY <1>3, ReceiveQueue DEF PointersAreRecent
    <3>2. QED
      BY <1>3, <2>1, <3>1, ReceiveQueue
  <2>4. QED
    BY <2>2, <2>3 DEF PointersAreRecent
<1>4. CASE Parse \/ Finish
  <2>1. UNCHANGED <<count, queue>> /\ ext'.pc # "held"
    BY <1>4, LeavesHeld DEF Parse, Finish
  <2>2. QED
    BY <2>1 DEF PointersAreRecent
<1>5. ASSUME NEW p \in Producer, Submit(p), queue' = queue PROVE UNCHANGED <<count, queue, ext>>
  <2>1. [owner |-> p, nr |-> count[p]] \in Pointer /\ queue \in Seq(Pointer) /\ Len(queue) \in Nat
    BY MessageTypes DEF TypeOK, Pointer
  <2>2. Len(Append(queue, [owner |-> p, nr |-> count[p]])) = Len(queue) + 1
    BY <2>1, AppendProperties
  <2>3. QED
    BY <1>5, <2>1, <2>2 DEF Submit
<1>6. QED
  BY <1>1, <1>2, <1>3, <1>4, <1>5 DEF Next, Fill, vars

LEMMA FilledStep ==
    ASSUME ExternalCommsConstants, TypeOK, PointersAreRecent, PointersAreFilled, [Next]_vars
    PROVE  PointersAreFilled'
<1>1. ASSUME NEW p \in Producer, NEW d \in Document, Fill(p, d) PROVE PointersAreFilled'
  <2>1. /\ queue' = queue /\ ext' = ext /\ count' = count
        /\ filled' = [filled EXCEPT ![p] = TRUE]
        /\ buffer' = [buffer EXCEPT ![p][count[p] % RingSize] = d]
    BY <1>1 DEF Fill
  <2>2. count[p] % RingSize \in Ring
    BY DEF TypeOK, Ring, ExternalCommsConstants
  <2>3. buffer'[p][count[p] % RingSize] = d
    BY <2>1, <2>2 DEF TypeOK
  <2>4. \A q \in Producer \ {p} : buffer'[q] = buffer[q] /\ filled'[q] = filled[q]
    BY <2>1 DEF TypeOK
  <2>5. \A q \in Producer : filled'[q] => buffer'[q][count'[q] % RingSize] \in Document
    BY <2>1, <2>3, <2>4 DEF PointersAreFilled
  <2>6. /\ \A i \in DOMAIN queue : Bytes(queue[i])' \in Document
        /\ ext.pc = "held" => Bytes(ext.msg)' \in Document
    BY <1>1, FillSpares DEF PointersAreFilled
  <2>7. QED
    BY <2>1, <2>5, <2>6 DEF PointersAreFilled
<1>2. ASSUME NEW p \in Producer, Submit(p) PROVE PointersAreFilled'
  <2>1. /\ buffer' = buffer /\ ext' = ext /\ filled[p]
        /\ filled' = [filled EXCEPT ![p] = FALSE]
        /\ \A q \in Producer \ {p} : count'[q] = count[q]
    BY <1>2 DEF Submit, TypeOK
  <2>2. ASSUME NEW q \in Producer, filled'[q]
        PROVE  buffer'[q][count'[q] % RingSize] \in Document
    <3>1. q # p /\ filled[q]
      BY <2>1, <2>2 DEF TypeOK
    <3>2. QED
      BY <2>1, <3>1 DEF PointersAreFilled
  <2>3. ASSUME NEW i \in DOMAIN queue'
        PROVE  buffer[queue'[i].owner][queue'[i].nr % RingSize] \in Document
    <3>1. CASE queue' = queue
      BY <2>3, <3>1 DEF PointersAreFilled, Bytes
    <3>2. CASE queue' # queue /\ i = Len(queue) + 1
      BY <1>2, <2>1, <3>2, SubmitQueue DEF PointersAreFilled
    <3>3. CASE queue' # queue /\ i \in 1 .. Len(queue)
      BY <1>2, <3>3, SubmitQueue, MessageTypes DEF PointersAreFilled, Bytes
    <3>4. queue' # queue => i \in 1 .. Len(queue) + 1 /\ Len(queue) \in Nat
      BY <1>2, <2>3, SubmitQueue, MessageTypes
    <3>5. QED
      BY <3>1, <3>2, <3>3, <3>4
  <2>4. ext.pc = "held" => buffer[ext.msg.owner][ext.msg.nr % RingSize] \in Document
    BY DEF PointersAreFilled, Bytes
  <2>5. QED
    BY <2>1, <2>2, <2>3, <2>4 DEF PointersAreFilled, Bytes
<1>3. CASE Receive
  <2>1. UNCHANGED <<buffer, filled, count>>
    BY <1>3 DEF Receive
  <2>2. ASSUME NEW i \in DOMAIN queue' PROVE Bytes(queue'[i]) \in Document
    <3>1. i + 1 \in DOMAIN queue /\ queue'[i] = queue[i + 1]
      BY <1>3, ReceiveQueue
    <3>2. QED
      BY <3>1 DEF PointersAreFilled
  <2>3. Bytes(ext'.msg) \in Document
    BY <1>3, ReceiveQueue DEF PointersAreFilled
  <2>4. QED
    BY <2>1, <2>2, <2>3 DEF PointersAreFilled, Bytes
<1>4. CASE Parse \/ Finish
  <2>1. UNCHANGED <<buffer, filled, count, queue>> /\ ext'.pc # "held"
    BY <1>4, LeavesHeld DEF Parse, Finish
  <2>2. QED
    BY <2>1 DEF PointersAreFilled, Bytes
<1>5. CASE UNCHANGED vars
  BY <1>5 DEF vars, PointersAreFilled, Bytes
<1>6. QED
  BY <1>1, <1>2, <1>3, <1>4, <1>5 DEF Next

------------------------------------------------------------------------------
LEMMA GoodInit ==
    ASSUME ExternalCommsConstants, Init, inputs \in Nat
    PROVE  CommsInv
<1>1. queue = <<>> /\ queue \in Seq(Pointer) /\ Len(queue) = 0 /\ DOMAIN queue = {}
  BY EmptySeq DEF Init
<1>2. TypeOK
  BY <1>1 DEF Init, TypeOK, Waiting, ExternalCommsConstants
<1>3. QED
  BY <1>1, <1>2 DEF Init, CommsInv, PointersAreRecent, PointersAreFilled, Waiting

LEMMA GoodStep ==
    ASSUME ExternalCommsConstants, CommsInv, [Next]_vars
    PROVE  CommsInv'
BY TypeStep, RecentStep, FilledStep DEF CommsInv

(* For any number of producers: a pointer under way is recent, and the     *)
(* buffer it points to still holds a document.                             *)
THEOREM PointersStayGood ==
    ASSUME ExternalCommsConstants
    PROVE  Spec => []CommsInv
<1>1. Init /\ inputs \in Nat => CommsInv
  BY GoodInit
<1>2. CommsInv /\ [Next]_vars => CommsInv'
  BY GoodStep
<1>3. QED
  BY <1>1, <1>2, PTL DEF Spec

LEMMA QueueInit == Init => Documents!Init
<1> DEFINE pend == [i \in DOMAIN queue |-> Bytes(queue[i])]
           take == IF ext.pc = "held" THEN Bytes(ext.msg) ELSE ext.doc
<1> SUFFICES ASSUME Init PROVE Documents!Init
  OBVIOUS
<1>1. queue = <<>> /\ ext.pc = "receive" /\ ext.doc = NoDocument
  BY DEF Init, Waiting
<1>2. pend = <<>>
  BY <1>1
<1>3. QED
  BY <1>1, <1>2 DEF Documents!Init

(* Every step of a producer or of the comms task is a step of the queue of *)
(* documents or invisible to it.                                           *)
LEMMA QueueStep ==
    ASSUME ExternalCommsConstants, CommsInv, CommsInv', [Next]_vars
    PROVE  [Documents!Next]_Documents!vars
<1> DEFINE pend == [i \in DOMAIN queue |-> Bytes(queue[i])]
           take == IF ext.pc = "held" THEN Bytes(ext.msg) ELSE ext.doc
<1> USE DEF CommsInv
<1>0. /\ Len(queue) \in 0 .. QueueDepth /\ DOMAIN queue = 1 .. Len(queue)
      /\ pend \in Seq(Document) /\ Len(pend) = Len(queue)
      /\ \A i \in 1 .. Len(queue) : pend[i] = Bytes(queue[i])
  <2>1. Len(queue) \in 0 .. QueueDepth /\ DOMAIN queue = 1 .. Len(queue)
    BY MessageTypes
  <2>2. pend \in [1 .. Len(queue) -> Document]
    BY <2>1 DEF PointersAreFilled
  <2>3. QED
    BY <2>1, <2>2
<1>1. ASSUME NEW p \in Producer, NEW d \in Document, Fill(p, d)
      PROVE  UNCHANGED <<pend, take>>
  <2>1. queue' = queue /\ ext' = ext
    BY <1>1 DEF Fill
  <2>2. /\ \A i \in DOMAIN queue : Bytes(queue[i])' = Bytes(queue[i])
        /\ ext.pc = "held" => Bytes(ext.msg)' = Bytes(ext.msg)
    BY <1>1, FillSpares
  <2>3. QED
    BY <2>1, <2>2
<1>2. ASSUME NEW p \in Producer, Submit(p)
      PROVE  UNCHANGED <<pend, take>> \/ \E d \in Document : Documents!Post(d)
  <2> DEFINE d == buffer[p][count[p] % RingSize]
  <2>1. ext' = ext /\ buffer' = buffer
    BY <1>2 DEF Submit
  <2>2. take' = take
    BY <2>1 DEF Bytes
  <2>3. CASE queue' = queue
    BY <2>1, <2>2, <2>3 DEF Bytes
  <2>4. CASE queue' # queue
    <3>1. d \in Document
      BY <1>2 DEF Submit, PointersAreFilled
    <3>2. pend' = [i \in 1 .. Len(queue) + 1 |-> Bytes(queue'[i])]
      BY <1>2, <2>1, <2>4, SubmitQueue DEF Bytes
    <3>3. \A i \in 1 .. Len(queue) : pend'[i] = pend[i]
      <4>1. ASSUME NEW i \in 1 .. Len(queue) PROVE pend'[i] = pend[i]
        <5>1. i \in 1 .. Len(queue) + 1 /\ queue'[i] = queue[i]
          BY <1>0, <1>2, <2>4, SubmitQueue
        <5>2. QED
          BY <1>0, <3>2, <5>1
      <4>2. QED
        BY <4>1
    <3>4. pend'[Len(queue) + 1] = d
      <4>1. Len(queue) + 1 \in 1 .. Len(queue) + 1
        BY <1>0
      <4>2. Bytes(queue'[Len(queue) + 1]) = d
        BY <1>2, <2>1, <2>4, SubmitQueue DEF Bytes
      <4>3. QED
        BY <3>2, <4>1, <4>2
    <3>5. pend' \in Seq(Document) /\ Len(pend') = Len(queue) + 1
      <4>1. \A i \in 1 .. Len(queue) + 1 : pend'[i] \in Document
        <5>1. \A i \in 1 .. Len(queue) : pend[i] \in Document
          BY <1>0 DEF PointersAreFilled
        <5>2. QED
          BY <1>0, <3>1, <3>3, <3>4, <5>1
      <4>2. pend' \in [1 .. Len(queue) + 1 -> Document]
        BY <3>2, <4>1
      <4>3. QED
        BY <1>0, <4>2
    <3>6. /\ Append(pend, d) \in Seq(Document) /\ Len(Append(pend, d)) = Len(queue) + 1
          /\ \A i \in 1 .. Len(queue) : Append(pend, d)[i] = pend[i]
          /\ Append(pend, d)[Len(queue) + 1] = d
      BY <1>0, <3>1, AppendProperties
    <3>7. \A i \in 1 .. Len(queue) + 1 : pend'[i] = Append(pend, d)[i]
      BY <1>0, <3>3, <3>4, <3>6
    <3>8. pend' = Append(pend, d)
      BY <3>5, <3>6, <3>7, SeqEqual
    <3>9. Len(pend) < QueueDepth
      BY <1>0, <1>2, <2>4, SubmitQueue
    <3>10. Documents!Post(d)
      BY <2>2, <3>8, <3>9 DEF Documents!Post
    <3>11. QED
      BY <3>1, <3>10
  <2>5. QED
    BY <2>3, <2>4
<1>3. CASE Receive
  <2>1. buffer' = buffer /\ ext.pc = "receive" /\ ext.doc = NoDocument
    BY <1>3 DEF Receive, TypeOK
  <2>2. pend' = [i \in 1 .. Len(queue') |-> Bytes(queue'[i])]
    BY <1>3, <2>1, ReceiveQueue DEF Bytes
  <2>3. pend # <<>> /\ Head(pend) = Bytes(queue[1])
    BY <1>0, <1>3, ReceiveQueue
  <2>4. /\ Tail(pend) \in Seq(Document) /\ Len(Tail(pend)) = Len(queue')
        /\ \A i \in 1 .. Len(queue') : Tail(pend)[i] = pend[i + 1]
    <3>1. pend \in Seq(Document) /\ pend # <<>> /\ Len(queue') = Len(pend) - 1
      BY <1>0, <1>3, <2>3, ReceiveQueue
    <3> DEFINE n == Len(queue')
    <3>2. pend \in Seq(Document) /\ pend # <<>> /\ n = Len(pend) - 1
      BY <3>1
    <3> SUFFICES /\ Tail(pend) \in Seq(Document) /\ Len(Tail(pend)) = n
                 /\ \A i \in 1 .. n : Tail(pend)[i] = pend[i + 1]
      OBVIOUS
    <3> HIDE DEF pend, n
    <3>3. /\ Tail(pend) \in Seq(Document) /\ Len(Tail(pend)) = Len(pend) - 1
          /\ \A i \in 1 .. Len(Tail(pend)) : Tail(pend)[i] = pend[i + 1]
      BY <3>2, HeadTailProperties
    <3>4. Len(Tail(pend)) = n
      BY <3>2, <3>3
    <3>5. QED
      BY <3>3, <3>4, Zenon
  <2>5. \A i \in 1 .. Len(queue') : pend'[i] = Tail(pend)[i]
    <3>1. ASSUME NEW i \in 1 .. Len(queue') PROVE pend'[i] = Tail(pend)[i]
      <4>1. queue'[i] = queue[i + 1] /\ i + 1 \in 1 .. Len(queue)
        BY <1>0, <1>3, ReceiveQueue
      <4>2. QED
        BY <1>0, <2>2, <2>4, <4>1
    <3>2. QED
      BY <3>1
  <2>6. pend' \in Seq(Document) /\ Len(pend') = Len(queue')
    <3>1. Len(queue') \in Nat
      BY <1>0, <1>3, ReceiveQueue
    <3>2. \A i \in 1 .. Len(queue') : pend'[i] \in Document
      BY <1>3, ReceiveQueue, <2>1, <2>2 DEF PointersAreFilled, Bytes
    <3>3. pend' \in [1 .. Len(queue') -> Document]
      BY <2>2, <3>2
    <3>4. QED
      BY <3>1, <3>3
  <2>7. pend' = Tail(pend)
    BY <2>4, <2>5, <2>6, SeqEqual
  <2>8. take = NoDocument /\ take' = Head(pend)
    BY <1>3, <2>1, <2>3, ReceiveQueue DEF Bytes
  <2>9. Documents!Take
    BY <2>3, <2>7, <2>8 DEF Documents!Take
  <2>10. QED
    BY <2>9 DEF Documents!Next
<1>4. CASE Parse
  <2>1. /\ ext.pc = "held" /\ UNCHANGED <<buffer, queue>>
        /\ ext' = [ext EXCEPT !.pc = "import", !.msg = NoPointer, !.doc = Bytes(ext.msg)]
    BY <1>4 DEF Parse
  <2>2. ext'.doc = Bytes(ext.msg)
    BY <2>1 DEF TypeOK
  <2>3. ext'.pc # "held"
    BY <1>4, LeavesHeld
  <2>4. pend' = pend /\ take' = take
    BY <2>1, <2>2, <2>3 DEF Bytes
  <2>5. QED
    BY <2>4 DEF Documents!vars
<1>5. CASE Finish
  <2>1. /\ ext.pc = "import" /\ ext.doc \in Document /\ ext'.pc = "receive"
        /\ ext'.doc = NoDocument /\ UNCHANGED <<buffer, queue>>
    BY <1>5 DEF Finish, Waiting, TypeOK
  <2>2. pend' = pend
    BY <2>1 DEF Bytes
  <2>3. Documents!Finish
    BY <2>1, <2>2 DEF Documents!Finish, ExternalCommsConstants
  <2>4. QED
    BY <2>3 DEF Documents!Next
<1>6. CASE UNCHANGED vars
  BY <1>6 DEF vars, Bytes, Documents!vars
<1>7. QED
  BY <1>1, <1>2, <1>3, <1>4, <1>5, <1>6 DEF Next, Documents!Next, Documents!vars

(* The queue of pointers is a queue of documents: every step of a producer *)
(* or of the comms task is a step of DocumentQueue or invisible to it.     *)
THEOREM CommsImplementsQueue ==
    ASSUME ExternalCommsConstants
    PROVE  Spec => ImplementsQueue
<1>1. CommsInv /\ CommsInv' /\ [Next]_vars => [Documents!Next]_Documents!vars
  BY QueueStep
<1>2. QED
  BY <1>1, QueueInit, PointersStayGood, PTL DEF Spec, ImplementsQueue, Documents!Spec
==============================================================================
