------------------------------ MODULE CommsProofs ------------------------------
(***************************************************************************)
(* Proofs about Comms for any records, documents and frames, and buffers   *)
(* of any size: what the UART task imports was sent, whole; what it        *)
(* exports is recent; what is imported is announced; then the type         *)
(* invariant, the answers that hosts read, and the queue of documents that *)
(* it implements.                                                          *)
(***************************************************************************)
EXTENDS Comms, SequenceTheorems, FiniteSetTheorems, WellFoundedInduction, TLAPS

------------------------------------------------------------------------------
(* The first unit of a kind in a sequence.                                 *)

(* A set of natural numbers has a least one.                               *)
LEMMA Least ==
    ASSUME NEW I \in SUBSET Nat, I # {}
    PROVE  \E x \in I : \A y \in I : x <= y
<1> DEFINE Upto(x) == 0 .. x
<1> DEFINE T == {Upto(x) : x \in I}
<1> DEFINE R == StrictSubsetOrdering(Nat)
<1>1. T \subseteq FiniteSubsetsOf(Nat) /\ T # {}
  <2>1. ASSUME NEW x \in I PROVE Upto(x) \subseteq Nat /\ IsFiniteSet(Upto(x))
    BY FS_Interval
  <2>2. QED
    BY <2>1 DEF FiniteSubsetsOf
<1>2. IsWellFoundedOn(R, FiniteSubsetsOf(Nat))
  BY FS_StrictSubsetOrderingWellFounded
<1>3. \E t \in T : \A u \in T : ~ (<<u, t>> \in R)
  <2> HIDE DEF T, R
  <2> QED BY <1>1, <1>2, WFMin
<1>4. PICK x \in I : \A u \in T : ~ (<<u, Upto(x)>> \in R)
  BY <1>3
<1>5. ASSUME NEW y \in I, y < x PROVE FALSE
  <2>1. Upto(y) \in T /\ Upto(y) \subseteq Upto(x) /\ Upto(x) \subseteq Nat
    BY <1>5
  <2>2. x \in Upto(x) /\ x \notin Upto(y)
    BY <1>5
  <2>3. <<Upto(y), Upto(x)>> \in R
    <3> HIDE DEF Upto
    <3> QED BY <2>1, <2>2 DEF StrictSubsetOrdering
  <2>4. QED
    BY <1>4, <2>1, <2>3
<1>6. QED
  BY <1>5

\* n is the place of the first mark in s, 0 if there is none.
IsFirst(n, s, mark) ==
    \/ /\ n = 0
       /\ \A i \in 1 .. Len(s) : s[i] # mark
    \/ /\ n \in 1 .. Len(s)
       /\ s[n] = mark
       /\ \A i \in 1 .. n - 1 : s[i] # mark

LEMMA FirstMark ==
    ASSUME NEW s \in Seq(STRING), NEW mark, NEW n,
           n = LET I == {i \in 1 .. Len(s) : s[i] = mark}
               IN IF I # {} THEN Line!Min(I) ELSE 0
    PROVE  IsFirst(n, s, mark)
<1> DEFINE I == {i \in 1 .. Len(s) : s[i] = mark}
<1>1. n = IF I # {} THEN Line!Min(I) ELSE 0
  OBVIOUS
<1>2. Len(s) \in Nat
  BY LenProperties
<1>3. I # {} => Line!Min(I) \in I /\ \A y \in I : Line!Min(I) <= y
  <2> I \in SUBSET Nat
    BY <1>2
  <2> HIDE DEF I
  <2> QED BY Least DEF Line!Min
<1>4. CASE I = {}
  BY <1>1, <1>4 DEF IsFirst
<1>5. CASE I # {}
  <2>1. /\ n \in 1 .. Len(s)
        /\ s[n] = mark
        /\ \A y \in I : n <= y
    BY <1>1, <1>3, <1>5
  <2>2. ASSUME NEW i \in 1 .. n - 1, s[i] = mark PROVE FALSE
    <3>1. i \in 1 .. Len(s) /\ ~(n <= i)
      BY <1>2, <2>1, <2>2
    <3>2. i \in I
      BY <2>2, <3>1
    <3>3. QED
      BY <2>1, <3>1, <3>2, Zenon
  <2>3. QED
    BY <2>1, <2>2 DEF IsFirst
<1>6. QED
  BY <1>4, <1>5

LEMMA FirstOfFrame ==
    ASSUME NEW s \in Seq(STRING)
    PROVE  IsFirst(Line!Newline(s), s, "nl") /\ IsFirst(Line!Closing(s), s, "end")
<1>1. IsFirst(Line!Newline(s), s, "nl")
  BY FirstMark DEF Line!Newline, Line!SelectInSeq
<1>2. IsFirst(Line!Closing(s), s, "end")
  BY FirstMark DEF Line!Closing, Line!SelectInSeq
<1>3. QED
  BY <1>1, <1>2

------------------------------------------------------------------------------
(* A frame and what has arrived of it.                                     *)

Begins(s, t) ==
    /\ Len(s) <= Len(t)
    /\ \A i \in 1 .. Len(s) : s[i] = t[i]

\* What is found in a part of a frame stands at the same place in the whole.
LEMMA FirstOfPrefix ==
    ASSUME NEW s \in Seq(STRING), NEW t \in Seq(STRING), Begins(s, t),
           NEW mark, NEW m, NEW n, IsFirst(m, s, mark), IsFirst(n, t, mark), m # 0
    PROVE  m = n
<1>1. Len(s) \in Nat /\ Len(t) \in Nat
  BY LenProperties
<1>2. m \in 1 .. Len(s) /\ s[m] = mark /\ \A i \in 1 .. m - 1 : s[i] # mark
  BY DEF IsFirst
<1>3. t[m] = mark /\ m \in 1 .. Len(t) /\ \A i \in 1 .. m - 1 : t[i] # mark
  BY <1>1, <1>2 DEF Begins
<1>4. n \in 1 .. Len(t) /\ t[n] = mark /\ \A i \in 1 .. n - 1 : t[i] # mark
  BY <1>3 DEF IsFirst
<1>5. ~(m < n) /\ ~(n < m)
  BY <1>1, <1>3, <1>4
<1>6. QED
  BY <1>1, <1>3, <1>4, <1>5

\* A part between two places is the same in both.
LEMMA SamePart ==
    ASSUME NEW s \in Seq(STRING), NEW t \in Seq(STRING), Begins(s, t),
           NEW a \in 1 .. Len(s) + 1, NEW b \in a - 1 .. Len(s)
    PROVE  SubSeq(s, a, b) = SubSeq(t, a, b)
<1>1. Len(s) \in Nat /\ Len(t) \in Nat
  BY LenProperties
<1>2. /\ SubSeq(s, a, b) \in Seq(STRING) /\ SubSeq(t, a, b) \in Seq(STRING)
      /\ Len(SubSeq(s, a, b)) = b - a + 1 /\ Len(SubSeq(t, a, b)) = b - a + 1
      /\ \A i \in 1 .. b - a + 1 : /\ SubSeq(s, a, b)[i] = s[a + i - 1]
                                   /\ SubSeq(t, a, b)[i] = t[a + i - 1]
  BY <1>1, SubSeqProperties DEF Begins
<1>3. \A i \in 1 .. b - a + 1 : SubSeq(s, a, b)[i] = SubSeq(t, a, b)[i]
  BY <1>1, <1>2 DEF Begins
<1>4. QED
  BY <1>2, <1>3, SeqEqual

(* The command of a frame is known once its newline is there, and what has *)
(* arrived of the payload begins it.                                       *)
LEMMA FrameOfPrefix ==
    ASSUME NEW s \in Seq(STRING), NEW t \in Seq(STRING), Begins(s, t), Line!Newline(s) # 0
    PROVE  /\ Line!Command(t) = Line!Command(s)
           /\ Line!PayloadOf(s) \in Seq(STRING) /\ Line!PayloadOf(t) \in Seq(STRING)
           /\ Begins(Line!PayloadOf(s), Line!PayloadOf(t))
<1> DEFINE n == Line!Newline(s)
<1>1. Len(s) \in Nat /\ Len(t) \in Nat /\ Len(s) <= Len(t)
  BY LenProperties DEF Begins
<1>2. n \in 1 .. Len(s) /\ Line!Newline(t) = n
  <2>1. Line!Newline(t) = n
    BY FirstOfFrame, FirstOfPrefix
  <2>2. QED
    BY <2>1, FirstOfFrame DEF IsFirst
<1>3. Line!CommandLine(t) = Line!CommandLine(s)
  <2>1. SubSeq(s, 1, n - 1) = SubSeq(t, 1, n - 1)
    BY <1>1, <1>2, SamePart
  <2>2. QED
    BY <1>1, <1>2, <2>1 DEF Line!CommandLine
<1>4. Line!PayloadOf(s) = SubSeq(s, n + 1, Len(s)) /\ Line!PayloadOf(t) = SubSeq(t, n + 1, Len(t))
  BY <1>1, <1>2 DEF Line!PayloadOf
<1> HIDE DEF n
<1>5. /\ SubSeq(s, n + 1, Len(s)) \in Seq(STRING) /\ SubSeq(t, n + 1, Len(t)) \in Seq(STRING)
      /\ Len(SubSeq(s, n + 1, Len(s))) = Len(s) - n /\ Len(SubSeq(t, n + 1, Len(t))) = Len(t) - n
      /\ \A i \in 1 .. Len(s) - n : SubSeq(s, n + 1, Len(s))[i] = s[n + i]
      /\ \A i \in 1 .. Len(t) - n : SubSeq(t, n + 1, Len(t))[i] = t[n + i]
  BY <1>1, <1>2, SubSeqProperties
<1>6. Begins(SubSeq(s, n + 1, Len(s)), SubSeq(t, n + 1, Len(t)))
  BY <1>1, <1>2, <1>5 DEF Begins
<1>7. QED
  BY <1>3, <1>4, <1>5, <1>6 DEF Line!Command

(* A document ends at its closing brace: more of it changes nothing.       *)
LEMMA DocumentOfPrefix ==
    ASSUME NEW s \in Seq(STRING), NEW t \in Seq(STRING), Begins(s, t), Line!WellFormed(s)
    PROVE  Line!WellFormed(t) /\ Line!RecordsOf(t) = Line!RecordsOf(s)
<1>1. Len(s) \in Nat /\ Len(t) \in Nat /\ Len(s) <= Len(t)
  BY LenProperties DEF Begins
<1>2. SUFFICES ASSUME NEW n, NEW m, n = Line!Closing(s), m = Line!Closing(t)
               PROVE  Line!WellFormed(t) /\ Line!RecordsOf(t) = Line!RecordsOf(s)
  OBVIOUS
<1>3. IsFirst(n, s, "end") /\ IsFirst(m, t, "end")
  BY <1>2, FirstOfFrame
<1>4. n > 0
  BY <1>2 DEF Line!WellFormed
<1>5. s[1] = "begin" /\ \A i \in 2 .. n - 1 : s[i] # "begin"
  BY <1>2 DEF Line!WellFormed
<1>6. n \in 1 .. Len(s) /\ s[n] = "end"
  BY <1>3, <1>4 DEF IsFirst
<1>7. m = n
  BY <1>3, <1>4, FirstOfPrefix
<1>8. n >= 2
  BY <1>1, <1>5, <1>6
<1>9. SubSeq(s, 2, n - 1) = SubSeq(t, 2, n - 1)
  BY <1>1, <1>6, <1>8, SamePart
<1>10. t[1] = "begin" /\ \A i \in 2 .. n - 1 : t[i] # "begin"
  BY <1>1, <1>5, <1>6, <1>8 DEF Begins
<1>11. t # <<>>
  BY <1>1, <1>6, EmptySeq
<1>12. Line!WellFormed(t)
  BY <1>2, <1>4, <1>7, <1>10, <1>11 DEF Line!WellFormed
<1>13. QED
  BY <1>2, <1>7, <1>9, <1>12 DEF Line!RecordsOf
------------------------------------------------------------------------------
(* What the UART task imports is what the host sent.                       *)

(* What has been received of the frame stands at the beginning of s_rx,    *)
(* and is the beginning of what the host sends.                            *)
FrameInv ==
    /\ DOMAIN rx = 1 .. RxCap
    /\ uart = [pc |-> uart.pc, off |-> uart.off, reply |-> uart.reply]
    /\ host = [stream |-> host.stream, there |-> host.there, read |-> host.read]
    /\ host.stream \in Seq(STRING)
    /\ uart.off \in 0 .. Len(host.stream)
    /\ uart.off <= RxCap
    /\ \A i \in 1 .. uart.off : rx[i] = host.stream[i]

LEMMA BufferSize == RxCap \in Nat /\ RxCap > 2
BY CommsConstants

LEMMA FrameInit == Init => FrameInv
<1> SUFFICES ASSUME Init PROVE FrameInv
  OBVIOUS
<1>1. Line!Init
  BY DEF Init
<1>2. host.stream = <<>> /\ <<>> \in Seq(STRING) /\ Len(<<>>) = 0
  BY <1>1, EmptySeq DEF Line!Init, Line!NoHost
<1>3. QED
  BY <1>1, <1>2, CommsConstants
     DEF FrameInv, Line!Init, Line!NoHost, Line!Listening

LEMMA FrameStep == FrameInv /\ [Next]_vars => FrameInv'
<1> SUFFICES ASSUME FrameInv, [Next]_vars PROVE FrameInv'
  OBVIOUS
<1>1. CASE UNCHANGED line
  BY <1>1 DEF line, FrameInv
<1>2. CASE \E k \in 1 .. Len(host.stream) : Line!Recv(k)
  <2>1. PICK k \in 1 .. Len(host.stream) : Line!Recv(k)
    BY <1>2
  <2>2. Len(host.stream) \in Nat
    BY LenProperties DEF FrameInv
  <2>3. uart.off + k <= RxCap /\ uart.off + k <= Len(host.stream)
    <3> DEFINE m == Line!Min({RxCap, Len(host.stream)})
    <3>1. RxCap \in Nat
      BY BufferSize
    <3>2. m <= RxCap /\ m <= Len(host.stream) /\ m \in Nat
      BY <2>2, <3>1 DEF Line!Min
    <3>3. uart.off + k <= m /\ uart.off + k \in Nat
      BY <2>1, <2>2 DEF Line!Recv, FrameInv
    <3> HIDE DEF m
    <3>4. QED
      BY <2>2, <3>1, <3>2, <3>3
  <2>4. /\ uart'.off = uart.off + k
        /\ uart' = [pc |-> uart'.pc, off |-> uart'.off, reply |-> uart'.reply]
        /\ host' = host
        /\ rx' = [i \in DOMAIN rx |-> IF i \in uart.off + 1 .. uart.off + k
                                      THEN host.stream[i] ELSE rx[i]]
    BY <2>1 DEF Line!Recv, FrameInv
  <2>5. \A i \in 1 .. uart.off + k : rx'[i] = host.stream[i]
    BY <2>2, <2>3, <2>4, BufferSize DEF FrameInv
  <2>6. QED
    <3>1. host'.stream = host.stream /\ DOMAIN rx' = DOMAIN rx
      BY <2>4
    <3>2. uart'.off \in 0 .. Len(host.stream) /\ uart'.off <= RxCap
      BY <2>2, <2>3, <2>4, BufferSize DEF FrameInv
    <3>3. \A i \in 1 .. uart'.off : rx'[i] = host'.stream[i]
      BY <2>4, <2>5, <3>1
    <3>4. QED
      BY <2>4, <3>1, <3>2, <3>3 DEF FrameInv
<1>3. CASE HostConnects
  <2>1. PICK stream \in Streams : Line!Accept(stream)
    BY <1>3 DEF HostConnects
  <2>2. stream \in Seq(STRING) /\ Len(stream) \in Nat
    BY CommsConstants, LenProperties
  <2>3. /\ host' = [stream |-> stream, there |-> TRUE, read |-> Line!Silence]
        /\ uart'.off = 0
        /\ uart' = [pc |-> uart'.pc, off |-> uart'.off, reply |-> uart'.reply]
        /\ rx' = rx
    BY <2>1 DEF Line!Accept, FrameInv
  <2>4. QED
    BY <2>2, <2>3, CommsConstants DEF FrameInv
<1>4. CASE Line!Close
  <2>1. <<>> \in Seq(STRING) /\ Len(<<>>) = 0
    BY EmptySeq
  <2>2. QED
    BY <1>4, <2>1, CommsConstants DEF Line!Close, Line!NoHost, Line!Listening, FrameInv
<1>5. ASSUME rx' = rx, uart'.off = uart.off, host'.stream = host.stream,
             uart' = [pc |-> uart'.pc, off |-> uart'.off, reply |-> uart'.reply],
             host' = [stream |-> host'.stream, there |-> host'.there, read |-> host'.read]
      PROVE  FrameInv'
  BY <1>5 DEF FrameInv
<1>6. CASE Line!EndOfFrame \/ Line!RecvFails \/ Line!SendReply
  BY <1>5, <1>6 DEF Line!EndOfFrame, Line!RecvFails, Line!SendReply, Line!FrameEnds, FrameInv
<1>7. CASE Line!Dispatch
  BY <1>5, <1>7 DEF Line!Dispatch, Line!Reply, FrameInv
<1>8. CASE UartCommits
  BY <1>5, <1>8 DEF UartCommits, Line!ImportReturns, Line!Reply, FrameInv
<1>9. CASE UartExports
  BY <1>5, <1>9 DEF UartExports, Line!ExportReturns, Line!Reply, FrameInv
<1>11. CASE UartTask
  <2>1. UartReceives => Line!EndOfFrame \/ Line!RecvFails
                        \/ \E k \in 1 .. Len(host.stream) : Line!Recv(k)
    BY DEF UartReceives, Line!Receiving
  <2>2. UartReceives => FrameInv'
    BY <1>2, <1>6, <2>1, Zenon
  <2>3. UartDispatches => FrameInv'
    BY <1>7 DEF UartDispatches
  <2>4. UartAnswers => FrameInv'
    BY <1>4, <1>6, Zenon DEF UartAnswers
  <2>5. ImportRecord("uart") => FrameInv'
    BY <1>1 DEF ImportRecord
  <2>6. ExportRecord => FrameInv'
    BY <1>1 DEF ExportRecord
  <2>7. QED
    BY <1>8, <1>9, <1>11, <2>2, <2>3, <2>4, <2>5, <2>6, Zenon DEF UartTask
<1>12. CASE ExtTask
  BY <1>1, <1>12 DEF ExtTask, ExtReceives, ExtParses, ImportRecord, ExtCommits
<1>13. CASE ProducerActs
  BY <1>1, <1>13 DEF ProducerActs
<1>14. UNCHANGED vars => UNCHANGED line
  BY DEF vars
<1>15. QED
  BY <1>1, <1>3, <1>11, <1>12, <1>13, <1>14, Zenon DEF Next

(* What has been received is the beginning of what the host sends.         *)
LEMMA ReceivedBegins ==
    ASSUME FrameInv
    PROVE  /\ Len(host.stream) \in Nat
           /\ Line!Received \in Seq(STRING) /\ Len(Line!Received) = uart.off
           /\ Begins(Line!Received, host.stream)
<1> DEFINE n == uart.off
<1>1. Len(host.stream) \in Nat /\ host.stream \in Seq(STRING)
  BY LenProperties DEF FrameInv
<1>2. \A i \in 1 .. n : rx[i] \in STRING
  BY <1>1, ElementOfSeq DEF FrameInv
<1>3. n \in 0 .. Len(host.stream) /\ n \in Nat /\ \A i \in 1 .. n : rx[i] = host.stream[i]
  BY <1>1 DEF FrameInv
<1> DEFINE got == SubSeq(rx, 1, n)
<1>4. Line!Received = got
  BY DEF Line!Received
<1> HIDE DEF n
<1>5. got \in Seq(STRING) /\ Len(got) = n /\ \A i \in 1 .. n : got[i] = rx[i]
  BY <1>2, <1>3, SubSeqProperties
<1> HIDE DEF got
<1>6. Begins(got, host.stream)
  BY <1>1, <1>3, <1>5 DEF Begins
<1>7. QED
  BY <1>1, <1>4, <1>5, <1>6 DEF n

(* Only a dispatch starts an import of the UART task; it imports what the  *)
(* host sent.                                                              *)
LEMMA ImportOfFrame ==
    ASSUME FrameInv, UartDispatches, uart'.pc = "import", DOMAIN import = Task
    PROVE  LET sent == Line!PayloadOf(host.stream)
           IN /\ Line!Command(host.stream) = "SET"
              /\ Line!WellFormed(sent)
              /\ import'["uart"].todo = Line!RecordsOf(sent)
<1> DEFINE got == Line!Received
<1> DEFINE payload == Line!PayloadOf(got)
<1>1. Line!Dispatch
  BY DEF UartDispatches
<1>2. payload # <<>> /\ Line!WellFormed(payload)
  BY <1>1 DEF Line!Dispatch, Line!Reply, FrameInv
<1>3. Line!Command(got) = "SET"
  <2>1. Line!Command(got) \in {"GET", "SET", "AT", "unknown"}
    <3> DEFINE words == Line!CommandLine(got)
    <3>1. Line!Command(got) = CASE words = <<"AT", "+GET">> -> "GET"
                                [] words = <<"AT", "+SET">> -> "SET"
                                [] words = <<"AT">> -> "AT"
                                [] OTHER -> "unknown"
      BY DEF Line!Command
    <3> HIDE DEF words
    <3>2. QED
      BY <3>1
  <2>2. Line!Command(got) \notin {"GET", "AT", "unknown"}
    BY <1>1 DEF Line!Dispatch, Line!Reply, FrameInv
  <2>3. QED
    BY <2>1, <2>2
<1>4. import'["uart"].todo = Line!RecordsOf(payload)
  BY DEF UartDispatches, Begin, NoImport, Task
<1>5. got \in Seq(STRING) /\ host.stream \in Seq(STRING) /\ Begins(got, host.stream)
  BY ReceivedBegins DEF FrameInv
<1>6. Line!Newline(got) # 0
  BY <1>2 DEF Line!PayloadOf
<1> HIDE DEF got
<1>7. /\ Line!Command(host.stream) = Line!Command(got)
      /\ payload \in Seq(STRING) /\ Line!PayloadOf(host.stream) \in Seq(STRING)
      /\ Begins(payload, Line!PayloadOf(host.stream))
  BY <1>5, <1>6, FrameOfPrefix
<1>8. /\ Line!WellFormed(Line!PayloadOf(host.stream))
      /\ Line!RecordsOf(Line!PayloadOf(host.stream)) = Line!RecordsOf(payload)
  BY <1>2, <1>7, DocumentOfPrefix
<1>9. QED
  BY <1>3, <1>4, <1>7, <1>8

(* Only a dispatch takes the task from there to an import.                 *)
LEMMA OnlyDispatchImports ==
    ASSUME FrameInv, Next, uart.pc = "dispatch", uart'.pc = "import"
    PROVE  UartDispatches
<1>1. ~UNCHANGED uart
  OBVIOUS
<1>2. ~HostConnects /\ ~ExtTask /\ ~ProducerActs
  BY <1>1 DEF HostConnects, Line!Accept, ExtTask, ExtReceives, ExtParses, ExtCommits,
              ImportRecord, ProducerActs, line
<1>3. /\ ~UartReceives /\ ~UartAnswers /\ ~UartCommits /\ ~UartExports
      /\ ~ImportRecord("uart") /\ ~ExportRecord
  BY <1>1 DEF UartReceives, Line!Receiving, Line!EndOfFrame, Line!RecvFails, Line!Recv,
              UartAnswers, Line!SendReply, Line!Close, UartCommits, Line!ImportReturns,
              UartExports, Line!ExportReturns, ImportRecord, ExportRecord, line
<1>4. QED
  BY <1>2, <1>3 DEF Next, UartTask

------------------------------------------------------------------------------
(* A record that an import has changed is announced.                       *)

AnnounceInv ==
    /\ DOMAIN import = Task
    /\ \A t \in Task : "active" \in DOMAIN import[t]
    /\ ChangesAreAnnounced

LEMMA AnnounceInit == Init => AnnounceInv
BY DEF Init, AnnounceInv, ChangesAreAnnounced, NoImport

LEMMA AnnounceStep == AnnounceInv /\ [Next]_vars => AnnounceInv'
<1> SUFFICES ASSUME AnnounceInv, [Next]_vars PROVE AnnounceInv'
  OBVIOUS
<1>1. CASE UNCHANGED <<import, unannounced, refused>>
  BY <1>1 DEF AnnounceInv, ChangesAreAnnounced
<1>2. ASSUME NEW t \in Task, ImportRecord(t) PROVE AnnounceInv'
  <2> DEFINE good == Patches[Head(import[t].todo)].val \in Legal
  <2> DEFINE accepted == IF good THEN import[t].accepted + 1 ELSE import[t].accepted
  <2> DEFINE rejected == IF good THEN import[t].rejected ELSE import[t].rejected + 1
  <2>1. /\ import[t].active
        /\ import' = [import EXCEPT ![t].todo = Tail(import[t].todo),
                                   ![t].accepted = accepted, ![t].rejected = rejected]
    BY <1>2 DEF ImportRecord
  <2> DEFINE rest == Tail(import[t].todo)
  <2> HIDE DEF accepted, rejected, rest
  <2>2. /\ DOMAIN import' = Task
        /\ \A s \in Task : /\ "active" \in DOMAIN import'[s]
                          /\ import'[s].active = import[s].active
    BY <2>1 DEF AnnounceInv
  <2>3. QED
    BY <2>1, <2>2 DEF AnnounceInv, ChangesAreAnnounced
<1>3. ASSUME NEW t \in Task, NEW queued \in BOOLEAN, Commit(t, queued) PROVE AnnounceInv'
  BY <1>3 DEF Commit, NoImport, AnnounceInv, ChangesAreAnnounced
<1>4. ASSUME NEW t \in Task, NEW doc, import' = [import EXCEPT ![t] = Begin(doc)],
             UNCHANGED <<unannounced, refused>>
      PROVE  AnnounceInv'
  BY <1>4 DEF Begin, NoImport, AnnounceInv, ChangesAreAnnounced
<1>5. CASE UartTask
  <2>1. UartReceives \/ UartAnswers \/ ExportRecord \/ UartExports
           => UNCHANGED <<import, unannounced, refused>>
    BY DEF UartReceives, UartAnswers, ExportRecord, UartExports, ExportReturns, own
  <2>2. UartDispatches => AnnounceInv'
    BY <1>1, <1>4 DEF UartDispatches, Task
  <2>3. UartCommits => AnnounceInv'
    BY <1>3 DEF UartCommits, Task
  <2>4. ImportRecord("uart") => AnnounceInv'
    BY <1>2 DEF Task
  <2>5. QED
    BY <1>1, <1>5, <2>1, <2>2, <2>3, <2>4, Zenon DEF UartTask
<1>6. CASE ExtTask
  <2>1. ExtReceives => UNCHANGED <<import, unannounced, refused>>
    BY DEF ExtReceives, own
  <2>2. ExtParses => AnnounceInv'
    BY <1>1, <1>4 DEF ExtParses, own, Task
  <2>3. ExtCommits => AnnounceInv'
    <3>1. ASSUME NEW queued \in BOOLEAN, Commit("ext", queued) PROVE AnnounceInv'
      BY <1>3, <3>1 DEF Task
    <3>2. UNCHANGED own => AnnounceInv'
      BY <1>1 DEF own
    <3>3. QED
      BY <3>1, <3>2, Zenon DEF ExtCommits
  <2>4. ImportRecord("ext") => AnnounceInv'
    BY <1>2 DEF Task
  <2>5. QED
    BY <1>1, <1>6, <2>1, <2>2, <2>3, <2>4, Zenon DEF ExtTask
<1>7. CASE HostConnects \/ ProducerActs \/ UNCHANGED vars
  BY <1>1, <1>7 DEF HostConnects, ProducerActs, vars, own
<1>8. QED
  BY <1>5, <1>6, <1>7 DEF Next

(* ChangesAreAnnounced, for any records and documents: a record that an    *)
(* import of either task has put into the cache is followed by a commit,   *)
(* unless the queue refuses it and the operator is told.                   *)
THEOREM AnnouncedAlways == Spec => []ChangesAreAnnounced
<1>1. AnnounceInv => ChangesAreAnnounced
  BY DEF AnnounceInv
<1>2. QED
  BY <1>1, AnnounceInit, AnnounceStep, PTL DEF Spec

(* ImportedIsSent, for frames and a buffer of any length: what the UART    *)
(* task imports is a document its present host sent, whole.                *)
THEOREM ImportedWasSent == Spec => ImportedIsSent
<1>1. ASSUME FrameInv, AnnounceInv, [Next]_vars
      PROVE  [uart.pc = "dispatch" /\ uart'.pc = "import" =>
                LET sent == Line!PayloadOf(host.stream)
                IN /\ Line!Command(host.stream) = "SET"
                   /\ Line!WellFormed(sent)
                   /\ import'["uart"].todo = Line!RecordsOf(sent)]_vars
  <2>1. CASE UNCHANGED vars
    BY <2>1
  <2>2. CASE Next
    BY <1>1, <2>2, OnlyDispatchImports, ImportOfFrame DEF AnnounceInv
  <2>3. QED
    BY <1>1, <2>1, <2>2
<1>2. QED
  BY <1>1, FrameInit, FrameStep, AnnounceInit, AnnounceStep, PTL DEF Spec, ImportedIsSent

------------------------------------------------------------------------------
(* The answer to AT+GET_CONFIG.                                            *)

Awaits(todo, r) == \E i \in 1 .. Len(todo) : todo[i] = r

(* Of every record that nobody has set since the export began, the export  *)
(* has copied the value it has now, or has still to copy it.               *)
ExportInv ==
    /\ DOMAIN cache = Records
    /\ export = [todo |-> export.todo, doc |-> export.doc]
    /\ DOMAIN export.doc = Records
    /\ export.todo \in Seq(Records)
    /\ uart = [pc |-> uart.pc, off |-> uart.off, reply |-> uart.reply]
    /\ uart.pc = "export" =>
          \A r \in Records \ edited : Awaits(export.todo, r) \/ export.doc[r] = cache[r]

LEMMA RecordsInOrder ==
    Record \in Seq(Records) /\ \A r \in Records : Awaits(Record, r)
<1>1. Record \in Seq(STRING) /\ Len(Record) \in Nat /\ DOMAIN Record = 1 .. Len(Record)
  BY CommsConstants, LenProperties
<1>2. \A i \in 1 .. Len(Record) : Record[i] \in Records
  BY <1>1 DEF Records
<1>3. Record = [i \in 1 .. Len(Record) |-> Record[i]]
  BY <1>1
<1>4. Record \in [1 .. Len(Record) -> Records]
  BY <1>2, <1>3
<1>5. Record \in Seq(Records)
  BY <1>1, <1>4, SeqDef
<1>6. \A r \in Records : Awaits(Record, r)
  BY <1>1 DEF Awaits, Records
<1>7. QED
  BY <1>5, <1>6

LEMMA ExportInit == Init => ExportInv
<1> SUFFICES ASSUME Init PROVE ExportInv
  OBVIOUS
<1>1. <<>> \in Seq(Records)
  BY EmptySeq
<1>2. QED
  BY <1>1 DEF Init, Line!Init, Line!Listening, BlankPage, ExportInv

\* One record more is copied.
LEMMA ExportOne == ASSUME ExportInv, ExportRecord PROVE ExportInv'
<1> DEFINE todo == export.todo
<1> DEFINE r0 == Head(todo)
<1>1. todo \in Seq(Records) /\ todo # <<>> /\ uart.pc = "export"
  BY DEF ExportRecord, ExportInv
<1>2. /\ r0 \in Records /\ r0 = todo[1]
      /\ Tail(todo) \in Seq(Records) /\ Len(Tail(todo)) = Len(todo) - 1
      /\ \A i \in 1 .. Len(Tail(todo)) : Tail(todo)[i] = todo[i + 1]
      /\ Len(todo) \in Nat
  BY <1>1, HeadTailProperties, LenProperties
<1>3. /\ export' = [todo |-> Tail(todo), doc |-> [export.doc EXCEPT ![r0] = cache[r0]]]
      /\ UNCHANGED <<cache, edited, uart>>
  BY DEF ExportRecord, line
<1>4. ASSUME NEW r \in Records \ edited
      PROVE  Awaits(Tail(todo), r) \/ [export.doc EXCEPT ![r0] = cache[r0]][r] = cache[r]
  <2>1. CASE r = r0
    BY <2>1 DEF ExportInv
  <2>2. CASE r # r0 /\ Awaits(todo, r)
    <3> HIDE DEF r0, todo
    <3>1. PICK i \in 1 .. Len(todo) : todo[i] = r
      BY <2>2 DEF Awaits
    <3>2. i # 1
      BY <1>2, <2>2, <3>1
    <3>3. i - 1 \in 1 .. Len(Tail(todo)) /\ Tail(todo)[i - 1] = r
      BY <1>2, <3>1, <3>2
    <3>4. QED
      BY <3>3 DEF Awaits
  <2>3. CASE r # r0 /\ export.doc[r] = cache[r]
    BY <2>3 DEF ExportInv
  <2>4. QED
    BY <1>1, <2>1, <2>2, <2>3 DEF ExportInv
<1>5. QED
  BY <1>2, <1>3, <1>4 DEF ExportInv

LEMMA ExportStep == ExportInv /\ [Next]_vars => ExportInv'
<1> SUFFICES ASSUME ExportInv, [Next]_vars PROVE ExportInv'
  OBVIOUS
<1>1. CASE UNCHANGED <<cache, export, edited, uart>>
  BY <1>1 DEF ExportInv, Awaits
<1>2. ASSUME NEW t \in Task, ImportRecord(t) PROVE ExportInv'
  <2> DEFINE patch == Patches[Head(import[t].todo)]
  <2> DEFINE good == patch.val \in Legal
  <2>1. /\ UNCHANGED <<export, uart>>
        /\ IF good
           THEN /\ cache' = [cache EXCEPT ![patch.rec] = patch.val]
                /\ edited' = IF uart.pc = "export" THEN edited \cup {patch.rec} ELSE edited
           ELSE cache' = cache /\ edited' = edited
    BY <1>2 DEF ImportRecord, line
  <2> HIDE DEF patch, good
  <2>2. CASE cache' = cache /\ edited' = edited
    BY <1>1, <2>1, <2>2
  <2>3. CASE uart.pc # "export"
    BY <2>1, <2>3 DEF ExportInv
  <2>4. CASE /\ uart.pc = "export"
             /\ cache' = [cache EXCEPT ![patch.rec] = patch.val]
             /\ edited' = edited \cup {patch.rec}
    <3>1. \A r \in DOMAIN cache : r \notin edited' => cache'[r] = cache[r] /\ r \notin edited
      BY <2>4
    <3>2. QED
      BY <2>1, <2>4, <3>1 DEF ExportInv, Awaits
  <2>5. CASE good
    BY <2>1, <2>3, <2>4, <2>5
  <2>6. CASE ~good
    BY <2>1, <2>2, <2>6
  <2>7. QED
    BY <2>5, <2>6
<1>3. CASE UartDispatches
  <2>1. CASE uart'.pc = "export"
    <3>1. /\ export' = [todo |-> Record, doc |-> BlankPage] /\ cache' = cache
          /\ uart' = [pc |-> uart'.pc, off |-> uart'.off, reply |-> uart'.reply]
      BY <1>3, <2>1 DEF UartDispatches, Line!Dispatch, Line!Reply, ExportInv
    <3>2. QED
      BY <3>1, RecordsInOrder DEF ExportInv, BlankPage
  <2>2. CASE uart'.pc # "export"
    <3>1. /\ export' = export /\ cache' = cache
          /\ uart' = [pc |-> uart'.pc, off |-> uart'.off, reply |-> uart'.reply]
      BY <1>3, <2>2 DEF UartDispatches, Line!Dispatch, Line!Reply, ExportInv
    <3>2. QED
      BY <2>2, <3>1 DEF ExportInv
  <2>3. QED
    BY <2>1, <2>2
<1>4. CASE ExportRecord
  BY <1>4, ExportOne
<1>5. CASE UartExports
  <2>1. /\ export' = [todo |-> <<>>, doc |-> BlankPage] /\ cache' = cache
        /\ uart' = [pc |-> "reply", off |-> uart'.off, reply |-> uart'.reply]
    BY <1>5 DEF UartExports, ExportReturns, Line!ExportReturns, Line!Reply, ExportInv
  <2>2. <<>> \in Seq(Records)
    BY EmptySeq
  <2>3. QED
    BY <2>1, <2>2 DEF ExportInv, BlankPage
<1>6. ASSUME UNCHANGED <<cache, export, edited>>, uart'.pc # "export",
             uart' = [pc |-> uart'.pc, off |-> uart'.off, reply |-> uart'.reply]
      PROVE  ExportInv'
  BY <1>6 DEF ExportInv
<1>7. CASE UartReceives \/ UartAnswers \/ HostConnects
  <2>1. CASE UartReceives
    BY <1>6, <2>1
       DEF UartReceives, Line!Receiving, Line!EndOfFrame, Line!RecvFails, Line!FrameEnds,
           Line!Recv, own, ExportInv
  <2>2. CASE UartAnswers
    BY <1>6, <2>2
       DEF UartAnswers, Line!SendReply, Line!Close, Line!Listening, own, ExportInv
  <2>3. CASE HostConnects
    BY <1>6, <2>3 DEF HostConnects, Line!Accept, own, ExportInv
  <2>4. QED
    BY <1>7, <2>1, <2>2, <2>3
<1>8. CASE UartCommits
  BY <1>6, <1>8 DEF UartCommits, Commit, Line!ImportReturns, Line!Reply, ExportInv
<1>9. CASE UartTask
  BY <1>2, <1>3, <1>4, <1>5, <1>7, <1>8, <1>9 DEF UartTask, Task
<1>10. CASE ExtTask
  <2>1. ExtReceives \/ ExtParses \/ ExtCommits => UNCHANGED <<cache, export, edited, uart>>
    BY DEF ExtReceives, ExtParses, ExtCommits, Commit, own, line
  <2>2. ImportRecord("ext") => ExportInv'
    BY <1>2 DEF Task
  <2>3. QED
    BY <1>1, <1>10, <2>1, <2>2, Zenon DEF ExtTask
<1>11. CASE ProducerActs \/ UNCHANGED vars
  BY <1>1, <1>11 DEF ProducerActs, vars, own, line
<1>12. QED
  BY <1>7, <1>9, <1>10, <1>11 DEF Next

(* Only an export that has copied every record answers with a document.    *)
LEMMA OnlyExportsAnswer ==
    ASSUME ExportInv, Next, uart'.reply # uart.reply, uart'.reply.kind = "document"
    PROVE  /\ uart.pc = "export" /\ export.todo = <<>>
           /\ uart'.reply.doc = export.doc
<1>1. ~UNCHANGED uart
  OBVIOUS
<1>2. ~HostConnects /\ ~ExtTask /\ ~ProducerActs
  BY <1>1 DEF HostConnects, Line!Accept, ExtTask, ExtReceives, ExtParses, ExtCommits,
              ImportRecord, ProducerActs, line, ExportInv
<1>3. ASSUME uart'.reply = uart.reply PROVE FALSE
  BY <1>3
<1>4. ASSUME NEW answer, uart'.reply = answer, answer.kind # "document" PROVE FALSE
  BY <1>4
<1>5. ~ImportRecord("uart") /\ ~ExportRecord
  BY <1>1 DEF ImportRecord, ExportRecord, line
<1>6. ~UartReceives
  BY <1>3 DEF UartReceives, Line!Receiving, Line!EndOfFrame, Line!RecvFails, Line!FrameEnds,
              Line!Recv, ExportInv
<1>7. ~UartAnswers
  <2>1. ~Line!SendReply
    BY <1>3 DEF Line!SendReply, ExportInv
  <2>2. ~Line!Close
    BY <1>4 DEF Line!Close, Line!Listening, Line!Silence
  <2>3. QED
    BY <2>1, <2>2 DEF UartAnswers
<1>8. ~UartDispatches
  <2>1. ASSUME NEW k, k # "document", Line!Reply(Line!Answer(k)) PROVE FALSE
    BY <1>4, <2>1 DEF Line!Reply, Line!Answer, ExportInv
  <2>2. ASSUME NEW pc, uart' = [uart EXCEPT !.pc = pc] PROVE FALSE
    BY <1>3, <2>2 DEF ExportInv
  <2>3. QED
    BY <2>1, <2>2 DEF UartDispatches, Line!Dispatch
<1>9. ~UartCommits
  <2>1. ASSUME NEW a, NEW r, NEW queued,
               Line!Reply([kind |-> "accepted", accepted |-> a, rejected |-> r,
                           persist |-> queued])
        PROVE  FALSE
    BY <1>4, <2>1 DEF Line!Reply, ExportInv
  <2>2. QED
    BY <2>1 DEF UartCommits, Line!ImportReturns
<1>10. UartExports
  BY <1>2, <1>5, <1>6, <1>7, <1>8, <1>9 DEF Next, UartTask
<1>11. PICK ok \in BOOLEAN :
          /\ ExportReturns(ok)
          /\ Line!ExportReturns(IF ok THEN [kind |-> "document", doc |-> tx']
                                ELSE Line!Answer("export failed"))
  BY <1>10 DEF UartExports
<1>12. CASE ok
  BY <1>11, <1>12 DEF ExportReturns, Line!ExportReturns, Line!Reply, ExportInv
<1>13. CASE ~ok
  <2>1. Line!Reply(Line!Answer("export failed"))
    BY <1>11, <1>13 DEF Line!ExportReturns
  <2>2. QED
    BY <1>4, <2>1 DEF Line!Reply, Line!Answer, ExportInv
<1>14. QED
  BY <1>12, <1>13

(* ExportIsRecent, for any records: the document that AT+GET_CONFIG is     *)
(* answered with shows what the cache has now in every record that no      *)
(* other task has set since the export began.                              *)
THEOREM ExportsAreRecent == Spec => ExportIsRecent
<1>1. ASSUME ExportInv, [Next]_vars
      PROVE  [uart'.reply # uart.reply /\ uart'.reply.kind = "document" =>
                \A r \in Records \ edited : uart'.reply.doc[r] = cache[r]]_vars
  <2>1. CASE UNCHANGED vars
    BY <2>1
  <2>2. CASE Next
    <3>1. Len(<<>>) = 0
      BY EmptySeq
    <3>2. \A r : ~Awaits(<<>>, r)
      BY <3>1 DEF Awaits
    <3>3. QED
      BY <1>1, <2>2, <3>2, OnlyExportsAnswer DEF ExportInv
  <2>3. QED
    BY <1>1, <2>1, <2>2
<1>2. QED
  BY <1>1, ExportInit, ExportStep, PTL DEF Spec, ExportIsRecent

------------------------------------------------------------------------------
(* Types, answers and the queue of documents.                              *)

\* The lemmas about the comms task alone; the definitions of Post and of Posted
\* are the same.
Posted == INSTANCE ExternalCommsProofs

------------------------------------------------------------------------------
(* One step of an import.                                                  *)

IsJob(job) ==
    /\ job = [active |-> job.active, todo |-> job.todo,
              accepted |-> job.accepted, rejected |-> job.rejected]
    /\ job.active \in BOOLEAN
    /\ job.todo \in Seq(DOMAIN Patches)
    /\ job.accepted \in Nat /\ job.rejected \in Nat

JobsOK == DOMAIN import = Task /\ \A t \in Task : IsJob(import[t])

LEMMA NoJob == IsJob(NoImport)
<1>1. <<>> \in Seq(DOMAIN Patches)
  BY EmptySeq
<1>2. QED
  BY <1>1 DEF IsJob, NoImport

LEMMA NewJob ==
    ASSUME NEW doc, Line!RecordsOf(doc) \in Seq(DOMAIN Patches)
    PROVE  /\ IsJob(Begin(doc)) /\ Begin(doc).active
           /\ Begin(doc).todo = Line!RecordsOf(doc)
           /\ Begin(doc).accepted = 0 /\ Begin(doc).rejected = 0
<1> DEFINE todo == Line!RecordsOf(doc)
<1>1. Begin(doc) = [active |-> TRUE, todo |-> todo, accepted |-> 0, rejected |-> 0]
  BY DEF Begin
<1>2. todo \in Seq(DOMAIN Patches)
  OBVIOUS
<1> DEFINE job == Begin(doc)
<1> SUFFICES /\ IsJob(job) /\ job.active /\ job.todo = todo
             /\ job.accepted = 0 /\ job.rejected = 0
  OBVIOUS
<1> HIDE DEF todo
<1>3. /\ job.active = TRUE /\ job.todo = todo /\ job.accepted = 0 /\ job.rejected = 0
      /\ job = [active |-> job.active, todo |-> job.todo, accepted |-> job.accepted,
                rejected |-> job.rejected]
  BY <1>1
<1> HIDE DEF job
<1>4. job.active \in BOOLEAN
  BY <1>3, Zenon
<1>5. job.todo \in Seq(DOMAIN Patches) /\ job.accepted \in Nat /\ job.rejected \in Nat
  BY <1>2, <1>3
<1>6. QED
  BY <1>3, <1>4, <1>5, Zenon DEF IsJob

(* What importing one record does to the import, and to the cache.         *)
LEMMA OneRecord ==
    ASSUME JobsOK, NEW t \in Task, ImportRecord(t)
    PROVE  LET job == import[t]
               new == import'[t]
               good == Patches[job.todo[1]].val \in Legal
           IN /\ job.active /\ job.todo # <<>> /\ job.todo[1] \in DOMAIN Patches
              /\ DOMAIN import' = Task
              /\ \A s \in Task \ {t} : import'[s] = import[s]
              /\ IsJob(new) /\ new.active /\ new.todo = Tail(job.todo)
              /\ new.accepted = IF good THEN job.accepted + 1 ELSE job.accepted
              /\ new.rejected = IF good THEN job.rejected ELSE job.rejected + 1
              /\ IF good THEN /\ cache' = [cache EXCEPT ![Patches[job.todo[1]].rec] =
                                                       Patches[job.todo[1]].val]
                              /\ edited' \subseteq edited \cup {Patches[job.todo[1]].rec}
                 ELSE cache' = cache /\ edited' = edited
<1> DEFINE job == import[t]
<1> DEFINE good == Patches[Head(job.todo)].val \in Legal
<1> DEFINE acc == IF good THEN job.accepted + 1 ELSE job.accepted
<1> DEFINE rej == IF good THEN job.rejected ELSE job.rejected + 1
<1> DEFINE rest == Tail(job.todo)
<1>1. /\ job.active /\ job.todo # <<>>
      /\ import' = [import EXCEPT ![t].todo = rest, ![t].accepted = acc, ![t].rejected = rej]
      /\ IF good THEN cache' = [cache EXCEPT ![Patches[Head(job.todo)].rec] =
                                            Patches[Head(job.todo)].val]
                 ELSE cache' = cache
      /\ edited' = IF good /\ uart.pc = "export" THEN edited \cup {Patches[Head(job.todo)].rec}
                   ELSE edited
  BY DEF ImportRecord
<1>2. IsJob(job) /\ job.todo \in Seq(DOMAIN Patches)
  BY DEF JobsOK, IsJob
<1>3. /\ Head(job.todo) = job.todo[1] /\ Head(job.todo) \in DOMAIN Patches
      /\ rest \in Seq(DOMAIN Patches)
  <2> DEFINE todo == job.todo
  <2>1. todo \in Seq(DOMAIN Patches) /\ todo # <<>>
    BY <1>1, <1>2
  <2> HIDE DEF todo
  <2>2. Head(todo) = todo[1] /\ Head(todo) \in DOMAIN Patches /\ Tail(todo) \in Seq(DOMAIN Patches)
    BY <2>1, HeadTailProperties
  <2>3. QED
    BY <2>2 DEF todo
<1>4. acc \in Nat /\ rej \in Nat
  BY <1>2 DEF IsJob
<1>5. /\ DOMAIN import' = Task
      /\ \A s \in Task \ {t} : import'[s] = import[s]
      /\ import'[t] = [active |-> job.active, todo |-> rest, accepted |-> acc, rejected |-> rej]
  <2> HIDE DEF acc, rej, rest
  <2> QED BY <1>1, <1>2 DEF JobsOK, IsJob
<1>6. /\ IsJob(import'[t]) /\ import'[t].active /\ import'[t].todo = rest
      /\ import'[t].accepted = acc /\ import'[t].rejected = rej
  <2> HIDE DEF acc, rej, rest
  <2> QED BY <1>1, <1>2, <1>3, <1>4, <1>5 DEF IsJob
<1>7. good <=> Patches[job.todo[1]].val \in Legal
  BY <1>3
<1>8. job.todo[1] \in DOMAIN Patches
  BY <1>3
<1>9. IF good THEN /\ cache' = [cache EXCEPT ![Patches[job.todo[1]].rec] =
                                            Patches[job.todo[1]].val]
                   /\ edited' \subseteq edited \cup {Patches[job.todo[1]].rec}
              ELSE cache' = cache /\ edited' = edited
  BY <1>1, <1>3
<1> HIDE DEF good, rest, acc, rej
<1>10. /\ acc = IF good THEN job.accepted + 1 ELSE job.accepted
       /\ rej = IF good THEN job.rejected ELSE job.rejected + 1
       /\ rest = Tail(job.todo)
  BY DEF acc, rej, rest
<1>11. CASE good
  BY <1>1, <1>5, <1>6, <1>7, <1>8, <1>9, <1>10, <1>11, Zenon
<1>12. CASE ~good
  BY <1>1, <1>5, <1>6, <1>7, <1>8, <1>9, <1>10, <1>12, Zenon
<1>13. QED
  BY <1>11, <1>12

------------------------------------------------------------------------------
(* Documents.                                                              *)

LEMMA PayloadIsSeq ==
    ASSUME NEW s \in Seq(STRING)
    PROVE  Line!PayloadOf(s) \in Seq(STRING)
<1> DEFINE n == Line!Newline(s)
<1>1. n = 0 \/ n \in 1 .. Len(s)
  BY FirstOfFrame DEF IsFirst
<1>2. Len(s) \in Nat
  BY LenProperties
<1>3. Line!PayloadOf(s) = IF n = 0 THEN <<>> ELSE SubSeq(s, n + 1, Len(s))
  BY DEF Line!PayloadOf
<1>4. <<>> \in Seq(STRING)
  BY EmptySeq
<1> HIDE DEF n
<1>5. n \in 1 .. Len(s) => SubSeq(s, n + 1, Len(s)) \in Seq(STRING)
  BY <1>2, SubSeqProperties
<1>6. QED
  BY <1>1, <1>3, <1>4, <1>5

Submitted == Document \cup {Line!PayloadOf(stream) : stream \in Streams}

(* Every record of a document that was submitted or sent is a patch.       *)
LEMMA RecordsArePatches ==
    ASSUME NEW doc \in Submitted, Line!WellFormed(doc)
    PROVE  Line!RecordsOf(doc) \in Seq(DOMAIN Patches)
<1> DEFINE recs == Line!RecordsOf(doc)
<1> DEFINE n == Line!Closing(doc)
<1>1. doc \in Seq(STRING)
  BY PayloadIsSeq, CommsConstants, CommsDocuments DEF Submitted
<1>2. n \in 1 .. Len(doc) /\ doc[n] = "end" /\ doc[1] = "begin"
  BY <1>1, FirstOfFrame DEF IsFirst, Line!WellFormed
<1>3. Len(doc) \in Nat
  BY <1>1, LenProperties
<1>4. recs = SubSeq(doc, 2, n - 1)
  BY DEF Line!RecordsOf
<1>5. \A i \in DOMAIN recs : recs[i] \in DOMAIN Patches
  BY CommsDocuments DEF Submitted
<1> HIDE DEF n, recs
<1>6. n # 1
  BY <1>2
<1>7. recs \in Seq(STRING)
  BY <1>1, <1>2, <1>3, <1>4, <1>6, SubSeqProperties
<1>8. DOMAIN recs = 1 .. Len(recs) /\ Len(recs) \in Nat
  BY <1>7, LenProperties
<1>9. recs = [i \in 1 .. Len(recs) |-> recs[i]]
  BY <1>7, <1>8
<1>10. recs \in [1 .. Len(recs) -> DOMAIN Patches]
  BY <1>5, <1>8, <1>9
<1>11. recs \in Seq(DOMAIN Patches)
  BY <1>8, <1>10, SeqDef
<1>12. QED
  BY <1>11 DEF recs

(* The lemmas of ExternalCommsProofs, for the comms task of this module.   *)
LEMMA SameTask ==
    /\ Post!CommsInv <=> Posted!CommsInv
    /\ [Post!Next]_(Post!vars) <=> [Posted!Next]_(Posted!vars)
    /\ Post!Init <=> Posted!Init
    /\ Post!ExternalCommsConstants <=> Posted!ExternalCommsConstants
    /\ Post!Documents!Init <=> Posted!Documents!Init
    /\ [Post!Documents!Next]_(Post!Documents!vars) <=>
       [Posted!Documents!Next]_(Posted!Documents!vars)
<1> USE DEF Post!Ring, Posted!Ring, Post!Pointer, Posted!Pointer, Post!NoPointer,
           Posted!NoPointer, Post!Bytes, Posted!Bytes, Post!Waiting, Posted!Waiting
<1>1. Post!TypeOK <=> Posted!TypeOK
  BY DEF Post!TypeOK, Posted!TypeOK
<1>2. Post!PointersAreRecent <=> Posted!PointersAreRecent
  BY DEF Post!PointersAreRecent, Posted!PointersAreRecent
<1>3. Post!PointersAreFilled <=> Posted!PointersAreFilled
  BY DEF Post!PointersAreFilled, Posted!PointersAreFilled
<1>4. [Post!Next]_(Post!vars) <=> [Posted!Next]_(Posted!vars)
  BY DEF Post!Next, Posted!Next, Post!vars, Posted!vars, Post!Submit, Posted!Submit,
         Post!Fill, Posted!Fill, Post!Receive, Posted!Receive, Post!Parse, Posted!Parse,
         Post!Finish, Posted!Finish
<1>5. Post!Init <=> Posted!Init
  BY DEF Post!Init, Posted!Init
<1>6. Post!ExternalCommsConstants <=> Posted!ExternalCommsConstants
  BY DEF Post!ExternalCommsConstants, Posted!ExternalCommsConstants
<1>7. Post!Documents!Init <=> Posted!Documents!Init
  BY DEF Post!Documents!Init, Posted!Documents!Init
<1>8. [Post!Documents!Next]_(Post!Documents!vars) <=>
      [Posted!Documents!Next]_(Posted!Documents!vars)
  BY DEF Post!Documents!Next, Posted!Documents!Next, Post!Documents!vars,
         Posted!Documents!vars, Post!Documents!Post, Posted!Documents!Post,
         Post!Documents!Take, Posted!Documents!Take, Post!Documents!Finish,
         Posted!Documents!Finish
<1>9. QED
  BY <1>1, <1>2, <1>3, <1>4, <1>5, <1>6, <1>7, <1>8 DEF Post!CommsInv, Posted!CommsInv

------------------------------------------------------------------------------
(* The type invariant, a component at a time.                              *)

LEMMA SameTaskNext == Post!CommsInv' <=> Posted!CommsInv'
<1>1. Post!CommsInv <=> Posted!CommsInv
  BY SameTask
<1>2. QED
  BY <1>1, PTL

LEMMA PostInit == Init => Post!CommsInv
<1> SUFFICES ASSUME Init PROVE Post!CommsInv
  OBVIOUS
<1>1. Posted!ExternalCommsConstants /\ Posted!Init /\ inputs \in Nat
  BY SameTask, CommsConstants DEF Init
<1>2. Posted!CommsInv
  BY <1>1, Posted!GoodInit
<1>3. QED
  BY <1>2, SameTask

\* A connection takes from the bound that submissions share with it.
LEMMA PostSteps == [Next]_vars => [Post!Next]_(Post!vars) \/ (UNCHANGED post /\ HostConnects)
<1> SUFFICES ASSUME [Next]_vars PROVE [Post!Next]_(Post!vars) \/ (UNCHANGED post /\ HostConnects)
  OBVIOUS
<1>1. CASE UartTask
  <2>1. UartReceives => UNCHANGED <<post, inputs>>
    BY DEF UartReceives, Line!Receiving, Line!EndOfFrame, Line!RecvFails, Line!Recv
  <2>2. UartDispatches => UNCHANGED <<post, inputs>>
    <3>1. Line!Dispatch => inputs' = inputs
      BY Zenon DEF Line!Dispatch
    <3>2. QED
      BY <3>1 DEF UartDispatches
  <2>3. UartCommits \/ UartExports => UNCHANGED <<post, inputs>>
    BY DEF UartCommits, UartExports, Line!ImportReturns, Line!ExportReturns
  <2>4. UartAnswers => UNCHANGED <<post, inputs>>
    BY DEF UartAnswers, Line!SendReply, Line!Close
  <2>5. ImportRecord("uart") => UNCHANGED <<post, inputs>>
    BY DEF ImportRecord
  <2>6. ExportRecord => UNCHANGED <<post, inputs>>
    BY DEF ExportRecord
  <2>7. UNCHANGED <<post, inputs>>
    <3> DEFINE kept == UNCHANGED <<post, inputs>>
    <3>1. /\ UartReceives => kept
          /\ UartDispatches => kept
          /\ UartCommits \/ UartExports => kept
          /\ UartAnswers => kept
          /\ ImportRecord("uart") => kept
          /\ ExportRecord => kept
      BY <2>1, <2>2, <2>3, <2>4, <2>5, <2>6
    <3> SUFFICES kept
      OBVIOUS
    <3> HIDE DEF kept
    <3>2. QED
      BY <1>1, <3>1, Zenon DEF UartTask
  <2>8. UNCHANGED Post!vars
    BY <2>7, Zenon DEF post, Post!vars
  <2>9. QED
    BY <2>8, Zenon
<1>2. CASE ExtTask
  BY <1>2 DEF ExtTask, ExtReceives, ExtParses, ExtCommits, ImportRecord, post, Post!vars,
              Post!Next
<1>3. CASE HostConnects
  BY <1>3 DEF HostConnects
<1>4. CASE ProducerActs
  BY <1>4 DEF ProducerActs, Post!Next
<1>5. CASE UNCHANGED vars
  BY <1>5 DEF vars, post, Post!vars
<1>6. QED
  BY <1>1, <1>2, <1>3, <1>4, <1>5 DEF Next

LEMMA PostStep == Post!CommsInv /\ [Next]_vars => Post!CommsInv'
<1> SUFFICES ASSUME Post!CommsInv, [Next]_vars PROVE Post!CommsInv'
  OBVIOUS
<1>1. CASE [Post!Next]_(Post!vars)
  <2>1. Posted!CommsInv'
    BY <1>1, SameTask, CommsConstants, Posted!GoodStep
  <2>2. QED
    BY <2>1, SameTaskNext
<1>2. CASE UNCHANGED post /\ HostConnects
  <2>1. inputs' \in Nat
    <3>1. inputs \in Nat /\ inputs >= HostCost /\ inputs' = inputs - HostCost /\ HostCost \in Nat
      BY <1>2, CommsConstants DEF HostConnects, Line!Accept, Post!CommsInv, Post!TypeOK
    <3>2. QED
      BY <3>1
  <2>2. Post!TypeOK'
    BY <1>2, <2>1 DEF post, Post!CommsInv, Post!TypeOK
  <2>3. Post!PointersAreRecent' /\ Post!PointersAreFilled'
    BY <1>2 DEF post, Post!CommsInv, Post!PointersAreRecent, Post!PointersAreFilled, Post!Bytes
  <2>4. QED
    BY <2>2, <2>3 DEF Post!CommsInv
<1>3. QED
  BY <1>1, <1>2, PostSteps

\* The listener, and the host it speaks to.
LineInv ==
    /\ uart.pc \in {"accept", "recv", "dispatch", "export", "import", "reply", "close"}
    /\ uart.pc \notin {"reply", "close"} => uart.reply = Line!Silence
    /\ uart.pc # "accept" => host.stream \in Streams

LEMMA LineInit == Init => LineInv
BY DEF Init, Line!Init, Line!Listening, LineInv

LEMMA LineStep == FrameInv /\ LineInv /\ [Next]_vars => LineInv'
<1> SUFFICES ASSUME FrameInv, LineInv, [Next]_vars PROVE LineInv'
  OBVIOUS
<1>1. CASE UNCHANGED line
  BY <1>1 DEF line, LineInv
<1>2. CASE UartReceives
  BY <1>2 DEF UartReceives, Line!Receiving, Line!EndOfFrame, Line!RecvFails, Line!FrameEnds,
             Line!Recv, FrameInv, LineInv
<1>3. CASE UartDispatches
  BY <1>3 DEF UartDispatches, Line!Dispatch, Line!Reply, FrameInv, LineInv
<1>4. CASE UartCommits \/ UartExports
  BY <1>4 DEF UartCommits, UartExports, Line!ImportReturns, Line!ExportReturns, Line!Reply,
             FrameInv, LineInv
<1>5. CASE UartAnswers
  BY <1>5 DEF UartAnswers, Line!SendReply, Line!Close, Line!Listening, FrameInv, LineInv
<1>6. CASE HostConnects
  <2>1. PICK stream \in Streams : Line!Accept(stream)
    BY <1>6 DEF HostConnects
  <2>2. /\ uart = [pc |-> uart.pc, off |-> uart.off, reply |-> uart.reply]
        /\ uart.pc = "accept" /\ uart' = [uart EXCEPT !.pc = "recv", !.off = 0]
        /\ host' = [stream |-> stream, there |-> TRUE, read |-> Line!Silence]
    BY <2>1, Zenon DEF Line!Accept, FrameInv
  <2>3. /\ uart.pc = "accept" /\ uart'.pc = "recv" /\ uart'.reply = uart.reply
        /\ host'.stream = stream
    BY <2>2
  <2>4. QED
    BY <2>3 DEF LineInv
<1>7. CASE ImportRecord("uart") \/ ExportRecord \/ ProducerActs \/ UNCHANGED vars
  <2>1. ImportRecord("uart") => LineInv'
    BY <1>1 DEF ImportRecord
  <2>2. ExportRecord => LineInv'
    BY <1>1 DEF ExportRecord
  <2>3. ProducerActs => LineInv'
    BY <1>1 DEF ProducerActs
  <2>4. UNCHANGED vars => LineInv'
    BY <1>1 DEF vars
  <2>5. QED
    BY <1>7, <2>1, <2>2, <2>3, <2>4, Zenon
<1>8. CASE ExtTask
  <2>1. UNCHANGED line
    BY <1>8 DEF ExtTask, ExtReceives, ExtParses, ExtCommits, ImportRecord
  <2>2. QED
    BY <1>1, <2>1
<1>9. QED
  BY <1>2, <1>3, <1>4, <1>5, <1>6, <1>7, <1>8, Zenon DEF Next, UartTask

\* The imports, and what they write.
JobInv ==
    /\ JobsOK
    /\ import["uart"].active <=> uart.pc = "import"
    /\ import["ext"].active => ext.pc = "import"
    /\ cache \in [Records -> Legal]
    /\ edited \subseteq Records

LEMMA JobInit == Init => JobInv
<1> SUFFICES ASSUME Init PROVE JobInv
  OBVIOUS
<1>1. import = [t \in Task |-> NoImport] /\ uart.pc = "accept"
  BY DEF Init, Line!Init, Line!Listening
<1>2. JobsOK /\ \A t \in Task : ~import[t].active
  <2>1. ~NoImport.active
    BY DEF NoImport
  <2>2. QED
    BY <1>1, <2>1, NoJob DEF JobsOK
<1>3. cache \in [Records -> Legal]
  BY CommsConstants DEF Init
<1>4. QED
  BY <1>1, <1>2, <1>3 DEF Init, JobInv, Task

\* An import begins, or ends.
LEMMA JobsChange ==
    ASSUME JobsOK, NEW t \in Task, NEW job, IsJob(job), import' = [import EXCEPT ![t] = job]
    PROVE  JobsOK' /\ import'[t] = job /\ \A s \in Task \ {t} : import'[s] = import[s]
BY DEF JobsOK

LEMMA DispatchJob ==
    ASSUME FrameInv, LineInv, JobInv, UartDispatches
    PROVE  JobInv'
<1>1. UNCHANGED <<cache, ext>> /\ edited' = {} /\ uart.pc = "dispatch"
  BY DEF UartDispatches, Line!Dispatch, post
<1>2. CASE uart'.pc = "import"
  <2> DEFINE doc == Line!PayloadOf(Line!Received)
  <2> DEFINE sent == Line!PayloadOf(host.stream)
  <2>1. import' = [import EXCEPT !["uart"] = Begin(doc)]
    BY <1>2 DEF UartDispatches
  <2>2. Line!WellFormed(sent) /\ import'["uart"].todo = Line!RecordsOf(sent)
    BY <1>2, ImportOfFrame DEF JobInv, JobsOK
  <2>3. sent \in Submitted
    BY <1>1 DEF LineInv, Submitted
  <2>4. Line!RecordsOf(sent) \in Seq(DOMAIN Patches)
    BY <2>2, <2>3, RecordsArePatches
  <2>5. import'["uart"] = Begin(doc) /\ Begin(doc).todo = Line!RecordsOf(doc)
    BY <2>1 DEF JobInv, JobsOK, Task, Begin
  <2>6. Line!RecordsOf(doc) \in Seq(DOMAIN Patches)
    BY <2>2, <2>4, <2>5
  <2>7. IsJob(Begin(doc)) /\ Begin(doc).active
    BY <2>6, NewJob
  <2> HIDE DEF doc
  <2>8. JobsOK' /\ import'["ext"] = import["ext"]
    BY <2>1, <2>7, JobsChange DEF JobInv, Task
  <2>9. QED
    BY <1>1, <1>2, <2>5, <2>7, <2>8 DEF JobInv
<1>3. CASE uart'.pc # "import"
  <2>1. import' = import
    BY <1>3 DEF UartDispatches
  <2>2. QED
    BY <1>1, <1>3, <2>1 DEF JobInv, JobsOK
<1>4. QED
  BY <1>2, <1>3

LEMMA JobStep ==
    ASSUME FrameInv, LineInv, Post!CommsInv, Post!CommsInv', JobInv, [Next]_vars
    PROVE  JobInv'
<1>0. import' = import => JobsOK'
  BY DEF JobInv, JobsOK
<1>1. ASSUME NEW t \in Task, ImportRecord(t) PROVE JobInv'
  <2>1. UNCHANGED <<uart, ext>>
    BY <1>1 DEF ImportRecord, line, post
  <2>2. /\ DOMAIN import' = Task
        /\ \A s \in Task \ {t} : import'[s] = import[s]
        /\ IsJob(import'[t]) /\ import'[t].active = import[t].active
    BY <1>1, OneRecord DEF JobInv, IsJob
  <2>3. JobsOK' /\ \A s \in Task : import'[s].active = import[s].active
    BY <2>2 DEF JobInv, JobsOK
  <2>4. cache' \in [Records -> Legal] /\ edited' \subseteq Records
    <3> DEFINE u == import[t].todo[1]
    <3>1. u \in DOMAIN Patches
      BY <1>1, OneRecord DEF JobInv
    <3>2. IF Patches[u].val \in Legal
          THEN /\ cache' = [cache EXCEPT ![Patches[u].rec] = Patches[u].val]
               /\ edited' \subseteq edited \cup {Patches[u].rec}
          ELSE cache' = cache /\ edited' = edited
      BY <1>1, OneRecord DEF JobInv
    <3>3. Patches[u].rec \in Records
      BY <3>1, CommsDocuments
    <3> HIDE DEF u
    <3>4. QED
      BY <3>2, <3>3 DEF JobInv
  <2>5. QED
    BY <2>1, <2>3, <2>4 DEF JobInv, Task
<1>2. CASE UartDispatches
  BY <1>2, DispatchJob
<1>3. ASSUME NEW t \in Task, NEW queued \in BOOLEAN, Commit(t, queued)
      PROVE  /\ JobsOK' /\ ~import'[t].active /\ \A s \in Task \ {t} : import'[s] = import[s]
             /\ UNCHANGED <<cache, edited>>
  <2>1. import' = [import EXCEPT ![t] = NoImport] /\ UNCHANGED <<cache, edited>>
    BY <1>3 DEF Commit
  <2>2. QED
    <3>1. JobsOK' /\ import'[t] = NoImport /\ \A s \in Task \ {t} : import'[s] = import[s]
      BY <2>1, NoJob, JobsChange DEF JobInv
    <3>2. ~NoImport.active
      BY DEF NoImport
    <3>3. QED
      BY <2>1, <3>1, <3>2
<1>4. CASE UartCommits
  <2>1. uart'.pc = "reply" /\ ext' = ext
    BY <1>4 DEF UartCommits, Line!ImportReturns, Line!Reply, post, FrameInv
  <2>2. QED
    BY <1>3, <1>4, <2>1 DEF UartCommits, JobInv, Task
<1>5. CASE ExportRecord \/ UartExports
  <2>1. UNCHANGED <<import, cache, edited, ext>>
    BY <1>5 DEF ExportRecord, UartExports, ExportReturns, post
  <2>2. uart.pc # "import" /\ uart'.pc # "import"
    BY <1>5 DEF ExportRecord, UartExports, Line!ExportReturns, Line!Reply, line, FrameInv
  <2>3. QED
    BY <1>0, <2>1, <2>2 DEF JobInv
<1>6. CASE UartReceives \/ UartAnswers \/ HostConnects
  <2>1. UNCHANGED <<import, cache, edited, ext>>
    BY <1>6 DEF UartReceives, UartAnswers, HostConnects, own, post
  <2>2. uart.pc # "import" /\ uart'.pc # "import"
    <3>1. CASE UartReceives
      BY <3>1 DEF UartReceives, Line!Receiving, Line!EndOfFrame, Line!RecvFails,
                  Line!FrameEnds, Line!Recv, FrameInv
    <3>2. CASE UartAnswers
      BY <3>2 DEF UartAnswers, Line!SendReply, Line!Close, Line!Listening, FrameInv
    <3>3. CASE HostConnects
      BY <3>3 DEF HostConnects, Line!Accept, FrameInv
    <3>4. QED
      BY <1>6, <3>1, <3>2, <3>3
  <2>3. QED
    BY <1>0, <2>1, <2>2 DEF JobInv
<1>7. CASE ExtReceives \/ ProducerActs \/ UNCHANGED vars
  <2>1. UNCHANGED <<import, cache, edited, uart>>
    BY <1>7 DEF ExtReceives, ProducerActs, vars, own, line
  <2>2. ext' = ext \/ ext.pc = "receive"
    BY <1>7 DEF ExtReceives, Post!Receive, ProducerActs, Post!Submit, Post!Fill, vars, post
  <2>3. QED
    BY <1>0, <2>1, <2>2 DEF JobInv
<1>8. CASE ExtParses
  <2>1. ext'.pc = "import" /\ ext.pc = "held" /\ UNCHANGED <<cache, edited, uart>>
    BY <1>8 DEF ExtParses, Post!Parse, Post!CommsInv, Post!TypeOK, line
  <2>2. CASE Line!WellFormed(ext'.doc)
    <3>1. ext'.doc \in Submitted
      BY <2>1 DEF Post!CommsInv, Post!TypeOK, Submitted
    <3>2. IsJob(Begin(ext'.doc))
      BY <2>2, <3>1, RecordsArePatches, NewJob
    <3>3. import' = [import EXCEPT !["ext"] = Begin(ext'.doc)]
      BY <1>8, <2>2 DEF ExtParses
    <3>4. JobsOK' /\ import'["uart"] = import["uart"]
      BY <3>2, <3>3, JobsChange DEF JobInv, Task
    <3>5. QED
      BY <2>1, <3>4 DEF JobInv
  <2>3. CASE ~Line!WellFormed(ext'.doc)
    BY <1>0, <1>8, <2>1, <2>3 DEF ExtParses, JobInv
  <2>4. QED
    BY <2>2, <2>3
<1>9. CASE ExtCommits
  <2>1. uart' = uart
    BY <1>9 DEF ExtCommits, line
  <2>2. CASE ~import["ext"].active /\ UNCHANGED own
    BY <1>0, <2>1, <2>2 DEF own, JobInv
  <2>3. CASE \E queued \in BOOLEAN : Commit("ext", queued)
    BY <1>3, <2>1, <2>3 DEF JobInv, Task
  <2>4. QED
    BY <1>9, <2>2, <2>3 DEF ExtCommits
<1>10. QED
  BY <1>1, <1>2, <1>4, <1>5, <1>6, <1>7, <1>8, <1>9 DEF Next, UartTask, ExtTask, Task

\* The document of an export, and the page it is sent from.
Pages == [Records -> Legal \cup {"blank"}]
PageInv == export.doc \in Pages /\ tx \in Pages

LEMMA BlankIsPage == BlankPage \in Pages
BY DEF BlankPage, Pages

LEMMA PageInit == Init => PageInv
<1>1. Init => export.doc = BlankPage /\ tx = BlankPage
  BY DEF Init
<1>2. QED
  BY <1>1, BlankIsPage DEF PageInv

LEMMA PageStep == ExportInv /\ JobInv /\ PageInv /\ [Next]_vars => PageInv'
<1> SUFFICES ASSUME ExportInv, JobInv, PageInv, [Next]_vars PROVE PageInv'
  OBVIOUS
<1>1. CASE UNCHANGED <<export, tx>>
  BY <1>1 DEF PageInv
<1>2. CASE UartDispatches
  <2>1. tx' = tx /\ (export' = export \/ export'.doc = BlankPage)
    BY <1>2 DEF UartDispatches
  <2>2. QED
    BY <2>1, BlankIsPage DEF PageInv
<1>3. CASE ExportRecord
  <2> DEFINE r == Head(export.todo)
  <2>1. export.todo \in Seq(Records) /\ export.todo # <<>>
    BY <1>3 DEF ExportRecord, ExportInv
  <2>2. r \in Records
    BY <2>1, HeadTailProperties
  <2>3. export'.doc = [export.doc EXCEPT ![r] = cache[r]] /\ tx' = tx
    BY <1>3 DEF ExportRecord
  <2>4. cache[r] \in Legal
    BY <2>2 DEF JobInv
  <2> HIDE DEF r
  <2>5. QED
    BY <2>2, <2>3, <2>4 DEF PageInv, Pages
<1>4. CASE UartExports
  <2>1. PICK ok \in BOOLEAN : ExportReturns(ok)
    BY <1>4 DEF UartExports
  <2>2. export' = [todo |-> <<>>, doc |-> BlankPage] /\ (tx' = tx \/ tx' = export.doc)
    BY <2>1 DEF ExportReturns
  <2>3. export'.doc = BlankPage
    BY <2>2
  <2>4. QED
    BY <2>2, <2>3, BlankIsPage DEF PageInv
<1>5. CASE UartTask
  <2>1. UartReceives \/ UartCommits \/ UartAnswers => PageInv'
    BY <1>1 DEF UartReceives, UartCommits, Commit, UartAnswers, own
  <2>2. ImportRecord("uart") => PageInv'
    BY <1>1 DEF ImportRecord
  <2>3. QED
    BY <1>2, <1>3, <1>4, <1>5, <2>1, <2>2, Zenon DEF UartTask
<1>6. CASE ExtTask
  <2>1. UNCHANGED <<export, tx>>
    BY <1>6 DEF ExtTask, ExtReceives, ExtParses, ExtCommits, Commit, ImportRecord, own
  <2>2. QED
    BY <1>1, <2>1
<1>7. CASE HostConnects \/ ProducerActs \/ UNCHANGED vars
  BY <1>1, <1>7 DEF HostConnects, ProducerActs, own, vars
<1>8. QED
  BY <1>5, <1>6, <1>7 DEF Next

------------------------------------------------------------------------------
Typed == FrameInv /\ ExportInv /\ Post!CommsInv /\ LineInv /\ JobInv /\ PageInv

LEMMA TypedInit == Init => Typed
BY FrameInit, ExportInit, PostInit, LineInit, JobInit, PageInit DEF Typed

LEMMA TypedStep == Typed /\ [Next]_vars => Typed'
BY FrameStep, ExportStep, PostStep, LineStep, JobStep, PageStep DEF Typed

LEMMA TypedIsTypeOK == Typed => TypeOK
<1> SUFFICES ASSUME Typed PROVE TypeOK
  OBVIOUS
<1>1. uart.off \in 0 .. Line!Min({RxCap, Len(host.stream)})
  <2>1. Len(host.stream) \in Nat /\ RxCap \in Nat
    BY BufferSize, LenProperties DEF Typed, FrameInv
  <2>2. uart.off \in 0 .. Len(host.stream) /\ uart.off <= RxCap
    BY DEF Typed, FrameInv
  <2>3. Line!Min({RxCap, Len(host.stream)}) \in {RxCap, Len(host.stream)}
    BY <2>1 DEF Line!Min
  <2>4. QED
    BY <2>1, <2>2, <2>3
<1>2. Line!TypeOK
  <2>1. uart.pc \in {"recv", "dispatch", "export", "import"} => uart.reply = Line!Silence
    BY DEF Typed, LineInv
  <2>2. DOMAIN rx = 1 .. RxCap /\ inputs \in Nat
    BY DEF Typed, FrameInv, Post!CommsInv, Post!TypeOK
  <2>3. QED
    BY <1>1, <2>1, <2>2 DEF Line!TypeOK, Typed, LineInv
<1>3. \A t \in Task : import[t].accepted \in Nat /\ import[t].rejected \in Nat
  BY DEF Typed, JobInv, JobsOK, IsJob
<1>4. QED
  BY <1>2, <1>3 DEF TypeOK, Typed, JobInv, PageInv, Pages

(* TypeOK, for any records, documents and frames: among other things an    *)
(* import is under way exactly while its task waits for it, what is cached *)
(* is legal, and no buffer is overrun.                                     *)
THEOREM CommsTyped == Spec => []TypeOK
BY TypedInit, TypedStep, TypedIsTypeOK, PTL DEF Spec

------------------------------------------------------------------------------
(* An export that no other import overlaps.                                *)

(* The other task may be anywhere in its import: it puts no record into    *)
(* the cache while the UART task writes its document.                      *)
LeavesExportsAlone == uart.pc = "export" => ~ImportRecord("ext")

(* The document a host is sent is the cache as it is at that moment, in    *)
(* every record.                                                           *)
ExportIsTheCache ==
    [][uart'.reply # uart.reply /\ uart'.reply.kind = "document" =>
        uart'.reply.doc = cache]_vars

NothingEdited == uart.pc = "export" => edited = {}

LEMMA UndisturbedStep ==
    ASSUME Typed, NothingEdited, [Next]_vars, [LeavesExportsAlone]_vars
    PROVE  NothingEdited'
<1> USE DEF Typed
<1>1. CASE UNCHANGED <<edited, uart>>
  BY <1>1 DEF NothingEdited
<1>2. ASSUME NEW t \in Task, ImportRecord(t) PROVE NothingEdited'
  <2>1. uart.pc # "export"
    <3>1. CASE t = "uart"
      BY <1>2, <3>1 DEF ImportRecord, JobInv
    <3>2. CASE t = "ext"
      <4>1. CASE UNCHANGED vars
        <5>1. import' = import /\ import[t].todo # <<>> /\ import'[t].todo = Tail(import[t].todo)
          BY <1>2, <4>1, OneRecord DEF vars, own, ImportRecord, JobInv
        <5>2. import[t].todo \in Seq(DOMAIN Patches)
          BY DEF JobInv, JobsOK, IsJob
        <5> DEFINE todo == import[t].todo
        <5>3. todo \in Seq(DOMAIN Patches) /\ todo # <<>> /\ Tail(todo) = todo
          BY <5>1, <5>2
        <5> HIDE DEF todo
        <5>4. Len(todo) \in Nat /\ Len(Tail(todo)) = Len(todo) - 1
          BY <5>3, HeadTailProperties, LenProperties
        <5>5. QED
          BY <5>3, <5>4
      <4>2. CASE ~UNCHANGED vars
        BY <1>2, <3>2, <4>2, Zenon DEF LeavesExportsAlone
      <4>3. QED
        BY <4>1, <4>2
    <3>3. QED
      BY <3>1, <3>2 DEF Task
  <2>2. uart' = uart
    BY <1>2 DEF ImportRecord, line
  <2>3. QED
    BY <2>1, <2>2 DEF NothingEdited
<1>3. CASE UartDispatches
  BY <1>3 DEF UartDispatches, NothingEdited
<1>4. CASE UartReceives
  <2>1. uart'.pc # "export"
    BY <1>4 DEF UartReceives, Line!Receiving, Line!EndOfFrame, Line!RecvFails, Line!FrameEnds,
               Line!Recv, FrameInv
  <2>2. QED
    BY <2>1 DEF NothingEdited
<1>5. CASE UartCommits \/ UartExports
  <2>1. uart'.pc # "export"
    BY <1>5 DEF UartCommits, UartExports, Line!ImportReturns, Line!ExportReturns, Line!Reply,
               FrameInv
  <2>2. QED
    BY <2>1 DEF NothingEdited
<1>6. CASE UartAnswers
  <2>1. uart'.pc # "export"
    BY <1>6 DEF UartAnswers, Line!SendReply, Line!Close, Line!Listening, FrameInv
  <2>2. QED
    BY <2>1 DEF NothingEdited
<1>7. CASE HostConnects
  <2>1. PICK stream \in Streams : Line!Accept(stream)
    BY <1>7 DEF HostConnects
  <2>2. uart'.pc # "export"
    BY <2>1 DEF Line!Accept, FrameInv
  <2>3. QED
    BY <2>2 DEF NothingEdited
<1>8. CASE ExportRecord
  BY <1>1, <1>8 DEF ExportRecord, line
<1>9. CASE ExtReceives \/ ExtParses \/ ExtCommits
  BY <1>1, <1>9 DEF ExtReceives, ExtParses, ExtCommits, Commit, own, line
<1>10. CASE ProducerActs
  BY <1>1, <1>10 DEF ProducerActs, own, line
<1>11. CASE UNCHANGED vars
  BY <1>1, <1>11 DEF vars, own, line
<1>12. ImportRecord("uart") \/ ImportRecord("ext") => NothingEdited'
  BY <1>2 DEF Task
<1>13. QED
  BY <1>3, <1>4, <1>5, <1>6, <1>7, <1>8, <1>9, <1>10, <1>11, <1>12, Zenon
     DEF Next, UartTask, ExtTask

(* DESIGN.md's "callers can snapshot via export", and when it is so: if the  *)
(* comms task sets no record while an export is under way, the document is   *)
(* the cache.  (That it may set one is the hazard of uart_sim_handle_get.)   *)
THEOREM UndisturbedExports ==
    Spec /\ [][LeavesExportsAlone]_vars => ExportIsTheCache
<1>1. Init => NothingEdited
  BY DEF Init, Line!Init, Line!Listening, NothingEdited
<1>2. ASSUME Typed, NothingEdited, [Next]_vars
      PROVE  [uart'.reply # uart.reply /\ uart'.reply.kind = "document" =>
                uart'.reply.doc = cache]_vars
  <2>1. CASE UNCHANGED vars
    BY <2>1
  <2>2. ASSUME Next, uart'.reply # uart.reply, uart'.reply.kind = "document"
        PROVE  uart'.reply.doc = cache
    <3>1. uart.pc = "export" /\ export.todo = <<>> /\ uart'.reply.doc = export.doc
      BY <1>2, <2>2, OnlyExportsAnswer DEF Typed
    <3>2. \A r : ~Awaits(<<>>, r)
      BY EmptySeq DEF Awaits
    <3>3. \A r \in Records : export.doc[r] = cache[r]
      BY <1>2, <3>1, <3>2 DEF NothingEdited, Typed, ExportInv
    <3>4. export.doc = [r \in Records |-> export.doc[r]] /\ cache = [r \in Records |-> cache[r]]
      BY <1>2 DEF Typed, PageInv, Pages, JobInv
    <3>5. QED
      BY <3>1, <3>3, <3>4
  <2>3. QED
    BY <1>2, <2>1, <2>2
<1>3. QED
  BY <1>1, <1>2, TypedInit, TypedStep, UndisturbedStep, PTL DEF Spec, ExportIsTheCache

(* With the listener importing beside it and sharing the cache, the comms  *)
(* task is still a queue of documents: what it takes from a producer is    *)
(* what was submitted, in order, each document once.                       *)
THEOREM DocumentsInOrder == Spec => Post!ImplementsQueue
<1>1. Init => Post!Documents!Init
  <2> SUFFICES ASSUME Init PROVE Post!Documents!Init
    OBVIOUS
  <2>1. Posted!Documents!Init
    BY SameTask, Posted!QueueInit DEF Init
  <2>2. QED
    BY <2>1, SameTask
<1>2. Typed /\ Typed' /\ [Next]_vars => [Post!Documents!Next]_(Post!Documents!vars)
  <2> SUFFICES ASSUME Typed, Typed', [Next]_vars
               PROVE  [Post!Documents!Next]_(Post!Documents!vars)
    OBVIOUS
  <2>1. CASE [Post!Next]_(Post!vars)
    <3>1. [Posted!Documents!Next]_(Posted!Documents!vars)
      BY <2>1, SameTask, SameTaskNext, CommsConstants, Posted!QueueStep DEF Typed
    <3>2. QED
      BY <3>1, SameTask
  <2>2. CASE UNCHANGED post
    BY <2>2 DEF post, Post!Documents!vars, Post!Bytes
  <2>3. QED
    BY <2>1, <2>2, PostSteps
<1>3. QED
  BY <1>1, <1>2, TypedInit, TypedStep, PTL DEF Spec, Post!ImplementsQueue, Post!Documents!Spec

------------------------------------------------------------------------------
(* What an answer says of a frame.                                         *)

CommandKinds == {"GET", "SET", "AT", "unknown"}

LEMMA CommandIsOne == ASSUME NEW s PROVE Line!Command(s) \in CommandKinds
<1> DEFINE words == Line!CommandLine(s)
<1>1. Line!Command(s) = CASE words = <<"AT", "+GET">> -> "GET"
                          [] words = <<"AT", "+SET">> -> "SET"
                          [] words = <<"AT">> -> "AT"
                          [] OTHER -> "unknown"
  BY DEF Line!Command
<1> HIDE DEF words
<1>2. QED
  BY <1>1 DEF CommandKinds

\* A command of more than two words is none.
LEMMA LongCommand ==
    ASSUME NEW s, Line!CommandLine(s) \in Seq(STRING), Len(Line!CommandLine(s)) > 2
    PROVE  Line!Command(s) = "unknown"
<1> DEFINE words == Line!CommandLine(s)
<1>1. Len(<<"AT", "+GET">>) = 2 /\ Len(<<"AT", "+SET">>) = 2 /\ Len(<<"AT">>) = 1
  OBVIOUS
<1>2. Len(words) > 2
  OBVIOUS
<1>3. Line!Command(s) = CASE words = <<"AT", "+GET">> -> "GET"
                          [] words = <<"AT", "+SET">> -> "SET"
                          [] words = <<"AT">> -> "AT"
                          [] OTHER -> "unknown"
  BY DEF Line!Command
<1> HIDE DEF words
<1>4. ~(2 > 2) /\ ~(1 > 2)
  OBVIOUS
<1>5. words # <<"AT", "+GET">> /\ words # <<"AT", "+SET">> /\ words # <<"AT">>
  BY <1>1, <1>2, <1>4
<1>6. QED
  BY <1>3, <1>5

(* What the listener takes for the command of a frame is the command of    *)
(* the frame, when it has the whole frame or a full buffer of it: a        *)
(* command line that fills the buffer is too long for any command.         *)
LEMMA CommandOfFrame ==
    ASSUME NEW s \in Seq(STRING), NEW t \in Seq(STRING), Begins(s, t), s = t \/ Len(s) > 2
    PROVE  Line!Command(s) = Line!Command(t)
<1> DEFINE n == Line!Newline(t)
<1>1. CASE s = t
  BY <1>1
<1>2. CASE Line!Newline(s) # 0
  BY <1>2, FrameOfPrefix
<1>3. CASE Line!Newline(s) = 0 /\ Len(s) > 2
  <2>1. Len(s) \in Nat /\ Len(t) \in Nat /\ Len(s) <= Len(t)
    BY LenProperties DEF Begins
  <2>2. \A i \in 1 .. Len(s) : s[i] # "nl"
    BY <1>3, FirstOfFrame, <2>1 DEF IsFirst
  <2>3. n = 0 \/ (n \in 1 .. Len(t) /\ t[n] = "nl")
    BY FirstOfFrame DEF IsFirst
  <2>4. Line!CommandLine(s) = s
    BY <1>3 DEF Line!CommandLine
  <2>5. Line!CommandLine(t) = IF n = 0 THEN t ELSE SubSeq(t, 1, n - 1)
    BY DEF Line!CommandLine
  <2> HIDE DEF n
  <2>6. n # 0 => n > Len(s)
    BY <2>1, <2>2, <2>3 DEF Begins
  <2>7. n # 0 => SubSeq(t, 1, n - 1) \in Seq(STRING) /\ Len(SubSeq(t, 1, n - 1)) = n - 1
    BY <2>1, <2>3, SubSeqProperties
  <2>8. n # 0 => n - 1 > 2
    BY <1>3, <2>1, <2>3, <2>6
  <2>9. Line!CommandLine(t) \in Seq(STRING) /\ Len(Line!CommandLine(t)) > 2
    <3>1. CASE n = 0
      BY <1>3, <2>1, <2>5, <3>1
    <3>2. CASE n # 0
      BY <2>5, <2>7, <2>8, <3>2
    <3>3. QED
      BY <3>1, <3>2
  <2>10. Line!Command(s) = "unknown" /\ Line!Command(t) = "unknown"
    BY <1>3, <2>4, <2>9, LongCommand
  <2>11. QED
    BY <2>10
<1>4. QED
  BY <1>1, <1>2, <1>3

\* The records that the setter refuses, among the first n.
Bad(units, n) == {i \in 1 .. n : Patches[units[i]].val \notin Legal}

LEMMA OneMoreUnit ==
    ASSUME NEW n \in Nat, NEW i
    PROVE  i \in 1 .. n + 1 <=> i \in 1 .. n \/ i = n + 1
OBVIOUS

LEMMA OneMoreBad ==
    ASSUME NEW units, NEW n \in Nat
    PROVE  /\ Cardinality(Bad(units, n)) \in Nat
           /\ Cardinality(Bad(units, n + 1)) =
                 IF Patches[units[n + 1]].val \in Legal THEN Cardinality(Bad(units, n))
                 ELSE Cardinality(Bad(units, n)) + 1
<1>1. IsFiniteSet(Bad(units, n))
  <2>1. IsFiniteSet(1 .. n) /\ Bad(units, n) \subseteq 1 .. n
    BY FS_Interval DEF Bad
  <2>2. QED
    BY <2>1, FS_Subset
<1>2. n + 1 \notin Bad(units, n)
  BY DEF Bad
<1>3. Bad(units, n + 1) = IF Patches[units[n + 1]].val \in Legal THEN Bad(units, n)
                          ELSE Bad(units, n) \cup {n + 1}
  <2>1. ASSUME NEW i
        PROVE  i \in 1 .. n + 1 <=> i \in 1 .. n \/ i = n + 1
    BY OneMoreUnit, Zenon
  <2>2. QED
    BY <2>1, Zenon DEF Bad
<1> HIDE DEF Bad
<1>4. QED
  BY <1>1, <1>2, <1>3, FS_AddElement, FS_CardinalityType

(* An import has done the first n records of the document: it counts       *)
(* those.                                                                  *)
Counted(job, units) ==
    \E n \in 0 .. Len(units) :
        /\ Len(job.todo) = Len(units) - n
        /\ \A i \in 1 .. Len(units) - n : job.todo[i] = units[n + i]
        /\ job.rejected = Cardinality(Bad(units, n))
        /\ job.accepted + job.rejected = n

LEMMA CountsNone ==
    ASSUME NEW units \in Seq(DOMAIN Patches), NEW job, job.todo = units, job.accepted = 0, job.rejected = 0
    PROVE  Counted(job, units)
<1>1. Len(units) \in Nat
  BY LenProperties
<1>2. Bad(units, 0) = {}
  BY DEF Bad
<1>3. Cardinality(Bad(units, 0)) = 0
  BY <1>2, FS_EmptySet
<1>4. 0 \in 0 .. Len(units) /\ Len(job.todo) = Len(units) - 0
      /\ \A i \in 1 .. Len(units) - 0 : job.todo[i] = units[0 + i]
  BY <1>1
<1>5. /\ job.rejected = Cardinality(Bad(units, 0))
      /\ job.accepted + job.rejected = 0
  BY <1>3
<1> HIDE DEF Bad
<1>6. QED
  BY <1>4, <1>5 DEF Counted

LEMMA CountsOne ==
    ASSUME NEW units \in Seq(DOMAIN Patches), NEW job, NEW new, IsJob(job), Counted(job, units),
           job.todo # <<>>, new.todo = Tail(job.todo),
           LET good == Patches[job.todo[1]].val \in Legal
           IN /\ new.accepted = IF good THEN job.accepted + 1 ELSE job.accepted
              /\ new.rejected = IF good THEN job.rejected ELSE job.rejected + 1
    PROVE  Counted(new, units)
<1>1. PICK n \in 0 .. Len(units) :
        /\ Len(job.todo) = Len(units) - n
        /\ \A i \in 1 .. Len(units) - n : job.todo[i] = units[n + i]
        /\ job.rejected = Cardinality(Bad(units, n))
        /\ job.accepted + job.rejected = n
  BY DEF Counted
<1>2. job.todo \in Seq(DOMAIN Patches) /\ job.accepted \in Nat /\ job.rejected \in Nat
  BY DEF IsJob
<1>3. /\ Len(units) \in Nat /\ Len(job.todo) \in Nat \ {0}
      /\ Len(new.todo) = Len(job.todo) - 1
      /\ \A i \in 1 .. Len(new.todo) : new.todo[i] = job.todo[i + 1]
  <2> DEFINE todo == job.todo
  <2>1. todo \in Seq(DOMAIN Patches) /\ todo # <<>> /\ new.todo = Tail(todo)
    BY <1>2
  <2> HIDE DEF todo
  <2>2. Len(todo) \in Nat \ {0} /\ Len(Tail(todo)) = Len(todo) - 1
        /\ \A i \in 1 .. Len(Tail(todo)) : Tail(todo)[i] = todo[i + 1]
    BY <2>1, HeadTailProperties, EmptySeq
  <2>3. Len(units) \in Nat
    BY LenProperties
  <2>4. QED
    BY <2>1, <2>2, <2>3 DEF todo
<1>4. n \in Nat /\ n + 1 \in 0 .. Len(units) /\ job.todo[1] = units[n + 1]
  BY <1>1, <1>3
<1>5. Len(new.todo) = Len(units) - (n + 1)
  BY <1>1, <1>3, <1>4
<1>6. ASSUME NEW i \in 1 .. Len(units) - (n + 1) PROVE new.todo[i] = units[n + 1 + i]
  <2>1. i \in 1 .. Len(new.todo) /\ i + 1 \in 1 .. Len(units) - n /\ n + (i + 1) = n + 1 + i
    BY <1>3, <1>4, <1>5
  <2>2. QED
    BY <1>1, <1>3, <2>1
<1>7. /\ new.rejected = Cardinality(Bad(units, n + 1))
      /\ new.accepted + new.rejected = n + 1
  <2>1. Cardinality(Bad(units, n + 1)) =
                 IF Patches[units[n + 1]].val \in Legal THEN Cardinality(Bad(units, n))
                 ELSE Cardinality(Bad(units, n)) + 1
    BY <1>4, OneMoreBad
  <2>2. n \in Nat /\ job.rejected = Cardinality(Bad(units, n)) /\ job.accepted + job.rejected = n
    BY <1>1, <1>4
  <2> DEFINE good == Patches[job.todo[1]].val \in Legal
  <2>3. /\ new.accepted = IF good THEN job.accepted + 1 ELSE job.accepted
        /\ new.rejected = IF good THEN job.rejected ELSE job.rejected + 1
    OBVIOUS
  <2>4. good <=> Patches[units[n + 1]].val \in Legal
    BY <1>4
  <2> HIDE DEF good
  <2>5. Cardinality(Bad(units, n + 1)) = IF good THEN job.rejected ELSE job.rejected + 1
    BY <2>1, <2>2, <2>4
  <2>6. new.rejected = Cardinality(Bad(units, n + 1))
    BY <2>3, <2>5
  <2>7. new.accepted + new.rejected = n + 1
    <3> DEFINE a == job.accepted
               b == job.rejected
    <3>1. a \in Nat /\ b \in Nat /\ a + b = n
      BY <1>2, <2>2
    <3>2. CASE good
      <4>1. new.accepted = a + 1 /\ new.rejected = b
        BY <2>3, <3>2
      <4> HIDE DEF a, b
      <4>2. QED
        BY <3>1, <4>1
    <3>3. CASE ~good
      <4>1. new.accepted = a /\ new.rejected = b + 1
        BY <2>3, <3>3
      <4> HIDE DEF a, b
      <4>2. QED
        BY <3>1, <4>1
    <3>4. QED
      BY <3>2, <3>3
  <2>8. QED
    BY <2>6, <2>7
<1>8. QED
  BY <1>4, <1>5, <1>6, <1>7 DEF Counted

LEMMA CountsAll ==
    ASSUME NEW units \in Seq(DOMAIN Patches), NEW job, Counted(job, units), job.todo = <<>>
    PROVE  /\ job.rejected = Cardinality(Refusals(units))
           /\ job.accepted + job.rejected = Len(units)
<1>1. PICK n \in 0 .. Len(units) :
        /\ Len(job.todo) = Len(units) - n
        /\ job.rejected = Cardinality(Bad(units, n))
        /\ job.accepted + job.rejected = n
  BY DEF Counted
<1>2. Len(units) \in Nat /\ DOMAIN units = 1 .. Len(units) /\ Len(<<>>) = 0
  BY LenProperties, EmptySeq
<1>3. n = Len(units)
  BY <1>1, <1>2
<1>4. Refusals(units) = Bad(units, Len(units))
  BY <1>2 DEF Refusals, Bad
<1>5. QED
  BY <1>1, <1>3, <1>4

------------------------------------------------------------------------------
(* The answer a host reads.                                                *)

AnswerInv ==
    /\ host.there /\ uart.pc = "dispatch" => uart.off \in {Len(host.stream), RxCap}
    /\ host.there /\ uart.pc = "export" => Line!Command(host.stream) = "GET"
    /\ uart.pc = "import" =>
          /\ Line!Command(host.stream) = "SET"
          /\ Line!WellFormed(Line!PayloadOf(host.stream))
          /\ Counted(import["uart"], Line!RecordsOf(Line!PayloadOf(host.stream)))
    /\ host.there /\ uart.pc = "reply" => Fits(host.stream, uart.reply)
    /\ AnswersFit

LEMMA AnswerInit == Init => AnswerInv
BY DEF Init, Line!Init, Line!Listening, Line!NoHost, AnswerInv, AnswersFit

\* What each kind of answer says of the frame it answers.
LEMMA FitsIf ==
    ASSUME NEW stream, NEW answer,
           \/ answer.kind \in {"document", "export failed"} /\ Line!Command(stream) = "GET"
           \/ answer.kind = "OK" /\ Line!Command(stream) = "AT"
           \/ answer.kind = "unknown command" /\ Line!Command(stream) = "unknown"
           \/ /\ answer.kind = "accepted"
              /\ Line!Command(stream) = "SET"
              /\ Line!WellFormed(Line!PayloadOf(stream))
              /\ answer.rejected = Cardinality(Refusals(Line!RecordsOf(Line!PayloadOf(stream))))
              /\ answer.accepted + answer.rejected = Len(Line!RecordsOf(Line!PayloadOf(stream)))
           \/ /\ answer.kind \in {"missing payload", "import failed"}
              /\ Line!Command(stream) = "SET"
              /\ Line!WellFormed(Line!PayloadOf(stream)) => Len(stream) > RxCap
    PROVE  Fits(stream, answer)
BY DEF Fits

LEMMA AnswerKept ==
    ASSUME AnswerInv, UNCHANGED line, import'["uart"] = import["uart"]
    PROVE  AnswerInv'
BY DEF AnswerInv, AnswersFit, line

LEMMA DispatchAnswer ==
    ASSUME FrameInv, LineInv, JobInv, AnswerInv, UartDispatches
    PROVE  AnswerInv'
<1> DEFINE got == Line!Received
<1> DEFINE stream == host.stream
<1>1. Line!Dispatch /\ host' = host /\ uart.pc = "dispatch" /\ uart'.off = uart.off
  BY DEF UartDispatches, Line!Dispatch, Line!Reply, FrameInv
<1>2. /\ Len(stream) \in Nat /\ stream \in Seq(STRING)
      /\ got \in Seq(STRING) /\ Len(got) = uart.off /\ Begins(got, stream)
  BY ReceivedBegins DEF FrameInv
<1>3. ASSUME host.there
      PROVE  /\ Line!Command(got) = Line!Command(stream)
             /\ got = stream \/ Len(stream) > RxCap
  <2>1. uart.off \in {Len(stream), RxCap}
    BY <1>1, <1>3 DEF AnswerInv
  <2>2. uart.off = Len(stream) => got = stream
    BY <1>2, SeqEqual DEF Begins
  <2>3. uart.off # Len(stream) => Len(stream) > RxCap /\ Len(got) > 2
    BY <1>2, <2>1, BufferSize DEF FrameInv
  <2> HIDE DEF got, stream
  <2>4. QED
    BY <1>2, <2>2, <2>3, CommandOfFrame
<1>4. CASE uart'.pc = "import"
  <2> DEFINE sent == Line!PayloadOf(stream)
  <2>1. /\ Line!Command(stream) = "SET" /\ Line!WellFormed(sent)
        /\ import'["uart"].todo = Line!RecordsOf(sent)
    BY <1>4, ImportOfFrame DEF JobInv, JobsOK
  <2>2. import'["uart"] = Begin(Line!PayloadOf(got))
    BY <1>4 DEF UartDispatches, JobInv, JobsOK, Task
  <2>3. import'["uart"].accepted = 0 /\ import'["uart"].rejected = 0
    BY <2>2 DEF Begin
  <2>4. Line!RecordsOf(sent) \in Seq(DOMAIN Patches)
    BY <1>1, <2>1, RecordsArePatches DEF LineInv, Submitted
  <2>5. Counted(import'["uart"], Line!RecordsOf(sent))
    <3> DEFINE units == Line!RecordsOf(sent)
    <3> HIDE DEF units
    <3>1. units \in Seq(DOMAIN Patches) /\ import'["uart"].todo = units
      BY <2>1, <2>4 DEF units
    <3>2. Counted(import'["uart"], units)
      BY <2>3, <3>1, CountsNone
    <3>3. QED
      BY <3>2 DEF units
  <2>6. QED
    BY <1>1, <1>4, <2>1, <2>5 DEF AnswerInv, AnswersFit
<1>5. CASE uart'.pc = "export"
  <2>1. Line!Command(got) = "GET"
    <3>1. Line!Command(got) \notin {"AT", "unknown", "SET"}
      BY <1>1, <1>5 DEF Line!Dispatch, Line!Reply, FrameInv
    <3>2. QED
      BY <3>1, CommandIsOne DEF CommandKinds
  <2>2. host.there => Line!Command(host.stream) = "GET"
    BY <1>3, <2>1
  <2>3. QED
    BY <1>1, <1>5, <2>2 DEF AnswerInv, AnswersFit
<1>6. CASE uart'.pc \notin {"import", "export"}
  <2>1. uart'.pc = "reply"
    BY <1>1, <1>6 DEF Line!Dispatch, Line!Reply, FrameInv
  <2>2. ASSUME host.there PROVE Fits(stream, uart'.reply)
    <3>1. PICK k : /\ uart'.reply = Line!Answer(k)
                   /\ \/ k = "OK" /\ Line!Command(got) = "AT"
                      \/ k = "unknown command" /\ Line!Command(got) = "unknown"
                      \/ /\ k \in {"missing payload", "import failed"}
                         /\ Line!Command(got) \notin {"AT", "GET", "unknown"}
                         /\ Line!PayloadOf(got) = <<>> \/ ~Line!WellFormed(Line!PayloadOf(got))
      <4>1. ASSUME NEW k, Line!Reply(Line!Answer(k)) PROVE uart'.reply = Line!Answer(k)
        BY <4>1 DEF Line!Reply, FrameInv
      <4>2. CASE Line!Command(got) = "AT"
        BY <1>1, <4>1, <4>2 DEF Line!Dispatch
      <4>3. CASE Line!Command(got) = "unknown"
        BY <1>1, <4>1, <4>3 DEF Line!Dispatch
      <4>4. CASE Line!Command(got) = "GET"
        BY <1>1, <1>6, <4>4 DEF Line!Dispatch, FrameInv
      <4>5. CASE Line!Command(got) = "SET"
        <5>1. CASE Line!PayloadOf(got) = <<>>
          BY <1>1, <4>1, <4>5, <5>1 DEF Line!Dispatch
        <5>2. CASE Line!PayloadOf(got) # <<>> /\ ~Line!WellFormed(Line!PayloadOf(got))
          BY <1>1, <4>1, <4>5, <5>2 DEF Line!Dispatch
        <5>3. CASE Line!PayloadOf(got) # <<>> /\ Line!WellFormed(Line!PayloadOf(got))
          BY <1>1, <1>6, <4>5, <5>3 DEF Line!Dispatch, FrameInv
        <5>4. QED
          BY <5>1, <5>2, <5>3
      <4>6. QED
        BY <4>2, <4>3, <4>4, <4>5, CommandIsOne DEF CommandKinds
    <3>2. ~Line!WellFormed(<<>>)
      BY DEF Line!WellFormed
    <3>3. Line!Command(got) \in CommandKinds
      BY CommandIsOne
    <3>4. Line!Answer(k).kind = k
      BY DEF Line!Answer
    <3> HIDE DEF got, stream
    <3>5. Fits(stream, Line!Answer(k))
      <4>1. /\ Line!Command(stream) = Line!Command(got)
            /\ got = stream \/ Len(stream) > RxCap
        BY <1>3, <2>2
      <4>2. CASE k = "OK" /\ Line!Command(got) = "AT"
        <5>1. Line!Command(stream) = "AT" /\ Line!Answer(k).kind = "OK"
          BY <3>4, <4>1, <4>2
        <5>2. QED
          BY <5>1, FitsIf
      <4>3. CASE k = "unknown command" /\ Line!Command(got) = "unknown"
        <5>1. /\ Line!Command(stream) = "unknown"
              /\ Line!Answer(k).kind = "unknown command"
          BY <3>4, <4>1, <4>3
        <5>2. QED
          BY <5>1, FitsIf
      <4>4. CASE /\ k \in {"missing payload", "import failed"}
                 /\ Line!Command(got) \notin {"AT", "GET", "unknown"}
                 /\ Line!PayloadOf(got) = <<>> \/ ~Line!WellFormed(Line!PayloadOf(got))
        <5>1. Line!Command(stream) = "SET"
          BY <3>3, <4>1, <4>4 DEF CommandKinds
        <5>2. Line!WellFormed(Line!PayloadOf(stream)) => Len(stream) > RxCap
          BY <3>2, <4>1, <4>4
        <5>3. Line!Answer(k).kind \in {"missing payload", "import failed"}
          BY <3>4, <4>4
        <5>4. QED
          BY <5>1, <5>2, <5>3, FitsIf
      <4>5. QED
        BY <3>1, <4>2, <4>3, <4>4
    <3>6. QED
      BY <3>1, <3>5
  <2>3. QED
    BY <1>1, <2>1, <2>2 DEF AnswerInv, AnswersFit
<1>7. QED
  BY <1>4, <1>5, <1>6

LEMMA ImportAnswer ==
    ASSUME LineInv, JobInv, AnswerInv, NEW t \in Task, ImportRecord(t)
    PROVE  AnswerInv'
<1>1. UNCHANGED line
  BY DEF ImportRecord
<1>2. CASE t = "ext"
  <2>1. import'["uart"] = import["uart"]
    BY <1>2, OneRecord DEF JobInv, Task
  <2>2. QED
    BY <1>1, <2>1, AnswerKept
<1>3. CASE t = "uart"
  <2> DEFINE sent == Line!PayloadOf(host.stream)
  <2> DEFINE units == Line!RecordsOf(sent)
  <2>1. uart.pc = "import"
    BY <1>3 DEF ImportRecord, JobInv
  <2>2. Line!Command(host.stream) = "SET" /\ Line!WellFormed(sent) /\ Counted(import["uart"], units)
    BY <2>1 DEF AnswerInv
  <2>3. units \in Seq(DOMAIN Patches)
    BY <2>1, <2>2, RecordsArePatches DEF LineInv, Submitted
  <2>4. Counted(import'["uart"], units)
    <3> HIDE DEF units
    <3>1. /\ IsJob(import["uart"]) /\ import["uart"].todo # <<>>
          /\ import'["uart"].todo = Tail(import["uart"].todo)
          /\ LET good == Patches[import["uart"].todo[1]].val \in Legal
             IN /\ import'["uart"].accepted = IF good THEN import["uart"].accepted + 1
                                              ELSE import["uart"].accepted
                /\ import'["uart"].rejected = IF good THEN import["uart"].rejected
                                              ELSE import["uart"].rejected + 1
      BY <1>3, OneRecord DEF JobInv, JobsOK
    <3>2. QED
      BY <2>2, <2>3, <3>1, CountsOne
  <2>5. uart' = uart /\ host' = host
    BY <1>1 DEF line
  <2>6. QED
    BY <2>1, <2>2, <2>4, <2>5 DEF AnswerInv, AnswersFit
<1>4. QED
  BY <1>2, <1>3 DEF Task

LEMMA AnswerStep == Typed /\ AnswerInv /\ [Next]_vars => AnswerInv'
<1> SUFFICES ASSUME Typed, AnswerInv, [Next]_vars PROVE AnswerInv'
  OBVIOUS
<1> USE DEF Typed
<1>1. CASE UartReceives
  <2>1. /\ host'.stream = host.stream /\ host'.read = host.read
        /\ uart'.pc \in {"recv", "dispatch", "close"}
    BY <1>1 DEF UartReceives, Line!Receiving, Line!EndOfFrame, Line!RecvFails, Line!FrameEnds,
               Line!Recv, FrameInv
  <2>2. ASSUME host'.there, uart'.pc = "dispatch" PROVE uart'.off \in {Len(host.stream), RxCap}
    <3>1. CASE Line!RecvFails
      BY <2>2, <3>1 DEF Line!RecvFails, FrameInv
    <3>2. CASE Line!EndOfFrame
      BY <2>2, <3>2 DEF Line!EndOfFrame, Line!FrameEnds, FrameInv
    <3>3. CASE \E k \in 1 .. Len(host.stream) : Line!Recv(k)
      <4>1. PICK k \in 1 .. Len(host.stream) : Line!Recv(k)
        BY <3>3
      <4>2. uart'.off = uart.off + k /\ uart.off + k >= RxCap
        BY <2>2, <4>1 DEF Line!Recv, FrameInv
      <4>3. uart'.off <= RxCap /\ uart'.off \in Nat
        BY FrameStep DEF FrameInv
      <4>4. QED
        BY <4>2, <4>3, BufferSize
    <3>4. QED
      BY <1>1, <3>1, <3>2, <3>3 DEF UartReceives, Line!Receiving
  <2>3. QED
    BY <2>1, <2>2 DEF AnswerInv, AnswersFit
<1>2. CASE UartDispatches
  BY <1>2, DispatchAnswer
<1>3. ASSUME NEW t \in Task, ImportRecord(t) PROVE AnswerInv'
  BY <1>3, ImportAnswer
<1>4. CASE UartCommits
  <2> DEFINE job == import["uart"]
  <2> DEFINE units == Line!RecordsOf(Line!PayloadOf(host.stream))
  <2>1. PICK queued \in BOOLEAN :
          /\ Commit("uart", queued)
          /\ Line!ImportReturns([kind |-> "accepted", accepted |-> job.accepted,
                                 rejected |-> job.rejected, persist |-> queued])
    BY <1>4 DEF UartCommits
  <2>2. /\ uart.pc = "import" /\ host' = host /\ job.todo = <<>> /\ uart'.pc = "reply"
        /\ uart'.reply = [kind |-> "accepted", accepted |-> job.accepted,
                          rejected |-> job.rejected, persist |-> queued]
    BY <2>1 DEF Commit, Line!ImportReturns, Line!Reply, FrameInv
  <2>3. /\ Line!Command(host.stream) = "SET" /\ Line!WellFormed(Line!PayloadOf(host.stream))
        /\ Counted(job, units)
    BY <2>2 DEF AnswerInv
  <2>4. units \in Seq(DOMAIN Patches)
    BY <2>2, <2>3, RecordsArePatches DEF LineInv, Submitted
  <2>5. /\ job.rejected = Cardinality(Refusals(units))
        /\ job.accepted + job.rejected = Len(units)
    <3> HIDE DEF job, units
    <3> QED BY <2>2, <2>3, <2>4, CountsAll
  <2>6. /\ uart'.reply.kind = "accepted"
        /\ uart'.reply.rejected = job.rejected /\ uart'.reply.accepted = job.accepted
    BY <2>2
  <2>7. Fits(host.stream, uart'.reply)
    BY <2>3, <2>5, <2>6, FitsIf
  <2>8. QED
    BY <2>2, <2>7 DEF AnswerInv, AnswersFit
<1>5. CASE UartExports
  <2>1. /\ uart.pc = "export" /\ host' = host /\ uart'.pc = "reply"
        /\ uart'.reply.kind \in {"document", "export failed"}
    BY <1>5 DEF UartExports, Line!ExportReturns, Line!Reply, Line!Answer, FrameInv
  <2>2. host.there => Fits(host.stream, uart'.reply)
    BY <2>1, FitsIf DEF AnswerInv
  <2>3. QED
    BY <2>1, <2>2 DEF AnswerInv, AnswersFit
<1>6. CASE UartAnswers
  <2>1. CASE Line!SendReply
    BY <2>1 DEF Line!SendReply, FrameInv, AnswerInv, AnswersFit
  <2>2. CASE Line!Close
    BY <2>2 DEF Line!Close, Line!Listening, Line!NoHost, AnswerInv, AnswersFit
  <2>3. QED
    BY <1>6, <2>1, <2>2 DEF UartAnswers
<1>7. CASE HostConnects
  BY <1>7 DEF HostConnects, Line!Accept, FrameInv, AnswerInv, AnswersFit
<1>8. CASE ExportRecord \/ ProducerActs \/ UNCHANGED vars
  BY <1>8, AnswerKept DEF ExportRecord, ProducerActs, own, vars
<1>9. CASE ExtReceives \/ ExtParses \/ ExtCommits
  <2>1. UNCHANGED line
    BY <1>9 DEF ExtReceives, ExtParses, ExtCommits
  <2>2. import'["uart"] = import["uart"]
    BY <1>9 DEF ExtReceives, ExtParses, ExtCommits, Commit, own, JobInv, JobsOK, Task
  <2>3. QED
    BY <2>1, <2>2, AnswerKept
<1>10. QED
  BY <1>1, <1>2, <1>3, <1>4, <1>5, <1>6, <1>7, <1>8, <1>9 DEF Next, UartTask, ExtTask, Task

(* AnswersFit, for frames and a buffer of any length, cut up in any way:   *)
(* an answer that a host reads is the answer to the frame it sent.         *)
THEOREM AnswersFitAlways == Spec => []AnswersFit
<1>1. AnswerInv => AnswersFit
  BY DEF AnswerInv
<1>2. QED
  BY <1>1, TypedInit, TypedStep, AnswerInit, AnswerStep, PTL DEF Spec
==============================================================================
