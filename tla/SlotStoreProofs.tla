--------------------------- MODULE SlotStoreProofs ---------------------------
(***************************************************************************)
(* Proofs about SlotStore for every set of payloads, every number of       *)
(* writes and power cuts, and write faults at every step: type correctness *)
(* on any medium; on a benign one, that the newest sane slot is valid,     *)
(* that no write touches the active slot, and that the two slots implement *)
(* one durable cell; and which of this failing reads leave alone.          *)
(***************************************************************************)
EXTENDS SlotStore, TLAPS

(* A sequence number below the modulus is unchanged by it.                 *)
LEMMA ModSmall ==
    ASSUME NEW n \in Nat, NEW m \in Nat, n < m
    PROVE  n % m = n
  OBVIOUS

(* The choice of the newer candidate, case by case.                        *)
LEMMA NewerCases ==
    ASSUME NEW C, C \subseteq Slot
    PROVE  /\ C \in {{}, {"A"}, {"B"}, Slot}
           /\ C # {} => Newer(C) \in C
           /\ Newer(C) \in Slot
           /\ C = {"A"} => Newer(C) = "A"
           /\ C = {"B"} => Newer(C) = "B"
           /\ C = Slot => Newer(C) = (IF hdr["A"].seq >= hdr["B"].seq THEN "A" ELSE "B")
  BY DEF Newer, Slot

LEMMA OtherFacts ==
    ASSUME NEW s \in Slot
    PROVE  Other(s) \in Slot /\ Other(s) # s /\ Slot = {s, Other(s)} 
  BY DEF Other, Slot

LEMMA WriteTargetType ==
    ASSUME NEW C, C \subseteq Slot
    PROVE  WriteTarget(C) \in Slot
  BY NewerCases, OtherFacts DEF WriteTarget, Slot

LEMMA NextSeqType ==
    ASSUME TypeOK, NEW C, C \subseteq Slot
    PROVE  NextSeq(C) \in Seqs
  <1>1. Newer(C) \in Slot
    BY NewerCases
  <1>2. hdr[Newer(C)].seq \in Nat
    BY <1>1 DEF TypeOK, Headers, Seqs
  <1>3. \A k \in Nat : k % SeqMod \in 0 .. SeqMod - 1
    BY SlotStoreConstants
  <1>4. QED
    BY <1>2, <1>3 DEF NextSeq, Seqs

LEMMA HeaderTypes ==
    ASSUME TypeOK, call.step = "header"
    PROVE  NewHeader \in Headers /\ TornHeaders \subseteq Headers
<1>1. call.seq \in Seqs /\ call.payload \in Payload /\ call.target \in Slot
  BY DEF TypeOK
<1>2. <<call.seq, call.payload>> \in Crcs
  BY <1>1 DEF Crcs
<1>3. NewHeader \in Headers
  BY <1>1, <1>2 DEF NewHeader, Headers
<1>4. hdr[call.target] \in Headers
  BY <1>1 DEF TypeOK
<1>5. hdr[call.target].crc \in Crcs
  BY <1>4 DEF Headers
<1>6. [hdr[call.target] EXCEPT !.seq = call.seq] \in Headers
  BY <1>1, <1>4 DEF Headers
<1>7. [sane : {TRUE}, seq : {call.seq},
       crc : {hdr[call.target].crc, Garbage, NewHeader.crc}] \subseteq Headers
  <2>1. {hdr[call.target].crc, Garbage, NewHeader.crc} \subseteq Crcs
    BY <1>2, <1>5 DEF NewHeader, Crcs
  <2>2. QED
    BY <1>1, <2>1 DEF Headers
<1>8. QED
  BY <1>3, <1>4, <1>6, <1>7 DEF TornHeaders

------------------------------------------------------------------------------
(* Every variable keeps its type on any medium: torn headers, failing      *)
(* reads and writes and rot included, and with sequence numbers that wrap. *)
THEOREM TypeCorrect == Spec => []TypeOK
<1>1. Init => TypeOK
  BY SlotStoreConstants
  DEF Init, TypeOK, Headers, Erased, Seqs, Crcs, NoCall, Steps, Slot, Statuses
<1>2. TypeOK /\ [Next]_vars => TypeOK'
  <2> SUFFICES ASSUME TypeOK, [Next]_vars PROVE TypeOK'
    OBVIOUS
  <2> USE SlotStoreConstants
  <2>0. 0 \in Seqs
    BY DEF Seqs
  <2>1. CASE SlotPickActive
    <3>1. PICK unread \in Unreadable :
             \/ loaded' = Garbage /\ status' \in Statuses
             \/ ValidSlots \ unread # {} /\ status' \in Statuses
                   /\ loaded' = body[Newer(ValidSlots \ unread)]
      BY <2>1 DEF SlotPickActive, Statuses
    <3>2. Newer(ValidSlots \ unread) \in Slot
      BY NewerCases DEF ValidSlots
    <3>3. QED
      BY <2>0, <2>1, <3>1, <3>2 DEF SlotPickActive, TypeOK, NoCall, Steps, medium, Slot
  <2>2. ASSUME NEW p \in Payload, SlotWriteScan(p) PROVE TypeOK'
    <3>1. PICK unread \in Unreadable :
             call' = [step |-> "payload", target |-> WriteTarget(SaneSlots \ unread),
                      seq |-> NextSeq(SaneSlots \ unread), payload |-> p]
      BY <2>2 DEF SlotWriteScan
    <3>2. SaneSlots \ unread \subseteq Slot
      BY DEF SaneSlots
    <3>3. budget' \in [writes : 0 .. MaxWrites, cuts : 0 .. MaxCuts, rot : 0 .. MaxRot]
      BY <2>2 DEF SlotWriteScan, TypeOK
    <3>4. QED
      BY <2>2, <3>1, <3>2, <3>3, WriteTargetType, NextSeqType
      DEF SlotWriteScan, TypeOK, Steps, medium
  <2>3. CASE SlotWriteRefuse
    BY <2>3 DEF SlotWriteRefuse, TypeOK, medium, Statuses
  <2>4. CASE SlotWritePayload
    BY <2>0, <2>4 DEF SlotWritePayload, TornBodies, TypeOK, NoCall, Steps, Slot, Statuses
  <2>5. CASE SlotWriteHeader
    <3>1. NewHeader \in Headers /\ TornHeaders \subseteq Headers
      BY <2>5, HeaderTypes DEF SlotWriteHeader
    <3>2. hdr' \in [Slot -> Headers]
      BY <2>5, <3>1 DEF SlotWriteHeader, TypeOK
    <3>3. QED
      BY <2>0, <2>5, <3>2 DEF SlotWriteHeader, TypeOK, NoCall, Steps, Slot, Statuses
  <2>6. CASE PowerCut
    <3>1. call.step = "header" => TornHeaders \subseteq Headers
      BY HeaderTypes
    <3>2. hdr' \in [Slot -> Headers]
      <4>1. CASE call.step = "header"
        <5>1. PICK h \in TornHeaders : hdr' = [hdr EXCEPT ![call.target] = h]
          BY <2>6, <4>1 DEF PowerCut
        <5>2. h \in Headers
          BY <3>1, <4>1, <5>1
        <5>3. QED
          BY <5>1, <5>2 DEF TypeOK
      <4>2. CASE call.step # "header"
        BY <2>6, <4>2 DEF PowerCut, TypeOK
      <4>3. QED
        BY <4>1, <4>2
    <3>3. body' \in [Slot -> Payload \cup {Garbage}]
      BY <2>6 DEF PowerCut, TornBodies, TypeOK
    <3>4. budget' \in [writes : 0 .. MaxWrites, cuts : 0 .. MaxCuts, rot : 0 .. MaxRot]
      BY <2>6 DEF PowerCut, TypeOK
    <3>5. QED
      BY <2>0, <2>6, <3>2, <3>3, <3>4 DEF PowerCut, TypeOK, NoCall, Steps, Slot, Statuses
  <2>7. ASSUME NEW s \in Slot, BitFlip(s) PROVE TypeOK'
    <3>1. hdr' \in [Slot -> Headers]
      <4>1. hdr[s] \in Headers
        BY <2>7 DEF TypeOK
      <4>2. \A n \in Seqs : [hdr[s] EXCEPT !.seq = n] \in Headers
        BY <4>1 DEF Headers
      <4>3. [hdr[s] EXCEPT !.sane = FALSE] \in Headers
        BY <4>1 DEF Headers
      <4>4. \/ UNCHANGED hdr
            \/ \E n \in Seqs : hdr' = [hdr EXCEPT ![s] = [hdr[s] EXCEPT !.seq = n]]
            \/ hdr' = [hdr EXCEPT ![s] = [hdr[s] EXCEPT !.sane = FALSE]]
        BY <2>7 DEF BitFlip
      <4>5. UNCHANGED hdr \/ \E h \in Headers : hdr' = [hdr EXCEPT ![s] = h]
        BY <4>2, <4>3, <4>4
      <4>6. QED
        BY <4>5 DEF TypeOK
    <3>2. body' \in [Slot -> Payload \cup {Garbage}]
      BY <2>7 DEF BitFlip, TypeOK
    <3>3. budget' \in [writes : 0 .. MaxWrites, cuts : 0 .. MaxCuts, rot : 0 .. MaxRot]
      BY <2>7 DEF BitFlip, TypeOK
    <3>4. QED
      BY <2>7, <3>1, <3>2, <3>3 DEF BitFlip, TypeOK
  <2>8. CASE UNCHANGED vars
    BY <2>8 DEF vars, TypeOK
  <2>9. QED
    BY <2>1, <2>2, <2>3, <2>4, <2>5, <2>6, <2>7, <2>8 DEF Next, SlotWrite
<1>3. QED
  BY <1>1, <1>2, PTL DEF Spec

------------------------------------------------------------------------------
(* The slot the write path takes for the newest is the slot the boot picks. *)
LEMMA ActiveIsNewest ==
    TypeOK /\ NewestIsValid
       => /\ ValidSlots = {} <=> SaneSlots = {}
          /\ SaneSlots # {} => /\ Newer(ValidSlots) = Newer(SaneSlots)
                               /\ Newer(SaneSlots) \in SaneSlots
                               /\ ActivePayload = body[Newer(SaneSlots)]
          /\ SaneSlots = {} => ActivePayload = Garbage
<1> SUFFICES ASSUME TypeOK, NewestIsValid
             PROVE  /\ ValidSlots = {} <=> SaneSlots = {}
                    /\ SaneSlots # {} => /\ Newer(ValidSlots) = Newer(SaneSlots)
                                         /\ Newer(SaneSlots) \in SaneSlots
                                         /\ ActivePayload = body[Newer(SaneSlots)]
                    /\ SaneSlots = {} => ActivePayload = Garbage
  OBVIOUS
<1>1. SaneSlots \subseteq Slot /\ ValidSlots \subseteq SaneSlots
  BY DEF SaneSlots, ValidSlots, Valid
<1>2. SaneSlots = {} => ValidSlots = {} /\ ActivePayload = Garbage
  BY <1>1 DEF ActivePayload
<1>3. ASSUME SaneSlots # {}
      PROVE  /\ ValidSlots # {}
             /\ Newer(ValidSlots) = Newer(SaneSlots)
             /\ Newer(SaneSlots) \in SaneSlots
  <2>1. Newer(SaneSlots) \in SaneSlots
    BY <1>1, <1>3, NewerCases
  <2>2. Newer(SaneSlots) \in ValidSlots
    BY <1>1, <1>3, <2>1 DEF NewestIsValid, ValidSlots
  <2>3. ValidSlots \subseteq Slot
    BY <1>1
  <2>4. Newer(ValidSlots) = Newer(SaneSlots)
    <3>1. CASE SaneSlots = Slot
      BY <3>1, <2>2, <2>3, NewerCases DEF Slot
    <3>2. CASE SaneSlots # Slot
      BY <3>2, <1>1, <2>1, <2>2, <2>3, NewerCases DEF Slot
    <3>3. QED
      BY <3>1, <3>2
  <2>5. QED
    BY <2>1, <2>2, <2>4
<1>4. SaneSlots # {} => ActivePayload = body[Newer(SaneSlots)]
  BY <1>3 DEF ActivePayload
<1>5. QED
  BY <1>2, <1>3, <1>4

(* A slot that validates holds a blob, never garbage.                      *)
LEMMA ValidBody ==
    ASSUME TypeOK, NEW s \in Slot, Valid(s)
    PROVE  body[s] \in Payload /\ body[s] # Garbage
<1>1. hdr[s] \in Headers /\ body[s] \in Payload \cup {Garbage}
  BY DEF TypeOK
<1>2. hdr[s].seq \in Seqs /\ hdr[s].crc \in Crcs
  BY <1>1 DEF Headers
<1>3. <<hdr[s].seq, body[s]>> \in Crcs
  BY <1>2 DEF Valid
<1>4. <<hdr[s].seq, body[s]>> \in Seqs \X (Payload \cup {Garbage})
  BY <1>1, <1>2
<1>5. <<hdr[s].seq, body[s]>> # Garbage
  BY <1>4, SlotStoreConstants DEF Seqs
<1>6. <<hdr[s].seq, body[s]>> \in Seqs \X Payload
  BY <1>3, <1>5 DEF Crcs
<1>7. QED
  BY <1>6, SlotStoreConstants

LEMMA ActiveIsBlob ==
    ASSUME TypeOK
    PROVE  ActivePayload = Garbage <=> ValidSlots = {}
<1>1. CASE ValidSlots = {}
  BY <1>1 DEF ActivePayload
<1>2. CASE ValidSlots # {}
  <2>1. Newer(ValidSlots) \in ValidSlots
    BY <1>2, NewerCases DEF ValidSlots
  <2>2. QED
    BY <1>2, <2>1, ValidBody DEF ActivePayload, ValidSlots
<1>3. QED
  BY <1>1, <1>2

(* A step that leaves the medium alone leaves every reading of it alone.   *)
LEMMA MediumFrame ==
    ASSUME UNCHANGED medium
    PROVE  /\ SaneSlots' = SaneSlots
           /\ ValidSlots' = ValidSlots
           /\ ActivePayload' = ActivePayload
           /\ NewestIsValid' = NewestIsValid
           /\ SeqsDistinct' = SeqsDistinct
  BY DEF medium, SaneSlots, ValidSlots, Valid, ActivePayload, Newer, NewestIsValid,
         SeqsDistinct

(* Bytes written to the body of the target disturb nothing a boot reads.   *)
LEMMA ScratchBody ==
    ASSUME TypeOK, StoredInv, InWrite, UNCHANGED hdr,
           \A s \in Slot : s # call.target => body'[s] = body[s],
           TypeOK'
    PROVE  /\ SaneSlots' = SaneSlots
           /\ NewestIsValid'
           /\ SeqsDistinct'
           /\ ActivePayload' = ActivePayload
           /\ SaneSlots # {} => body'[Newer(SaneSlots)] = body[Newer(SaneSlots)]
           /\ Newer(SaneSlots)' = Newer(SaneSlots)
<1>1. SaneSlots' = SaneSlots /\ SeqsDistinct' /\ Newer(SaneSlots)' = Newer(SaneSlots)
  BY DEF SaneSlots, SeqsDistinct, StoredInv, Newer
<1>2. ASSUME SaneSlots # {}
      PROVE  /\ Newer(SaneSlots) \in Slot
             /\ body'[Newer(SaneSlots)] = body[Newer(SaneSlots)]
  <2>1. Newer(SaneSlots) \in Slot
    BY NewerCases DEF SaneSlots
  <2>2. call.target = Other(Newer(SaneSlots))
    BY <1>2 DEF StoredInv, CallInOrder, WriteTarget
  <2>3. QED
    BY <2>1, <2>2, OtherFacts
<1>3. NewestIsValid'
  BY <1>1, <1>2 DEF StoredInv, NewestIsValid, Valid
<1>4. ActivePayload' = ActivePayload
  <2>1. (TypeOK /\ NewestIsValid
          => /\ SaneSlots # {} => ActivePayload = body[Newer(SaneSlots)]
             /\ SaneSlots = {} => ActivePayload = Garbage)
    BY ActiveIsNewest
  <2>2. (TypeOK /\ NewestIsValid
          => /\ SaneSlots # {} => ActivePayload = body[Newer(SaneSlots)]
             /\ SaneSlots = {} => ActivePayload = Garbage)'
    BY ActiveIsNewest, PTL
  <2>3. QED
    BY <1>1, <1>2, <1>3, <2>1, <2>2 DEF StoredInv
<1>5. QED
  BY <1>1, <1>2, <1>3, <1>4

(* The header write is the commit: it makes the target the newest slot.    *)
LEMMA HeaderCommits ==
    ASSUME TypeOK, TypeOK', StoredInv, call.step = "header",
           UNCHANGED body, budget'.writes = budget.writes, hdr' = [hdr EXCEPT ![call.target] = NewHeader]
    PROVE  /\ SaneSlots' = SaneSlots \cup {call.target}
           /\ SeqsDistinct'
           /\ SeqsBelowWrites'
           /\ NewestIsValid'
           /\ ActivePayload' = call.payload
           /\ SaneSlots # {} => hdr'[Newer(SaneSlots)] = hdr[Newer(SaneSlots)]
<1> DEFINE t == call.target
           n == Newer(SaneSlots)
<1>1. t \in Slot /\ call.payload \in Payload /\ SaneSlots \subseteq Slot
  BY DEF TypeOK, SaneSlots
<1>2. /\ call.target = WriteTarget(SaneSlots)
      /\ call.seq = (IF SaneSlots = {} THEN 1 ELSE hdr[n].seq + 1)
      /\ call.seq <= WritesBegun
      /\ body[t] = call.payload
  BY DEF StoredInv, CallInOrder, InWrite
<1>3. hdr'[t] = NewHeader /\ \A s \in Slot \ {t} : hdr'[s] = hdr[s]
  BY <1>1 DEF TypeOK
<1>4. hdr'[t].sane /\ hdr'[t].seq = call.seq /\ hdr'[t].crc = <<hdr'[t].seq, body'[t]>>
  BY <1>2, <1>3 DEF NewHeader
<1>5. SaneSlots' = SaneSlots \cup {t}
  BY <1>1, <1>3, <1>4 DEF SaneSlots
<1>6. ASSUME SaneSlots # {}
      PROVE  n \in Slot /\ n # t /\ Slot = {n, t} /\ hdr[n].sane /\ hdr[n].seq \in Nat
  <2>1. n \in SaneSlots
    BY <1>1, <1>6, NewerCases
  <2>2. t = Other(n)
    BY <1>2, <1>6 DEF WriteTarget
  <2>3. hdr[n].seq \in Nat
    BY <1>1, <2>1 DEF TypeOK, Headers, Seqs
  <2>4. QED
    BY <1>1, <2>1, <2>2, <2>3, OtherFacts DEF SaneSlots
<1>7. ASSUME SaneSlots # {}
      PROVE  SaneSlots' = Slot /\ hdr'[t].seq = hdr'[n].seq + 1 /\ hdr'[n].seq \in Nat
  <2>1. n \in SaneSlots
    BY <1>1, <1>7, NewerCases
  <2>2. hdr'[n] = hdr[n]
    BY <1>3, <1>6, <1>7
  <2>3. SaneSlots' = Slot
    BY <1>1, <1>5, <1>6, <1>7, <2>1
  <2>4. QED
    BY <1>2, <1>4, <1>6, <1>7, <2>2, <2>3
<1>8. (Newer(SaneSlots))' = t
  <2>1. CASE SaneSlots = {}
    <3>1. t = "A" /\ SaneSlots' = {"A"}
      BY <1>2, <1>5, <2>1 DEF WriteTarget
    <3>2. QED
      BY <3>1 DEF Newer, Slot
  <2>2. CASE SaneSlots # {}
    <3>1. {n, t} = {"A", "B"} /\ n # t
      BY <1>6, <2>2 DEF Slot
    <3>2. \/ n = "A" /\ t = "B" /\ hdr'["B"].seq = hdr'["A"].seq + 1 /\ hdr'["A"].seq \in Nat
          \/ n = "B" /\ t = "A" /\ hdr'["A"].seq = hdr'["B"].seq + 1 /\ hdr'["B"].seq \in Nat
      BY <1>7, <2>2, <3>1
    <3>3. SaneSlots' = Slot
      BY <1>7, <2>2
    <3>4. QED
      BY <3>2, <3>3 DEF Newer
  <2>3. QED
    BY <2>1, <2>2
<1>9. NewestIsValid'
  BY <1>4, <1>8 DEF NewestIsValid, Valid
<1>10. SeqsDistinct'
  <2>1. CASE SaneSlots = {}
    <3>1. SaneSlots' # Slot
      BY <1>5, <2>1 DEF Slot
    <3>2. QED
      BY <3>1 DEF SeqsDistinct
  <2>2. CASE SaneSlots # {}
    <3>1. {n, t} = {"A", "B"} /\ n # t
      BY <1>6, <2>2 DEF Slot
    <3>2. QED
      BY <1>7, <2>2, <3>1 DEF SeqsDistinct
  <2>3. QED
    BY <2>1, <2>2
<1>11. SeqsBelowWrites'
  <2>1. WritesBegun' = WritesBegun
    BY DEF WritesBegun
  <2>2. QED
    BY <1>2, <1>3, <1>4, <2>1 DEF SeqsBelowWrites, StoredInv
<1>12. ActivePayload' = call.payload
  <2>1. (TypeOK /\ NewestIsValid
          => (SaneSlots # {} => ActivePayload = body[Newer(SaneSlots)]))'
    BY ActiveIsNewest, PTL
  <2>2. QED
    BY <1>2, <1>5, <1>8, <1>9, <2>1
<1>13. QED
  BY <1>3, <1>5, <1>6, <1>9, <1>10, <1>11, <1>12

(* No cell rots, and on an orderly medium a call reads everything.         *)
LEMMA LastingChoices ==
    ASSUME LastingMedium, TypeOK
    PROVE  \A s \in Slot : ~BitFlip(s)
  BY SlotStoreConstants DEF LastingMedium, TypeOK, BitFlip

LEMMA OrderlyChoices ==
    ASSUME OrderlyMedium
    PROVE  /\ LastingMedium
           /\ Unreadable = {{}}
           /\ ReadFaults = FALSE
           /\ TypeOK => \A s \in Slot : ~BitFlip(s)
<1>1. LastingMedium /\ ReadFaults = FALSE
  BY SlotStoreConstants DEF OrderlyMedium
<1>2. QED
  BY <1>1, LastingChoices DEF Unreadable

LEMMA OrderlyScanSees ==
    ASSUME OrderlyMedium, TypeOK, [Next]_vars
    PROVE  ScanSeesBoth
<1> SUFFICES ASSUME call.step = "idle", call'.step = "payload"
             PROVE  call'.target = WriteTarget(SaneSlots) /\ call'.seq = NextSeq(SaneSlots)
  BY DEF ScanSeesBoth
<1>1. \A s \in Slot : ~BitFlip(s)
  BY OrderlyChoices
<1>2. ~SlotPickActive /\ ~SlotWritePayload /\ ~SlotWriteHeader
  BY DEF SlotPickActive, SlotWritePayload, SlotWriteHeader
<1>3. ~SlotWriteRefuse /\ ~PowerCut /\ ~UNCHANGED vars
  BY DEF SlotWriteRefuse, PowerCut, NoCall, vars
<1>4. PICK p \in Payload : SlotWriteScan(p)
  BY <1>1, <1>2, <1>3 DEF Next, SlotWrite
<1>5. PICK unread \in Unreadable :
         call' = [step |-> "payload", target |-> WriteTarget(SaneSlots \ unread),
                  seq |-> NextSeq(SaneSlots \ unread), payload |-> p]
  BY <1>4 DEF SlotWriteScan
<1>6. unread = {} /\ SaneSlots \ unread = SaneSlots
  BY OrderlyChoices
<1>7. QED
  BY <1>5, <1>6

(* A step that leaves no part of a header behind.                          *)
WholeHeader == hdr' \in {hdr, [hdr EXCEPT ![call.target] = NewHeader]}

LEMMA WholeHeaders ==
    ASSUME LastingMedium, ~TornHeader, TypeOK, [Next]_vars
    PROVE  WholeHeader
<1>1. TornHeaders = {hdr[call.target], NewHeader}
  BY DEF TornHeaders
<1>2. [hdr EXCEPT ![call.target] = hdr[call.target]] = hdr
  BY DEF TypeOK
<1>3. CASE SlotWriteHeader \/ PowerCut
  BY <1>1, <1>2, <1>3 DEF SlotWriteHeader, PowerCut, WholeHeader
<1>4. CASE UNCHANGED hdr
  BY <1>4 DEF WholeHeader
<1>5. \A s \in Slot : ~BitFlip(s)
  BY LastingChoices
<1>6. QED
  BY <1>3, <1>4, <1>5
  DEF Next, SlotWrite, SlotPickActive, SlotWriteScan, SlotWriteRefuse, SlotWritePayload,
      medium, vars

LEMMA BenignHeaders ==
    ASSUME BenignMedium, TypeOK, [Next]_vars
    PROVE  OrderlyMedium /\ WholeHeader
  BY OrderlyChoices, WholeHeaders DEF BenignMedium

(* The scan of slot_write: the call that begins is in order if the scan    *)
(* saw both headers.                                                       *)
LEMMA ScanInOrder ==
    ASSUME LastingMedium, TypeOK, TypeOK', SeqsBelowWrites, ScanSeesBoth,
           NEW p \in Payload, SlotWriteScan(p)
    PROVE  /\ UNCHANGED <<medium, status, loaded>>
           /\ call'.step = "payload"
           /\ CallInOrder'
           /\ SeqsBelowWrites'
<1>1. /\ UNCHANGED <<medium, status, loaded>>
      /\ call'.step = "payload"
      /\ call'.target = WriteTarget(SaneSlots) /\ call'.seq = NextSeq(SaneSlots)
      /\ budget' = [budget EXCEPT !.writes = @ - 1] /\ budget.writes > 0
  BY DEF SlotWriteScan, ScanSeesBoth
<1>2. /\ WritesBegun \in Nat /\ WritesBegun' = WritesBegun + 1
      /\ WritesBegun' <= MaxWrites
  <2>1. budget.writes \in 0 .. MaxWrites /\ budget'.writes \in 0 .. MaxWrites
    BY DEF TypeOK
  <2>2. budget'.writes = budget.writes - 1
    BY <1>1 DEF TypeOK
  <2>3. QED
    BY <2>1, <2>2, SlotStoreConstants DEF WritesBegun
<1>3. SaneSlots' = SaneSlots /\ UNCHANGED <<hdr, body>>
  BY <1>1, MediumFrame DEF medium
<1>4. LET next == IF SaneSlots = {} THEN 1 ELSE hdr[Newer(SaneSlots)].seq + 1
      IN  NextSeq(SaneSlots) = next /\ next <= WritesBegun'
  <2> DEFINE next == IF SaneSlots = {} THEN 1 ELSE hdr[Newer(SaneSlots)].seq + 1
  <2>1. next \in Nat /\ next <= WritesBegun'
    <3>1. CASE SaneSlots = {}
      BY <1>2, <3>1
    <3>2. CASE SaneSlots # {}
      <4>1. Newer(SaneSlots) \in SaneSlots
        BY <3>2, NewerCases DEF SaneSlots
      <4>2. hdr[Newer(SaneSlots)].seq \in Nat
        BY <4>1 DEF TypeOK, Headers, Seqs, SaneSlots
      <4>3. hdr[Newer(SaneSlots)].seq <= WritesBegun
        BY <4>1 DEF SeqsBelowWrites, SaneSlots
      <4>4. QED
        BY <1>2, <3>2, <4>2, <4>3
    <3>3. QED
      BY <3>1, <3>2
  <2>2. next < SeqMod
    BY <1>2, <2>1, SlotStoreConstants DEF LastingMedium
  <2>3. next % SeqMod = next
    BY <2>1, <2>2, ModSmall, SlotStoreConstants
  <2>4. NextSeq(SaneSlots) = next % SeqMod
    BY DEF NextSeq
  <2>5. QED
    BY <2>1, <2>3, <2>4
<1>5. CallInOrder'
  <2>1. WriteTarget(SaneSlots)' = WriteTarget(SaneSlots) /\ Newer(SaneSlots)' = Newer(SaneSlots)
    BY <1>3 DEF WriteTarget, Newer
  <2>2. call'.step = "payload" /\ call'.target = WriteTarget(SaneSlots)'
    BY <1>1, <2>1
  <2>3. call'.seq = (IF SaneSlots' = {} THEN 1 ELSE hdr'[Newer(SaneSlots)'].seq + 1)
    BY <1>1, <1>3, <1>4, <2>1
  <2>4. call'.seq <= WritesBegun'
    BY <1>1, <1>4
  <2>5. QED
    BY <2>2, <2>3, <2>4 DEF CallInOrder, InWrite
<1>6. SeqsBelowWrites'
  <2>1. \A s \in Slot : hdr[s].sane => hdr[s].seq \in Nat /\ hdr[s].seq <= WritesBegun
    BY DEF SeqsBelowWrites, TypeOK, Headers, Seqs
  <2>2. QED
    BY <1>2, <1>3, <2>1 DEF SeqsBelowWrites
<1>7. QED
  BY <1>1, <1>5, <1>6

(* One step of the whole system that tears no header, and whose scan, if it *)
(* begins a write, sees both headers. What is stored stays in order, a sane *)
(* slot never disappears, the newest slot is not touched, and the blob a    *)
(* boot would load changes only when a header is written.                   *)
LEMMA StoredStep ==
    ASSUME LastingMedium, TypeOK, TypeOK', StoredInv, [Next]_vars, WholeHeader, ScanSeesBoth
    PROVE  /\ StoredInv'
           /\ SaneSlots \subseteq SaneSlots'
           /\ SaneSlots # {} => /\ hdr'[Newer(SaneSlots)] = hdr[Newer(SaneSlots)]
                                /\ body'[Newer(SaneSlots)] = body[Newer(SaneSlots)]
           /\ \/ ActivePayload' = ActivePayload
              \/ call.step = "header" /\ ActivePayload' = call.payload
<1> DEFINE Spared == SaneSlots # {} => /\ hdr'[Newer(SaneSlots)] = hdr[Newer(SaneSlots)]
                                       /\ body'[Newer(SaneSlots)] = body[Newer(SaneSlots)]
<1> USE DEF StoredInv
<1>1. CASE SlotPickActive
  <2>1. UNCHANGED <<medium, budget>> /\ call' = NoCall("idle")
    BY <1>1 DEF SlotPickActive
  <2>2. loaded' # Garbage => ValidSlots # {}
    BY <1>1 DEF SlotPickActive
  <2>3. CallInOrder'
    BY <2>1 DEF CallInOrder, InWrite, NoCall
  <2>4. SeqsBelowWrites'
    BY <2>1 DEF SeqsBelowWrites, WritesBegun, medium
  <2>5. LoadedIsStored'
    BY <2>1, <2>2, MediumFrame, ActiveIsNewest DEF LoadedIsStored
  <2>6. QED
    BY <2>1, <2>3, <2>4, <2>5, MediumFrame DEF medium
<1>2. ASSUME NEW p \in Payload, SlotWriteScan(p)
      PROVE  /\ StoredInv'
             /\ SaneSlots' = SaneSlots
             /\ Spared
             /\ ActivePayload' = ActivePayload
  <2>1. /\ UNCHANGED <<medium, status, loaded>> /\ call'.step = "payload"
        /\ CallInOrder' /\ SeqsBelowWrites'
    BY <1>2, ScanInOrder
  <2>2. SaneSlots' = SaneSlots /\ UNCHANGED <<hdr, body>>
    BY <2>1, MediumFrame DEF medium
  <2>3. LoadedIsStored'
    BY <2>1, <2>2 DEF LoadedIsStored
  <2>4. QED
    BY <2>1, <2>2, <2>3, MediumFrame
<1>3. CASE SlotWriteRefuse
  <2>1. UNCHANGED <<medium, call, loaded, budget>> /\ status' # "OK"
    BY <1>3 DEF SlotWriteRefuse
  <2>2. UNCHANGED <<hdr, body>> /\ SaneSlots' = SaneSlots
    BY <2>1, MediumFrame DEF medium
  <2>3. CallInOrder' /\ SeqsBelowWrites'
    BY <2>1, <2>2 DEF CallInOrder, InWrite, SeqsBelowWrites, WritesBegun, WriteTarget, Newer
  <2>4. LoadedIsStored'
    BY <2>1, <2>2 DEF LoadedIsStored
  <2>5. QED
    BY <2>1, <2>2, <2>3, <2>4, MediumFrame
<1>4. CASE call.step = "payload" /\ UNCHANGED hdr /\ budget'.writes = budget.writes
           /\ \/ SlotWritePayload
              \/ PowerCut
  <2>1. \A s \in Slot : s # call.target => body'[s] = body[s]
    BY <1>4 DEF SlotWritePayload, PowerCut, TypeOK
  <2>2. InWrite
    BY <1>4 DEF InWrite
  <2>3. /\ SaneSlots' = SaneSlots /\ NewestIsValid' /\ SeqsDistinct'
        /\ ActivePayload' = ActivePayload /\ Spared
        /\ Newer(SaneSlots)' = Newer(SaneSlots)
    BY <1>4, <2>1, <2>2, ScratchBody
  <2>4. WritesBegun' = WritesBegun
    BY <1>4 DEF WritesBegun
  <2>5. \/ call' = [call EXCEPT !.step = "header"] /\ body'[call.target] = call.payload
           /\ UNCHANGED loaded
        \/ call' \in {NoCall("idle"), NoCall("off")} /\ status' # "OK"
           /\ loaded' \in {loaded, Garbage}
    BY <1>4, <2>2 DEF SlotWritePayload, PowerCut, TypeOK, InWrite
  <2>6. CallInOrder'
    <3>1. CASE call' = [call EXCEPT !.step = "header"] /\ body'[call.target] = call.payload
      <4>1. /\ call'.step = "header" /\ call'.target = call.target
            /\ call'.seq = call.seq /\ call'.payload = call.payload
        BY <3>1 DEF TypeOK
      <4>2. WriteTarget(SaneSlots)' = WriteTarget(SaneSlots)
        BY <2>3 DEF WriteTarget
      <4>3. QED
        BY <1>4, <2>2, <2>3, <2>4, <3>1, <4>1, <4>2 DEF CallInOrder, InWrite
    <3>2. CASE call' \in {NoCall("idle"), NoCall("off")}
      BY <3>2 DEF CallInOrder, InWrite, NoCall
    <3>3. QED
      BY <2>5, <3>1, <3>2
  <2>7. SeqsBelowWrites'
    BY <1>4, <2>4 DEF SeqsBelowWrites
  <2>8. LoadedIsStored'
    BY <2>3, <2>5 DEF LoadedIsStored, TypeOK
  <2>9. QED
    BY <2>3, <2>6, <2>7, <2>8
<1>5. CASE call.step = "header" /\ UNCHANGED body /\ budget'.writes = budget.writes
           /\ (SlotWriteHeader \/ PowerCut)
  <2>1. /\ call' \in {NoCall("idle"), NoCall("off")}
        /\ loaded' \in {loaded, call.payload, Garbage}
        /\ hdr' \in {hdr, [hdr EXCEPT ![call.target] = NewHeader]}
        /\ status' = "OK" => /\ hdr' = [hdr EXCEPT ![call.target] = NewHeader]
                             /\ loaded' = call.payload
        /\ loaded' \in {loaded, Garbage} \/ hdr' = [hdr EXCEPT ![call.target] = NewHeader]
    BY <1>5 DEF SlotWriteHeader, PowerCut, TypeOK, WholeHeader
  <2>2. WritesBegun' = WritesBegun
    BY <1>5 DEF WritesBegun
  <2>3. CallInOrder'
    BY <2>1 DEF CallInOrder, InWrite, NoCall
  <2>4. CASE hdr' = hdr /\ hdr' # [hdr EXCEPT ![call.target] = NewHeader]
    <3>1. UNCHANGED medium
      BY <1>5, <2>4 DEF medium
    <3>2. SeqsBelowWrites'
      BY <2>2, <2>4 DEF SeqsBelowWrites
    <3>3. status' # "OK" /\ loaded' \in {loaded, Garbage}
      BY <2>1, <2>4
    <3>4. LoadedIsStored'
      BY <3>1, <3>3, MediumFrame DEF LoadedIsStored
    <3>5. QED
      BY <1>5, <2>3, <2>4, <3>1, <3>2, <3>4, MediumFrame
  <2>5. CASE hdr' = [hdr EXCEPT ![call.target] = NewHeader]
    <3>1. /\ SaneSlots' = SaneSlots \cup {call.target}
          /\ SeqsDistinct' /\ SeqsBelowWrites' /\ NewestIsValid'
          /\ ActivePayload' = call.payload
          /\ SaneSlots # {} => hdr'[Newer(SaneSlots)] = hdr[Newer(SaneSlots)]
      BY <1>5, <2>2, <2>5, HeaderCommits
    <3>2. LoadedIsStored'
      BY <2>1, <3>1 DEF LoadedIsStored
    <3>3. QED
      BY <1>5, <2>3, <3>1, <3>2
  <2>6. QED
    BY <2>1, <2>4, <2>5
<1>6. CASE PowerCut /\ ~InWrite
  <2>1. /\ UNCHANGED <<hdr, body>> /\ call' = NoCall("off")
        /\ status' # "OK" /\ loaded' = Garbage /\ budget'.writes = budget.writes
    BY <1>6 DEF PowerCut, InWrite, TypeOK
  <2>2. CallInOrder'
    BY <2>1 DEF CallInOrder, InWrite, NoCall
  <2>3. SeqsBelowWrites' /\ LoadedIsStored'
    BY <2>1 DEF SeqsBelowWrites, WritesBegun, LoadedIsStored
  <2>4. QED
    BY <2>1, <2>2, <2>3, MediumFrame DEF medium
<1>7. CASE UNCHANGED vars
  <2>1. UNCHANGED <<medium, hdr, body, call, status, loaded, budget>>
    BY <1>7 DEF vars, medium
  <2>2. CallInOrder'
    <3>1. SaneSlots' = SaneSlots /\ WriteTarget(SaneSlots)' = WriteTarget(SaneSlots)
          /\ Newer(SaneSlots)' = Newer(SaneSlots)
      BY <2>1 DEF WriteTarget, Newer, SaneSlots
    <3>2. QED
      BY <2>1, <3>1 DEF CallInOrder, InWrite, WritesBegun
  <2>3. SeqsBelowWrites' /\ LoadedIsStored'
    BY <2>1, MediumFrame DEF SeqsBelowWrites, WritesBegun, LoadedIsStored
  <2>4. QED
    BY <2>1, <2>2, <2>3, MediumFrame
<1>8. QED
  <2>1. CASE SlotWritePayload
    BY <1>4, <2>1 DEF SlotWritePayload
  <2>2. CASE SlotWriteHeader
    BY <1>5, <2>2 DEF SlotWriteHeader
  <2>3. CASE PowerCut
    <3>1. budget'.writes = budget.writes
      BY <2>3 DEF PowerCut, TypeOK
    <3>2. call.step = "payload" => UNCHANGED hdr
      BY <2>3 DEF PowerCut
    <3>3. call.step = "header" => UNCHANGED body
      BY <2>3 DEF PowerCut
    <3>4. QED
      BY <1>4, <1>5, <1>6, <2>3, <3>1, <3>2, <3>3 DEF InWrite
  <2>4. ~ \E s \in Slot : BitFlip(s)
    BY LastingChoices
  <2>5. QED
    BY <1>1, <1>2, <1>3, <1>7, <2>1, <2>2, <2>3, <2>4 DEF Next, SlotWrite

LEMMA BenignInit == Init => BenignInv
<1> SUFFICES ASSUME Init PROVE BenignInv
  OBVIOUS
<1>1. SaneSlots = {}
  BY DEF Init, SaneSlots, Erased, Slot
<1>2. SeqsDistinct
  <2>1. SaneSlots # Slot
    BY <1>1 DEF Slot
  <2>2. QED
    BY <2>1 DEF SeqsDistinct
<1>3. SeqsBelowWrites /\ CallInOrder
  BY DEF Init, SeqsBelowWrites, Erased, CallInOrder, InWrite, NoCall
<1>4. NewestIsValid /\ LoadedIsStored /\ LastSaveIsActive
  BY <1>1 DEF NewestIsValid, LoadedIsStored, LastSaveIsActive, Init
<1>5. QED
  BY <1>2, <1>3, <1>4 DEF BenignInv, StoredInv

------------------------------------------------------------------------------
(* Torn headers.  A slot whose header was torn past its seq is sane, and   *)
(* may be the newest, but it is not valid.                                 *)

(* A header that is written whole makes its slot the active one, whatever  *)
(* the other slot is.                                                      *)
LEMMA HeaderActivates ==
    ASSUME TypeOK, TypeOK', CallInOrder, call.step = "header",
           UNCHANGED body, hdr' = [hdr EXCEPT ![call.target] = NewHeader]
    PROVE  ActivePayload' = call.payload
<1> DEFINE t == call.target
           n == Newer(SaneSlots)
<1>1. t \in Slot /\ SaneSlots \subseteq Slot
  BY DEF TypeOK, SaneSlots
<1>2. /\ t = WriteTarget(SaneSlots)
      /\ call.seq = (IF SaneSlots = {} THEN 1 ELSE hdr[n].seq + 1)
      /\ body[t] = call.payload
  BY DEF CallInOrder, InWrite
<1>3. hdr'[t] = NewHeader /\ \A s \in Slot \ {t} : hdr'[s] = hdr[s]
  BY <1>1 DEF TypeOK
<1>4. hdr'[t].seq = call.seq /\ t \in ValidSlots'
  BY <1>1, <1>2, <1>3 DEF NewHeader, ValidSlots, Valid
<1>5. ASSUME NEW s \in Slot \ {t}, s \in ValidSlots'
      PROVE  hdr'[s].seq \in Nat /\ hdr'[t].seq = hdr'[s].seq + 1
  <2>1. s \in SaneSlots
    BY <1>3, <1>5 DEF SaneSlots, ValidSlots, Valid
  <2>2. n \in Slot /\ t = Other(n)
    BY <1>1, <1>2, <2>1, NewerCases DEF WriteTarget
  <2>3. s = n
    BY <1>5, <2>2, OtherFacts
  <2>4. hdr[s].seq \in Nat
    BY <1>5 DEF TypeOK, Headers, Seqs
  <2>5. QED
    BY <1>2, <1>3, <1>4, <1>5, <2>1, <2>3, <2>4
<1>6. Newer(ValidSlots)' = t
  <2>1. CASE ValidSlots' = {t}
    BY <1>1, <2>1 DEF Newer, Slot
  <2>2. CASE ValidSlots' # {t}
    <3>1. PICK s \in Slot \ {t} : s \in ValidSlots'
      BY <1>4, <2>2 DEF ValidSlots
    <3>2. \/ s = "A" /\ t = "B"
          \/ s = "B" /\ t = "A"
      BY <1>1, <3>1 DEF Slot
    <3>3. ValidSlots' = Slot
      BY <1>4, <3>1, <3>2 DEF ValidSlots, Slot
    <3>4. hdr'[s].seq \in Nat /\ hdr'[t].seq = hdr'[s].seq + 1
      BY <1>5, <3>1
    <3>5. QED
      BY <3>2, <3>3, <3>4 DEF Newer
  <2>3. QED
    BY <2>1, <2>2
<1>7. ValidSlots' # {} /\ body'[t] = call.payload
  BY <1>2, <1>4
<1>8. QED
  BY <1>6, <1>7 DEF ActivePayload

(* What a torn header keeps: its seq is the old one or the call's.         *)
LEMMA TornSeq ==
    ASSUME TypeOK, SeqsBelowWrites, CallInOrder, call.step = "header",
           UNCHANGED budget.writes,
           \E h \in TornHeaders \cup {NewHeader} : hdr' = [hdr EXCEPT ![call.target] = h]
    PROVE  SeqsBelowWrites'
<1>1. PICK h \in TornHeaders \cup {NewHeader} : hdr' = [hdr EXCEPT ![call.target] = h]
  OBVIOUS
<1>2. call.target \in Slot /\ call.seq <= WritesBegun /\ WritesBegun' = WritesBegun
  BY DEF TypeOK, CallInOrder, InWrite, WritesBegun
<1>3. h = hdr[call.target] \/ h.seq = call.seq
  <2>1. [hdr[call.target] EXCEPT !.seq = call.seq].seq = call.seq
    BY <1>2 DEF TypeOK, Headers
  <2>2. NewHeader.seq = call.seq
    BY DEF NewHeader
  <2>3. ASSUME NEW g \in [sane : {TRUE}, seq : {call.seq},
                          crc : {hdr[call.target].crc, Garbage, NewHeader.crc}]
        PROVE  g.seq = call.seq
    OBVIOUS
  <2>4. QED
    BY <1>1, <2>1, <2>2, <2>3 DEF TornHeaders
<1>4. ASSUME NEW s \in Slot, hdr'[s].sane PROVE hdr'[s].seq <= WritesBegun'
  <2>1. CASE s = call.target /\ h.seq = call.seq
    BY <1>1, <1>2, <2>1 DEF TypeOK
  <2>2. CASE s # call.target \/ h = hdr[call.target]
    <3>1. hdr'[s] = hdr[s]
      BY <1>1, <1>2, <2>2 DEF TypeOK
    <3>2. QED
      BY <1>2, <1>4, <3>1 DEF SeqsBelowWrites
  <2>3. QED
    BY <1>3, <2>1, <2>2
<1>5. QED
  BY <1>4 DEF SeqsBelowWrites

LEMMA OrderlyStep ==
    ASSUME OrderlyMedium, TypeOK, TypeOK', OrderlyInv, [Next]_vars
    PROVE  OrderlyInv'
<1> USE DEF OrderlyInv
<1>1. CASE SlotPickActive
  <2>1. UNCHANGED <<medium, budget>> /\ call' = NoCall("idle")
    BY <1>1 DEF SlotPickActive
  <2>2. status' = "OK" => loaded' = ActivePayload
    BY <1>1, OrderlyChoices DEF SlotPickActive, ActivePayload
  <2>3. CallInOrder' /\ SeqsBelowWrites'
    BY <2>1 DEF CallInOrder, InWrite, NoCall, SeqsBelowWrites, WritesBegun, medium
  <2>4. LastSaveIsActive'
    BY <2>1, <2>2, MediumFrame DEF LastSaveIsActive
  <2>5. QED
    BY <2>3, <2>4
<1>2. ASSUME NEW p \in Payload, SlotWriteScan(p) PROVE OrderlyInv'
  <2>1. call'.step = "payload" /\ CallInOrder' /\ SeqsBelowWrites'
    BY <1>2, OrderlyChoices, OrderlyScanSees, ScanInOrder
  <2>2. QED
    BY <2>1 DEF LastSaveIsActive
<1>3. CASE SlotWriteRefuse
  <2>1. UNCHANGED <<hdr, body, call, loaded, budget>> /\ status' # "OK"
    BY <1>3 DEF SlotWriteRefuse, medium
  <2>2. CallInOrder' /\ SeqsBelowWrites'
    BY <2>1 DEF CallInOrder, InWrite, SeqsBelowWrites, WritesBegun, WriteTarget, Newer, SaneSlots
  <2>3. QED
    BY <2>1, <2>2 DEF LastSaveIsActive
<1>4. CASE call.step = "payload" /\ UNCHANGED hdr /\ budget'.writes = budget.writes
           /\ (SlotWritePayload \/ PowerCut)
  <2>1. \/ call' = [call EXCEPT !.step = "header"] /\ body'[call.target] = call.payload
        \/ call' \in {NoCall("idle"), NoCall("off")} /\ status' # "OK"
    BY <1>4 DEF SlotWritePayload, PowerCut, TypeOK
  <2>2. SeqsBelowWrites'
    BY <1>4 DEF SeqsBelowWrites, WritesBegun
  <2>3. CASE call' = [call EXCEPT !.step = "header"] /\ body'[call.target] = call.payload
    <3>1. /\ call'.step = "header" /\ call'.target = call.target
          /\ call'.seq = call.seq /\ call'.payload = call.payload
      BY <2>3 DEF TypeOK
    <3>2. /\ SaneSlots' = SaneSlots /\ WriteTarget(SaneSlots)' = WriteTarget(SaneSlots)
          /\ Newer(SaneSlots)' = Newer(SaneSlots) /\ WritesBegun' = WritesBegun
      BY <1>4 DEF SaneSlots, WriteTarget, Newer, WritesBegun
    <3>3. CallInOrder'
      BY <1>4, <2>3, <3>1, <3>2 DEF CallInOrder, InWrite
    <3>4. QED
      BY <2>2, <3>1, <3>3 DEF LastSaveIsActive
  <2>4. CASE call' \in {NoCall("idle"), NoCall("off")} /\ status' # "OK"
    <3>1. CallInOrder'
      BY <2>4 DEF CallInOrder, InWrite, NoCall
    <3>2. QED
      BY <2>2, <2>4, <3>1 DEF LastSaveIsActive
  <2>5. QED
    BY <2>1, <2>3, <2>4
<1>5. CASE call.step = "header" /\ UNCHANGED body /\ budget'.writes = budget.writes
           /\ (SlotWriteHeader \/ PowerCut)
  <2>1. /\ call' \in {NoCall("idle"), NoCall("off")}
        /\ \E h \in TornHeaders \cup {NewHeader} : hdr' = [hdr EXCEPT ![call.target] = h]
        /\ status' = "OK" => /\ hdr' = [hdr EXCEPT ![call.target] = NewHeader]
                             /\ loaded' = call.payload
    BY <1>5 DEF SlotWriteHeader, PowerCut
  <2>2. CallInOrder'
    BY <2>1 DEF CallInOrder, InWrite, NoCall
  <2>3. SeqsBelowWrites'
    BY <1>5, <2>1, TornSeq
  <2>4. LastSaveIsActive'
    BY <1>5, <2>1, HeaderActivates DEF LastSaveIsActive
  <2>5. QED
    BY <2>2, <2>3, <2>4
<1>6. CASE PowerCut /\ ~InWrite
  <2>1. /\ UNCHANGED hdr /\ call' = NoCall("off") /\ status' # "OK"
        /\ budget'.writes = budget.writes
    BY <1>6 DEF PowerCut, InWrite, TypeOK
  <2>2. QED
    BY <2>1 DEF CallInOrder, InWrite, NoCall, SeqsBelowWrites, WritesBegun, LastSaveIsActive
<1>7. CASE UNCHANGED vars
  <2>1. UNCHANGED <<medium, hdr, body, call, status, loaded, budget>>
    BY <1>7 DEF vars, medium
  <2>2. SaneSlots' = SaneSlots /\ WriteTarget(SaneSlots)' = WriteTarget(SaneSlots)
        /\ Newer(SaneSlots)' = Newer(SaneSlots)
    BY <2>1 DEF WriteTarget, Newer, SaneSlots
  <2>3. CallInOrder'
    BY <2>1, <2>2 DEF CallInOrder, InWrite, WritesBegun
  <2>4. QED
    BY <2>1, <2>3, MediumFrame DEF SeqsBelowWrites, WritesBegun, LastSaveIsActive
<1>8. QED
  <2>1. CASE SlotWritePayload
    BY <1>4, <2>1 DEF SlotWritePayload
  <2>2. CASE SlotWriteHeader
    BY <1>5, <2>2 DEF SlotWriteHeader
  <2>3. CASE PowerCut
    <3>1. budget'.writes = budget.writes
      BY <2>3 DEF PowerCut, TypeOK
    <3>2. /\ call.step = "payload" => UNCHANGED hdr
          /\ call.step = "header" => UNCHANGED body
      BY <2>3 DEF PowerCut
    <3>3. QED
      BY <1>4, <1>5, <1>6, <2>3, <3>1, <3>2 DEF InWrite
  <2>4. ~ \E s \in Slot : BitFlip(s)
    BY OrderlyChoices
  <2>5. QED
    BY <1>1, <1>2, <1>3, <1>7, <2>1, <2>2, <2>3, <2>4 DEF Next, SlotWrite

(* Where reads succeed, what the last save or boot was told stays true too. *)
LEMMA BenignStep ==
    ASSUME OrderlyMedium, TypeOK, TypeOK', BenignInv, [Next]_vars, WholeHeader
    PROVE  /\ BenignInv'
           /\ SaneSlots \subseteq SaneSlots'
           /\ SaneSlots # {} => /\ hdr'[Newer(SaneSlots)] = hdr[Newer(SaneSlots)]
                                /\ body'[Newer(SaneSlots)] = body[Newer(SaneSlots)]
           /\ \/ ActivePayload' = ActivePayload
              \/ call.step = "header" /\ ActivePayload' = call.payload
<1>1. LastingMedium /\ ScanSeesBoth
  BY OrderlyChoices, OrderlyScanSees
<1>2. OrderlyInv
  BY DEF BenignInv, StoredInv, OrderlyInv
<1>3. LastSaveIsActive'
  BY <1>2, OrderlyStep DEF OrderlyInv
<1>4. QED
  BY <1>1, <1>3, StoredStep DEF BenignInv

------------------------------------------------------------------------------
(* On a benign medium the header scan of slot_write, which looks at no     *)
(* CRC, and the full validation of slot_pick_active agree on the newest    *)
(* slot in every reachable state, in the middle of a write too.            *)
THEOREM BenignInvariant ==
    ASSUME BenignMedium
    PROVE  Spec => []BenignInv
<1>1. TypeOK /\ TypeOK' /\ BenignInv /\ [Next]_vars => BenignInv'
  BY BenignStep, BenignHeaders
<1>2. QED
  BY <1>1, BenignInit, TypeCorrect, PTL DEF Spec

(* After a save was acknowledged, or a boot loaded a configuration, that   *)
(* configuration is the one the next boot loads - even when power cuts and *)
(* failed writes leave torn headers behind.                                *)
THEOREM LastSaveStaysActive ==
    ASSUME OrderlyMedium
    PROVE  Spec => []LastSaveIsActive
<1>1. Init => OrderlyInv
  BY BenignInit DEF BenignInv, StoredInv, OrderlyInv
<1>2. TypeOK /\ TypeOK' /\ OrderlyInv /\ [Next]_vars => OrderlyInv'
  BY OrderlyStep
<1>3. OrderlyInv => LastSaveIsActive
  BY DEF OrderlyInv
<1>4. QED
  BY <1>1, <1>2, <1>3, TypeCorrect, PTL DEF Spec

(* No write, failed write or power cut changes a byte of the active slot.  *)
THEOREM ActiveSlotIsSpared ==
    ASSUME BenignMedium
    PROVE  Spec => WriteSparesActive
<1>1. TypeOK /\ TypeOK' /\ BenignInv /\ [Next]_vars => [SparesActive]_vars
  <2> SUFFICES ASSUME TypeOK, TypeOK', BenignInv, [Next]_vars
               PROVE  SparesActive
    OBVIOUS
  <2>1. SaneSlots # {} => /\ hdr'[Newer(SaneSlots)] = hdr[Newer(SaneSlots)]
                          /\ body'[Newer(SaneSlots)] = body[Newer(SaneSlots)]
    BY BenignStep, BenignHeaders
  <2>2. ValidSlots # {} => SaneSlots # {} /\ Newer(ValidSlots) = Newer(SaneSlots)
    BY ActiveIsNewest DEF BenignInv, StoredInv
  <2>3. QED
    BY <2>1, <2>2 DEF SparesActive
<1>2. QED
  BY <1>1, TypeCorrect, BenignInvariant, PTL DEF Spec, WriteSparesActive

(* Wherever a power cut falls, a device that had a configuration still has *)
(* one afterwards, however many cuts and failed writes came before.        *)
THEOREM PowerCutIsSurvived ==
    ASSUME BenignMedium
    PROVE  Spec => CutLeavesAConfiguration
<1>1. TypeOK /\ TypeOK' /\ BenignInv /\ BenignInv' /\ [Next]_vars
         => (loaded # Garbage => ValidSlots' # {})
  <2> SUFFICES ASSUME TypeOK, TypeOK', BenignInv, BenignInv', [Next]_vars, loaded # Garbage
               PROVE  ValidSlots' # {}
    OBVIOUS
  <2>1. SaneSlots # {} /\ SaneSlots \subseteq SaneSlots'
    BY BenignStep, BenignHeaders DEF BenignInv, StoredInv, LoadedIsStored
  <2>2. (TypeOK /\ NewestIsValid => (ValidSlots = {} <=> SaneSlots = {}))'
    BY ActiveIsNewest, PTL
  <2>3. QED
    BY <2>1, <2>2 DEF BenignInv, StoredInv
<1>2. QED
  BY <1>1, TypeCorrect, BenignInvariant, PTL DEF Spec, CutLeavesAConfiguration

(* A header that the first power cut of a lifetime tears is survived: the  *)
(* cut falls on a slot that is not the active one.                         *)
THEOREM FirstTornHeaderIsSurvived ==
    ASSUME OrderlyMedium, ~WriteFaults, MaxCuts <= 1
    PROVE  Spec => CutLeavesAConfiguration
<1>1. Init => FirstSessionInv
  BY BenignInit DEF FirstSessionInv
<1>2. ASSUME TypeOK, TypeOK', FirstSessionInv, [Next]_vars PROVE FirstSessionInv'
  <2>1. CASE PowerCut
    BY <1>2, <2>1 DEF PowerCut, TypeOK, FirstSessionInv
  <2>2. CASE ~PowerCut
    <3>1. budget'.cuts = budget.cuts
      <4>1. \A s \in Slot : ~BitFlip(s)
        BY <1>2, OrderlyChoices
      <4>2. QED
        BY <1>2, <2>2, <4>1
        DEF TypeOK, Next, SlotWrite, SlotPickActive, SlotWriteScan, SlotWriteRefuse,
            SlotWritePayload, SlotWriteHeader, vars
    <3>2. WholeHeader
      <4>1. \A s \in Slot : ~BitFlip(s)
        BY <1>2, OrderlyChoices
      <4>2. CASE SlotWriteHeader
        BY <4>2 DEF SlotWriteHeader, WholeHeader
      <4>3. CASE UNCHANGED hdr
        BY <4>3 DEF WholeHeader
      <4>4. QED
        BY <1>2, <2>2, <4>1, <4>2, <4>3
        DEF Next, SlotWrite, SlotPickActive, SlotWriteScan, SlotWriteRefuse,
            SlotWritePayload, medium, vars
    <3>3. QED
      BY <1>2, <3>1, <3>2, BenignStep DEF FirstSessionInv
  <2>3. QED
    BY <2>1, <2>2
<1>3. ASSUME TypeOK, TypeOK', FirstSessionInv, [Next]_vars,
             UNCHANGED vars => FALSE, call'.step = "off", loaded # Garbage
      PROVE  ValidSlots' # {}
  <2>1. PowerCut
    <3>1. \A s \in Slot : ~BitFlip(s)
      BY <1>3, OrderlyChoices
    <3>2. ~SlotPickActive /\ ~SlotWriteRefuse /\ ~SlotWriteHeader
      BY <1>3 DEF SlotPickActive, SlotWriteRefuse, SlotWriteHeader, NoCall
    <3>3. ~SlotWritePayload
      <4>1. [call EXCEPT !.step = "header"].step = "header"
        BY <1>3 DEF TypeOK
      <4>2. QED
        BY <1>3, <4>1 DEF SlotWritePayload, NoCall
    <3>4. \A p \in Payload : ~SlotWriteScan(p)
      <4>1. ASSUME NEW p \in Payload, SlotWriteScan(p) PROVE call'.step = "payload"
        BY <4>1 DEF SlotWriteScan
      <4>2. QED
        BY <1>3, <4>1
    <3>5. QED
      BY <1>3, <3>1, <3>2, <3>3, <3>4 DEF Next, SlotWrite
  <2>2. budget.cuts = MaxCuts
    BY <1>3, <2>1, SlotStoreConstants DEF PowerCut, TypeOK
  <2>3. SaneSlots # {} /\ NewestIsValid /\ CallInOrder
    BY <1>3, <2>2 DEF FirstSessionInv, BenignInv, StoredInv, LoadedIsStored
  <2>4. Newer(SaneSlots) \in Slot /\ Valid(Newer(SaneSlots))
    BY <2>3, NewerCases DEF NewestIsValid, SaneSlots
  <2>5. InWrite => call.target \in Slot /\ call.target # Newer(SaneSlots)
    BY <1>3, <2>3, <2>4, OtherFacts DEF CallInOrder, WriteTarget, TypeOK
  <2>6. /\ hdr'[Newer(SaneSlots)] = hdr[Newer(SaneSlots)]
        /\ body'[Newer(SaneSlots)] = body[Newer(SaneSlots)]
    BY <1>3, <2>1, <2>4, <2>5 DEF PowerCut, InWrite, TypeOK
  <2>7. QED
    BY <2>4, <2>6 DEF ValidSlots, Valid
<1>4. TypeOK /\ TypeOK' /\ FirstSessionInv /\ [Next]_vars
         => [call'.step = "off" /\ loaded # Garbage => ValidSlots' # {}]_vars
  BY <1>3
<1>5. TypeOK /\ TypeOK' /\ FirstSessionInv /\ [Next]_vars => FirstSessionInv'
  BY <1>2
<1>6. QED
  BY <1>1, <1>4, <1>5, TypeCorrect, PTL DEF Spec, CutLeavesAConfiguration

(* Reads that fail: of all of them only those of the header scan that      *)
(* begins a write can do harm.  As long as each such scan sees both        *)
(* headers, boots may fail to read what they like, report nothing or a     *)
(* stale configuration, and writes and power cuts may follow: the newest   *)
(* header stays the header of a valid slot, no write touches that slot,    *)
(* and no cut takes the last configuration away.                           *)
THEOREM UnreadBootsAreHarmless ==
    ASSUME LastingMedium, ~TornHeader
    PROVE  Spec /\ [][ScanSeesBoth]_vars
              => []StoredInv /\ WriteSparesActive /\ CutLeavesAConfiguration
<1>1. Init => StoredInv
  BY BenignInit DEF BenignInv
<1>2. ASSUME TypeOK, TypeOK', StoredInv, [Next]_vars, [ScanSeesBoth]_vars
      PROVE  /\ StoredInv'
             /\ SaneSlots \subseteq SaneSlots'
             /\ SaneSlots # {} => /\ hdr'[Newer(SaneSlots)] = hdr[Newer(SaneSlots)]
                                  /\ body'[Newer(SaneSlots)] = body[Newer(SaneSlots)]
  <2>1. ScanSeesBoth
    <3>1. CASE UNCHANGED vars
      BY <3>1 DEF vars, ScanSeesBoth
    <3>2. QED
      BY <1>2, <3>1
  <2>2. WholeHeader
    BY <1>2, WholeHeaders
  <2>3. QED
    BY <1>2, <2>1, <2>2, StoredStep
<1>3. TypeOK /\ TypeOK' /\ StoredInv /\ [Next]_vars /\ [ScanSeesBoth]_vars => StoredInv'
  BY <1>2
<1>4. TypeOK /\ TypeOK' /\ StoredInv /\ [Next]_vars /\ [ScanSeesBoth]_vars => [SparesActive]_vars
  <2> SUFFICES ASSUME TypeOK, TypeOK', StoredInv, [Next]_vars, [ScanSeesBoth]_vars
               PROVE  SparesActive
    OBVIOUS
  <2>1. ValidSlots # {} => SaneSlots # {} /\ Newer(ValidSlots) = Newer(SaneSlots)
    BY ActiveIsNewest DEF StoredInv
  <2>2. QED
    BY <1>2, <2>1 DEF SparesActive
<1>5. TypeOK /\ TypeOK' /\ StoredInv /\ StoredInv' /\ [Next]_vars /\ [ScanSeesBoth]_vars
         => [call'.step = "off" /\ loaded # Garbage => ValidSlots' # {}]_vars
  <2> SUFFICES ASSUME TypeOK, TypeOK', StoredInv, StoredInv', [Next]_vars, [ScanSeesBoth]_vars,
                      loaded # Garbage
               PROVE  ValidSlots' # {}
    OBVIOUS
  <2>1. SaneSlots # {} /\ SaneSlots \subseteq SaneSlots'
    BY <1>2 DEF StoredInv, LoadedIsStored
  <2>2. (TypeOK /\ NewestIsValid => (ValidSlots = {} <=> SaneSlots = {}))'
    BY ActiveIsNewest, PTL
  <2>3. QED
    BY <2>1, <2>2 DEF StoredInv
<1>6. QED
  BY <1>1, <1>3, <1>4, <1>5, TypeCorrect, PTL
  DEF Spec, WriteSparesActive, CutLeavesAConfiguration

(* Whatever the medium does, a boot that reports success hands out a blob, *)
(* never erased, torn or rotten bytes.                                     *)
THEOREM NoBootIsCorrupt == Spec => []NoCorruptBoot
<1>1. Init => NoCorruptBoot
  BY DEF Init, NoCorruptBoot
<1>2. ASSUME TypeOK, TypeOK', NoCorruptBoot, [Next]_vars PROVE NoCorruptBoot'
  <2>1. CASE SlotPickActive
    <3>1. status' = "OK" =>
             \E unread \in Unreadable : /\ ValidSlots \ unread # {}
                                        /\ loaded' = body[Newer(ValidSlots \ unread)]
      BY <2>1 DEF SlotPickActive
    <3>2. ASSUME NEW unread, ValidSlots \ unread # {}
          PROVE  body[Newer(ValidSlots \ unread)] \in Payload
      <4>1. Newer(ValidSlots \ unread) \in ValidSlots
        BY <3>2, NewerCases DEF ValidSlots
      <4>2. QED
        BY <1>2, <4>1, ValidBody DEF ValidSlots
    <3>3. QED
      BY <3>1, <3>2 DEF NoCorruptBoot
  <2>2. CASE SlotWriteHeader
    BY <1>2, <2>2 DEF SlotWriteHeader, NoCorruptBoot, TypeOK
  <2>3. CASE UNCHANGED <<status, loaded>> \/ status' # "OK"
    BY <1>2, <2>3 DEF NoCorruptBoot
  <2>4. QED
    BY <1>2, <2>1, <2>2, <2>3
    DEF Next, SlotWrite, SlotWriteScan, SlotWriteRefuse, SlotWritePayload, PowerCut,
        BitFlip, vars
<1>3. TypeOK /\ TypeOK' /\ NoCorruptBoot /\ [Next]_vars => NoCorruptBoot'
  BY <1>2
<1>4. QED
  BY <1>1, <1>3, TypeCorrect, PTL DEF Spec

(* The slot layer implements the durable cell: every save and boot, with   *)
(* its failed writes and power cuts, is one the cell allows.               *)
THEOREM SlotStoreImplementsCell ==
    ASSUME BenignMedium
    PROVE  Spec => ImplementsCell
<1>1. Init => Cell!Init
  <2> SUFFICES ASSUME Init PROVE Cell!Init
    OBVIOUS
  <2>1. ValidSlots = {}
    BY DEF Init, ValidSlots, Valid, Erased, Slot
  <2>2. QED
    BY <2>1 DEF Init, Cell!Init, ActivePayload, NoCall
<1>2. TypeOK /\ TypeOK' /\ BenignInv /\ BenignInv' /\ [Next]_vars => [Cell!Next]_Cell!cellVars
  <2> SUFFICES ASSUME TypeOK, TypeOK', BenignInv, BenignInv', [Next]_vars
               PROVE  [Cell!Next]_Cell!cellVars
    OBVIOUS
  <2>0. ~InWrite => call.payload = Garbage
    BY DEF BenignInv, StoredInv, CallInOrder
  <2>1. CASE SlotPickActive
    <3>1. /\ call.step = "off" /\ call' = NoCall("idle") /\ UNCHANGED medium
          /\ status' = (IF ValidSlots = {} THEN "ERR_NO_VALID" ELSE "OK")
          /\ loaded' = ActivePayload
      <4>1. call.step = "off" /\ call' = NoCall("idle") /\ UNCHANGED medium
        BY <2>1 DEF SlotPickActive
      <4>2. PICK unread \in Unreadable, rereadFails \in {FALSE, ReadFaults} :
               LET valid == ValidSlots \ unread IN
               \/ /\ valid = {}
                  /\ status' = IF unread = {} THEN "ERR_NO_VALID" ELSE "ERR_STORAGE"
                  /\ loaded' = Garbage
               \/ /\ valid # {}
                  /\ rereadFails
                  /\ status' = "ERR_STORAGE"
                  /\ loaded' = Garbage
               \/ /\ valid # {}
                  /\ ~rereadFails
                  /\ status' = "OK"
                  /\ loaded' = body[Newer(valid)]
        BY <2>1, Zenon DEF SlotPickActive
      <4>3. unread = {} /\ rereadFails = FALSE
        BY <4>2, OrderlyChoices, BenignHeaders
      <4>4. ValidSlots \ unread = ValidSlots
        BY <4>3
      <4>5. QED
        BY <4>1, <4>2, <4>3, <4>4 DEF ActivePayload
    <3>2. ActivePayload' = ActivePayload
      BY <3>1, MediumFrame
    <3>3. Cell!Load
      BY <2>0, <3>1, <3>2, ActiveIsBlob DEF Cell!Load, NoCall, InWrite
    <3>4. QED
      BY <3>3 DEF Cell!Next
  <2>2. ASSUME NEW p \in Payload, SlotWriteScan(p) PROVE Cell!Next
    <3>1. /\ call.step = "idle" /\ call'.step = "payload" /\ call'.payload = p
          /\ UNCHANGED <<medium, status, loaded>>
      BY <2>2 DEF SlotWriteScan
    <3>2. Cell!BeginSave(p)
      BY <2>0, <3>1, MediumFrame DEF Cell!BeginSave, InWrite
    <3>3. QED
      BY <3>2 DEF Cell!Next
  <2>3. CASE SlotWriteRefuse
    <3>1. Cell!RefuseSave
      BY <2>0, <2>3, MediumFrame DEF SlotWriteRefuse, Cell!RefuseSave, InWrite
    <3>2. QED
      BY <3>1 DEF Cell!Next
  <2>4. CASE SlotWritePayload
    <3>1. ActivePayload' = ActivePayload /\ call.payload # Garbage
      BY <2>4, BenignStep, BenignHeaders, SlotStoreConstants DEF SlotWritePayload, TypeOK
    <3>2. CASE call' = [call EXCEPT !.step = "header"] /\ UNCHANGED status
      BY <2>4, <3>1, <3>2 DEF SlotWritePayload, Cell!cellVars, TypeOK
    <3>3. CASE call' = NoCall("idle") /\ status' = "ERR_STORAGE"
      <4>1. Cell!FailSave
        BY <2>4, <3>1, <3>3 DEF SlotWritePayload, Cell!FailSave, NoCall
      <4>2. QED
        BY <4>1 DEF Cell!Next
    <3>4. QED
      BY <2>4, <3>2, <3>3 DEF SlotWritePayload
  <2>5. CASE SlotWriteHeader
    <3>1. /\ call.step = "header" /\ call.payload # Garbage
          /\ ActivePayload' \in {ActivePayload, call.payload}
      BY <2>5, BenignStep, BenignHeaders, SlotStoreConstants DEF SlotWriteHeader, TypeOK
    <3>2. CASE status' = "OK"
      <4>1. ActivePayload' = loaded' /\ loaded' = call.payload
        BY <2>5, <3>2 DEF SlotWriteHeader, BenignInv, StoredInv, LastSaveIsActive, NoCall
      <4>2. Cell!AckSave
        BY <2>5, <3>1, <3>2, <4>1 DEF SlotWriteHeader, Cell!AckSave, NoCall
      <4>3. QED
        BY <4>2 DEF Cell!Next
    <3>3. CASE status' # "OK"
      <4>1. Cell!FailSave
        BY <2>5, <3>1, <3>3 DEF SlotWriteHeader, Cell!FailSave, NoCall
      <4>2. QED
        BY <4>1 DEF Cell!Next
    <3>4. QED
      BY <3>2, <3>3
  <2>6. CASE PowerCut
    <3>1. /\ call.step # "off" /\ call'.step = "off" /\ call'.payload = Garbage
          /\ status' = "NONE" /\ loaded' = Garbage
      BY <2>6 DEF PowerCut, NoCall
    <3>2. ActivePayload' \in IF call.payload = Garbage THEN {ActivePayload}
                                                       ELSE {ActivePayload, call.payload}
      BY <2>6, BenignStep, BenignHeaders, SlotStoreConstants DEF TypeOK
    <3>3. Cell!PowerCut
      BY <3>1, <3>2 DEF Cell!PowerCut
    <3>4. QED
      BY <3>3 DEF Cell!Next
  <2>7. CASE UNCHANGED vars
    BY <2>7, MediumFrame DEF vars, medium, Cell!cellVars
  <2>8. ~ \E s \in Slot : BitFlip(s)
    BY OrderlyChoices, BenignHeaders
  <2>9. QED
    BY <2>1, <2>2, <2>3, <2>4, <2>5, <2>6, <2>7, <2>8 DEF Next, SlotWrite
<1>3. QED
  BY <1>1, <1>2, TypeCorrect, BenignInvariant, PTL DEF Spec, ImplementsCell, Cell!Spec
==============================================================================
