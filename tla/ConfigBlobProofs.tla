--------------------------- MODULE ConfigBlobProofs ---------------------------
(***************************************************************************)
(* A configuration that travels through firmware versions: for any number  *)
(* of versions, of record types and of changes, with power lost anywhere,  *)
(* nothing that was stored is forgotten and every save fits - as long as   *)
(* the versions agree on the widths of the types they share and all types  *)
(* together fit the slot (OneLayout).                                      *)
(*                                                                         *)
(* Byte counts are sums over records of any number.  The proofs take them  *)
(* as cardinalities: records of different types take different bytes of    *)
(* AllBytes, so a buffer is as full as the set of its bytes is large.      *)
(***************************************************************************)
EXTENDS ConfigBlob, FiniteSetTheorems, SequenceTheorems, TLAPS

------------------------------------------------------------------------------
(* Types.                                                                  *)

LEMMA BoundsTyped ==
    /\ UnknownMax \in Nat /\ PayloadMax \in Nat /\ MaxEdits \in Nat
    /\ Factory \in Values /\ NoValue \notin Values
  BY ConfigBlobConstants

LEMMA BuffersTyped ==
    /\ Empty \in Buffers /\ Empty.used <= UnknownMax /\ Empty.used <= PayloadMax
    /\ \A b \in Buffers, r \in Records : Emit(b, r) \in Buffers
<1>1. ASSUME NEW b \in Buffers, NEW r \in Records PROVE Emit(b, r) \in Buffers
  BY DEF Buffers, Records, Emit
<1>2. Empty \in Buffers /\ Empty.used = 0
  BY DEF Empty, Buffers
<1> QED
  BY <1>1, <1>2, BoundsTyped

LEMMA DefaultsTyped == \A f \in Firmware : Defaults(f) \in [Known(f) -> Values]
  BY ConfigBlobConstants DEF Defaults

\* What config_save writes: the known records, then the stash.
LEMMA EncodedIs ==
  ASSUME TypeOK
  PROVE  /\ Encoded \in Seq(Records)
         /\ Len(Encoded) = Len(Order[fw]) + Len(unknown.records)
         /\ \A i \in DOMAIN Encoded :
               IF i <= Len(Order[fw])
               THEN Encoded[i] = [tag |-> Order[fw][i], width |-> Width[fw][Order[fw][i]],
                                  value |-> cache[Order[fw][i]]]
               ELSE /\ i - Len(Order[fw]) \in DOMAIN unknown.records
                    /\ Encoded[i] = unknown.records[i - Len(Order[fw])]
         /\ Len(Order[fw]) \in Nat /\ DOMAIN Order[fw] = 1 .. Len(Order[fw])
         /\ \A i \in DOMAIN Order[fw] : Order[fw][i] \in Known(fw)
<1> DEFINE n == Len(Order[fw])
<1>1. Order[fw] \in Seq(Known(fw)) /\ Width[fw] \in [Known(fw) -> Nat] /\ fw \in Firmware
  BY ConfigBlobConstants DEF TypeOK
<1>2. n \in Nat /\ DOMAIN Order[fw] = 1 .. n /\ \A i \in 1 .. n : Order[fw][i] \in Known(fw)
  BY <1>1
<1>3. \A t \in Known(fw) : t \in Tag /\ Width[fw][t] \in Nat /\ cache[t] \in Values
  BY <1>1 DEF Tag, TypeOK
<1>4. /\ KnownRecords \in Seq(Records) /\ Len(KnownRecords) = n
      /\ \A i \in 1 .. n : KnownRecords[i] =
            [tag |-> Order[fw][i], width |-> Width[fw][Order[fw][i]],
             value |-> cache[Order[fw][i]]]
  <2>1. KnownRecords \in [1 .. n -> Records]
    BY <1>2, <1>3 DEF KnownRecords, Records
  <2> QED
    BY <1>2, <2>1 DEF KnownRecords
<1>5. unknown.records \in Seq(Records)
  BY DEF TypeOK, Buffers
<1> HIDE DEF n
<1>6. /\ Encoded \in Seq(Records) /\ Len(Encoded) = n + Len(unknown.records)
      /\ \A i \in 1 .. n + Len(unknown.records) :
            Encoded[i] = IF i <= n THEN KnownRecords[i] ELSE unknown.records[i - n]
  BY <1>4, <1>5, ConcatProperties DEF Encoded
<1>7. DOMAIN Encoded = 1 .. n + Len(unknown.records) /\ Len(unknown.records) \in Nat
  BY <1>5, <1>6
<1>8. \A i \in DOMAIN Encoded :
         /\ i <= n => i \in 1 .. n
         /\ ~(i <= n) => i - n \in DOMAIN unknown.records
  BY <1>2, <1>5, <1>7
<1> QED
  BY <1>2, <1>4, <1>6, <1>7, <1>8 DEF n

LEMMA TypeStep == TypeOK /\ [Next]_vars => TypeOK'
<1> SUFFICES ASSUME TypeOK, [Next]_vars PROVE TypeOK'
  OBVIOUS
<1> USE BoundsTyped, BuffersTyped
<1>1. CASE ConfigInit
  <2>1. cache' \in [Known(fw) -> Values]
    BY <1>1, DefaultsTyped DEF ConfigInit, TypeOK
  <2>2. cleared' \in BOOLEAN
    BY <1>1, Zenon DEF ConfigInit
  <2> QED
    BY <1>1, <2>1, <2>2 DEF ConfigInit, TypeOK
<1>2. CASE DecodeRecord
  <2>1. Current \in Records
    BY <1>2 DEF DecodeRecord, Current, TypeOK, Buffers
  <2>2. cache' \in [Known(fw) -> Values]
    BY <1>2, <2>1 DEF DecodeRecord, TypeOK, Records
  <2>3. unknown' \in Buffers /\ unknown'.used <= UnknownMax
    BY <1>2, <2>1 DEF DecodeRecord, TypeOK, PreserveUnknown, Fits, Emit
  <2> QED
    BY <1>2, <2>2, <2>3 DEF DecodeRecord, TypeOK
<1>3. CASE DecodeEnd
  BY <1>3 DEF DecodeEnd, TypeOK
<1>4. CASE SetRecord
  BY <1>4 DEF SetRecord, TypeOK
<1>5. CASE ResetDefaults
  BY <1>5, DefaultsTyped DEF ResetDefaults, TypeOK
<1>6. CASE ConfigSave
  BY <1>6 DEF ConfigSave, TypeOK
<1>7. CASE EmitRecord
  <2>1. Encoded[next] \in Records
    <3>1. Encoded \in Seq(Records) /\ next \in DOMAIN Encoded
      BY <1>7, EncodedIs DEF EmitRecord
    <3> QED
      BY <3>1
  <2>2. out' \in Buffers /\ out'.used <= PayloadMax
    BY <1>7, <2>1 DEF EmitRecord, TypeOK, Fits, Emit
  <2> QED
    BY <1>7, <2>2 DEF EmitRecord, TypeOK
<1>8. CASE SaveEnd
  <2>1. kept' \in [Tag -> Values \cup {NoValue}]
    BY <1>8 DEF SaveEnd, TypeOK
  <2> QED
    BY <1>8, <2>1 DEF SaveEnd, TypeOK
<1>9. CASE PowerOff
  BY <1>9, DefaultsTyped DEF PowerOff, TypeOK
<1>10. CASE Flash
  BY <1>10, DefaultsTyped DEF Flash, TypeOK
<1>11. CASE UNCHANGED vars
  BY <1>11 DEF vars, TypeOK
<1> QED
  BY <1>1, <1>2, <1>3, <1>4, <1>5, <1>6, <1>7, <1>8, <1>9, <1>10, <1>11 DEF Next

\* On any firmware and after any history every variable keeps its type; the stash
\* and the blob stay within their buffers, whether or not everything fits.
THEOREM BlobTyped == Spec => []TypeOK
<1>1. Init => TypeOK
  <2> SUFFICES ASSUME Init PROVE TypeOK
    OBVIOUS
  <2>1. cache \in [Known(fw) -> Values] /\ kept \in [Tag -> Values \cup {NoValue}]
    BY DefaultsTyped DEF Init
  <2>2. edits \in 0 .. MaxEdits
    BY BoundsTyped DEF Init
  <2>3. cleared \in BOOLEAN
    BY Zenon DEF Init
  <2> QED
    BY BuffersTyped, <2>1, <2>2, <2>3 DEF Init, TypeOK
<1> QED
  BY <1>1, TypeStep, PTL DEF Spec

------------------------------------------------------------------------------
(* The invariant.                                                          *)

RecordBytes(r) == {r.tag} \X (1 .. r.width)
BytesOf(b) == UNION {RecordBytes(b.records[i]) : i \in DOMAIN b.records}

\* A record as some version writes it.
Made(r) == \E f \in Firmware : r.tag \in Known(f) /\ r.width = Width[f][r.tag]

\* A buffer holds no type twice, and counts its bytes.
WellMade(b) ==
    /\ \A i \in DOMAIN b.records : Made(b.records[i])
    /\ \A i, j \in DOMAIN b.records : b.records[i].tag = b.records[j].tag => i = j
    /\ b.used = Cardinality(BytesOf(b))

\* The history variable and the slot agree.
BlobIsKept ==
    /\ \A t \in Tag : kept[t] # NoValue => \E i \in DOMAIN blob.records : blob.records[i].tag = t
    /\ \A i \in DOMAIN blob.records : blob.records[i].value = kept[blob.records[i].tag]

\* The stash carries the records of types the firmware does not know that are among
\* the first n of the slot, and nothing else.
Carries(n) ==
    /\ \A i \in 1 .. n : blob.records[i].tag \notin Known(fw) =>
          \E j \in DOMAIN unknown.records : unknown.records[j] = blob.records[i]
    /\ \A j \in DOMAIN unknown.records :
          \E i \in 1 .. n : unknown.records[j] = blob.records[i]

\* The cache holds what is on record among the first n, and factory values.
Restored(n) ==
    /\ \A i \in 1 .. n : blob.records[i].tag \in Known(fw) =>
          cache[blob.records[i].tag] = blob.records[i].value
    /\ \A t \in Known(fw) : (\A i \in 1 .. n : blob.records[i].tag # t) => cache[t] = Factory

BlobInv ==
    /\ WellMade(blob) /\ WellMade(unknown) /\ WellMade(out)
    /\ \A j \in DOMAIN unknown.records : unknown.records[j].tag \notin Known(fw)
    /\ BlobIsKept
    /\ phase = "off" => unknown = Empty
    /\ phase = "load" => /\ next - 1 \in 0 .. Len(blob.records)
                         /\ ~cleared
                         /\ Carries(next - 1)
                         /\ Restored(next - 1)
    /\ phase \in {"up", "save"} =>
          IF cleared THEN unknown = Empty ELSE Carries(Len(blob.records))
    /\ phase = "save" => /\ next - 1 \in 0 .. Len(Encoded)
                         /\ Len(out.records) = next - 1
                         /\ \A i \in 1 .. next - 1 : out.records[i] = Encoded[i]
    /\ SavesFit

------------------------------------------------------------------------------
(* Bytes.                                                                  *)

LEMMA EmitIs ==
  ASSUME NEW b \in Buffers, NEW r \in Records
  PROVE  /\ Emit(b, r).used = b.used + r.width
         /\ Len(b.records) \in Nat /\ DOMAIN b.records = 1 .. Len(b.records)
         /\ DOMAIN Emit(b, r).records = 1 .. Len(b.records) + 1
         /\ Len(Emit(b, r).records) = Len(b.records) + 1
         /\ \A i \in DOMAIN b.records : Emit(b, r).records[i] = b.records[i]
         /\ Emit(b, r).records[Len(b.records) + 1] = r
<1>1. b.records \in Seq(Records)
  BY DEF Buffers
<1> QED
  BY <1>1 DEF Emit

LEMMA RecordBytesSize ==
  ASSUME NEW r \in Records
  PROVE  IsFiniteSet(RecordBytes(r)) /\ Cardinality(RecordBytes(r)) = r.width
<1>1. r.width \in Nat
  BY DEF Records
<1>2. IsFiniteSet({r.tag}) /\ Cardinality({r.tag}) = 1
  BY FS_Singleton
<1>3. IsFiniteSet(1 .. r.width) /\ Cardinality(1 .. r.width) = r.width
  <2>1. 1 \in Int /\ r.width \in Int
    BY <1>1
  <2>2. /\ IsFiniteSet(1 .. r.width)
        /\ Cardinality(1 .. r.width) = IF 1 > r.width THEN 0 ELSE r.width - 1 + 1
    BY <2>1, FS_Interval, SMT
  <2>3. (IF 1 > r.width THEN 0 ELSE r.width - 1 + 1) = r.width
    BY <1>1
  <2> QED
    BY <2>2, <2>3, SMT
<1>4. /\ IsFiniteSet({r.tag} \X (1 .. r.width))
      /\ Cardinality({r.tag} \X (1 .. r.width)) =
            Cardinality({r.tag}) * Cardinality(1 .. r.width)
  BY <1>2, <1>3, FS_Product, Zenon
<1>5. Cardinality({r.tag}) * Cardinality(1 .. r.width) = 1 * r.width
  BY <1>2, <1>3, Zenon
<1>6. 1 * r.width = r.width
  BY <1>1
<1> QED
  BY <1>4, <1>5, <1>6, Zenon DEF RecordBytes

\* A byte names its record.
LEMMA BytesAreTagged ==
  /\ \A r : \A x \in RecordBytes(r) : x[1] = r.tag
  /\ \A f : \A x \in Bytes(f) : x[1] \in Known(f)
<1>1. ASSUME NEW r, NEW x \in RecordBytes(r) PROVE x[1] = r.tag
  BY DEF RecordBytes
<1>2. ASSUME NEW f, NEW x \in Bytes(f) PROVE x[1] \in Known(f)
  BY DEF Bytes
<1> QED
  BY <1>1, <1>2

LEMMA MadeBytes ==
  ASSUME NEW r, Made(r)
  PROVE  RecordBytes(r) \subseteq AllBytes
<1>1. PICK f \in Firmware : r.tag \in Known(f) /\ r.width = Width[f][r.tag]
  BY DEF Made
<1>2. RecordBytes(r) \subseteq Bytes(f)
  BY <1>1 DEF RecordBytes, Bytes
<1> QED
  BY <1>2 DEF AllBytes

\* A record of a type the buffer does not hold adds its width to the buffer's bytes.
LEMMA BytesAdded ==
  ASSUME NEW b \in Buffers, WellMade(b), NEW r \in Records, Made(r),
         \A i \in DOMAIN b.records : b.records[i].tag # r.tag
  PROVE  /\ BytesOf(Emit(b, r)) = BytesOf(b) \cup RecordBytes(r)
         /\ BytesOf(b) \cup RecordBytes(r) \subseteq AllBytes
         /\ b.used + r.width = Cardinality(BytesOf(b) \cup RecordBytes(r))
<1>1. BytesOf(Emit(b, r)) = BytesOf(b) \cup RecordBytes(r)
  <2>1. ASSUME NEW x \in BytesOf(Emit(b, r)) PROVE x \in BytesOf(b) \cup RecordBytes(r)
    BY EmitIs DEF BytesOf
  <2>2. ASSUME NEW x \in BytesOf(b) PROVE x \in BytesOf(Emit(b, r))
    BY EmitIs DEF BytesOf
  <2>3. ASSUME NEW x \in RecordBytes(r) PROVE x \in BytesOf(Emit(b, r))
    BY EmitIs DEF BytesOf
  <2> QED
    BY <2>1, <2>2, <2>3
<1>2. BytesOf(b) \subseteq AllBytes /\ RecordBytes(r) \subseteq AllBytes
  BY MadeBytes DEF WellMade, BytesOf
<1>3. BytesOf(b) \cap RecordBytes(r) = {}
  BY BytesAreTagged DEF BytesOf
<1>4. IsFiniteSet(BytesOf(b))
  BY <1>2, FS_Subset, ConfigBlobConstants
<1>5. /\ IsFiniteSet(RecordBytes(r)) /\ Cardinality(RecordBytes(r)) = r.width
  BY RecordBytesSize
<1>6. Cardinality(BytesOf(b) \cup RecordBytes(r)) =
         Cardinality(BytesOf(b)) + Cardinality(RecordBytes(r))
            - Cardinality(BytesOf(b) \cap RecordBytes(r))
  BY <1>4, <1>5, FS_Union
<1>7. Cardinality({}) = 0
  BY FS_EmptySet
<1>8. Cardinality(BytesOf(b)) \in Nat /\ r.width \in Nat /\ b.used = Cardinality(BytesOf(b))
  BY <1>4, FS_CardinalityType DEF Records, WellMade
<1>9. b.used + r.width = Cardinality(BytesOf(b) \cup RecordBytes(r))
  <2> DEFINE n == Cardinality(BytesOf(b) \cup RecordBytes(r))
             m == Cardinality(BytesOf(b))
             k == Cardinality(BytesOf(b) \cap RecordBytes(r))
  <2>1. k = 0
    BY <1>3, <1>7, Zenon
  <2>2. n = m + r.width - k
    BY <1>5, <1>6, Zenon
  <2>3. m \in Nat /\ r.width \in Nat /\ b.used = m
    BY <1>8, Zenon
  <2> HIDE DEF n, m, k
  <2>4. b.used + r.width = n
    BY <2>1, <2>2, <2>3
  <2> QED
    BY <2>4 DEF n
<1> QED
  BY <1>1, <1>2, <1>9, Zenon

LEMMA EmitWellMade ==
  ASSUME NEW b \in Buffers, WellMade(b), NEW r \in Records, Made(r),
         \A i \in DOMAIN b.records : b.records[i].tag # r.tag
  PROVE  WellMade(Emit(b, r))
<1> DEFINE e == Emit(b, r)
<1>1. \A i \in DOMAIN e.records :
         \/ i \in DOMAIN b.records /\ e.records[i] = b.records[i]
         \/ i = Len(b.records) + 1 /\ i \notin DOMAIN b.records /\ e.records[i] = r
  BY EmitIs
<1>2. e.used = Cardinality(BytesOf(e))
  <2>1. BytesOf(e) = BytesOf(b) \cup RecordBytes(r)
    BY BytesAdded
  <2>2. e.used = b.used + r.width
    BY EmitIs
  <2>3. b.used + r.width = Cardinality(BytesOf(b) \cup RecordBytes(r))
    BY BytesAdded
  <2> QED
    BY <2>1, <2>2, <2>3, Zenon
<1> HIDE DEF e
<1>3. \A i \in DOMAIN e.records : Made(e.records[i])
  BY <1>1 DEF WellMade
<1>4. \A i, j \in DOMAIN e.records : e.records[i].tag = e.records[j].tag => i = j
  BY <1>1 DEF WellMade
<1> QED
  BY <1>2, <1>3, <1>4 DEF WellMade, e

LEMMA EmptyWellMade == WellMade(Empty)
<1>1. BytesOf(Empty) = {} /\ DOMAIN Empty.records = {} /\ Empty.used = 0
  BY DEF BytesOf, Empty
<1> QED
  BY <1>1, FS_EmptySet DEF WellMade

\* There is room in the slot for a type that is not yet in the buffer.
LEMMA RoomInSlot ==
  ASSUME OneLayout, NEW b \in Buffers, WellMade(b), NEW r \in Records, Made(r),
         \A i \in DOMAIN b.records : b.records[i].tag # r.tag
  PROVE  Fits(b, r, PayloadMax)
<1>1. Cardinality(BytesOf(b) \cup RecordBytes(r)) <= Cardinality(AllBytes)
  BY BytesAdded, FS_Subset, ConfigBlobConstants
<1>2. /\ Cardinality(BytesOf(b) \cup RecordBytes(r)) = b.used + r.width
      /\ b.used + r.width \in Nat
  <2>1. Cardinality(BytesOf(b) \cup RecordBytes(r)) = b.used + r.width
    BY BytesAdded, Zenon
  <2>2. b.used + r.width \in Nat
    BY DEF Buffers, Records
  <2> QED
    BY <2>1, <2>2
<1>3. IsFiniteSet(AllBytes) /\ Cardinality(AllBytes) \in Nat
  BY FS_CardinalityType, ConfigBlobConstants
<1> QED
  BY <1>1, <1>2, <1>3, BoundsTyped DEF OneLayout, Fits

\* ... and in the stash, for types the firmware does not know.
LEMMA RoomInStash ==
  ASSUME OneLayout, fw \in Firmware, NEW b \in Buffers, WellMade(b), NEW r \in Records, Made(r),
         \A i \in DOMAIN b.records : b.records[i].tag # r.tag,
         \A i \in DOMAIN b.records : b.records[i].tag \notin Known(fw),
         r.tag \notin Known(fw)
  PROVE  Fits(b, r, UnknownMax)
<1> DEFINE rest == AllBytes \ Bytes(fw)
<1>1. BytesOf(b) \cup RecordBytes(r) \subseteq rest
  <2>1. \A x \in BytesOf(b) \cup RecordBytes(r) : x[1] \notin Known(fw)
    BY BytesAreTagged DEF BytesOf
  <2> QED
    BY <2>1, BytesAdded, BytesAreTagged
<1>2. IsFiniteSet(rest)
  BY FS_Difference, ConfigBlobConstants
<1>3. Cardinality(rest) <= UnknownMax
  BY DEF OneLayout
<1> HIDE DEF rest
<1>4. Cardinality(BytesOf(b) \cup RecordBytes(r)) <= Cardinality(rest)
  BY <1>1, <1>2, FS_Subset
<1>5. /\ Cardinality(BytesOf(b) \cup RecordBytes(r)) = b.used + r.width
      /\ b.used + r.width \in Nat
  <2>1. Cardinality(BytesOf(b) \cup RecordBytes(r)) = b.used + r.width
    BY BytesAdded, Zenon
  <2>2. b.used + r.width \in Nat
    BY DEF Buffers, Records
  <2> QED
    BY <2>1, <2>2
<1>6. Cardinality(rest) \in Nat
  BY <1>2, FS_CardinalityType
<1> QED
  BY <1>3, <1>4, <1>5, <1>6, BoundsTyped DEF Fits

------------------------------------------------------------------------------
(* The steps.                                                              *)

LEMMA SeqsTyped ==
  ASSUME TypeOK
  PROVE  \A b \in {blob, unknown, out} :
            b \in Buffers /\ Len(b.records) \in Nat /\ DOMAIN b.records = 1 .. Len(b.records)
<1>1. \A b \in Buffers : Len(b.records) \in Nat /\ DOMAIN b.records = 1 .. Len(b.records)
  BY DEF Buffers
<1> QED
  BY <1>1 DEF TypeOK

LEMMA EmptyIs == Empty.records = <<>> /\ DOMAIN Empty.records = {}
  BY DEF Empty

\* A record that is encoded is the running firmware's, or one of the stash.
LEMMA EncodedParts ==
  ASSUME TypeOK, BlobInv
  PROVE  \A i \in DOMAIN Encoded :
            /\ i <= Len(Order[fw]) =>
                  /\ i \in DOMAIN Order[fw] /\ Order[fw][i] \in Known(fw)
                  /\ Encoded[i].tag = Order[fw][i] /\ Encoded[i].value = cache[Order[fw][i]]
                  /\ Encoded[i].width = Width[fw][Order[fw][i]]
            /\ ~(i <= Len(Order[fw])) =>
                  /\ i - Len(Order[fw]) \in DOMAIN unknown.records
                  /\ Encoded[i] = unknown.records[i - Len(Order[fw])]
                  /\ Encoded[i].tag \notin Known(fw)
<1> SUFFICES ASSUME NEW i \in DOMAIN Encoded
             PROVE  /\ i <= Len(Order[fw]) =>
                          /\ i \in DOMAIN Order[fw] /\ Order[fw][i] \in Known(fw)
                          /\ Encoded[i].tag = Order[fw][i]
                          /\ Encoded[i].value = cache[Order[fw][i]]
                          /\ Encoded[i].width = Width[fw][Order[fw][i]]
                    /\ ~(i <= Len(Order[fw])) =>
                          /\ i - Len(Order[fw]) \in DOMAIN unknown.records
                          /\ Encoded[i] = unknown.records[i - Len(Order[fw])]
                          /\ Encoded[i].tag \notin Known(fw)
  OBVIOUS
<1> DEFINE n == Len(Order[fw])
           head == [tag |-> Order[fw][i], width |-> Width[fw][Order[fw][i]],
                    value |-> cache[Order[fw][i]]]
<1>1. i \in Nat \ {0}
  <2>1. Encoded \in Seq(Records)
    BY EncodedIs
  <2> QED
    BY <2>1
<1>2. /\ i <= n => Encoded[i] = head
      /\ ~(i <= n) => /\ i - n \in DOMAIN unknown.records
                      /\ Encoded[i] = unknown.records[i - n]
  BY EncodedIs
<1>3. i <= n => i \in DOMAIN Order[fw] /\ Order[fw][i] \in Known(fw)
  <2>1. n \in Nat /\ DOMAIN Order[fw] = 1 .. n
    BY EncodedIs
  <2>2. i <= n => i \in DOMAIN Order[fw]
    BY <1>1, <2>1
  <2> QED
    BY <2>2, EncodedIs
<1>4. \A j \in DOMAIN unknown.records : unknown.records[j].tag \notin Known(fw)
  BY DEF BlobInv
<1>5. /\ head.tag = Order[fw][i] /\ head.width = Width[fw][Order[fw][i]]
      /\ head.value = cache[Order[fw][i]]
  OBVIOUS
<1> HIDE DEF n, head
<1>6. i <= n => /\ Encoded[i].tag = Order[fw][i] /\ Encoded[i].value = cache[Order[fw][i]]
                /\ Encoded[i].width = Width[fw][Order[fw][i]]
  BY <1>2, <1>5
<1>7. ~(i <= n) => Encoded[i].tag \notin Known(fw)
  BY <1>2, <1>4
<1> QED
  BY <1>2, <1>3, <1>6, <1>7 DEF n

\* config_save writes each type once.
LEMMA EncodedMade ==
  ASSUME TypeOK, BlobInv
  PROVE  /\ \A i \in DOMAIN Encoded : Made(Encoded[i])
         /\ \A i, j \in DOMAIN Encoded : Encoded[i].tag = Encoded[j].tag => i = j
<1> DEFINE n == Len(Order[fw])
           stash == unknown.records
<1>1. /\ n \in Nat /\ DOMAIN Order[fw] = 1 .. n
      /\ DOMAIN Encoded = 1 .. n + Len(stash) /\ Len(stash) \in Nat
      /\ DOMAIN stash = 1 .. Len(stash)
  <2>1. Encoded \in Seq(Records) /\ Len(Encoded) = n + Len(stash)
    BY EncodedIs
  <2>2. DOMAIN Encoded = 1 .. Len(Encoded)
    BY <2>1
  <2> QED
    BY <2>1, <2>2, EncodedIs, SeqsTyped
<1>2. \A i \in DOMAIN Encoded : i <= n =>
         /\ i \in DOMAIN Order[fw]
         /\ Encoded[i].tag = Order[fw][i] /\ Order[fw][i] \in Known(fw)
         /\ Encoded[i].width = Width[fw][Order[fw][i]]
  BY EncodedParts
<1>3. \A i \in DOMAIN Encoded : ~(i <= n) =>
         i - n \in DOMAIN stash /\ Encoded[i] = stash[i - n] /\ Encoded[i].tag \notin Known(fw)
  BY EncodedParts
<1>4. \A i, j \in DOMAIN Order[fw] : Order[fw][i] = Order[fw][j] => i = j
  BY ConfigBlobConstants DEF TypeOK
<1>5. /\ \A i \in DOMAIN stash : Made(stash[i])
      /\ \A i, j \in DOMAIN stash : stash[i].tag = stash[j].tag => i = j
  BY DEF BlobInv, WellMade
<1>6. fw \in Firmware
  BY DEF TypeOK
<1> HIDE DEF n, stash
<1>7. ASSUME NEW i \in DOMAIN Encoded PROVE Made(Encoded[i])
  <2>1. CASE i <= n
    BY <1>2, <1>6, <2>1 DEF Made
  <2>2. CASE ~(i <= n)
    BY <1>3, <1>5, <2>2
  <2> QED
    BY <2>1, <2>2
<1>8. ASSUME NEW i \in DOMAIN Encoded, NEW j \in DOMAIN Encoded,
             Encoded[i].tag = Encoded[j].tag
      PROVE  i = j
  <2>1. (i <= n) <=> (j <= n)
    BY <1>2, <1>3, <1>8
  <2>2. CASE i <= n
    BY <1>2, <1>4, <1>8, <2>1, <2>2
  <2>3. CASE ~(i <= n)
    <3>1. i - n = j - n
      BY <1>3, <1>5, <1>8, <2>1, <2>3
    <3> QED
      BY <1>1, <3>1
  <2> QED
    BY <2>2, <2>3
<1> QED
  BY <1>7, <1>8

LEMMA InitBlobInv == Init => BlobInv
<1> SUFFICES ASSUME Init PROVE BlobInv
  OBVIOUS
<1>1. WellMade(blob) /\ WellMade(unknown) /\ WellMade(out)
  BY EmptyWellMade DEF Init
<1>2. BlobIsKept
  BY EmptyIs DEF Init, BlobIsKept
<1> QED
  BY <1>1, <1>2, EmptyIs DEF Init, BlobInv, SavesFit

LEMMA BootBegins == ASSUME TypeOK, BlobInv, ConfigInit PROVE BlobInv'
<1>1. WellMade(unknown)' /\ (DOMAIN unknown.records)' = {} /\ (next - 1)' = 0
  BY EmptyWellMade, EmptyIs DEF ConfigInit
<1>2. Carries(next - 1)'
  BY <1>1 DEF Carries
<1>3. Restored(next - 1)'
  BY <1>1 DEF Restored, ConfigInit, Defaults
<1>4. (next - 1)' \in (0 .. Len(blob.records))'
  BY <1>1, SeqsTyped DEF ConfigInit
<1>5. BlobIsKept'
  BY DEF BlobInv, BlobIsKept, ConfigInit
<1> QED
  BY <1>1, <1>2, <1>3, <1>4, <1>5 DEF ConfigInit, BlobInv, SavesFit

\* A record of the slot, as the decoder meets it.
LEMMA CurrentIs ==
  ASSUME TypeOK, BlobInv, phase = "load", next \in DOMAIN blob.records
  PROVE  /\ Current \in Records /\ Made(Current) /\ Current = blob.records[next]
         /\ next \in 1 .. Len(blob.records) /\ (next + 1) - 1 = next
         /\ 1 .. next = (1 .. next - 1) \cup {next} /\ next \notin 1 .. next - 1
         /\ 1 .. next - 1 \subseteq DOMAIN blob.records
         /\ \A i \in 1 .. next - 1 : blob.records[i].tag # Current.tag
         /\ Carries(next - 1) /\ Restored(next - 1)
<1>1. next \in 1 .. Len(blob.records) /\ Len(blob.records) \in Nat
  BY SeqsTyped
<1>2. Current \in Records /\ Current = blob.records[next]
  BY DEF Current, TypeOK, Buffers
<1>3. /\ (next + 1) - 1 = next
      /\ 1 .. next = (1 .. next - 1) \cup {next} /\ next \notin 1 .. next - 1
      /\ 1 .. next - 1 \subseteq 1 .. Len(blob.records)
  BY <1>1
<1>4. Made(Current) /\ \A i \in DOMAIN blob.records : blob.records[i].tag = Current.tag => i = next
  BY <1>2 DEF BlobInv, WellMade
<1>5. 1 .. next - 1 \subseteq DOMAIN blob.records
  BY <1>3, SeqsTyped
<1>6. \A i \in 1 .. next - 1 : blob.records[i].tag # Current.tag
  BY <1>3, <1>4, <1>5
<1> QED
  BY <1>1, <1>2, <1>3, <1>4, <1>5, <1>6 DEF BlobInv

LEMMA DecodeStep == ASSUME OneLayout, TypeOK, BlobInv, DecodeRecord PROVE BlobInv'
<1>1. phase = "load" /\ next \in DOMAIN blob.records /\ ~cleared
  BY DEF DecodeRecord, BlobInv
<1>2. ~(Current.tag \in Known(fw) /\ Current.width < Width[fw][Current.tag])
  <2> SUFFICES ASSUME Current.tag \in Known(fw) PROVE ~(Current.width < Width[fw][Current.tag])
    OBVIOUS
  <2>1. Current.width = Width[fw][Current.tag]
    BY <1>1, CurrentIs DEF Made, OneLayout, TypeOK
  <2>2. Current.width \in Nat
    BY <1>1, CurrentIs DEF Records
  <2> QED
    BY <2>1, <2>2
<1>3. /\ next' = next + 1 /\ phase' = "load" /\ status' = status
      /\ UNCHANGED <<fw, out, blob, kept, cleared>>
      /\ (next - 1)' = next /\ next \in 0 .. Len(blob.records)
  <2>1. next \in 0 .. Len(blob.records) /\ (next + 1) - 1 = next
    BY <1>1, CurrentIs, SeqsTyped
  <2>2. next' = next + 1 /\ UNCHANGED <<phase, status, fw, out, blob, kept, cleared>>
    BY <1>2 DEF DecodeRecord
  <2> QED
    BY <1>1, <2>1, <2>2
<1>4. /\ WellMade(unknown') /\ Carries(next - 1)' /\ Restored(next - 1)'
      /\ \A j \in DOMAIN unknown'.records : unknown'.records[j].tag \notin Known(fw)
  <2>1. CASE Current.tag \in Known(fw)
    <3>1. cache' = [cache EXCEPT ![Current.tag] = Current.value] /\ unknown' = unknown
      BY <1>2, <2>1 DEF DecodeRecord
    <3>2. Carries(next - 1)'
      <4>1. /\ \A i \in 1 .. next : i \in 1 .. next - 1 \/ blob.records[i] = Current
            /\ \A i \in 1 .. next - 1 : i \in 1 .. next
            /\ Carries(next - 1)
        BY <1>1, CurrentIs
      <4>2. ASSUME NEW i \in 1 .. next, blob.records[i].tag \notin Known(fw)
            PROVE  \E j \in DOMAIN unknown.records : unknown.records[j] = blob.records[i]
        BY <2>1, <4>1, <4>2 DEF Carries
      <4>3. ASSUME NEW j \in DOMAIN unknown.records
            PROVE  \E i \in 1 .. next : unknown.records[j] = blob.records[i]
        BY <4>1 DEF Carries
      <4> QED
        BY <1>3, <3>1, <4>2, <4>3 DEF Carries
    <3>3. Restored(next - 1)'
      <4>1. \A t \in Known(fw) :
               cache'[t] = IF t = Current.tag THEN Current.value ELSE cache[t]
        BY <3>1 DEF TypeOK
      <4>2. /\ \A i \in 1 .. next - 1 : blob.records[i].tag # Current.tag
            /\ \A i \in 1 .. next : i \in 1 .. next - 1 \/ blob.records[i] = Current
            /\ \A i \in 1 .. next - 1 : i \in 1 .. next
            /\ next \in 1 .. next /\ blob.records[next] = Current
        BY <1>1, CurrentIs
      <4>3. Restored(next - 1)
        BY <1>1, CurrentIs
      <4>4. ASSUME NEW i \in 1 .. next, blob.records[i].tag \in Known(fw)
            PROVE  cache'[blob.records[i].tag] = blob.records[i].value
        BY <4>1, <4>2, <4>3, <4>4 DEF Restored
      <4>5. ASSUME NEW t \in Known(fw), \A i \in 1 .. next : blob.records[i].tag # t
            PROVE  cache'[t] = Factory
        BY <4>1, <4>2, <4>3, <4>5 DEF Restored
      <4> QED
        BY <1>3, <4>4, <4>5 DEF Restored
    <3> QED
      BY <3>1, <3>2, <3>3 DEF BlobInv
  <2>2. CASE Current.tag \notin Known(fw)
    <3>1. cache' = cache /\ unknown' = PreserveUnknown(unknown, Current)
      BY <1>2, <2>2 DEF DecodeRecord
    <3>2. unknown \in Buffers /\ WellMade(unknown) /\ Current \in Records /\ Made(Current)
      BY <1>1, CurrentIs DEF BlobInv, TypeOK
    <3>3. \A j \in DOMAIN unknown.records : unknown.records[j].tag # Current.tag
      BY <1>1, CurrentIs DEF Carries
    <3>4. Fits(unknown, Current, UnknownMax)
      BY <2>2, <3>2, <3>3, RoomInStash DEF BlobInv, TypeOK
    <3>5. unknown' = Emit(unknown, Current) /\ WellMade(unknown')
      BY <3>1, <3>2, <3>3, <3>4, EmitWellMade DEF PreserveUnknown
    <3>6. /\ \A j \in DOMAIN unknown'.records :
                \/ j \in DOMAIN unknown.records /\ unknown'.records[j] = unknown.records[j]
                \/ unknown'.records[j] = Current
          /\ \A j \in DOMAIN unknown.records :
                j \in DOMAIN unknown'.records /\ unknown'.records[j] = unknown.records[j]
          /\ \E j \in DOMAIN unknown'.records : unknown'.records[j] = Current
      BY <3>2, <3>5, EmitIs
    <3>7. /\ \A i \in 1 .. next : i \in 1 .. next - 1 \/ blob.records[i] = Current
          /\ \A i \in 1 .. next - 1 : i \in 1 .. next
          /\ next \in 1 .. next /\ blob.records[next] = Current
          /\ Carries(next - 1) /\ Restored(next - 1)
      BY <1>1, CurrentIs
    <3>8. Carries(next - 1)'
      <4>1. ASSUME NEW i \in 1 .. next, blob.records[i].tag \notin Known(fw)
            PROVE  \E j \in DOMAIN unknown'.records : unknown'.records[j] = blob.records[i]
        BY <3>6, <3>7, <4>1 DEF Carries
      <4>2. ASSUME NEW j \in DOMAIN unknown'.records
            PROVE  \E i \in 1 .. next : unknown'.records[j] = blob.records[i]
        BY <3>6, <3>7 DEF Carries
      <4> QED
        BY <1>3, <4>1, <4>2 DEF Carries
    <3>9. Restored(next - 1)'
      <4>1. ASSUME NEW i \in 1 .. next, blob.records[i].tag \in Known(fw)
            PROVE  cache[blob.records[i].tag] = blob.records[i].value
        BY <2>2, <3>7, <4>1 DEF Restored
      <4>2. ASSUME NEW t \in Known(fw), \A i \in 1 .. next : blob.records[i].tag # t
            PROVE  cache[t] = Factory
        BY <3>7, <4>2 DEF Restored
      <4> QED
        BY <1>3, <3>1, <4>1, <4>2 DEF Restored
    <3> QED
      BY <2>2, <3>5, <3>6, <3>8, <3>9 DEF BlobInv
  <2> QED
    BY <2>1, <2>2
<1>5. BlobIsKept'
  BY <1>3 DEF BlobInv, BlobIsKept
<1> QED
  BY <1>1, <1>3, <1>4, <1>5 DEF BlobInv, SavesFit

LEMMA BootEndsWell == ASSUME TypeOK, BlobInv, DecodeEnd PROVE BlobInv'
<1>1. phase = "load" /\ phase' = "up" /\ next > Len(blob.records) /\ ~cleared
  BY DEF DecodeEnd, BlobInv
<1>2. next - 1 = Len(blob.records)
  BY <1>1, SeqsTyped DEF BlobInv, TypeOK
<1>3. Carries(Len(blob.records))
  BY <1>1, <1>2 DEF BlobInv
<1>4. UNCHANGED <<fw, next, cache, unknown, out, blob, kept, cleared>> /\ status' = "OK"
  BY DEF DecodeEnd
<1>5. Carries(Len(blob.records))' /\ BlobIsKept'
  BY <1>3, <1>4 DEF Carries, BlobInv, BlobIsKept
<1> QED
  BY <1>1, <1>4, <1>5 DEF BlobInv, SavesFit

LEMMA SetStep == ASSUME TypeOK, BlobInv, SetRecord PROVE BlobInv'
<1>1. /\ phase = "up" /\ phase' = "up"
      /\ UNCHANGED <<fw, next, unknown, out, blob, status, kept, cleared>>
  BY DEF SetRecord
<1>2. ~cleared => Carries(Len(blob.records))'
  BY <1>1 DEF Carries, BlobInv
<1>3. BlobIsKept'
  BY <1>1 DEF BlobInv, BlobIsKept
<1> QED
  BY <1>1, <1>2, <1>3 DEF BlobInv, SavesFit

LEMMA ResetStep == ASSUME TypeOK, BlobInv, ResetDefaults PROVE BlobInv'
<1>1. /\ phase = "up" /\ phase' = "up" /\ unknown' = Empty /\ cleared'
      /\ UNCHANGED <<fw, next, out, blob, status, kept>>
  BY DEF ResetDefaults
<1>2. BlobIsKept'
  BY <1>1 DEF BlobInv, BlobIsKept
<1> QED
  BY <1>1, <1>2, EmptyWellMade, EmptyIs DEF BlobInv, SavesFit

LEMMA SaveBegins == ASSUME TypeOK, BlobInv, ConfigSave PROVE BlobInv'
<1>1. /\ phase = "up" /\ phase' = "save" /\ next' = 1 /\ out' = Empty
      /\ UNCHANGED <<fw, cache, unknown, blob, status, kept, cleared>>
  BY DEF ConfigSave
<1>2. BlobIsKept'
  BY <1>1 DEF BlobInv, BlobIsKept
<1>3. ~cleared => Carries(Len(blob.records))'
  BY <1>1 DEF Carries, BlobInv
<1>4. (next - 1)' = 0 /\ Len(out'.records) = 0
  BY <1>1 DEF Empty
<1>5. Len(Encoded') \in Nat /\ Encoded' = Encoded
  <2>1. Encoded' = Encoded
    BY <1>1 DEF Encoded, KnownRecords
  <2>2. Encoded \in Seq(Records)
    BY EncodedIs
  <2> QED
    BY <2>1, <2>2
<1>6. /\ (next - 1)' \in 0 .. Len(Encoded')
      /\ Len(out'.records) = (next - 1)'
      /\ \A i \in 1 .. (next - 1)' : out'.records[i] = Encoded'[i]
  BY <1>4, <1>5
<1> QED
  BY <1>1, <1>2, <1>3, <1>6, EmptyWellMade DEF BlobInv, SavesFit

\* A record of the cache or of the stash, as the encoder comes to it.
LEMMA EmittedIs ==
  ASSUME OneLayout, TypeOK, BlobInv, phase = "save", next \in DOMAIN Encoded
  PROVE  /\ Fits(out, Encoded[next], PayloadMax)
         /\ WellMade(Emit(out, Encoded[next]))
         /\ Len(Emit(out, Encoded[next]).records) = next
         /\ \A i \in 1 .. next : Emit(out, Encoded[next]).records[i] = Encoded[i]
         /\ next \in 0 .. Len(Encoded) /\ (next + 1) - 1 = next
<1> DEFINE r == Encoded[next]
<1>1. /\ Encoded \in Seq(Records) /\ Len(Encoded) \in Nat /\ DOMAIN Encoded = 1 .. Len(Encoded)
      /\ r \in Records
  <2>1. Encoded \in Seq(Records)
    BY EncodedIs
  <2> QED
    BY <2>1
<1>2. Made(r)
  BY EncodedMade
<1>3. /\ out \in Buffers /\ WellMade(out) /\ Len(out.records) = next - 1
      /\ DOMAIN out.records = 1 .. next - 1
      /\ \A i \in 1 .. next - 1 : out.records[i] = Encoded[i]
  <2>1. out \in Buffers /\ DOMAIN out.records = 1 .. Len(out.records)
    BY SeqsTyped
  <2> QED
    BY <2>1 DEF BlobInv
<1>4. \A i \in 1 .. next - 1 : i \in DOMAIN Encoded /\ i # next
  BY <1>1
<1>5. \A i \in DOMAIN out.records : out.records[i].tag # r.tag
  BY <1>3, <1>4, EncodedMade
<1>6. next \in 1 .. Len(Encoded) /\ next \in Nat
  BY <1>1
<1> HIDE DEF r
<1>7. Fits(out, r, PayloadMax) /\ WellMade(Emit(out, r))
  BY <1>1, <1>2, <1>3, <1>5, RoomInSlot, EmitWellMade
<1>8. /\ Len(Emit(out, r).records) = Len(out.records) + 1
      /\ \A i \in DOMAIN out.records : Emit(out, r).records[i] = out.records[i]
      /\ Emit(out, r).records[Len(out.records) + 1] = r
  BY <1>1, <1>3, EmitIs
<1>9. /\ next - 1 + 1 = next /\ (next + 1) - 1 = next /\ next \in 0 .. Len(Encoded)
      /\ \A i \in 1 .. next : i \in 1 .. next - 1 \/ i = next
  BY <1>1, <1>6
<1>10. \A i \in 1 .. next : Emit(out, r).records[i] = Encoded[i]
  BY <1>3, <1>8, <1>9 DEF r
<1> QED
  BY <1>3, <1>7, <1>8, <1>9, <1>10 DEF r

LEMMA EmitStep == ASSUME OneLayout, TypeOK, BlobInv, EmitRecord PROVE BlobInv'
<1>1. phase = "save" /\ next \in DOMAIN Encoded /\ Fits(out, Encoded[next], PayloadMax)
  BY EmittedIs DEF EmitRecord
<1>2. /\ phase' = "save" /\ next' = next + 1 /\ out' = Emit(out, Encoded[next])
      /\ UNCHANGED <<fw, cache, unknown, blob, status, kept, cleared>>
  BY <1>1 DEF EmitRecord
<1>3. Encoded' = Encoded
  BY <1>2 DEF Encoded, KnownRecords
<1>4. /\ WellMade(out') /\ Len(out'.records) = (next - 1)'
      /\ \A i \in 1 .. (next - 1)' : out'.records[i] = Encoded'[i]
      /\ (next - 1)' \in 0 .. Len(Encoded')
  BY <1>1, <1>2, <1>3, EmittedIs
<1>5. BlobIsKept'
  BY <1>2 DEF BlobInv, BlobIsKept
<1>6. ~cleared => Carries(Len(blob.records))'
  BY <1>1, <1>2 DEF Carries, BlobInv
<1> QED
  BY <1>1, <1>2, <1>4, <1>5, <1>6 DEF BlobInv, SavesFit

\* What was written is the whole of the cache and the stash.
LEMMA WrittenIs ==
  ASSUME TypeOK, BlobInv, phase = "save", next > Len(Encoded)
  PROVE  /\ DOMAIN out.records = DOMAIN Encoded
         /\ Len(out.records) = Len(Encoded) /\ Len(Encoded) \in Nat
         /\ \A i \in DOMAIN Encoded : out.records[i] = Encoded[i]
<1>1. Len(Encoded) \in Nat /\ DOMAIN Encoded = 1 .. Len(Encoded)
  <2>1. Encoded \in Seq(Records)
    BY EncodedIs
  <2> QED
    BY <2>1
<1>2. next - 1 = Len(Encoded)
  BY <1>1 DEF BlobInv, TypeOK
<1>3. Len(out.records) = Len(Encoded) /\ \A i \in 1 .. Len(Encoded) : out.records[i] = Encoded[i]
  BY <1>2 DEF BlobInv
<1>4. DOMAIN out.records = 1 .. Len(out.records)
  BY SeqsTyped
<1> QED
  BY <1>1, <1>3, <1>4

LEMMA SaveStep == ASSUME TypeOK, BlobInv, SaveEnd PROVE BlobInv'
<1>1. /\ phase = "save" /\ next > Len(Encoded) /\ phase' = "up" /\ status' = "OK"
      /\ blob' = out /\ UNCHANGED <<fw, next, cache, unknown, out, cleared>>
      /\ \A t \in Tag : kept'[t] = IF t \in Known(fw) THEN cache[t]
                                   ELSE IF cleared THEN NoValue ELSE kept[t]
  BY DEF SaveEnd
<1> DEFINE n == Len(Order[fw])
           stash == unknown.records
<1>2. /\ DOMAIN blob'.records = DOMAIN Encoded
      /\ \A i \in DOMAIN Encoded : blob'.records[i] = Encoded[i]
  BY <1>1, WrittenIs
<1>3. /\ n \in Nat /\ Len(stash) \in Nat /\ DOMAIN stash = 1 .. Len(stash)
      /\ DOMAIN Order[fw] = 1 .. n /\ DOMAIN Encoded = 1 .. n + Len(stash)
  <2>1. Encoded \in Seq(Records) /\ Len(Encoded) = n + Len(stash)
    BY EncodedIs
  <2>2. DOMAIN Encoded = 1 .. Len(Encoded)
    BY <2>1
  <2> QED
    BY <2>1, <2>2, EncodedIs, SeqsTyped
<1>4. \A i \in DOMAIN Encoded : i <= n =>
         /\ i \in DOMAIN Order[fw] /\ Order[fw][i] \in Known(fw)
         /\ Encoded[i].tag = Order[fw][i] /\ Encoded[i].value = cache[Order[fw][i]]
  BY EncodedParts
<1>5. \A i \in DOMAIN Encoded : ~(i <= n) =>
         i - n \in DOMAIN stash /\ Encoded[i] = stash[i - n] /\ Encoded[i].tag \notin Known(fw)
  BY EncodedParts
<1>6. \A i \in 1 .. n : i \in 1 .. n + Len(stash) /\ i <= n
  <2> HIDE DEF n, stash
  <2> QED
    BY <1>3
<1>7. \A j \in DOMAIN stash : n + j \in DOMAIN Encoded /\ Encoded[n + j] = stash[j]
  <2> SUFFICES ASSUME NEW j \in DOMAIN stash
               PROVE  n + j \in DOMAIN Encoded /\ Encoded[n + j] = stash[j]
    OBVIOUS
  <2> HIDE DEF n, stash
  <2>1. n + j \in DOMAIN Encoded /\ ~(n + j <= n) /\ (n + j) - n = j
    BY <1>3
  <2> QED
    BY <1>5, <2>1
<1>8. \A t \in Known(fw) : \E i \in DOMAIN Order[fw] : Order[fw][i] = t
  BY ConfigBlobConstants DEF TypeOK
<1>9. \A i \in DOMAIN Encoded : Encoded[i].tag \in Tag
  <2>1. Encoded \in Seq(Records)
    BY EncodedIs
  <2>2. \A i \in DOMAIN Encoded : Encoded[i] \in Records
    BY <2>1
  <2> QED
    BY <2>2 DEF Records
<1>10. /\ cleared => stash = <<>>
       /\ ~cleared => Carries(Len(blob.records))
  BY <1>1, EmptyIs DEF BlobInv
<1>11. DOMAIN blob.records = 1 .. Len(blob.records)
  BY SeqsTyped
<1> HIDE DEF n, stash
<1>12. ASSUME NEW i \in DOMAIN blob'.records
       PROVE  blob'.records[i].value = kept'[blob'.records[i].tag]
  <2>1. i \in DOMAIN Encoded /\ blob'.records[i] = Encoded[i] /\ Encoded[i].tag \in Tag
    BY <1>2, <1>9
  <2>2. CASE i <= n
    BY <1>1, <1>4, <2>1, <2>2
  <2>3. CASE ~(i <= n)
    <3>1. ~cleared
      BY <1>3, <1>5, <1>10, <2>1, <2>3
    <3>2. PICK k \in 1 .. Len(blob.records) : Encoded[i] = blob.records[k]
      BY <1>5, <1>10, <2>1, <2>3, <3>1 DEF Carries, stash
    <3>3. Encoded[i].value = kept[Encoded[i].tag]
      BY <1>11, <3>2 DEF BlobInv, BlobIsKept
    <3> QED
      BY <1>1, <1>5, <2>1, <2>3, <3>1, <3>3
  <2> QED
    BY <2>2, <2>3
<1>13. ASSUME NEW t \in Tag, kept'[t] # NoValue
       PROVE  \E i \in DOMAIN blob'.records : blob'.records[i].tag = t
  <2>1. CASE t \in Known(fw)
    <3>1. PICK i \in DOMAIN Order[fw] : Order[fw][i] = t
      BY <1>8, <2>1
    <3>2. i \in DOMAIN Encoded /\ i <= n
      BY <1>3, <1>6, <3>1
    <3>3. Encoded[i].tag = t
      BY <1>4, <3>1, <3>2
    <3>4. i \in DOMAIN blob'.records /\ blob'.records[i] = Encoded[i]
      BY <1>2, <3>2
    <3> QED
      BY <3>3, <3>4
  <2>2. CASE t \notin Known(fw)
    <3>1. ~cleared /\ kept[t] # NoValue
      BY <1>1, <1>13, <2>2
    <3>2. PICK k \in DOMAIN blob.records : blob.records[k].tag = t
      BY <3>1 DEF BlobInv, BlobIsKept
    <3>3. PICK j \in DOMAIN stash : stash[j] = blob.records[k]
      BY <1>10, <1>11, <2>2, <3>1, <3>2 DEF Carries, stash
    <3> QED
      BY <1>2, <1>7, <3>2, <3>3
  <2> QED
    BY <2>1, <2>2
<1>14. BlobIsKept'
  BY <1>12, <1>13 DEF BlobIsKept
<1>15. ~cleared => Carries(Len(blob.records))'
  <2>1. ASSUME NEW i \in DOMAIN blob'.records, blob'.records[i].tag \notin Known(fw)
        PROVE  \E j \in DOMAIN stash : stash[j] = blob'.records[i]
    BY <1>2, <1>4, <1>5, <2>1
  <2>2. ASSUME NEW j \in DOMAIN stash
        PROVE  \E i \in DOMAIN blob'.records : stash[j] = blob'.records[i]
    BY <1>2, <1>7
  <2>3. DOMAIN blob'.records = 1 .. Len(blob'.records)
    BY <1>1, SeqsTyped
  <2> QED
    BY <1>1, <2>1, <2>2, <2>3 DEF Carries, stash
<1> QED
  BY <1>1, <1>14, <1>15 DEF BlobInv, SavesFit

LEMMA OffStep == ASSUME TypeOK, BlobInv, PowerOff \/ Flash PROVE BlobInv'
<1>1. /\ phase' = "off" /\ unknown' = Empty /\ UNCHANGED <<blob, status, kept>>
      /\ out' = Empty \/ out' = out
  BY DEF PowerOff, Flash, BlobInv
<1>2. BlobIsKept'
  BY <1>1 DEF BlobInv, BlobIsKept
<1> QED
  BY <1>1, <1>2, EmptyWellMade, EmptyIs DEF BlobInv, SavesFit

LEMMA BlobStep == ASSUME OneLayout PROVE TypeOK /\ BlobInv /\ [Next]_vars => BlobInv'
<1> SUFFICES ASSUME TypeOK, BlobInv, [Next]_vars PROVE BlobInv'
  OBVIOUS
<1>1. CASE UNCHANGED vars
  <2>1. Encoded' = Encoded
    BY <1>1 DEF vars, Encoded, KnownRecords
  <2> QED
    BY <1>1, <2>1 DEF vars, BlobInv, BlobIsKept, Carries, Restored, SavesFit
<1> QED
  BY <1>1, BootBegins, DecodeStep, BootEndsWell, SetStep, ResetStep, SaveBegins, EmitStep,
     SaveStep, OffStep DEF Next

\* Between any two steps of any boot and any save the slot and the stash together
\* hold what is on record, and the buffers the bytes they count.
THEOREM BlobInvariant == ASSUME OneLayout PROVE Spec => []BlobInv
<1>1. Init => BlobInv
  BY InitBlobInv
<1>2. TypeOK /\ BlobInv /\ [Next]_vars => BlobInv'
  BY BlobStep
<1> QED
  BY <1>1, <1>2, BlobTyped, PTL DEF Spec

\* DESIGN.md's "no silent destruction of config data", for any succession of
\* versions that agree on their layout.
THEOREM NothingIsForgotten == ASSUME OneLayout PROVE Spec => []NothingForgotten
<1>1. BlobInv => NothingForgotten
  <2> SUFFICES ASSUME BlobInv, NEW t \in Tag, kept[t] # NoValue
               PROVE  /\ Cardinality(Stored(t)) = 1
                      /\ \A k \in Stored(t) : blob.records[k].value = kept[t]
    BY DEF NothingForgotten
  <2>1. PICK i \in DOMAIN blob.records : blob.records[i].tag = t
    BY DEF BlobInv, BlobIsKept
  <2>2. Stored(t) = {i}
    BY <2>1 DEF BlobInv, WellMade, Stored
  <2>3. Cardinality(Stored(t)) = 1
    BY <2>2, FS_Singleton, Zenon
  <2>4. blob.records[i].value = kept[t]
    BY <2>1 DEF BlobInv, BlobIsKept
  <2> QED
    BY <2>2, <2>3, <2>4
<1> QED
  BY <1>1, BlobInvariant, PTL

\* What a factory reset threw away is gone with the next save, for every version:
\* the slot holds records only of types that were saved and not reset since.
THEOREM ResetsAreComplete == ASSUME OneLayout PROVE Spec => []ResetIsComplete
<1>1. TypeOK /\ BlobInv => ResetIsComplete
  <2> SUFFICES ASSUME TypeOK, BlobInv, NEW k \in DOMAIN blob.records
               PROVE  kept[blob.records[k].tag] # NoValue
    BY DEF ResetIsComplete
  <2>1. blob.records[k].value = kept[blob.records[k].tag]
    BY DEF BlobInv, BlobIsKept
  <2>2. blob.records[k] \in Records
    BY DEF TypeOK, Buffers
  <2>3. blob.records[k].value \in Values
    BY <2>2 DEF Records
  <2>4. NoValue \notin Values
    BY ConfigBlobConstants
  <2> QED
    BY <2>1, <2>3, <2>4
<1> QED
  BY <1>1, BlobTyped, BlobInvariant, PTL

\* A configuration that was loaded, and whatever was set since, can be saved.
THEOREM SavesAlwaysFit == ASSUME OneLayout PROVE Spec => []SavesFit
<1>1. BlobInv => SavesFit
  BY DEF BlobInv
<1> QED
  BY <1>1, BlobInvariant, PTL

\* What is stored comes back at the next boot, under any version that knows it.
THEOREM BootsRestore == ASSUME OneLayout PROVE Spec => BootRestores
<1>1. TypeOK /\ BlobInv /\ [Next]_vars =>
         [BootEnds => \A t \in Known(fw) :
                         cache'[t] = IF kept[t] # NoValue THEN kept[t] ELSE Factory]_vars
  <2> SUFFICES ASSUME TypeOK, BlobInv, [Next]_vars, BootEnds, NEW t \in Known(fw)
               PROVE  cache'[t] = IF kept[t] # NoValue THEN kept[t] ELSE Factory
    OBVIOUS
  <2>1. phase = "load" /\ phase' = "up"
    BY DEF BootEnds
  <2>2. DecodeEnd
    <3>1. ~DecodeRecord
      <4> SUFFICES ASSUME DecodeRecord PROVE FALSE
        OBVIOUS
      <4>1. next \in DOMAIN blob.records
        BY DEF DecodeRecord
      <4>2. Made(Current) /\ Current \in Records
        BY <2>1, <4>1, CurrentIs
      <4>3. Current.tag \in Known(fw) => Current.width = Width[fw][Current.tag]
        BY <4>2 DEF Made, OneLayout, TypeOK
      <4>4. Current.width \in Nat
        BY <4>2 DEF Records
      <4>5. ~(Current.tag \in Known(fw) /\ Current.width < Width[fw][Current.tag])
        BY <4>3, <4>4
      <4> QED
        BY <2>1, <4>5 DEF DecodeRecord
    <3> QED
      BY <2>1, <3>1 DEF Next, vars, ConfigInit, SetRecord, ResetDefaults, ConfigSave,
                        EmitRecord, SaveEnd, PowerOff, Flash
  <2>3. cache' = cache /\ Restored(Len(blob.records))
    <3>1. next - 1 = Len(blob.records)
      BY <2>1, <2>2, SeqsTyped DEF DecodeEnd, BlobInv, TypeOK
    <3> QED
      BY <2>1, <2>2, <3>1 DEF DecodeEnd, BlobInv
  <2>4. DOMAIN blob.records = 1 .. Len(blob.records)
    BY SeqsTyped
  <2>5. t \in Tag
    BY DEF Tag, TypeOK
  <2>6. CASE kept[t] # NoValue
    <3>1. PICK i \in DOMAIN blob.records : blob.records[i].tag = t
      BY <2>5, <2>6 DEF BlobInv, BlobIsKept
    <3>2. cache[t] = blob.records[i].value /\ blob.records[i].value = kept[t]
      BY <2>3, <2>4, <3>1 DEF Restored, BlobInv, BlobIsKept
    <3> QED
      BY <2>3, <2>6, <3>2
  <2>7. CASE kept[t] = NoValue
    <3>1. \A i \in DOMAIN blob.records : blob.records[i] \in Records
      BY DEF TypeOK, Buffers
    <3>2. \A i \in DOMAIN blob.records : blob.records[i].tag # t
      BY <2>7, <3>1, BoundsTyped DEF Records, BlobInv, BlobIsKept
    <3> QED
      BY <2>3, <2>4, <2>7, <3>2 DEF Restored
  <2> QED
    BY <2>6, <2>7
<1> QED
  BY <1>1, BlobInvariant, BlobTyped, PTL DEF Spec, BootRestores

===============================================================================
