--------------------------- MODULE RecordJsonProofs ---------------------------
(***************************************************************************)
(* One record under requests, documents and power cycles, for every value  *)
(* of the constants.  The invariant is Carried: every field holds a value  *)
(* its wire format can carry, whatever a validator would say of it.  TypeOK *)
(* is too weak to be inductive: an enum has the range of an int in the     *)
(* struct and one byte on the wire, a name of 16 characters would lose one *)
(* and a flag of 2 would come back as 1.                                   *)
(*                                                                         *)
(* The tables of the eight types enter through MembersHold, LayoutHold and *)
(* FactoryHold alone; from there on a field is any IsField.                *)
(***************************************************************************)
EXTENDS RecordJson, FiniteSetTheorems, SequenceTheorems, TLAPS

------------------------------------------------------------------------------
(* The tables.                                                             *)

\* What the five kinds of fields have in common over all types.
IsField(f) ==
    \/ f.kind = "name" /\ f.bytes = 16 /\ f.wire = 16 /\ f.legal = 0 .. 15
    \/ f.kind = "flag" /\ f.bytes = 1 /\ f.wire = 1 /\ f.legal = {0, 1}
    \/ f.kind = "enum" /\ f.bytes = 4 /\ f.wire = 1 /\ f.legal \subseteq 0 .. 7
    \/ f.kind = "unsigned" /\ f.bytes \in {1, 2, 4} /\ f.wire = f.bytes /\ f.legal \subseteq Nat
    \/ f.kind = "signed" /\ f.bytes \in {2, 4} /\ f.wire = f.bytes /\ f.legal \subseteq Int

\* A value that survives f's bytes.
OnWire(f, v) ==
    /\ f.kind = "name" => v \in 0 .. 15
    /\ f.kind = "flag" => v \in {0, 1}
    /\ Within(f, f.wire, v)

\* A table holds fields; its offsets leave no two of them a common byte; its
\* factory record is legal.
Members(t) == \A k \in DOMAIN Fields[t] : IsField(Fields[t][k])
Layout(t) ==
    /\ WireSize[t] \in Nat
    /\ \E n \in 1 .. 9 : DOMAIN Fields[t] = 1 .. n /\ DOMAIN Defaults[t] = 1 .. n
    /\ \A k \in DOMAIN Fields[t] :
          /\ Offset[t][k] \in Nat
          /\ Offset[t][k] + Fields[t][k].wire <= WireSize[t]
    /\ \A k \in DOMAIN Fields[t], l \in DOMAIN Fields[t] :
          k < l => Offset[t][k] + Fields[t][k].wire <= Offset[t][l]
Factory(t) ==
    \A k \in DOMAIN Fields[t] :
       /\ Defaults[t][k] \in Int
       /\ Defaults[t][k] \in Fields[t][k].legal
       /\ OnWire(Fields[t][k], Defaults[t][k])

USE DEF NameLen

LEMMA MembersHold == \A t \in Types : Members(t)
  <1>1. /\ IsField(Name) /\ IsField(Flag) /\ IsField(U16) /\ IsField(U32) /\ IsField(I32)
        /\ IsField(Permille) /\ IsField(FaultState)
        /\ IsField(Unsigned(1, 1 .. 127)) /\ IsField(Unsigned(4, Nat \ {0}))
        /\ IsField(Unsigned(4, Nat \ (1 .. 128)))
        /\ IsField(Signed(2, Int)) /\ IsField(Signed(4, NonZero))
    BY DEF IsField, Name, Flag, U16, U32, I32, Permille, FaultState, NonZero, Unsigned, Signed, Enum
  <1>2. \A n \in 1 .. 8 : IsField(Enum(n))
    BY DEF IsField, Enum
  <1> USE <1>1, <1>2 DEF Members, Fields
  <1>3. Members("DI")  OBVIOUS
  <1>4. Members("DO")  OBVIOUS
  <1>5. Members("TC")  OBVIOUS
  <1>6. Members("AI")  OBVIOUS
  <1>7. Members("AO")  OBVIOUS
  <1>8. Members("PCNT")  OBVIOUS
  <1>9. Members("PWM")  OBVIOUS
  <1>10. Members("SYSTEM")  OBVIOUS
  <1> HIDE DEF Members
  <1> QED
    BY <1>3, <1>4, <1>5, <1>6, <1>7, <1>8, <1>9, <1>10 DEF Types, Fields

USE DEF Fields, Name, Flag, U16, U32, I32, Permille, FaultState, NonZero, Unsigned, Signed, Enum


LEMMA LayoutHold == \A t \in Types : Layout(t)
  <1> USE DEF Layout, Offset, WireSize, Defaults
  <1>1. Layout("DI")  OBVIOUS
  <1>2. Layout("DO")  OBVIOUS
  <1>3. Layout("TC")  OBVIOUS
  <1>4. Layout("AI")  OBVIOUS
  <1>5. Layout("AO")  OBVIOUS
  <1>6. Layout("PCNT")  OBVIOUS
  <1>7. Layout("PWM")  OBVIOUS
  <1>8. Layout("SYSTEM")  OBVIOUS
  <1> HIDE DEF Layout
  <1> QED
    BY <1>1, <1>2, <1>3, <1>4, <1>5, <1>6, <1>7, <1>8 DEF Types

LEMMA FactoryHold == \A t \in Types : Factory(t)
  <1> USE DEF Factory, Defaults, OnWire, Within, UpperHalf
  <1>1. Factory("DI")  OBVIOUS
  <1>2. Factory("DO")  OBVIOUS
  <1>3. Factory("TC")  OBVIOUS
  <1>4. Factory("AI")  OBVIOUS
  <1>5. Factory("AO")  OBVIOUS
  <1>6. Factory("PCNT")  OBVIOUS
  <1>7. Factory("PWM")  OBVIOUS
  <1>8. Factory("SYSTEM")  OBVIOUS
  <1> HIDE DEF Factory
  <1> QED
    BY <1>1, <1>2, <1>3, <1>4, <1>5, <1>6, <1>7, <1>8 DEF Types

HIDE DEF Fields, Name, Flag, U16, U32, I32, Permille, FaultState, NonZero, Unsigned, Signed, Enum

------------------------------------------------------------------------------
(* Bytes: config_codec.c's put and get functions are inverses on OnWire.   *)

LEMMA Split ==
  ASSUME NEW v \in Int
  PROVE  /\ v % 256 \in Int /\ 0 <= v % 256 /\ v % 256 <= 255
         /\ v \div 256 \in Int
         /\ v = (v % 256) + 256 * (v \div 256)
  OBVIOUS

LEMMA Split4 ==
  ASSUME NEW v \in Int
  PROVE  /\ v \div 65536 = (v \div 256) \div 256
         /\ v \div 16777216 = (v \div 65536) \div 256
  OBVIOUS


\* A byte holds a value of 0 .. 255, and one of -128 .. 127 as two's complement.
LEMMA TopRange ==
  ASSUME NEW f, NEW x \in Int,
         IF f.kind = "signed" THEN -128 <= x /\ x <= 127 ELSE 0 <= x /\ x <= 255
  PROVE  Top(f, x % 256) = x
  <1>1. 0 <= x /\ x <= 255 => x % 256 = x
    OBVIOUS
  <1>2. -128 <= x /\ x < 0 => x % 256 = x + 256
    OBVIOUS
  <1> QED
    BY <1>1, <1>2 DEF Top

\* The upper byte of a 16-bit value has the range of a byte, with its sign.
LEMMA HighByte ==
  ASSUME NEW x \in Int
  PROVE  /\ 0 <= x /\ x <= 65535 => 0 <= x \div 256 /\ x \div 256 <= 255
         /\ -32768 <= x /\ x <= 32767 => -128 <= x \div 256 /\ x \div 256 <= 127
  <1> DEFINE l == x % 256  h == x \div 256
  <1>1. l \in Int /\ h \in Int /\ 0 <= l /\ l <= 255 /\ x = l + 256 * h
    BY Split
  <1> HIDE DEF l, h
  <1>2. /\ 0 <= x /\ x <= 65535 => 0 <= h /\ h <= 255
        /\ -32768 <= x /\ x <= 32767 => -128 <= h /\ h <= 127
    BY <1>1
  <1> QED
    BY <1>2 DEF h

\* What the range of a numeric field on the wire says of its highest byte.
LEMMA WireRange ==
  ASSUME NEW f, IsField(f), NEW v \in Int, OnWire(f, v), f.kind # "name"
  PROVE  /\ f.wire = 1 => 0 <= v /\ v <= 255 /\ f.kind # "signed"
         /\ f.wire = 2 /\ f.kind = "signed" => -32768 <= v /\ v <= 32767
         /\ f.wire = 2 /\ f.kind # "signed" => 0 <= v /\ v <= 65535
         /\ f.wire = 4 /\ f.kind = "signed" => -32768 <= UpperHalf(v) /\ UpperHalf(v) <= 32767
         /\ f.wire = 4 /\ f.kind # "signed" => 0 <= UpperHalf(v) /\ UpperHalf(v) <= 65535
  <1>1. f.wire = 1 => f.kind # "signed"
    BY DEF IsField
  <1> QED
    BY <1>1 DEF OnWire, Within

\* A value and its four bytes: h, q and top are what is left after one, two and
\* three of them.
LEMMA BytesOf ==
  ASSUME NEW v \in Int
  PROVE  \E h, q, top \in Int :
            /\ v = Byte(v, 1) + 256 * h /\ h = Byte(v, 2) + 256 * q
            /\ q = Byte(v, 3) + 256 * top
            /\ Byte(v, 1) = v % 256 /\ Byte(v, 2) = h % 256 /\ Byte(v, 4) = top % 256
            /\ h = v \div 256 /\ top = q \div 256
            /\ q = UpperHalf(v)
            /\ \A i \in 1 .. 4 : Byte(v, i) \in Int
  <1> DEFINE h == v \div 256  q == v \div 65536  top == v \div 16777216
  <1>1. /\ Byte(v, 1) = v % 256 /\ Byte(v, 2) = h % 256
        /\ Byte(v, 3) = q % 256 /\ Byte(v, 4) = top % 256
    BY DEF Byte, Place
  <1>2. /\ h \in Int /\ q \in Int /\ top \in Int
        /\ v = (v % 256) + 256 * h /\ h = (h % 256) + 256 * q /\ q = (q % 256) + 256 * top
        /\ h = v \div 256 /\ top = q \div 256
    BY Split, Split4
  <1>3. /\ v % 256 \in Int /\ h % 256 \in Int
        /\ q % 256 \in Int /\ top % 256 \in Int
    BY <1>2, Split
  <1>4. q = UpperHalf(v)
    BY DEF UpperHalf
  <1> HIDE DEF h, q, top
  <1>5. \A i \in 1 .. 4 : Byte(v, i) \in Int
    BY <1>1, <1>3
  <1>6. h \in Int /\ q \in Int /\ top \in Int
    BY <1>2
  <1>7. /\ v = Byte(v, 1) + 256 * h /\ h = Byte(v, 2) + 256 * q
        /\ q = Byte(v, 3) + 256 * top
        /\ Byte(v, 1) = v % 256 /\ Byte(v, 2) = h % 256 /\ Byte(v, 4) = top % 256
        /\ h = v \div 256 /\ top = q \div 256
    BY <1>1, <1>2
  <1> QED
    BY <1>4, <1>5, <1>6, <1>7

\* What is put into a field's bytes is read back.
LEMMA FieldRoundTrip ==
  ASSUME NEW f, IsField(f), NEW v \in Int, OnWire(f, v),
         NEW b, \A i \in 1 .. f.wire : b[i] = PutField(f, v, i)
  PROVE  GetField(f, b) = v
  <1>1. CASE f.kind = "name"
    <2>1. v \in 0 .. 15 /\ \A i \in 1 .. 15 : b[i] # 0 <=> i <= v
      BY <1>1 DEF IsField, OnWire, PutField
    <2>2. {i \in 1 .. f.wire - 1 : b[i] # 0} = 1 .. v
      BY <1>1, <2>1 DEF IsField
    <2>3. Cardinality(1 .. v) = IF 1 > v THEN 0 ELSE v - 1 + 1
      BY FS_Interval
    <2>4. Cardinality(1 .. v) = v
      BY <2>1, <2>3
    <2>5. Characters(f, b) = v
      BY <2>2, <2>4 DEF Characters
    <2> QED
      BY <1>1, <2>5 DEF GetField
  <1>2. CASE f.kind # "name"
    <2>1. \A i \in 1 .. f.wire : b[i] = Byte(v, i)
      BY <1>2 DEF PutField
    <2>2. PICK h, q, top \in Int :
            /\ v = Byte(v, 1) + 256 * h /\ h = Byte(v, 2) + 256 * q
            /\ q = Byte(v, 3) + 256 * top
            /\ Byte(v, 1) = v % 256 /\ Byte(v, 2) = h % 256 /\ Byte(v, 4) = top % 256
            /\ h = v \div 256 /\ top = q \div 256
            /\ q = UpperHalf(v)
            /\ \A i \in 1 .. 4 : Byte(v, i) \in Int
      BY BytesOf
    <2>3. /\ Byte(v, 1) = v % 256 /\ Byte(v, 2) = h % 256 /\ Byte(v, 4) = top % 256
          /\ \A i \in 1 .. 4 : Byte(v, i) \in Int
      BY <2>2
    <2>4. q = UpperHalf(v) /\ h = v \div 256 /\ top = q \div 256
      BY <2>2
    <2>5. CASE f.wire = 1
      <3>1. 0 <= v /\ v <= 255 /\ f.kind # "signed"
        BY <1>2, <2>5, WireRange
      <3>2. Top(f, Byte(v, 1)) = v
        BY <2>3, <3>1, TopRange
      <3>3. Top(f, b[1]) = v /\ b[1] = v
        BY <2>1, <2>5, <3>1, <3>2 DEF Top
      <3>4. f.kind = "flag" => v \in {0, 1}
        BY DEF OnWire
      <3> QED
        BY <1>2, <2>5, <3>3, <3>4 DEF GetField
    <2>6. CASE f.wire = 2
      <3>1. f.kind \in {"unsigned", "signed"}
        BY <1>2, <2>6 DEF IsField
      <3>2. IF f.kind = "signed" THEN -32768 <= v /\ v <= 32767 ELSE 0 <= v /\ v <= 65535
        BY <1>2, <2>6, WireRange
      <3>3. IF f.kind = "signed" THEN -128 <= h /\ h <= 127 ELSE 0 <= h /\ h <= 255
        BY <2>4, <3>2, HighByte
      <3>4. Top(f, Byte(v, 2)) = h
        BY <2>3, <3>3, TopRange
      <3>5. b[1] = Byte(v, 1) /\ b[2] = Byte(v, 2)
        BY <2>1, <2>6
      <3>6. GetField(f, b) = b[1] + 256 * Top(f, b[2])
        BY <2>6, <3>1 DEF GetField
      <3> QED
        BY <2>2, <3>4, <3>5, <3>6
    <2>7. CASE f.wire = 4
      <3>1. f.kind \in {"unsigned", "signed"}
        BY <1>2, <2>7 DEF IsField
      <3>2. IF f.kind = "signed" THEN -32768 <= q /\ q <= 32767 ELSE 0 <= q /\ q <= 65535
        BY <1>2, <2>4, <2>7, WireRange
      <3>3. IF f.kind = "signed" THEN -128 <= top /\ top <= 127 ELSE 0 <= top /\ top <= 255
        BY <2>4, <3>2, HighByte
      <3>4. Top(f, Byte(v, 4)) = top
        BY <2>3, <3>3, TopRange
      <3>5. b[1] = Byte(v, 1) /\ b[2] = Byte(v, 2) /\ b[3] = Byte(v, 3) /\ b[4] = Byte(v, 4)
        BY <2>1, <2>7
      <3>6. GetField(f, b) = b[1] + 256 * b[2] + 65536 * b[3] + 16777216 * Top(f, b[4])
        BY <2>7, <3>1 DEF GetField
      <3>7. v = Byte(v, 1) + 256 * Byte(v, 2) + 65536 * Byte(v, 3) + 16777216 * top
        BY <2>2
      <3> QED
        BY <3>4, <3>5, <3>6, <3>7
    <2> QED
      BY <1>2, <2>5, <2>6, <2>7 DEF IsField
  <1> QED
    BY <1>1, <1>2

\* A record whose bytes hold its fields decodes to itself, whatever follows.
LEMMA DecodesTo ==
  ASSUME NEW t \in Types, NEW r \in [DOMAIN Fields[t] -> Int],
         \A k \in DOMAIN Fields[t] : OnWire(Fields[t][k], r[k]),
         NEW b,
         \A k \in DOMAIN Fields[t] : \A i \in 1 .. Fields[t][k].wire :
            b[Offset[t][k] + i] = PutField(Fields[t][k], r[k], i)
  PROVE  Decode(t, b) = r
  <1>1. ASSUME NEW k \in DOMAIN Fields[t]
        PROVE  Decode(t, b)[k] = r[k]
    <2> DEFINE f == Fields[t][k]
               bytes == [i \in 1 .. f.wire |-> b[Offset[t][k] + i]]
    <2>1. IsField(f)
      BY MembersHold DEF Members
    <2>2. \A i \in 1 .. f.wire : bytes[i] = PutField(f, r[k], i)
      OBVIOUS
    <2>3. r[k] \in Int /\ OnWire(f, r[k])
      OBVIOUS
    <2>4. Decode(t, b)[k] = GetField(f, bytes)
      BY DEF Decode
    <2> HIDE DEF f, bytes
    <2> QED
      BY <2>1, <2>2, <2>3, <2>4, FieldRoundTrip
  <1>2. DOMAIN Decode(t, b) = DOMAIN Fields[t] /\ Decode(t, b) = [k \in DOMAIN Fields[t] |-> Decode(t, b)[k]]
    BY DEF Decode
  <1> QED
    BY <1>1, <1>2

\* The encoder puts byte i of field k at its place: no other field is there.
LEMMA Encoded ==
  ASSUME NEW t \in Types, NEW r,
         NEW k \in DOMAIN Fields[t], NEW i \in 1 .. Fields[t][k].wire
  PROVE  /\ Offset[t][k] + i \in 1 .. WireSize[t]
         /\ Encode(t, r)[Offset[t][k] + i] = PutField(Fields[t][k], r[k], i)
  <1> DEFINE F == Fields[t]  o == Offset[t]  j == o[k] + i
  <1>1. /\ WireSize[t] \in Nat /\ DOMAIN F \subseteq Nat
        /\ \A l \in DOMAIN F : /\ o[l] \in Nat
                             /\ o[l] + F[l].wire <= WireSize[t]
        /\ \A l, m \in DOMAIN F : l < m => o[l] + F[l].wire <= o[m]
    BY LayoutHold DEF Layout
  <1>2. \A l \in DOMAIN F : F[l].wire \in Nat
    BY MembersHold DEF Members, IsField
  <1> HIDE DEF F, o
  <1>3. j \in 1 .. WireSize[t] /\ j - o[k] = i
    BY <1>1, <1>2 DEF F
  <1>4. \A l \in DOMAIN F : j \in o[l] + 1 .. o[l] + F[l].wire => l = k
    BY <1>1, <1>2 DEF F
  <1>5. j \in o[k] + 1 .. o[k] + F[k].wire
    BY <1>1, <1>2 DEF F
  <1>6. FieldAt(t, j) = k
    BY <1>4, <1>5 DEF FieldAt, F, o
  <1> HIDE DEF j
  <1>7. Encode(t, r)[j] = PutField(Fields[t][k], r[k], j - o[k])
    BY <1>3, <1>6 DEF Encode, o
  <1> QED
    BY <1>3, <1>7 DEF j, o

\* Encode and Decode are inverses, with or without bytes of a later firmware.
RoundTrips(t, r) ==
    /\ Decode(t, Encode(t, r)) = r
    /\ \A more \in {<<>>, << 255 >>} : Decode(t, Encode(t, r) \o more) = r

LEMMA RecordRoundTrip ==
  ASSUME NEW t \in Types, NEW r \in [DOMAIN Fields[t] -> Int],
         \A k \in DOMAIN Fields[t] : OnWire(Fields[t][k], r[k])
  PROVE  RoundTrips(t, r)
  <1>1. Decode(t, Encode(t, r)) = r
    BY DecodesTo, Encoded
  <1>2. ASSUME NEW more \in {<<>>, << 255 >>}
        PROVE  Decode(t, Encode(t, r) \o more) = r
    <2> DEFINE e == Encode(t, r)
               S == {e[i] : i \in 1 .. WireSize[t]} \cup {255}
    <2>1. e = [i \in 1 .. WireSize[t] |-> e[i]]
      BY DEF Encode
    <2>2. e \in [1 .. WireSize[t] -> S] /\ WireSize[t] \in Nat
      <3> HIDE DEF e
      <3> QED
        BY <2>1, LayoutHold DEF Layout
    <2>3. more \in Seq(S)
      <3>1. <<>> \in Seq(S) /\ << 255 >> \in Seq(S)
        <4>1. 255 \in S
          OBVIOUS
        <4> HIDE DEF S
        <4> QED
          BY <4>1
      <3> QED
        BY <3>1
    <2> HIDE DEF e, S
    <2>4. e \in Seq(S) /\ Len(e) = WireSize[t] /\ more \in Seq(S)
      BY <2>2, <2>3
    <2>5. \A j \in 1 .. WireSize[t] : (e \o more)[j] = e[j]
      BY <2>2, <2>4
    <2>6. \A k \in DOMAIN Fields[t] : \A i \in 1 .. Fields[t][k].wire :
             (e \o more)[Offset[t][k] + i] = PutField(Fields[t][k], r[k], i)
      BY <2>5, Encoded DEF e
    <2> QED
      BY <2>6, DecodesTo DEF e
  <1> QED
    BY <1>1, <1>2 DEF RoundTrips

------------------------------------------------------------------------------
(* Requests: the casts of the appliers, and what validation adds.          *)

\* A parameter names a field of its type.
LEMMA ParamsHold ==
  ASSUME NEW t \in Types
  PROVE  /\ Len(Params[t]) \in Nat
         /\ \A p \in 0 .. Len(Params[t]) - 1 : Params[t][p + 1] \in DOMAIN Fields[t]
  <1>1. PICK n \in 1 .. 9 : DOMAIN Fields[t] = 1 .. n
    BY LayoutHold DEF Layout
  <1>2. CASE t # "AO"
    <2>1. Params[t] = [k \in 1 .. n |-> k]
      BY <1>1, <1>2 DEF Params
    <2>2. Len(Params[t]) = n
      BY <1>1, <2>1
    <2> QED
      BY <1>1, <2>1, <2>2
  <1>3. CASE t = "AO"
    <2>1. Params[t] = <<1, 2, 3, 8, 9>>
      BY <1>3 DEF Params
    <2>2. DOMAIN Fields["AO"] = 1 .. 9
      BY DEF Fields
    <2> QED
      BY <1>3, <2>1, <2>2
  <1> QED
    BY <1>2, <1>3

LEMMA ChannelsHold ==
  ASSUME NEW t \in Types, t # "SYSTEM"
  PROVE  Channels[t] \in Nat /\ Channels[t] > 0
  BY DEF Types, Fields, Channels

\* A value of the wire fits the member; one that fits and is legal fits the wire.
LEMMA OnWireFits ==
  ASSUME NEW f, IsField(f), NEW v \in Int, OnWire(f, v)
  PROVE  Fits(f, v)
  <1>1. CASE f.kind = "name"
    BY <1>1 DEF OnWire, Fits, Within
  <1>2. CASE f.kind = "enum"
    <2>1. f.bytes = 4 /\ 0 <= v /\ v <= 255
      BY <1>2, WireRange DEF IsField
    <2>2. UpperHalf(v) = 0
      BY <2>1 DEF UpperHalf
    <2> QED
      BY <1>2, <2>1, <2>2 DEF Fits, Within
  <1>3. CASE f.kind \notin {"name", "enum"}
    <2>1. f.wire = f.bytes
      BY <1>3 DEF IsField
    <2> QED
      BY <2>1 DEF OnWire, Fits
  <1> QED
    BY <1>1, <1>2, <1>3

LEMMA LegalOnWire ==
  ASSUME NEW f, IsField(f), NEW v \in f.legal, Fits(f, v)
  PROVE  v \in Int /\ OnWire(f, v)
  <1>1. CASE f.kind = "name"
    BY <1>1 DEF IsField, OnWire, Within
  <1>2. CASE f.kind = "enum"
    BY <1>2 DEF IsField, OnWire, Within
  <1>3. CASE f.kind \notin {"name", "enum"}
    <2>1. f.wire = f.bytes /\ v \in Int /\ (f.kind = "flag" => v \in {0, 1})
      BY <1>3 DEF IsField
    <2> QED
      BY <1>3, <2>1 DEF OnWire, Fits
  <1> QED
    BY <1>1, <1>2, <1>3

\* What a request may carry for a field: the arm of the union its kind selects.
Carries(f, v) ==
    /\ v \in Int
    /\ f.kind = "name" => v >= 0
    /\ f.kind = "flag" => v \in {0, 1}
    /\ f.kind \in {"enum", "unsigned"} => v >= 0 /\ UpperHalf(v) <= 65535
    /\ f.kind = "signed" => -32768 <= UpperHalf(v) /\ UpperHalf(v) <= 32767

LEMMA UpperHalfType ==
  ASSUME NEW v \in Int
  PROVE  UpperHalf(v) \in Int /\ (v >= 0 => UpperHalf(v) >= 0)
  BY DEF UpperHalf

LEMMA WrapRange ==
  ASSUME NEW v \in Int
  PROVE  /\ v % 256 \in Int /\ 0 <= v % 256 /\ v % 256 <= 255
         /\ v % 65536 \in Int /\ 0 <= v % 65536 /\ v % 65536 <= 65535
         /\ 0 <= v /\ v <= 255 => v % 256 = v
         /\ 0 <= v /\ v <= 65535 => v % 65536 = v
         /\ -32768 <= v /\ v < 0 => v % 65536 = v + 65536
  OBVIOUS

\* A cast lands in the range of the member, and leaves legal values alone.
LEMMA CastFits ==
  ASSUME NEW f, IsField(f), NEW v, Carries(f, v)
  PROVE  Cast(f, v) \in Int /\ Fits(f, Cast(f, v))
  <1>1. CASE f.kind = "name"
    BY <1>1 DEF Carries, Cast, Fits, Within
  <1>2. CASE f.kind = "signed"
    <2>1. CASE f.bytes = 2
      <3>1. Cast(f, v) = IF v % 65536 >= 32768 THEN (v % 65536) - 65536 ELSE v % 65536
        BY <1>2, <2>1 DEF Cast, AsSigned, Wrap
      <3>2. /\ Cast(f, v) \in Int /\ -32768 <= Cast(f, v)
            /\ Cast(f, v) <= 32767
        BY <3>1, WrapRange DEF Carries
      <3> QED
        BY <1>2, <2>1, <3>2 DEF Fits, Within
    <2>2. CASE f.bytes = 4
      <3>1. Cast(f, v) = v
        BY <1>2, <2>2 DEF Cast, AsSigned, Wrap
      <3> QED
        BY <1>2, <2>2, <3>1 DEF Carries, Fits, Within
    <2> QED
      BY <1>2, <2>1, <2>2 DEF IsField
  <1>3. CASE f.kind \in {"flag", "enum", "unsigned"}
    <2>1. Cast(f, v) = Wrap(v, f.bytes)
      BY <1>3 DEF Cast
    <2>2. CASE f.bytes = 4
      <3>1. Cast(f, v) = v /\ v \in Int
        BY <2>1, <2>2 DEF Wrap, Carries
      <3>2. 0 <= UpperHalf(v) /\ UpperHalf(v) <= 65535
        BY <1>3, <2>2, UpperHalfType DEF Carries, IsField
      <3> QED
        BY <1>3, <2>2, <3>1, <3>2 DEF Fits, Within
    <2>3. CASE f.bytes = 2
      <3>1. Cast(f, v) = v % 65536 /\ v \in Int
        BY <2>1, <2>3 DEF Wrap, Carries
      <3> QED
        BY <1>3, <2>3, <3>1, WrapRange DEF Fits, Within
    <2>4. CASE f.bytes = 1
      <3>1. Cast(f, v) = v % 256 /\ v \in Int
        BY <2>1, <2>4 DEF Wrap, Carries
      <3> QED
        BY <1>3, <2>4, <3>1, WrapRange DEF Fits, Within
    <2> QED
      BY <1>3, <2>2, <2>3, <2>4 DEF IsField
  <1> QED
    BY <1>1, <1>2, <1>3 DEF IsField

LEMMA CastExact ==
  ASSUME NEW f, IsField(f), NEW v, Fits(f, v), v \in f.legal
  PROVE  Cast(f, v) = v
  <1>1. v \in Int
    BY LegalOnWire
  <1>2. CASE f.kind = "name"
    BY <1>2 DEF IsField, Cast
  <1>3. CASE f.kind = "signed"
    <2>1. CASE f.bytes = 2
      <3>1. Cast(f, v) = IF v % 65536 >= 32768 THEN (v % 65536) - 65536 ELSE v % 65536
        BY <1>3, <2>1 DEF Cast, AsSigned, Wrap
      <3>2. -32768 <= v /\ v <= 32767
        BY <1>3, <2>1 DEF Fits, Within
      <3> QED
        BY <1>1, <3>1, <3>2, WrapRange
    <2>2. CASE f.bytes = 4
      BY <1>3, <2>2 DEF Cast, AsSigned, Wrap
    <2> QED
      BY <1>3, <2>1, <2>2 DEF IsField
  <1>4. CASE f.kind \in {"flag", "enum", "unsigned"}
    <2>1. Cast(f, v) = Wrap(v, f.bytes)
      BY <1>4 DEF Cast
    <2>2. CASE f.bytes = 4
      BY <2>1, <2>2 DEF Wrap
    <2>3. CASE f.bytes = 2
      <3>1. Cast(f, v) = v % 65536
        BY <2>1, <2>3 DEF Wrap
      <3>2. 0 <= v /\ v <= 65535
        BY <1>4, <2>3 DEF Fits, Within
      <3> QED
        BY <1>1, <3>1, <3>2, WrapRange
    <2>4. CASE f.bytes = 1
      <3>1. Cast(f, v) = v % 256
        BY <2>1, <2>4 DEF Wrap
      <3>2. 0 <= v /\ v <= 255
        BY <1>4, <2>4 DEF Fits, Within
      <3> QED
        BY <1>1, <3>1, <3>2, WrapRange
    <2> QED
      BY <1>4, <2>2, <2>3, <2>4 DEF IsField
  <1> QED
    BY <1>2, <1>3, <1>4 DEF IsField

------------------------------------------------------------------------------
(* The inductive invariant: every field is one its wire format carries.    *)

Carried ==
    /\ type \in Types
    /\ rec \in [DOMAIN Fields[type] -> Int]
    /\ \A k \in DOMAIN Fields[type] : OnWire(Fields[type][k], rec[k])
    /\ left \in 0 .. MaxRequests

LEMMA InitCarried == Init => Carried
  <1> SUFFICES ASSUME Init PROVE Carried
    OBVIOUS
  <1>1. type \in Types /\ left \in 0 .. MaxRequests
    BY FieldRecordsConstants DEF Init
  <1>2. PICK K \in SUBSET Spoilable(type) : rec \in Spoilt(type, K)
    BY DEF Init, Booted
  <1>3. PICK old \in [K -> ForeignValues] :
           /\ \A k \in K : old[k] \in Refused(Fields[type][k])
           /\ rec = [k \in DOMAIN Fields[type] |-> IF k \in K THEN old[k] ELSE Defaults[type][k]]
    BY <1>2 DEF Spoilt
  <1>4. ASSUME NEW k \in DOMAIN Fields[type]
        PROVE  rec[k] \in Int /\ OnWire(Fields[type][k], rec[k])
    <2>1. CASE k \in K
      <3>1. rec[k] \in Int /\ Within(Fields[type][k], Fields[type][k].wire, rec[k])
        <4>1. rec[k] = old[k] /\ old[k] \in Refused(Fields[type][k])
          BY <1>3, <2>1
        <4>2. ForeignValues \subseteq Nat
          BY FieldRecordsConstants
        <4> DEFINE f == Fields[type][k]
        <4>3. old[k] \in {v \in ForeignValues : Within(f, f.wire, v)}
          BY <4>1 DEF Refused
        <4> HIDE DEF f
        <4>4. old[k] \in ForeignValues /\ Within(f, f.wire, old[k])
          BY <4>3
        <4>5. rec[k] \in Int
          <5>1. old[k] \in ForeignValues
            BY <4>4, Zenon
          <5>2. \A x \in ForeignValues : x \in Int
            BY <4>2
          <5>3. old[k] \in Int
            BY <5>1, <5>2
          <5> QED
            BY <4>1, <5>3, Zenon
        <4>6. Within(f, f.wire, rec[k])
          BY <4>1, <4>4, Zenon
        <4> QED
          BY <4>5, <4>6 DEF f
      <3>2. Fields[type][k].kind \notin {"name", "flag"}
        BY <1>2, <2>1 DEF Spoilable
      <3> QED
        BY <3>1, <3>2 DEF OnWire
    <2>2. CASE k \notin K
      BY <1>1, <1>3, <2>2, FactoryHold DEF Factory
    <2> QED
      BY <2>1, <2>2
  <1>5. rec \in [DOMAIN Fields[type] -> Int]
    BY <1>3, <1>4
  <1> QED
    BY <1>1, <1>4, <1>5 DEF Carried

\* A request carries what the arm of the union can hold.
LEMMA RequestsCarry ==
  ASSUME NEW t \in Types, NEW param \in Nat, param < Len(Params[t]),
         NEW v \in Requested(t, param)
  PROVE  Carries(Fields[t][Params[t][param + 1]], v)
  <1> DEFINE f == Fields[t][Params[t][param + 1]]
  <1>1. v \in CASE f.kind = "name" -> {0, NameLen - 1, NameLen}
                [] f.kind = "flag" -> {0, 1}
                [] f.kind = "signed" -> IValues
                [] OTHER -> UValues
    BY ParamsHold DEF Requested
  <1>2. IsField(f)
    BY ParamsHold, MembersHold DEF Members
  <1> SUFFICES Carries(f, v)
    OBVIOUS
  <1> HIDE DEF f
  <1>3. \A u \in UValues : u \in Int /\ u >= 0 /\ UpperHalf(u) <= 65535
    BY FieldRecordsConstants
  <1>4. \A i \in IValues : i \in Int /\ -32768 <= UpperHalf(i) /\ UpperHalf(i) <= 32767
    BY FieldRecordsConstants
  <1>5. CASE f.kind = "name"
    <2>1. v \in {0, NameLen - 1, NameLen}
      BY <1>1, <1>5
    <2>2. v \in Int /\ v >= 0
      BY <2>1 DEF NameLen
    <2> QED
      BY <1>5, <2>2 DEF Carries
  <1>6. CASE f.kind = "flag"
    <2>1. v \in {0, 1}
      BY <1>1, <1>6
    <2>2. v \in Int
      BY <2>1
    <2> QED
      BY <1>6, <2>1, <2>2 DEF Carries
  <1>7. CASE f.kind = "signed"
    <2>1. v \in IValues
      BY <1>1, <1>7
    <2> QED
      BY <1>4, <1>7, <2>1 DEF Carries
  <1>8. CASE f.kind \in {"enum", "unsigned"}
    <2>1. v \in UValues
      BY <1>1, <1>8
    <2> QED
      BY <1>3, <1>8, <2>1 DEF Carries
  <1> QED
    BY <1>2, <1>5, <1>6, <1>7, <1>8 DEF IsField

\* What a request with a parameter of the type does, in one place.
LEMMA Applied ==
  ASSUME Carried, ApplyField
  PROVE  \E item \in Nat, param \in Nat :
            \E v \in Requested(type, param) :
               /\ rec' = Apply(type, rec, item, param, v).rec
               /\ last' = [item |-> item, param |-> param, v |-> v,
                           status |-> Apply(type, rec, item, param, v).status]
               /\ type' = type /\ left' = left - 1 /\ left > 0
  <1>1. \A item \in Items(type) : item \in Nat
    BY ChannelsHold DEF Items, Carried
  <1>2. \A param \in 0 .. Len(Params[type]) : param \in Nat
    BY ParamsHold DEF Carried
  <1> QED
    BY <1>1, <1>2 DEF ApplyField

\* A request reaches a field; the record it would make of the cached one.
Reaches(t, item, param) == (t # "SYSTEM" => item < Channels[t]) /\ param < Len(Params[t])
Made(t, r, param, v) ==
    [r EXCEPT ![Params[t][param + 1]] = Cast(Fields[t][Params[t][param + 1]], v)]

LEMMA Outcome ==
  ASSUME NEW t \in Types, NEW r, NEW item \in Nat, NEW param \in Nat, NEW v
  PROVE  Apply(t, r, item, param, v) =
            IF Reaches(t, item, param)
            THEN IF Validate(t, Made(t, r, param, v)) THEN [status |-> "OK", rec |-> Made(t, r, param, v)]
                                                      ELSE [status |-> "INVALID", rec |-> r]
            ELSE [status |-> IF t # "SYSTEM" /\ item >= Channels[t] THEN "INDEX" ELSE "INVALID",
                  rec |-> r]
  <1>1. t # "SYSTEM" => (item < Channels[t] <=> ~(item >= Channels[t]))
    BY ChannelsHold
  <1>2. param < Len(Params[t]) <=> ~(param >= Len(Params[t]))
    BY ParamsHold
  <1>3. Apply(t, r, item, param, v) =
            IF t # "SYSTEM" /\ item >= Channels[t] THEN [status |-> "INDEX", rec |-> r]
            ELSE IF param >= Len(Params[t]) THEN [status |-> "INVALID", rec |-> r]
            ELSE IF Validate(t, Made(t, r, param, v)) THEN [status |-> "OK", rec |-> Made(t, r, param, v)]
                                                     ELSE [status |-> "INVALID", rec |-> r]
    BY DEF Apply, Made
  <1> QED
    BY <1>1, <1>2, <1>3 DEF Reaches

\* A record of values that fit and that its validator accepts can go on the wire.
LEMMA ValidOnWire ==
  ASSUME NEW t \in Types, NEW new, DOMAIN new = DOMAIN Fields[t],
         \A k \in DOMAIN Fields[t] : Fits(Fields[t][k], new[k]),
         Validate(t, new)
  PROVE  \A k \in DOMAIN Fields[t] : new[k] \in Int /\ OnWire(Fields[t][k], new[k])
  <1> TAKE k \in DOMAIN Fields[t]
  <1>1. IsField(Fields[t][k])
    BY MembersHold DEF Members
  <1>2. new[k] \in Fields[t][k].legal
    BY DEF Validate, IllegalFields
  <1> QED
    BY <1>1, <1>2, LegalOnWire

LEMMA ApplyCarried == ASSUME Carried, ApplyField PROVE Carried'
  <1>1. PICK item \in Nat, param \in Nat : \E v \in Requested(type, param) :
               /\ rec' = Apply(type, rec, item, param, v).rec
               /\ last' = [item |-> item, param |-> param, v |-> v,
                           status |-> Apply(type, rec, item, param, v).status]
               /\ type' = type /\ left' = left - 1 /\ left > 0
    BY Applied
  <1>2. PICK v \in Requested(type, param) :
               /\ rec' = Apply(type, rec, item, param, v).rec
               /\ type' = type /\ left' = left - 1 /\ left > 0
    BY <1>1
  <1>3. left' \in 0 .. MaxRequests /\ type' \in Types
    BY <1>2, FieldRecordsConstants DEF Carried
  <1>4. CASE rec' = rec
    BY <1>2, <1>3, <1>4 DEF Carried
  <1>5. CASE rec' # rec
    <2> DEFINE k == Params[type][param + 1]
               new == Made(type, rec, param, v)
    <2>1. rec' = new /\ Validate(type, new) /\ Reaches(type, item, param)
      BY <1>2, <1>5, Outcome DEF Carried
    <2>2. k \in DOMAIN Fields[type] /\ param < Len(Params[type])
      BY <2>1, ParamsHold DEF Carried, Reaches
    <2>3. Carries(Fields[type][k], v)
      BY <2>2, RequestsCarry DEF Carried
    <2> HIDE DEF k
    <2>4. IsField(Fields[type][k])
      BY <2>2, MembersHold DEF Carried, Members
    <2>5. Fits(Fields[type][k], Cast(Fields[type][k], v))
      BY <2>4, <2>3, CastFits
    <2>6. \A l \in DOMAIN Fields[type] : Fits(Fields[type][l], rec[l])
      BY OnWireFits, MembersHold DEF Carried, Members
    <2>7. /\ DOMAIN new = DOMAIN Fields[type]
          /\ \A l \in DOMAIN Fields[type] :
                new[l] = IF l = k THEN Cast(Fields[type][k], v) ELSE rec[l]
          /\ new = [l \in DOMAIN Fields[type] |-> new[l]]
      BY DEF Carried, Made, k
    <2> HIDE DEF new
    <2>8. \A l \in DOMAIN Fields[type] : Fits(Fields[type][l], new[l])
      BY <2>5, <2>6, <2>7
    <2>9. \A l \in DOMAIN Fields[type] : new[l] \in Int /\ OnWire(Fields[type][l], new[l])
      BY <2>1, <2>7, <2>8, ValidOnWire DEF Carried
    <2>10. new \in [DOMAIN Fields[type] -> Int]
      BY <2>7, <2>9
    <2> QED
      BY <1>2, <1>3, <2>1, <2>9, <2>10 DEF Carried
  <1> QED
    BY <1>4, <1>5

\* A save and a boot bring the record back as it was.
LEMMA CycleChangesNothing == ASSUME Carried, PowerCycle PROVE rec' = rec
  BY RecordRoundTrip DEF RoundTrips, Carried, PowerCycle

LEMMA CycleCarried == ASSUME Carried, PowerCycle PROVE Carried'
  BY CycleChangesNothing DEF Carried, PowerCycle

------------------------------------------------------------------------------
(* Documents: what the patch functions make of a JSON value.               *)

IsJson(v) ==
    \/ v = Null
    \/ \E b \in BOOLEAN : v = Bool(b)
    \/ \E n \in Int, half \in BOOLEAN : v = Number(n, half)
    \/ \E s \in Nat : v = String(s)

LEMMA ValuesAreJson ==
  ASSUME NEW t, NEW k, NEW v \in Values(t, k)
  PROVE  IsJson(v)
  <1>1. \A w \in {Number(x[1], x[2]) : x \in JsonNumbers} : IsJson(w)
    BY RecordJsonConstants DEF IsJson
  <1>2. IsJson(Null) /\ IsJson(Bool(TRUE)) /\ IsJson(Bool(FALSE))
    BY DEF IsJson
  <1>3. IsJson(String(1)) /\ IsJson(String(2)) /\ IsJson(String(NameLen)) /\ IsJson(String(NameLen - 1))
    BY DEF IsJson
  <1> HIDE DEF IsJson
  <1> QED
    BY <1>1, <1>2, <1>3 DEF Values

\* A fraction within the limits is truncated to a value within them.
LEMMA TruncatedFits ==
  ASSUME NEW f, NEW n \in Int, NEW half \in BOOLEAN, WithinLimits(f, Number(n, half))
  PROVE  /\ Truncated(Number(n, half)) \in Int
         /\ Fits(f, Truncated(Number(n, half)))
  BY DEF WithinLimits, Truncated, Number

\* What a patch makes of a field that fits fits.
LEMMA PatchFits ==
  ASSUME NEW t \in Types, NEW k \in DOMAIN Fields[t],
         NEW old, Fits(Fields[t][k], old), NEW v, IsJson(v),
         NEW new \in PatchField(t, k, old, v)
  PROVE  Fits(Fields[t][k], new)
  <1> DEFINE f == Fields[t][k]
  <1>1. IsField(f)
    BY MembersHold DEF Members
  <1>2. \A u \in f.legal : f.kind \in {"name", "enum", "flag"} => Fits(f, u)
    <2>1. \A u \in 0 .. 15 : UpperHalf(u) = 0
      BY DEF UpperHalf
    <2> QED
      BY <1>1, <2>1 DEF IsField, Fits, Within
  <1>3. CASE v = Null
    BY <1>3 DEF PatchField
  <1>4. CASE v # Null /\ f.kind = "enum"
    <2>1. new \in EnumFromJson(t, k, v)
      BY <1>4 DEF PatchField
    <2>2. Named(t, k) \subseteq f.legal
      BY DEF Named, Fields, Enum
    <2>3. new \in f.legal
      BY <2>1, <2>2 DEF EnumFromJson
    <2> QED
      BY <1>2, <1>4, <2>3
  <1>5. CASE v # Null /\ f.kind = "name"
    <2>1. new \in f.legal
      BY <1>5 DEF PatchField
    <2> QED
      BY <1>2, <1>5, <2>1
  <1>6. CASE v # Null /\ f.kind = "flag"
    <2>1. new \in {0, 1}
      BY <1>6 DEF PatchField
    <2> QED
      BY <1>1, <1>2, <1>6, <2>1 DEF IsField
  <1>7. CASE v # Null /\ f.kind \in {"unsigned", "signed"}
    <2>1. v.j = "number" /\ new \in PatchNumber(f, v)
      BY <1>7 DEF PatchField
    <2>2. WithinLimits(f, v) /\ new = Truncated(v)
      BY <2>1 DEF PatchNumber
    <2>3. PICK n \in Int, half \in BOOLEAN : v = Number(n, half)
      BY <2>1 DEF IsJson, Null, Bool, String
    <2> QED
      BY <2>2, <2>3, TruncatedFits
  <1> QED
    BY <1>1, <1>3, <1>4, <1>5, <1>6, <1>7 DEF IsField

\* What a document makes of field k of a record.
Wanted(t, obj, r, k) ==
    IF k \in DOMAIN obj THEN PatchField(t, k, r[k], obj[k]) ELSE {r[k]}

\* At most one value.
LEMMA PatchIsOne ==
  ASSUME NEW t, NEW k, NEW old, NEW v
  PROVE  \A x, y \in PatchField(t, k, old, v) : x = y
  <1> DEFINE kind == Fields[t][k].kind
  <1>1. \A x, y \in EnumFromJson(t, k, v) : x = y
    BY DEF EnumFromJson
  <1>2. \A x, y \in PatchNumber(Fields[t][k], v) : x = y
    BY DEF PatchNumber
  <1>3. \/ PatchField(t, k, old, v) \in {{old}, EnumFromJson(t, k, v), {v.s} \cap Fields[t][k].legal,
                                        PatchNumber(Fields[t][k], v), {}}
        \/ PatchField(t, k, old, v) = {IF v.b THEN 1 ELSE 0}
    BY DEF PatchField
  <1> QED
    BY <1>1, <1>2, <1>3

\* The record a document makes, if any: of the wanted values, and valid.
LEMMA PatchedIs ==
  ASSUME NEW t, NEW obj, NEW r, NEW new, DOMAIN new = DOMAIN r,
         new = [k \in DOMAIN r |-> new[k]],
         \A k \in DOMAIN r : Wanted(t, obj, r, k) = {new[k]}
  PROVE  Patched(t, obj, r) = IF Validate(t, new) THEN {new} ELSE {}
  <1> DEFINE made == [k \in DOMAIN r |-> Wanted(t, obj, r, k)]
  <1>1. Patched(t, obj, r) =
           IF \E k \in DOMAIN r : made[k] = {} THEN {}
           ELSE {x \in {[k \in DOMAIN r |-> CHOOSE v \in made[k] : TRUE]} : Validate(t, x)}
    BY DEF Patched, Wanted
  <1>2. \A k \in DOMAIN r : made[k] = {new[k]}
    OBVIOUS
  <1> HIDE DEF made
  <1>3. \A k \in DOMAIN r : (CHOOSE v \in made[k] : TRUE) = new[k]
    BY <1>2
  <1> DEFINE chosen == [k \in DOMAIN r |-> CHOOSE v \in made[k] : TRUE]
             absent == \E k \in DOMAIN r : made[k] = {}
  <1>4. chosen = new
    BY <1>3
  <1>5. ~absent
    BY <1>2
  <1>6. Patched(t, obj, r) = IF absent THEN {} ELSE {x \in {chosen} : Validate(t, x)}
    BY <1>1
  <1> HIDE DEF chosen, absent
  <1>7. Patched(t, obj, r) = {x \in {new} : Validate(t, x)}
    BY <1>4, <1>5, <1>6
  <1> QED
    BY <1>7

\* A document that is accepted makes a valid record of the wanted values.
LEMMA Accepted ==
  ASSUME NEW t, NEW obj, NEW r, NEW new \in Patched(t, obj, r)
  PROVE  /\ DOMAIN new = DOMAIN r
         /\ new = [k \in DOMAIN r |-> new[k]]
         /\ \A k \in DOMAIN r : new[k] \in Wanted(t, obj, r, k)
         /\ Validate(t, new)
  <1> DEFINE made == [k \in DOMAIN r |-> Wanted(t, obj, r, k)]
             x == [k \in DOMAIN r |-> CHOOSE v \in made[k] : TRUE]
  <1>1. Patched(t, obj, r) =
           IF \E k \in DOMAIN r : made[k] = {} THEN {} ELSE {y \in {x} : Validate(t, y)}
    BY DEF Patched, Wanted
  <1> HIDE DEF x
  <1>2. /\ \A k \in DOMAIN r : made[k] # {}
        /\ new = x /\ Validate(t, new)
    BY <1>1
  <1>3. \A k \in DOMAIN r : made[k] = Wanted(t, obj, r, k)
    OBVIOUS
  <1> HIDE DEF made
  <1>4. DOMAIN x = DOMAIN r /\ x = [k \in DOMAIN r |-> x[k]]
    BY DEF x
  <1>5. \A k \in DOMAIN r : x[k] \in made[k]
    BY <1>2 DEF x
  <1> QED
    BY <1>2, <1>3, <1>4, <1>5

\* What the document and the objects of PatchRecord look like.
LEMMA ObjectsAreJson ==
  ASSUME NEW t, NEW ks, NEW obj \in Objects(t, ks)
  PROVE  DOMAIN obj = ks /\ \A k \in ks : IsJson(obj[k])
  BY ValuesAreJson DEF Objects

AnyObject(t, r) == UNION {Objects(t, ks) : ks \in SUBSET (DOMAIN r)}

LEMMA PatchStep ==
  ASSUME Carried, PatchRecord
  PROVE  \E obj \in AnyObject(type, rec) :
            /\ DOMAIN obj \subseteq DOMAIN rec /\ \A k \in DOMAIN obj : IsJson(obj[k])
            /\ IF Patched(type, obj, rec) = {}
               THEN rec' = rec /\ patch' = [obj |-> obj, status |-> "rejected"]
               ELSE /\ rec' \in Patched(type, obj, rec)
                    /\ patch' = [obj |-> obj, status |-> "accepted"]
            /\ type' = type /\ left' \in 0 .. MaxRequests /\ last' = NoRequest
  <1>1. PICK k \in DOMAIN rec, l \in DOMAIN rec :
          /\ Cardinality({k, l}) <= left
          /\ left' = left - Cardinality({k, l})
          /\ \E obj \in Objects(type, {k, l}) :
                LET new == Patched(type, obj, rec)
                IN IF new = {} THEN /\ UNCHANGED rec
                                    /\ patch' = [obj |-> obj, status |-> "rejected"]
                               ELSE /\ rec' \in new
                                    /\ patch' = [obj |-> obj, status |-> "accepted"]
          /\ last' = NoRequest /\ type' = type
    BY DEF PatchRecord
  <1>2. PICK obj \in Objects(type, {k, l}) :
           IF Patched(type, obj, rec) = {}
           THEN rec' = rec /\ patch' = [obj |-> obj, status |-> "rejected"]
           ELSE /\ rec' \in Patched(type, obj, rec)
                /\ patch' = [obj |-> obj, status |-> "accepted"]
    BY <1>1
  <1>3. DOMAIN obj = {k, l} /\ \A m \in {k, l} : IsJson(obj[m])
    BY ObjectsAreJson
  <1>4. Cardinality({k, l}) \in Nat
    <2>1. IsFiniteSet({k})
      BY FS_Singleton
    <2>2. IsFiniteSet({k} \cup {l}) /\ {k} \cup {l} = {k, l}
      BY <2>1, FS_AddElement
    <2> QED
      BY <2>2, FS_CardinalityType
  <1>5. left' \in 0 .. MaxRequests
    BY <1>1, <1>4, FieldRecordsConstants DEF Carried
  <1>6. obj \in AnyObject(type, rec)
    BY DEF AnyObject
  <1> QED
    BY <1>1, <1>2, <1>3, <1>5, <1>6

LEMMA PatchCarried == ASSUME Carried, PatchRecord PROVE Carried'
  <1>1. PICK obj \in AnyObject(type, rec) :
            /\ DOMAIN obj \subseteq DOMAIN rec /\ \A k \in DOMAIN obj : IsJson(obj[k])
            /\ rec' = rec \/ rec' \in Patched(type, obj, rec)
            /\ type' = type /\ left' \in 0 .. MaxRequests
    BY PatchStep
  <1>2. CASE rec' = rec
    BY <1>1, <1>2 DEF Carried
  <1>3. CASE rec' \in Patched(type, obj, rec)
    <2>1. type \in Types /\ DOMAIN rec = DOMAIN Fields[type]
      BY DEF Carried
    <2>2. /\ DOMAIN rec' = DOMAIN rec
          /\ rec' = [k \in DOMAIN rec |-> rec'[k]]
          /\ \A k \in DOMAIN rec : rec'[k] \in Wanted(type, obj, rec, k)
          /\ Validate(type, rec')
      BY <1>3, Accepted
    <2>3. ASSUME NEW k \in DOMAIN Fields[type]
          PROVE  Fits(Fields[type][k], rec'[k])
      <3>1. Fits(Fields[type][k], rec[k])
        BY OnWireFits, MembersHold DEF Carried, Members
      <3>2. CASE k \in DOMAIN obj
        BY <1>1, <2>1, <2>2, <3>1, <3>2, PatchFits DEF Wanted
      <3>3. CASE k \notin DOMAIN obj
        BY <2>1, <2>2, <3>1, <3>3 DEF Wanted
      <3> QED
        BY <3>2, <3>3
    <2>4. \A k \in DOMAIN Fields[type] : rec'[k] \in Int /\ OnWire(Fields[type][k], rec'[k])
      BY <2>1, <2>2, <2>3, ValidOnWire
    <2>5. rec' \in [DOMAIN Fields[type] -> Int]
      BY <2>1, <2>2, <2>4
    <2> QED
      BY <1>1, <2>1, <2>4, <2>5 DEF Carried
  <1> QED
    BY <1>1, <1>2, <1>3

------------------------------------------------------------------------------
(* The theorems.                                                           *)

\* Whatever requests, documents, boots and another firmware do, each field of the
\* cached record holds a value config_codec.c can write and read back.
THEOREM CarriedAlways == RecordSpec => []Carried
  <1>1. RecordInit => Carried
    BY InitCarried DEF RecordInit
  <1>2. Carried /\ [RecordNext]_recordVars => Carried'
    <2> SUFFICES ASSUME Carried, [RecordNext]_recordVars PROVE Carried'
      OBVIOUS
    <2>1. CASE ApplyField
      BY <2>1, ApplyCarried
    <2>2. CASE PowerCycle
      BY <2>2, CycleCarried
    <2>3. CASE PatchRecord
      BY <2>3, PatchCarried
    <2>4. CASE UNCHANGED recordVars
      BY <2>4 DEF recordVars, vars, Carried
    <2> QED
      BY <2>1, <2>2, <2>3, <2>4 DEF RecordNext
  <1> QED
    BY <1>1, <1>2, PTL DEF RecordSpec

\* Every member stays in the range of its C type, whatever eeprom_manager.c's
\* appliers cast into it or config_codec.c decodes into it.
THEOREM RecordTyped == RecordSpec => []TypeOK
  <1>1. ASSUME Carried PROVE TypeOK
    <2>1. type \in Types /\ rec \in [DOMAIN Fields[type] -> Int] /\ left \in 0 .. MaxRequests
      BY <1>1 DEF Carried
    <2>2. ASSUME NEW k \in DOMAIN Fields[type]
          PROVE  Fits(Fields[type][k], rec[k])
      <3>1. rec[k] \in Int /\ OnWire(Fields[type][k], rec[k])
        BY <1>1, <2>1 DEF Carried
      <3>2. IsField(Fields[type][k])
        BY <2>1, MembersHold DEF Members
      <3> QED
        BY <3>1, <3>2, OnWireFits
    <2> QED
      BY <2>1, <2>2 DEF TypeOK
  <1> QED
    BY <1>1, CarriedAlways, PTL

\* config_codec_decode_<type> is the inverse of config_codec_encode_<type> on every
\* record the cache ever holds, and reads the same fields from a longer one.
THEOREM RecordsSurvive == RecordSpec => []WireRoundTrip
  <1>1. ASSUME Carried PROVE WireRoundTrip
    <2>1. /\ type \in Types /\ rec \in [DOMAIN Fields[type] -> Int]
          /\ \A k \in DOMAIN Fields[type] : OnWire(Fields[type][k], rec[k])
      BY <1>1 DEF Carried
    <2>2. RoundTrips(type, rec)
      BY <2>1, RecordRoundTrip
    <2> QED
      BY <2>2 DEF RoundTrips, WireRoundTrip
  <1> QED
    BY <1>1, CarriedAlways, PTL

\* A record only ever changes into one its validator accepts: config_set_<type>
\* checks the whole record before it stores any of it.
THEOREM OnlyLegalChanges == RecordSpec => ChangesAreLegal
  <1> DEFINE Legal == rec' # rec => IllegalFields(type, rec') = {}
  <1>1. Carried /\ [RecordNext]_recordVars => [Legal]_vars
    <2> SUFFICES ASSUME Carried, [RecordNext]_recordVars PROVE [Legal]_vars
      OBVIOUS
    <2>1. CASE ApplyField
      <3>1. PICK item \in Nat, param \in Nat : \E v \in Requested(type, param) :
                 rec' = Apply(type, rec, item, param, v).rec
        BY <2>1, Applied
      <3>2. PICK v \in Requested(type, param) : rec' = Apply(type, rec, item, param, v).rec
        BY <3>1
      <3>3. rec' # rec => Validate(type, rec')
        BY <3>2, Outcome DEF Carried
      <3> QED
        BY <3>3 DEF Validate
    <2>2. CASE PowerCycle
      BY <2>2, CycleChangesNothing
    <2>3. CASE PatchRecord
      <3>1. rec' # rec => \E obj : rec' \in Patched(type, obj, rec)
        BY <2>3, PatchStep
      <3> QED
        BY <3>1, Accepted DEF Validate
    <2>4. CASE UNCHANGED recordVars
      BY <2>4 DEF recordVars
    <2> QED
      BY <2>1, <2>2, <2>3, <2>4 DEF RecordNext
  <1> QED
    BY <1>1, CarriedAlways, PTL DEF RecordSpec, ChangesAreLegal

\* apply_<type> stores a value of the field's range exactly and touches no other
\* field, and refuses it only for another field that is already illegal.
THEOREM RequestsAreExact == RecordSpec => RequestsApplyExactly
  <1> DEFINE Exact ==
        (left' < left /\ last' # NoRequest) =>
        /\ (Addressed(last') /\ InRange(Fields[type][FieldOf(last')], last'.v)) =>
              IF IllegalFields(type, rec) \subseteq {FieldOf(last')}
              THEN last'.status = "OK" /\ rec' = [rec EXCEPT ![FieldOf(last')] = last'.v]
              ELSE last'.status = "INVALID"
        /\ last'.status # "OK" => rec' = rec
  <1>1. Carried /\ [RecordNext]_recordVars => [Exact]_vars
    <2> SUFFICES ASSUME Carried, [RecordNext]_recordVars PROVE Exact \/ UNCHANGED vars
      OBVIOUS
    <2>1. CASE ApplyField
      <3>1. PICK item \in Nat, param \in Nat : \E v \in Requested(type, param) :
                 /\ rec' = Apply(type, rec, item, param, v).rec
                 /\ last' = [item |-> item, param |-> param, v |-> v,
                             status |-> Apply(type, rec, item, param, v).status]
        BY <2>1, Applied
      <3>2. PICK v \in Requested(type, param) :
                 /\ rec' = Apply(type, rec, item, param, v).rec
                 /\ last' = [item |-> item, param |-> param, v |-> v,
                             status |-> Apply(type, rec, item, param, v).status]
        BY <3>1
      <3> DEFINE k == Params[type][param + 1]
                 f == Fields[type][k]
                 new == Made(type, rec, param, v)
      <3>3. /\ last'.item = item /\ last'.param = param /\ last'.v = v
            /\ last'.status = Apply(type, rec, item, param, v).status
        BY <3>2
      <3>4. last'.status # "OK" => rec' = rec
        BY <3>2, <3>3, Outcome DEF Carried
      <3>5. Addressed(last') <=> Reaches(type, item, param)
        BY <3>3 DEF Addressed, Reaches
      <3>6. FieldOf(last') = k
        BY <3>3 DEF FieldOf
      <3>7. ASSUME Reaches(type, item, param), InRange(f, v)
            PROVE  IF IllegalFields(type, rec) \subseteq {k}
                   THEN last'.status = "OK" /\ rec' = [rec EXCEPT ![k] = v]
                   ELSE last'.status = "INVALID"
        <4>1. k \in DOMAIN Fields[type]
          BY <3>7, ParamsHold DEF Carried, Reaches
        <4>2. Cast(f, v) = v /\ v \in f.legal
          BY <3>7, <4>1, CastExact, MembersHold DEF Carried, Members, InRange
        <4>3. new = [rec EXCEPT ![k] = v]
          BY <4>2 DEF Made
        <4> HIDE DEF new, k
        <4>4. /\ DOMAIN rec = DOMAIN Fields[type] /\ DOMAIN new = DOMAIN rec
              /\ \A l \in DOMAIN rec : new[l] = IF l = k THEN v ELSE rec[l]
          BY <4>1, <4>3 DEF Carried
        <4>5. IllegalFields(type, new) = IllegalFields(type, rec) \ {k}
          BY <4>2, <4>4 DEF IllegalFields
        <4>6. Validate(type, new) <=> IllegalFields(type, rec) \subseteq {k}
          BY <4>5 DEF Validate
        <4>7. Apply(type, rec, item, param, v) =
                IF Validate(type, new) THEN [status |-> "OK", rec |-> new]
                                       ELSE [status |-> "INVALID", rec |-> rec]
          BY <3>7, Outcome DEF Carried, new
        <4> QED
          BY <3>2, <3>3, <4>3, <4>6, <4>7
      <3> HIDE DEF k, f
      <3> QED
        BY <3>3, <3>4, <3>5, <3>6, <3>7 DEF f
    <2>2. CASE PowerCycle
      BY <2>2 DEF PowerCycle, Carried
    <2>3. CASE PatchRecord
      BY <2>3 DEF PatchRecord
    <2>4. CASE UNCHANGED recordVars
      BY <2>4 DEF recordVars
    <2> QED
      BY <2>1, <2>2, <2>3, <2>4 DEF RecordNext
  <1> QED
    BY <1>1, CarriedAlways, PTL DEF RecordSpec, RequestsApplyExactly

------------------------------------------------------------------------------
(* Exports, and what documents ask for.                                    *)

LEMMA PatchByKind ==
  ASSUME NEW t, NEW k, NEW old, NEW v, v # Null
  PROVE  LET f == Fields[t][k]
         IN /\ f.kind = "enum" => PatchField(t, k, old, v) = EnumFromJson(t, k, v)
            /\ f.kind = "name" /\ v.j = "string" => PatchField(t, k, old, v) = {v.s} \cap f.legal
            /\ f.kind = "flag" /\ v.j = "bool" => PatchField(t, k, old, v) = {IF v.b THEN 1 ELSE 0}
            /\ f.kind \in {"unsigned", "signed"} /\ v.j = "number" =>
                  PatchField(t, k, old, v) = PatchNumber(f, v)
  BY DEF PatchField

LEMMA PatchFlag ==
  ASSUME NEW t, NEW k, NEW old, Fields[t][k].kind = "flag"
  PROVE  PatchField(t, k, old, Bool(TRUE)) = {1} /\ PatchField(t, k, old, Bool(FALSE)) = {0}
  BY DEF PatchField, Bool, Null

\* A field goes into a document and comes back, unless its value has no name.
LEMMA ExportedField ==
  ASSUME NEW t \in Types, NEW k \in DOMAIN Fields[t], NEW v \in Int,
         OnWire(Fields[t][k], v), NEW old,
         Fields[t][k].kind = "enum" => v \in Named(t, k)
  PROVE  PatchField(t, k, old, BuildValue(t, k, v)) = {v}
  <1> DEFINE f == Fields[t][k]
  <1>1. IsField(f)
    BY MembersHold DEF Members
  <1>2. Fits(f, v)
    BY <1>1, OnWireFits
  <1>3. Named(t, k) \subseteq f.legal
    BY DEF Named, Fields, Enum
  <1>4. CASE f.kind = "name"
    <2>1. BuildValue(t, k, v) = String(v) /\ v \in f.legal
      BY <1>1, <1>4 DEF BuildValue, OnWire, IsField
    <2> QED
      BY <1>4, <2>1 DEF PatchField, String, Null
  <1>5. CASE f.kind = "enum"
    <2>1. BuildValue(t, k, v) = String(v) /\ v \in Named(t, k)
      BY <1>5 DEF BuildValue
    <2> QED
      BY <1>3, <1>5, <2>1 DEF PatchField, EnumFromJson, String, Null
  <1>6. CASE f.kind = "flag"
    <2>1. BuildValue(t, k, v) = Bool(v = 1) /\ v \in {0, 1}
      BY <1>6 DEF BuildValue, OnWire
    <2>2. PatchField(t, k, old, Bool(TRUE)) = {1} /\ PatchField(t, k, old, Bool(FALSE)) = {0}
      BY <1>6, PatchFlag
    <2>3. CASE v = 1
      <3>1. (v = 1) = TRUE
        BY <2>3
      <3>2. BuildValue(t, k, v) = Bool(TRUE)
        BY <2>1, <3>1, Zenon
      <3> QED
        BY <2>2, <2>3, <3>2
    <2>4. CASE v = 0
      <3>1. (v = 1) = FALSE
        BY <2>4
      <3>2. BuildValue(t, k, v) = Bool(FALSE)
        BY <2>1, <3>1, Zenon
      <3> QED
        BY <2>2, <2>4, <3>2
    <2> QED
      BY <2>1, <2>3, <2>4
  <1>7. CASE f.kind \in {"unsigned", "signed"}
    <2>1. BuildValue(t, k, v) = Number(v, FALSE)
      BY <1>7 DEF BuildValue
    <2>2. f.kind = "unsigned" => v >= 0
      BY <1>1, WireRange DEF IsField, UpperHalf
    <2>3. PatchNumber(f, Number(v, FALSE)) = {v}
      BY <1>2, <2>2 DEF PatchNumber, WithinLimits, Truncated, Number
    <2> DEFINE w == BuildValue(t, k, v)
    <2>4. w # Null /\ w.j = "number"
      BY <2>1 DEF Number, Null
    <2>5. PatchNumber(f, w) = {v}
      BY <2>1, <2>3, Zenon
    <2> HIDE DEF w
    <2>6. PatchField(t, k, old, w) = {v}
      BY <1>7, <2>4, <2>5, PatchByKind
    <2> QED
      BY <2>6 DEF w
  <1> QED
    BY <1>1, <1>4, <1>5, <1>6, <1>7 DEF IsField

RestoresOverAny == \A base : DOMAIN base = DOMAIN rec => RestoresOver(base)

\* build_<type>'s object brings the record back over any record of the type that the
\* cache may hold by then, but for enum values without a name, where the record
\* below shows through; it is refused for an illegal number, and for an illegal
\* value that shows through.  The records that the run fields tries are some of them.
THEOREM ExportsRestore == RecordSpec => [](JsonRestores /\ RestoresOverAny)
  <1>1. ASSUME Carried, NEW base, DOMAIN base = DOMAIN rec PROVE RestoresOver(base)
    <2> DEFINE obj == Build(type, rec)
               U == Unnamed(type, rec)
               new == [k \in DOMAIN rec |-> IF k \in U THEN base[k] ELSE rec[k]]
    <2>1. type \in Types /\ DOMAIN rec = DOMAIN Fields[type] /\ DOMAIN base = DOMAIN rec
      BY <1>1 DEF Carried
    <2>2. DOMAIN obj = DOMAIN rec \ U
      BY DEF Build
    <2>3. \A k \in DOMAIN obj : obj[k] = BuildValue(type, k, rec[k])
      BY DEF Build
    <2>4. \A k \in DOMAIN rec : new[k] = IF k \in U THEN base[k] ELSE rec[k]
      OBVIOUS
    <2>5. /\ DOMAIN new = DOMAIN base
          /\ new = [k \in DOMAIN base |-> new[k]]
      BY <2>1
    <2> HIDE DEF obj, new
    <2>6. ASSUME NEW k \in DOMAIN base
          PROVE  Wanted(type, obj, base, k) = {new[k]}
      <3>1. CASE k \in U
        BY <2>1, <2>2, <2>4, <3>1 DEF Wanted
      <3>2. CASE k \notin U
        <4>1. k \in DOMAIN obj /\ obj[k] = BuildValue(type, k, rec[k]) /\ new[k] = rec[k]
          BY <2>1, <2>2, <2>3, <2>4, <3>2
        <4>2. Fields[type][k].kind = "enum" => rec[k] \in Named(type, k)
          BY <2>1, <3>2 DEF Unnamed
        <4>3. k \in DOMAIN Fields[type] /\ rec[k] \in Int /\ OnWire(Fields[type][k], rec[k])
          BY <1>1, <2>1 DEF Carried
        <4>4. PatchField(type, k, base[k], BuildValue(type, k, rec[k])) = {rec[k]}
          BY <2>1, <4>2, <4>3, ExportedField
        <4> QED
          BY <4>1, <4>4 DEF Wanted
      <3> QED
        BY <3>1, <3>2
    <2>7. Patched(type, obj, base) = IF Validate(type, new) THEN {new} ELSE {}
      BY <2>5, <2>6, PatchedIs
    \* What is illegal in the outcome comes from the exported record or from below.
    <2>8. IllegalFields(type, new) =
             (IllegalFields(type, rec) \ U) \cup (IllegalFields(type, base) \cap U)
      BY <2>1, <2>4, <2>5 DEF IllegalFields
    <2> QED
      BY <2>7, <2>8 DEF RestoresOver, Validate, obj, new
  <1>2. ASSUME Carried PROVE JsonRestores
    <2> SUFFICES ASSUME NEW base \in OtherRecords(type) PROVE RestoresOver(base)
      BY DEF JsonRestores
    <2>1. Layout(type) /\ DOMAIN rec = DOMAIN Fields[type]
      BY <1>2, LayoutHold DEF Carried
    <2>2. DOMAIN Defaults[type] = DOMAIN rec
      BY <2>1 DEF Layout
    <2>3. DOMAIN base = DOMAIN Defaults[type]
      BY DEF OtherRecords
    <2> QED
      BY <1>1, <1>2, <2>2, <2>3
  <1>3. Carried => JsonRestores /\ RestoresOverAny
    BY <1>1, <1>2 DEF RestoresOverAny
  <1> QED
    BY <1>3, CarriedAlways, PTL

\* The value a document writes is the one it asks for.
LEMMA PatchExact ==
  ASSUME NEW t \in Types, NEW k \in DOMAIN Fields[t], NEW old, NEW v, IsJson(v), v # Null,
         NEW new \in PatchField(t, k, old, v)
  PROVE  IsFraction(v) \/ AsksFor(t, k, v) = {new}
  <1> DEFINE f == Fields[t][k]
  <1>1. IsField(f)
    BY MembersHold DEF Members
  <1>2. CASE \E b \in BOOLEAN : v = Bool(b)
    <2>1. PICK b \in BOOLEAN : v = Bool(b)
      BY <1>2
    <2>2. f.kind = "flag" /\ new = IF b THEN 1 ELSE 0
      BY <1>1, <2>1 DEF PatchField, EnumFromJson, IsField, Bool
    <2> QED
      BY <2>1, <2>2 DEF AsksFor, Bool
  <1>3. CASE \E n \in Int, half \in BOOLEAN : v = Number(n, half)
    <2>1. PICK n \in Int, half \in BOOLEAN : v = Number(n, half)
      BY <1>3
    <2>2. CASE half
      BY <2>1, <2>2 DEF IsFraction, Number
    <2>3. CASE ~half
      <3>1. Truncated(v) = n
        BY <2>1, <2>3 DEF Truncated, Number
      <3>2. f.kind \in {"unsigned", "signed", "enum"} /\ new = n
        BY <1>1, <2>1, <3>1 DEF PatchField, EnumFromJson, PatchNumber, IsField, Number
      <3> QED
        BY <2>1, <2>3, <3>2 DEF AsksFor, Number
    <2> QED
      BY <2>2, <2>3
  <1>4. CASE \E s \in Nat : v = String(s)
    <2>1. PICK s \in Nat : v = String(s)
      BY <1>4
    <2>2. \/ f.kind = "name" /\ new = s
          \/ f.kind = "enum" /\ new = s /\ s \in Named(t, k)
      BY <1>1, <2>1 DEF PatchField, EnumFromJson, IsField, String
    <2> QED
      BY <2>1, <2>2 DEF AsksFor, String
  <1> QED
    BY <1>2, <1>3, <1>4 DEF IsJson

\* A value is refused only if its field cannot take it.
LEMMA PatchRefuses ==
  ASSUME NEW t \in Types, NEW k \in DOMAIN Fields[t], NEW old, NEW v, IsJson(v), v # Null,
         PatchField(t, k, old, v) = {},
         NEW w \in AsksFor(t, k, v)
  PROVE  ~InRange(Fields[t][k], w)
  <1> DEFINE f == Fields[t][k]
  <1>1. IsField(f)
    BY MembersHold DEF Members
  <1> SUFFICES ASSUME InRange(f, w) PROVE FALSE
    OBVIOUS
  <1>2. w \in f.legal /\ Fits(f, w)
    BY DEF InRange
  <1>3. CASE \E b \in BOOLEAN : v = Bool(b)
    <2>1. PICK b \in BOOLEAN : v = Bool(b)
      BY <1>3
    <2>2. f.kind = "flag"
      BY <1>1, <2>1 DEF AsksFor, IsField, Bool
    <2> QED
      BY <2>1, <2>2 DEF PatchField, Bool
  <1>4. CASE \E n \in Int, half \in BOOLEAN : v = Number(n, half)
    <2>1. PICK n \in Int, half \in BOOLEAN : v = Number(n, half)
      BY <1>4
    <2>2. f.kind \in {"unsigned", "signed", "enum"} /\ ~half /\ w = n
      BY <1>1, <2>1 DEF AsksFor, IsField, Number
    <2>3. Truncated(v) = n /\ v.j = "number" /\ v.n = n /\ ~v.half
      BY <2>1, <2>2 DEF Truncated, Number
    <2>4. CASE f.kind = "enum"
      BY <1>2, <2>2, <2>3, <2>4 DEF PatchField, EnumFromJson
    <2>5. CASE f.kind \in {"unsigned", "signed"}
      <3>1. f.kind = "unsigned" => n >= 0
        BY <1>1, <1>2, <2>2 DEF IsField
      <3>2. WithinLimits(f, v)
        BY <1>2, <2>2, <2>3, <3>1 DEF WithinLimits
      <3> QED
        BY <2>3, <2>5, <3>2 DEF PatchField, PatchNumber
    <2> QED
      BY <2>2, <2>4, <2>5
  <1>5. CASE \E s \in Nat : v = String(s)
    <2>1. PICK s \in Nat : v = String(s)
      BY <1>5
    <2>2. \/ f.kind = "name" /\ w = s
          \/ f.kind = "enum" /\ w = s /\ s \in Named(t, k)
      BY <1>1, <2>1 DEF AsksFor, IsField, String
    <2> QED
      BY <1>2, <2>1, <2>2 DEF PatchField, EnumFromJson, String
  <1> QED
    BY <1>3, <1>4, <1>5 DEF IsJson

\* A document that is refused asks for a value its field cannot take, or leaves
\* an illegal field unmentioned.
LEMMA RefusedFor ==
  ASSUME NEW t \in Types, NEW r, DOMAIN r = DOMAIN Fields[t],
         NEW obj, DOMAIN obj \subseteq DOMAIN r, \A k \in DOMAIN obj : IsJson(obj[k]),
         Patched(t, obj, r) = {}
  PROVE  \/ \E k \in DOMAIN obj :
              obj[k] # Null /\ ~\E w \in AsksFor(t, k, obj[k]) : InRange(Fields[t][k], w)
         \/ ~(IllegalFields(t, r) \subseteq {k \in DOMAIN obj : obj[k] # Null})
  <1>1. CASE \E k \in DOMAIN r : Wanted(t, obj, r, k) = {}
    <2>1. PICK k \in DOMAIN r : Wanted(t, obj, r, k) = {}
      BY <1>1
    <2>2. k \in DOMAIN obj /\ PatchField(t, k, r[k], obj[k]) = {}
      BY <2>1 DEF Wanted
    <2>3. obj[k] # Null
      BY <2>2 DEF PatchField
    <2> QED
      BY <2>2, <2>3, PatchRefuses
  <1>2. CASE \A k \in DOMAIN r : Wanted(t, obj, r, k) # {}
    <2> DEFINE new == [k \in DOMAIN r |-> CHOOSE x \in Wanted(t, obj, r, k) : TRUE]
    <2>1. \A k \in DOMAIN r : new[k] \in Wanted(t, obj, r, k)
      BY <1>2
    <2>2. DOMAIN new = DOMAIN r /\ new = [k \in DOMAIN r |-> new[k]]
      OBVIOUS
    <2> HIDE DEF new
    <2>3. \A k \in DOMAIN r : \A x, y \in Wanted(t, obj, r, k) : x = y
      BY PatchIsOne DEF Wanted
    <2>4. \A k \in DOMAIN r : Wanted(t, obj, r, k) = {new[k]}
      BY <2>1, <2>3
    <2>5. ~Validate(t, new)
      BY <2>2, <2>4, PatchedIs
    <2>6. PICK k \in DOMAIN r : new[k] \notin Fields[t][k].legal
      BY <2>2, <2>5 DEF Validate, IllegalFields
    <2>7. CASE k \in DOMAIN obj /\ obj[k] # Null
      <3>1. new[k] \in PatchField(t, k, r[k], obj[k])
        BY <2>1, <2>7 DEF Wanted
      <3>2. IsFraction(obj[k]) \/ AsksFor(t, k, obj[k]) = {new[k]}
        BY <2>7, <3>1, PatchExact
      <3>3. IsFraction(obj[k]) => AsksFor(t, k, obj[k]) = {}
        BY DEF IsFraction, AsksFor
      <3>4. ~\E w \in AsksFor(t, k, obj[k]) : InRange(Fields[t][k], w)
        BY <2>6, <3>2, <3>3 DEF InRange
      <3> QED
        BY <2>7, <3>4
    <2>8. CASE ~(k \in DOMAIN obj /\ obj[k] # Null)
      <3>1. new[k] = r[k]
        BY <2>1, <2>8 DEF Wanted, PatchField
      <3> QED
        BY <2>6, <2>8, <3>1 DEF IllegalFields
    <2> QED
      BY <2>7, <2>8
  <1> QED
    BY <1>1, <1>2

\* A document config_json.c accepts leaves each field it names with the value it asks
\* for and the others alone; one it refuses changes nothing, and has a reason.
THEOREM DocumentsAreExact == RecordSpec => JsonAppliesExactly
  <1> DEFINE Exact ==
        (left' < left /\ patch' # NoPatch) =>
        LET obj == patch'.obj
            asked == {k \in DOMAIN obj : obj[k] # Null}
            CannotTake(k) == ~\E v \in AsksFor(type, k, obj[k]) : InRange(Fields[type][k], v)
        IN IF patch'.status = "accepted"
           THEN \A k \in DOMAIN rec :
                   IF k \notin asked THEN rec'[k] = rec[k]
                   ELSE IsFraction(obj[k]) \/ AsksFor(type, k, obj[k]) = {rec'[k]}
           ELSE /\ rec' = rec
                /\ \/ \E k \in asked : CannotTake(k)
                   \/ ~(IllegalFields(type, rec) \subseteq asked)
  <1>1. Carried /\ [RecordNext]_recordVars => [Exact]_recordVars
    <2> SUFFICES ASSUME Carried, [RecordNext]_recordVars PROVE Exact \/ UNCHANGED recordVars
      OBVIOUS
    <2>1. CASE ApplyField /\ patch' = NoPatch
      BY <2>1
    <2>2. CASE PowerCycle /\ patch' = NoPatch
      BY <2>2
    <2>3. CASE PatchRecord
      <3>1. PICK obj \in AnyObject(type, rec) :
              /\ DOMAIN obj \subseteq DOMAIN rec /\ \A k \in DOMAIN obj : IsJson(obj[k])
              /\ IF Patched(type, obj, rec) = {}
                 THEN rec' = rec /\ patch' = [obj |-> obj, status |-> "rejected"]
                 ELSE /\ rec' \in Patched(type, obj, rec)
                      /\ patch' = [obj |-> obj, status |-> "accepted"]
        BY <2>3, PatchStep
      <3>2. type \in Types /\ DOMAIN rec = DOMAIN Fields[type]
        BY DEF Carried
      <3>3. CASE Patched(type, obj, rec) = {}
        <4>1. patch'.obj = obj /\ patch'.status = "rejected" /\ rec' = rec
          BY <3>1, <3>3
        <4>2. \/ \E k \in DOMAIN obj :
                   /\ obj[k] # Null
                   /\ ~\E w \in AsksFor(type, k, obj[k]) : InRange(Fields[type][k], w)
              \/ ~(IllegalFields(type, rec) \subseteq {k \in DOMAIN obj : obj[k] # Null})
          BY <3>1, <3>2, <3>3, RefusedFor
        <4> QED
          BY <4>1, <4>2
      <3>4. CASE Patched(type, obj, rec) # {}
        <4>1. patch'.obj = obj /\ patch'.status = "accepted"
          BY <3>1, <3>4
        <4>2. \A k \in DOMAIN rec : rec'[k] \in Wanted(type, obj, rec, k)
          BY <3>1, <3>4, Accepted
        <4>3. ASSUME NEW k \in DOMAIN rec, ~(k \in DOMAIN obj /\ obj[k] # Null)
              PROVE  rec'[k] = rec[k]
          BY <4>2, <4>3 DEF Wanted, PatchField
        <4>4. ASSUME NEW k \in DOMAIN rec, k \in DOMAIN obj, obj[k] # Null
              PROVE  IsFraction(obj[k]) \/ AsksFor(type, k, obj[k]) = {rec'[k]}
          <5>1. rec'[k] \in PatchField(type, k, rec[k], obj[k])
            BY <4>2, <4>4 DEF Wanted
          <5>2. IsJson(obj[k])
            BY <3>1, <4>4
          <5> QED
            BY <3>2, <4>4, <5>1, <5>2, PatchExact
        <4> QED
          BY <4>1, <4>3, <4>4
      <3> QED
        BY <3>3, <3>4
    <2>4. CASE UNCHANGED recordVars
      BY <2>4
    <2> QED
      BY <2>1, <2>2, <2>3, <2>4 DEF RecordNext
  <1> QED
    BY <1>1, CarriedAlways, PTL DEF RecordSpec, JsonAppliesExactly
===============================================================================
