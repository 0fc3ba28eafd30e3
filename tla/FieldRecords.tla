----------------------------- MODULE FieldRecords -----------------------------
(***************************************************************************)
(* One configuration record under single-field requests: the struct types  *)
(* of config_types.h, the narrowing casts of eeprom_manager.c's appliers,  *)
(* the validators of config.c and the wire format of config_codec.c.       *)
(*                                                                         *)
(* Every type is a table: its fields in wire order.  A field is described  *)
(* by its kind, its bytes in the struct, its bytes on the wire and the     *)
(* values its validator accepts.  Booleans are 0 and 1; a name is its      *)
(* length, the number of characters before the terminating NUL.  Integers  *)
(* have their C widths; a width of 32 bits is stated by the upper half,    *)
(* as the checker's own integers end at 2^31 - 1.                          *)
(*                                                                         *)
(* Decoding validates nothing, so the record may also have been left by    *)
(* another firmware, with fields this one's validator refuses.             *)
(***************************************************************************)
EXTENDS Integers, Sequences, FiniteSets

CONSTANTS
    UValues,     \* what requests put in the unsigned arm of the value union
    IValues,     \* what they put in the signed arm
    ForeignValues, \* what another firmware may have left in a numeric field
    MaxForeign,  \* bound: fields of the record it left illegal
    MaxRequests  \* bound: requests in a behaviour

UpperHalf(v) == v \div 65536

\* The arms of the union are uint32_t and int32_t.
ASSUME FieldRecordsConstants ==
    /\ UValues \subseteq Nat /\ \A v \in UValues : UpperHalf(v) <= 65535
    /\ IValues \subseteq Int /\ \A v \in IValues : -32768 <= UpperHalf(v) /\ UpperHalf(v) <= 32767
    /\ ForeignValues \subseteq Nat
    /\ MaxForeign \in Nat
    /\ MaxRequests \in Nat

NameLen == 16    \* CONFIG_NAME_LEN

------------------------------------------------------------------------------
(* config_types.h and config_defaults.c: the eight record types.           *)

\* The last argument is the range the type's validator checks.
Unsigned(bytes, legal) == [kind |-> "unsigned", bytes |-> bytes, wire |-> bytes, legal |-> legal]
Signed(bytes, legal) == [kind |-> "signed", bytes |-> bytes, wire |-> bytes, legal |-> legal]
Enum(count) == [kind |-> "enum", bytes |-> 4, wire |-> 1, legal |-> 0 .. count - 1]
Flag == [kind |-> "flag", bytes |-> 1, wire |-> 1, legal |-> {0, 1}]
Name == [kind |-> "name", bytes |-> NameLen, wire |-> NameLen, legal |-> 0 .. NameLen - 1]

U16 == Unsigned(2, Nat)
U32 == Unsigned(4, Nat)
I32 == Signed(4, Int)
Permille == Unsigned(2, 0 .. 1000)
FaultState == Enum(3)
NonZero == Int \ {0}

Fields == [
    DI     |-> <<Name, U16, U16, Enum(2), FaultState, Flag>>,
    DO     |-> <<Name, U16, Enum(2), FaultState>>,
    TC     |-> <<Name, U16, Enum(8), Enum(3), Flag, U16, FaultState, Signed(2, Int)>>,
    AI     |-> <<Name, U16, Enum(3), U16, I32, Signed(4, NonZero), I32, FaultState, I32>>,
    AO     |-> <<Name, U16, Enum(2), U16, I32, Signed(4, NonZero), I32, FaultState, I32>>,
    PCNT   |-> <<Name, U16, Enum(2), Enum(3), U32, Flag>>,
    PWM    |-> <<Name, U16, Unsigned(4, Nat \ {0}), Permille, FaultState, Permille>>,
    SYSTEM |-> <<Unsigned(1, 1 .. 127), Enum(4), U16, U32, Enum(2),
                 Unsigned(4, Nat \ (1 .. 128))>>]

Types == DOMAIN Fields

Defaults == [
    DI     |-> <<0, 0, 10, 0, 0, 0>>,
    DO     |-> <<0, 0, 0, 1>>,
    TC     |-> <<0, 0, 0, 0, 1, 100, 0, 0>>,
    AI     |-> <<0, 0, 0, 10, 1, 1, 0, 0, 0>>,
    AO     |-> <<0, 0, 0, 0, 1, 1, 0, 1, 0>>,
    PCNT   |-> <<0, 0, 0, 0, 0, 0>>,
    PWM    |-> <<0, 0, 10000, 0, 1, 0>>,
    SYSTEM |-> <<1, 2, 1000, 1000, 0, 0>>]

\* config_limits.h: channels of each type; the system record is not indexed.
Channels == [DI |-> 16, DO |-> 16, TC |-> 4, AI |-> 8, AO |-> 4, PCNT |-> 4, PWM |-> 4]

\* eeprom_manager.h: param p (from 0) names the field at Params[t][p + 1].  All
\* the fields in order, but for an analogue output's slew rate and scaling.
Params == [t \in Types |->
    IF t = "AO" THEN <<1, 2, 3, 8, 9>> ELSE [k \in DOMAIN Fields[t] |-> k]]

------------------------------------------------------------------------------
VARIABLES
    type,  \* the record's type
    rec,   \* its field values, in wire order
    last,  \* the last request and its status
    left   \* requests left of the bound

vars == <<type, rec, last, left>>

NoRequest == [item |-> 0, param |-> 0, v |-> 0, status |-> "none"]

\* The fields the record's validator would refuse.
IllegalFields(t, r) == {k \in DOMAIN r : r[k] \notin Fields[t][k].legal}

\* Does v lie in the range of an integer of so many bytes?  (Of four: does its
\* upper half lie in that of two.  A signed one has two or four.)
Within(f, bytes, v) ==
    LET top == IF bytes = 4 THEN UpperHalf(v) ELSE v
    IN CASE f.kind = "name" -> v \in 0 .. NameLen
         [] f.kind = "signed" -> -32768 <= top /\ top <= 32767
         [] OTHER -> 0 <= top /\ top <= IF bytes = 1 THEN 255 ELSE 65535

\* The C range of the member.
Fits(f, v) == Within(f, f.bytes, v)

\* What a boot finds: the factory record, or one with values its wire format
\* carries and this firmware refuses, in at most MaxForeign fields.
\* decode_<type> looks at lengths only.  (A decoded name is always terminated, a
\* decoded flag 0 or 1.)
Refused(f) == {v \in ForeignValues : Within(f, f.wire, v)} \ f.legal
Spoilable(t) == {k \in DOMAIN Fields[t] : Fields[t][k].kind \notin {"name", "flag"}}
Spoilt(t, K) ==
    {[k \in DOMAIN Fields[t] |-> IF k \in K THEN old[k] ELSE Defaults[t][k]] :
        old \in {v \in [K -> ForeignValues] : \A k \in K : v[k] \in Refused(Fields[t][k])}}
Booted(t) == UNION {Spoilt(t, K) : K \in {J \in SUBSET Spoilable(t) : Cardinality(J) <= MaxForeign}}

Init ==
    /\ type \in Types
    /\ rec \in Booted(type)
    /\ last = NoRequest
    /\ left = MaxRequests

------------------------------------------------------------------------------
(* eeprom_manager.c: apply_<type> and the setter it ends in.               *)

\* A plausible slip: the value is stored as wide as it came.
NotNarrowed(v, bytes) == v
\* The cast that stores a requested value: modulo the width of the member,
\* read as two's complement when the member is signed; a name is cut.
Wrap(v, bytes) ==
    CASE bytes = 1 -> v % 256
      [] bytes = 2 -> v % 65536
      [] OTHER -> v
\* A plausible slip: the sign of a narrowed value is lost.
SignLost(v, bytes) == v
AsSigned(v, bytes) ==
    CASE bytes = 1 -> IF v >= 128 THEN v - 256 ELSE v
      [] bytes = 2 -> IF v >= 32768 THEN v - 65536 ELSE v
      [] OTHER -> v
Cast(f, v) ==
    CASE f.kind = "name" -> IF v < NameLen THEN v ELSE NameLen - 1
      [] f.kind = "signed" -> AsSigned(Wrap(v, f.bytes), f.bytes)
      [] OTHER -> Wrap(v, f.bytes)

Validate(t, r) == IllegalFields(t, r) = {}

\* A plausible slip: neither the index nor the record is checked.
ApplyUnchecked(t, r, item, param, v) ==
    IF param >= Len(Params[t]) THEN [status |-> "INVALID", rec |-> r]
    ELSE LET k == Params[t][param + 1]
         IN [status |-> "OK", rec |-> [r EXCEPT ![k] = Cast(Fields[t][k], v)]]

\* The status of a request, and the record it leaves.
Apply(t, r, item, param, v) ==
    IF t # "SYSTEM" /\ item >= Channels[t] THEN [status |-> "INDEX", rec |-> r]
    ELSE IF param >= Len(Params[t]) THEN [status |-> "INVALID", rec |-> r]
    ELSE LET k == Params[t][param + 1]
             new == [r EXCEPT ![k] = Cast(Fields[t][k], v)]
         IN IF Validate(t, new) THEN [status |-> "OK", rec |-> new]
                                ELSE [status |-> "INVALID", rec |-> r]

Requested(t, param) ==
    IF param >= Len(Params[t]) THEN {0}
    ELSE LET f == Fields[t][Params[t][param + 1]]
         IN CASE f.kind = "name" -> {0, NameLen - 1, NameLen}
              [] f.kind = "flag" -> {0, 1}
              [] f.kind = "signed" -> IValues
              [] OTHER -> UValues

\* The last channel and the one after it; apply_system ignores the item.
Items(t) == IF t = "SYSTEM" THEN {255} ELSE {Channels[t] - 1, Channels[t]}

ApplyField ==
    /\ left > 0
    /\ left' = left - 1
    /\ \E item \in Items(type), param \in 0 .. Len(Params[type]) :
          \E v \in Requested(type, param) :
             LET done == Apply(type, rec, item, param, v)
             IN /\ rec' = done.rec
                /\ last' = [item |-> item, param |-> param, v |-> v, status |-> done.status]
    /\ UNCHANGED type

------------------------------------------------------------------------------
(* config_codec.c: a record's bytes, least significant byte first.         *)

\* CONFIG_CODEC_<type>_WIRE_SIZE, and where each field begins: where the one
\* before it ends, without padding.
WireSize == [DI |-> 23, DO |-> 20, TC |-> 26, AI |-> 38, AO |-> 38, PCNT |-> 25, PWM |-> 27,
             SYSTEM |-> 13]
Offset == [
    DI     |-> <<0, 16, 18, 20, 21, 22>>,
    DO     |-> <<0, 16, 18, 19>>,
    TC     |-> <<0, 16, 18, 19, 20, 21, 23, 24>>,
    AI     |-> <<0, 16, 18, 19, 21, 25, 29, 33, 34>>,
    AO     |-> <<0, 16, 18, 19, 21, 25, 29, 33, 34>>,
    PCNT   |-> <<0, 16, 18, 19, 20, 24>>,
    PWM    |-> <<0, 16, 18, 22, 24, 25>>,
    SYSTEM |-> <<0, 1, 2, 4, 8, 9>>]

Place == <<1, 256, 65536, 16777216>>

Byte(v, i) == (v \div Place[i]) % 256

\* Byte i of a field.  The characters of a name are 1 here, its padding 0.
PutField(f, v, i) ==
    IF f.kind = "name" THEN (IF i <= v THEN 1 ELSE 0) ELSE Byte(v, i)

\* The field that byte i of the record belongs to.
FieldAt(t, i) ==
    CHOOSE k \in DOMAIN Fields[t] : i \in Offset[t][k] + 1 .. Offset[t][k] + Fields[t][k].wire

Encode(t, r) ==
    [i \in 1 .. WireSize[t] |->
        LET k == FieldAt(t, i) IN PutField(Fields[t][k], r[k], i - Offset[t][k])]

Characters(f, b) == Cardinality({i \in 1 .. f.wire - 1 : b[i] # 0})

\* A plausible slip: a signed field is read back as unsigned.
GetFieldUnsigned(f, b) ==
    CASE f.kind = "name" -> Characters(f, b)
      [] f.wire = 1 -> b[1]
      [] f.wire = 2 -> b[1] + 256 * b[2]
      [] OTHER -> b[1] + 256 * b[2] + 65536 * b[3] + 16777216 * (b[4] % 128)

\* The top byte of a signed field carries the sign.
Top(f, x) == IF f.kind = "signed" /\ x >= 128 THEN x - 256 ELSE x

\* The last byte of a name is overwritten with NUL, any non-zero byte is true.
GetField(f, b) ==
    CASE f.kind = "name" -> Characters(f, b)
      [] f.kind = "flag" -> IF b[1] # 0 THEN 1 ELSE 0
      [] f.kind \notin {"name", "flag"} /\ f.wire = 1 -> Top(f, b[1])
      [] f.kind \notin {"name", "flag"} /\ f.wire = 2 -> b[1] + 256 * Top(f, b[2])
      [] OTHER -> b[1] + 256 * b[2] + 65536 * b[3] + 16777216 * Top(f, b[4])

\* Bytes beyond the record's wire size are ignored.
Decode(t, b) ==
    [k \in DOMAIN Fields[t] |->
        GetField(Fields[t][k], [i \in 1 .. Fields[t][k].wire |-> b[Offset[t][k] + i]])]

\* A save and a boot: the record goes through its bytes.
PowerCycle ==
    /\ rec' = Decode(type, Encode(type, rec))
    /\ last' = NoRequest
    /\ UNCHANGED <<type, left>>

Next == ApplyField \/ PowerCycle
Spec == Init /\ [][Next]_vars

------------------------------------------------------------------------------
(* Properties.                                                             *)

\* Every field stays in the range of its C type, whatever was requested or
\* decoded.
TypeOK ==
    /\ type \in Types
    /\ rec \in [DOMAIN Fields[type] -> Int]
    /\ \A k \in DOMAIN rec : Fits(Fields[type][k], rec[k])
    /\ left \in 0 .. MaxRequests

\* A record only ever changes into one its validator accepts, so no sequence of
\* requests and power cycles makes a legal record illegal, and one that another
\* firmware left illegal is never half repaired.
ChangesAreLegal == [][rec' # rec => IllegalFields(type, rec') = {}]_vars

Addressed(q) ==
    /\ q.param < Len(Params[type])
    /\ type # "SYSTEM" => q.item < Channels[type]
FieldOf(q) == Params[type][q.param + 1]
InRange(f, v) == Fits(f, v) /\ v \in f.legal

\* A request for a field in its range is accepted, stores exactly that value and
\* touches no other field, unless another field is one a foreign firmware left
\* illegal: then no request for this field can succeed, as config_set_<type>
\* validates the whole record.  (With two such fields no single-field request
\* ever does.)  A request that is refused changes nothing.
RequestsApplyExactly ==
    [][(left' < left /\ last' # NoRequest) =>
        /\ (Addressed(last') /\ InRange(Fields[type][FieldOf(last')], last'.v)) =>
              IF IllegalFields(type, rec) \subseteq {FieldOf(last')}
              THEN last'.status = "OK" /\ rec' = [rec EXCEPT ![FieldOf(last')] = last'.v]
              ELSE last'.status = "INVALID"
        /\ last'.status # "OK" => rec' = rec]_vars

\* Whatever requests produce, and whatever another firmware left, survives
\* config_codec's bytes: a save and a boot heal nothing.  A decoder that meets a longer record of a later firmware reads the same fields from it.
WireRoundTrip ==
    \A more \in {<<>>, <<255>>} : Decode(type, Encode(type, rec) \o more) = rec

\* eeprom_manager.c on the appliers: "out-of-range values come back as
\* CONFIG_ERR_INVALID".  (A name is documented to be truncated instead.)
OutOfRangeRejected ==
    [][(left' < left /\ Addressed(last')) =>
        LET f == Fields[type][FieldOf(last')]
        IN (f.kind # "name" /\ ~InRange(f, last'.v)) => last'.status = "INVALID"]_vars

==============================================================================
