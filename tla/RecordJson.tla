------------------------------ MODULE RecordJson ------------------------------
(***************************************************************************)
(* The JSON side of one record of FieldRecords: the patch and build        *)
(* functions of config_json.c for all eight record types.  An object is a  *)
(* function from fields (their positions stand for the keys) to JSON       *)
(* values; the channel it addresses and the arrays around it are           *)
(* ConfigJson's.                                                           *)
(***************************************************************************)
EXTENDS FieldRecords

CONSTANT JsonNumbers  \* numbers in documents, as <<n, half>>: n, or n + 1/2

ASSUME RecordJsonConstants == JsonNumbers \subseteq Int \X BOOLEAN

VARIABLE patch   \* the object applied last and what became of it

recordVars == <<vars, patch>>

\* JSON values.  A string stands for a name of s characters, or for what names
\* the enum value s; one that names no value of the enum is text nobody knows.
Null == [j |-> "null"]
Bool(b) == [j |-> "bool", b |-> b]
Number(n, half) == [j |-> "number", n |-> n, half |-> half]
String(s) == [j |-> "string", s |-> s]

NoPatch == [obj |-> <<>>, status |-> "none"]

\* The enum values of field k that <enum>_to_str has a name for: tc_unit_to_str
\* knows no TC_UNIT_KELVIN.
Named(t, k) == IF t = "TC" /\ k = 4 THEN {0, 1} ELSE Fields[t][k].legal

------------------------------------------------------------------------------
(* Patching: what a JSON value makes of a field, {} if it is refused.      *)

\* A C cast of a double to an integer: towards zero.
Truncated(v) == IF v.half /\ v.n < 0 THEN v.n + 1 ELSE v.n

\* patch_uint and patch_int compare the number as it is, before the cast, with
\* the limits of the member's type.
BelowTheLimit(f, v) == Fits(f, v.n) /\ Fits(f, v.n + 1) /\ (f.kind = "unsigned" => v.n >= 0)
WithinLimits(f, v) ==
    /\ Fits(f, v.n) /\ (v.half => Fits(f, v.n + 1))
    /\ f.kind = "unsigned" => v.n >= 0

PatchNumberNarrowing(f, v) == {Cast(f, Truncated(v))}
PatchNumber(f, v) == IF WithinLimits(f, v) THEN {Truncated(v)} ELSE {}

\* enum_from_json.  The cast of a number too large for an int is undefined; what
\* compilers make of it lies outside every enum.
EnumFromJson(t, k, v) ==
    CASE v.j = "number" -> {Truncated(v)} \cap Fields[t][k].legal
      [] v.j = "string" -> {v.s} \cap Named(t, k)
      [] OTHER -> {}

PatchField(t, k, old, v) ==
    LET f == Fields[t][k]
    IN IF v = Null THEN {old}
       ELSE
       CASE f.kind = "enum" -> EnumFromJson(t, k, v)
         [] f.kind = "name" /\ v.j = "string" -> {v.s} \cap f.legal
         [] f.kind = "flag" /\ v.j = "bool" -> {IF v.b THEN 1 ELSE 0}
         [] f.kind \in {"unsigned", "signed"} /\ v.j = "number" -> PatchNumber(f, v)
         [] OTHER -> {}

\* patch_<type>_record, on a copy, and the setter: the record, or none.
Patched(t, obj, r) ==
    LET made == [k \in DOMAIN r |->
                    IF k \in DOMAIN obj THEN PatchField(t, k, r[k], obj[k]) ELSE {r[k]}]
    IN IF \E k \in DOMAIN r : made[k] = {} THEN {}
       ELSE {new \in {[k \in DOMAIN r |-> CHOOSE v \in made[k] : TRUE]} : Validate(t, new)}

------------------------------------------------------------------------------
(* build_<type>: the object an export writes.  cJSON adds nothing for an   *)
(* enum value without a name.                                              *)
BuildValue(t, k, v) ==
    CASE Fields[t][k].kind \in {"name", "enum"} -> String(v)
      [] Fields[t][k].kind = "flag" -> Bool(v = 1)
      [] OTHER -> Number(v, FALSE)

Unnamed(t, r) == {k \in DOMAIN r : Fields[t][k].kind = "enum" /\ r[k] \notin Named(t, k)}
Build(t, r) == [k \in DOMAIN r \ Unnamed(t, r) |-> BuildValue(t, k, r[k])]

------------------------------------------------------------------------------
Values(t, k) ==
    LET numbers == {Number(v[1], v[2]) : v \in JsonNumbers}
    IN {Null} \cup
       CASE Fields[t][k].kind = "name" -> {String(NameLen - 1), String(NameLen), Bool(TRUE)}
         [] Fields[t][k].kind = "flag" -> {Bool(TRUE), Bool(FALSE), String(1)}
         [] Fields[t][k].kind = "enum" -> numbers \cup {String(1), String(2)}
         [] OTHER -> numbers \cup {String(1)}

Objects(t, ks) == {obj \in [ks -> UNION {Values(t, k) : k \in ks}] :
                      \A k \in ks : obj[k] \in Values(t, k)}

\* config_import_json meets a record of this type that names one or two fields;
\* each counts as one request of the bound.
PatchRecord ==
    /\ left > 0
    /\ \E k, l \in DOMAIN rec :
          /\ k <= l /\ Cardinality({k, l}) <= left
          /\ left' = left - Cardinality({k, l})
          /\ \E obj \in Objects(type, {k, l}) :
                LET new == Patched(type, obj, rec)
                IN IF new = {} THEN /\ UNCHANGED rec
                                    /\ patch' = [obj |-> obj, status |-> "rejected"]
                               ELSE /\ rec' \in new
                                    /\ patch' = [obj |-> obj, status |-> "accepted"]
    /\ last' = NoRequest
    /\ UNCHANGED type

RecordInit == Init /\ patch = NoPatch
RecordNext ==
    \/ ApplyField /\ patch' = NoPatch
    \/ PowerCycle /\ patch' = NoPatch
    \/ PatchRecord
RecordSpec == RecordInit /\ [][RecordNext]_recordVars

------------------------------------------------------------------------------
(* Properties.                                                             *)

\* An export, imported over whatever record is in the cache by then, brings the
\* exported record back, but for an enum value without a name: that field stays as
\* the import finds it.  It is refused, with nothing changed, if the exported record
\* holds an illegal number, or the one below an illegal value in such a field.  So
\* an export heals the enum values another firmware left, and nothing else.
RestoresOver(base) ==
    LET kept == Unnamed(type, rec)
        harm == (IllegalFields(type, rec) \ kept) \cup (IllegalFields(type, base) \cap kept)
    IN Patched(type, Build(type, rec), base) =
          IF harm # {} THEN {}
          ELSE {[k \in DOMAIN rec |-> IF k \in kept THEN base[k] ELSE rec[k]]}

\* The factory record, and records that differ from it in an enum: by another of its
\* values, one without a name, or one that another firmware left.
EnumFields(t) == {k \in DOMAIN Fields[t] : Fields[t][k].kind = "enum"}
OtherRecords(t) ==
    {Defaults[t]} \cup {[Defaults[t] EXCEPT ![k] = v] : k \in EnumFields(t), v \in {2, 8}}
JsonRestores == \A base \in OtherRecords(type) : RestoresOver(base)

\* The field value a JSON value asks for, if any.  A fraction asks for nothing a
\* document promises.
AsksFor(t, k, v) ==
    LET kind == Fields[t][k].kind
    IN CASE v.j = "number" /\ kind \in {"unsigned", "signed", "enum"} /\ ~v.half -> {v.n}
         [] v.j = "string" /\ kind = "name" -> {v.s}
         [] v.j = "string" /\ kind = "enum" -> {v.s} \cap Named(t, k)
         [] v.j = "bool" /\ kind = "flag" -> {IF v.b THEN 1 ELSE 0}
         [] OTHER -> {}
IsFraction(v) == v.j = "number" /\ v.half

\* config_json.h: "missing fields keep the current cached value".  An object is
\* applied whole or not at all; accepted, the fields it names hold the very
\* values it asks for, never narrowed ones, and the others what they held.  It
\* is refused only for a value its field cannot take, or for a field another
\* firmware left illegal that it does not name: unlike single-field requests, a
\* document can repair any record.
JsonAppliesExactly ==
    [][(left' < left /\ patch' # NoPatch) =>
        LET obj == patch'.obj
            asked == {k \in DOMAIN obj : obj[k] # Null}
            CannotTake(k) == ~\E v \in AsksFor(type, k, obj[k]) : InRange(Fields[type][k], v)
        IN IF patch'.status = "accepted"
           THEN \A k \in DOMAIN rec :
                   IF k \notin asked THEN rec'[k] = rec[k]
                   ELSE IsFraction(obj[k]) \/ AsksFor(type, k, obj[k]) = {rec'[k]}
           ELSE /\ rec' = rec
                /\ \/ \E k \in asked : CannotTake(k)
                   \/ ~(IllegalFields(type, rec) \subseteq asked)]_recordVars

==============================================================================
