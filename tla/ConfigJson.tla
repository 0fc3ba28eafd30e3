------------------------------ MODULE ConfigJson ------------------------------
(***************************************************************************)
(* config_json.c: applying a JSON document to the cache, entry by entry    *)
(* and record by record, and writing the cache out as one.  One kind of    *)
(* record stands for all of them, with two fields: "unit", an enum, and    *)
(* "level", an unsigned integer; "di" stands for the seven arrays of       *)
(* channels.                                                               *)
(*                                                                         *)
(* A JSON number is held in halves, which is all the code can tell apart   *)
(* about fractions.  An object is a function from its keys to its values;  *)
(* the document is a sequence of entries, since a key may occur twice.     *)
(***************************************************************************)
EXTENDS Integers, Sequences, FiniteSets

CONSTANTS
    Channels,    \* channels of the array
    UnitNames,   \* what <enum>_to_str returns for 0, 1, ...; NoName for NULL
    NoName,
    LevelMax,    \* the largest level its C type holds
    LevelLegal,  \* the largest level the setter accepts
    Documents,   \* what is imported
    NoDocument,
    MaxSteps     \* bound: operations in a behaviour

Channel == 0 .. Channels - 1
Unit == 0 .. Len(UnitNames) - 1
Level == 0 .. LevelLegal
RecordType == [unit : Unit, level : Level]
CacheType == [di : [Channel -> RecordType], system : RecordType]

\* JSON values.
Null == [j |-> "null"]
Number(halves) == [j |-> "number", halves |-> halves]
String(s) == [j |-> "string", s |-> s]
Object(o) == [j |-> "object", o |-> o]
Array(items) == [j |-> "array", items |-> items]
Entry(key, val) == [key |-> key, val |-> val]

IsObject(v) ==
    v.j = "object" =>
        \A key \in DOMAIN v.o : v.o[key].j = "number" => v.o[key].halves \in Int
IsArray(v) ==
    v.j = "array" => /\ v.items \in Seq({v.items[i] : i \in DOMAIN v.items})
                     /\ \A i \in DOMAIN v.items : IsObject(v.items[i])
IsDocument(root) ==
    /\ root \in Seq({root[k] : k \in DOMAIN root})
    /\ \A k \in DOMAIN root : IsObject(root[k].val) /\ IsArray(root[k].val)

ASSUME ConfigJsonConstants ==
    /\ Channels \in Nat \ {0} /\ LevelMax \in Nat /\ LevelLegal \in 0 .. LevelMax
    /\ UnitNames \in Seq({UnitNames[n] : n \in DOMAIN UnitNames}) /\ UnitNames # <<>>
    /\ \A m, n \in DOMAIN UnitNames : UnitNames[m] = UnitNames[n] => m = n \/ UnitNames[m] = NoName
    /\ \A root \in Documents : IsDocument(root)
    /\ MaxSteps \in Nat

\* A C cast of a double to an integer: towards zero.
Trunc(halves) == IF halves < 0 THEN -((-halves) \div 2) ELSE halves \div 2

VARIABLES
    cache,     \* s_cache
    report,    \* the present or the last import's report
    doc,       \* the document that is being imported, or NoDocument
    entry,     \* the walk over its entries: child
    item,      \* the walk over the array of an entry: _i + 1; 0 outside of it
    seen,      \* _seen: the channels that had their record
    before,    \* history: the cache when no import was under way last
    exported,  \* a document config_export_json wrote
    original,  \* history: the cache it wrote
    steps      \* operations left of the bound

vars == <<cache, report, doc, entry, item, seen, before, exported, original, steps>>

NoReport == [accepted |-> 0, rejected |-> 0, unknown_keys |-> 0, malformed |-> 0]
FactoryCache == LET r == [unit |-> 0, level |-> 0]
                IN [di |-> [c \in Channel |-> r], system |-> r]

Init ==
    /\ cache = FactoryCache
    /\ report = NoReport
    /\ doc = NoDocument
    /\ entry = 1 /\ item = 0
    /\ seen = {}
    /\ before = FactoryCache
    /\ exported = NoDocument
    /\ original = FactoryCache
    /\ steps = MaxSteps

------------------------------------------------------------------------------
(* Patching one record.                                                    *)

\* A key that is missing keeps the cached value, and so does a null.
Keeps(obj, key) == key \notin DOMAIN obj \/ obj[key].j = "null"

\* enum_from_json: the values a string or a number stands for, if any.
EnumFromJson(v) ==
    {u \in Unit : \/ v.j = "number" /\ Trunc(v.halves) = u
                  \/ v.j = "string" /\ UnitNames[u + 1] = v.s /\ v.s # NoName}

\* patch_uint: the range check is on the number as it is, before the cast.
UintFromJson(v) ==
    IF v.j = "number" /\ v.halves >= 0 /\ v.halves <= 2 * LevelMax
    THEN {Trunc(v.halves)} ELSE {}

\* The records a patch_*_record call can leave: one, or none if it fails.
PatchRecord(obj, rec) ==
    [unit  : IF Keeps(obj, "unit") THEN {rec.unit} ELSE EnumFromJson(obj["unit"]),
     level : IF Keeps(obj, "level") THEN {rec.level} ELSE UintFromJson(obj["level"])]

\* ... and those of them that the setter takes.
AcceptedUnvalidated(obj, rec) == PatchRecord(obj, rec)
Accepted(obj, rec) == PatchRecord(obj, rec) \cap RecordType

------------------------------------------------------------------------------
(* The walk over the entries of a document.                                *)

Step == steps > 0 /\ steps' = steps - 1

\* config_import_json on a document that parses to an object.
Begin(root) ==
    /\ Step
    /\ doc = NoDocument
    /\ doc' = root
    /\ report' = NoReport
    /\ UNCHANGED <<cache, entry, item, seen, before, exported, original>>

Import == \E root \in Documents : Begin(root)

\* The exported document is imported again, on top of what came since.
Restore == exported # NoDocument /\ Begin(exported)

Counted(what) == [report EXCEPT ![what] = @ + 1]

AtEntry(key) == doc # NoDocument /\ item = 0 /\ entry <= Len(doc) /\ doc[entry].key = key
EntryDone == entry' = entry + 1 /\ UNCHANGED <<doc, item, seen, before, exported, original, steps>>

\* APPLY_ARRAY looks the key up again: it gets the first entry of that name.
FirstOf(root, key) ==
    root[CHOOSE k \in DOMAIN root :
            root[k].key = key /\ \A j \in DOMAIN root : root[j].key = key => k <= j].val
Arr == FirstOf(doc, "di")

\* "format", and an array that is null.
SkipEntry ==
    /\ AtEntry("format") \/ (AtEntry("di") /\ Arr.j = "null")
    /\ EntryDone
    /\ UNCHANGED <<cache, report>>

MalformedEntry ==
    /\ \/ AtEntry("system") /\ doc[entry].val.j # "object"
       \/ AtEntry("di") /\ Arr.j \notin {"null", "array"}
    /\ EntryDone
    /\ report' = Counted("malformed")
    /\ UNCHANGED cache

UnknownEntry ==
    /\ doc # NoDocument /\ item = 0 /\ entry <= Len(doc)
    /\ doc[entry].key \notin {"format", "system", "di"}
    /\ EntryDone
    /\ report' = Counted("unknown_keys")
    /\ UNCHANGED cache

SystemEntry ==
    /\ AtEntry("system") /\ doc[entry].val.j = "object"
    /\ EntryDone
    /\ LET new == Accepted(doc[entry].val.o, cache.system)
       IN \/ new = {} /\ report' = Counted("rejected") /\ UNCHANGED cache
          \/ \E r \in new :
                cache' = [cache EXCEPT !.system = r] /\ report' = Counted("accepted")

ArrayEntry ==
    /\ AtEntry("di") /\ Arr.j = "array"
    /\ item' = 1
    /\ seen' = {}
    /\ UNCHANGED <<cache, report, doc, entry, before, exported, original, steps>>

\* config_import_json returns, and its locals are gone.
Return ==
    /\ doc # NoDocument /\ item = 0 /\ entry > Len(doc)
    /\ doc' = NoDocument
    /\ entry' = 1
    /\ seen' = {}
    /\ before' = cache
    /\ UNCHANGED <<cache, report, item, exported, original, steps>>

------------------------------------------------------------------------------
(* The walk over an array.                                                 *)

AtItem == item > 0 /\ item <= Len(Arr.items)
ItemDone == item' = item + 1 /\ UNCHANGED <<doc, entry, before, exported, original, steps>>
Obj == Arr.items[item].o

OneBased(halves) == (Trunc(halves) + Channels - 1) % Channels
Index(halves) == Trunc(halves)
idx == Index(Obj["channel"].halves)

HasChannel(obj) ==
    /\ "channel" \in DOMAIN obj /\ obj["channel"].j = "number"
    /\ obj["channel"].halves >= 0 /\ obj["channel"].halves < 2 * Channels

NeverRepeated(c) == FALSE
Repeated(c) == c \in seen

MarkedUpTo(c) == seen \cup 0 .. c
Marked(c) == seen \cup {c}

SkipItem ==
    /\ AtItem /\ Arr.items[item].j = "null"
    /\ ItemDone
    /\ UNCHANGED <<cache, report, seen>>

MalformedItem ==
    /\ AtItem /\ Arr.items[item].j \notin {"null", "object"}
    /\ ItemDone
    /\ report' = Counted("malformed")
    /\ UNCHANGED <<cache, seen>>

RejectItem ==
    /\ AtItem /\ Arr.items[item].j = "object"
    /\ HasChannel(Obj) => Repeated(idx)
    /\ ItemDone
    /\ report' = Counted("rejected")
    /\ UNCHANGED <<cache, seen>>

\* The channel is taken, whether or not its record is good.
ApplyItem ==
    /\ AtItem /\ Arr.items[item].j = "object"
    /\ HasChannel(Obj) /\ ~Repeated(idx)
    /\ ItemDone
    /\ seen' = Marked(idx)
    /\ LET new == Accepted(Obj, cache.di[idx])
       IN \/ new = {} /\ report' = Counted("rejected") /\ UNCHANGED cache
          \/ \E r \in new :
                cache' = [cache EXCEPT !.di[idx] = r] /\ report' = Counted("accepted")

ArrayEnd ==
    /\ item > 0 /\ item > Len(Arr.items)
    /\ item' = 0
    /\ entry' = entry + 1
    /\ UNCHANGED <<cache, report, doc, seen, before, exported, original, steps>>

------------------------------------------------------------------------------
(* Writing a document.                                                     *)

BuildLevelOnly(rec) == [level |-> Number(2 * rec.level)]
\* cJSON adds nothing to the object for an enum whose name is NULL.
BuildFields(rec) ==
    LET name == UnitNames[rec.unit + 1]
    IN [key \in {"level"} \cup (IF name = NoName THEN {} ELSE {"unit"}) |->
          IF key = "level" THEN Number(2 * rec.level) ELSE String(name)]

BuildRecord(c, rec) ==
    [key \in {"channel"} \cup DOMAIN BuildFields(rec) |->
        IF key = "channel" THEN Number(2 * c) ELSE BuildFields(rec)[key]]

ExportJson(c) ==
    <<Entry("format", Number(4)),
      Entry("system", Object(BuildFields(c.system))),
      Entry("di", Array([k \in 1 .. Channels |-> Object(BuildRecord(k - 1, c.di[k - 1]))]))>>

ASSUME NoDocumentIsNone ==
    NoDocument \notin Documents /\ \A c \in CacheType : NoDocument # ExportJson(c)

\* config_export_json, with nothing else at work on the cache.
Export ==
    /\ Step
    /\ doc = NoDocument
    /\ exported' = ExportJson(cache)
    /\ original' = cache
    /\ UNCHANGED <<cache, report, doc, entry, item, seen, before>>

Next ==
    \/ Import \/ Restore \/ Export \/ Return
    \/ SkipEntry \/ MalformedEntry \/ UnknownEntry \/ SystemEntry \/ ArrayEntry
    \/ SkipItem \/ MalformedItem \/ RejectItem \/ ApplyItem \/ ArrayEnd
Spec == Init /\ [][Next]_vars

------------------------------------------------------------------------------
(* Properties.                                                             *)

TypeOK ==
    /\ cache \in CacheType /\ before \in CacheType /\ original \in CacheType
    /\ report \in [{"accepted", "rejected", "unknown_keys", "malformed"} -> Nat]
    /\ doc \in Documents \cup {NoDocument, exported}
    /\ entry \in Nat \ {0} /\ item \in Nat
    /\ seen \subseteq Channel
    /\ exported \in {NoDocument, ExportJson(original)}
    /\ steps \in 0 .. MaxSteps

ImportEnds == doc # NoDocument /\ doc' = NoDocument

\* Importing an exported document brings back the cache it was written from,
\* whatever was imported since - but for an enum value without a name, which
\* the export leaves out: there the value of the meantime stays.
Back(old, now, new) ==
    /\ new.level = old.level
    /\ new.unit = IF UnitNames[old.unit + 1] = NoName THEN now.unit ELSE old.unit
RestoreReproduces ==
    [][(ImportEnds /\ doc = exported) =>
        /\ \A c \in Channel : Back(original.di[c], before.di[c], cache.di[c])
        /\ Back(original.system, before.system, cache.system)]_vars

\* DESIGN.md: "set, export, reset, import, get reproduces every field".
RestoreReproducesAll == [][(ImportEnds /\ doc = exported) => cache = original]_vars

\* The records of a document.
Arrays(root) == {root[k].val : k \in {k \in DOMAIN root : root[k].key = "di" /\ root[k].val.j = "array"}}
RecordsOf(items) == {items[i].o : i \in {i \in DOMAIN items : items[i].j = "object"}}
Objects(root) == UNION {RecordsOf(arr.items) : arr \in Arrays(root)}
Names(obj, c) == HasChannel(obj) /\ Trunc(obj["channel"].halves) = c

\* config_json.h: "a record's effect on the cache is determined entirely by its
\* channel field".  At no moment of an import has a channel changed that no record
\* names.
OnlyNamedChannelsChange ==
    doc # NoDocument =>
        \A c \in Channel :
            cache.di[c] # before.di[c] => \E obj \in Objects(doc) : Names(obj, c)

\* Does the record show what the object asked for?
Shows(rec, obj) ==
    /\ Keeps(obj, "unit") \/ rec.unit \in EnumFromJson(obj["unit"])
    /\ Keeps(obj, "level") \/ rec.level \in UintFromJson(obj["level"])

\* config_json.h: "apply each known record".  After an import whose report has
\* nothing rejected and nothing malformed, every record of the document is in
\* the cache.  It is checked for documents that name an array twice only where the
\* later one hides nothing (NoneHidden); for others it fails.
CleanReportMeansApplied ==
    [][(ImportEnds /\ report.rejected = 0 /\ report.malformed = 0) =>
        \A obj \in Objects(doc) :
            \E c \in Channel : Names(obj, c) /\ Shows(cache.di[c], obj)]_vars

\* The first record of an array that names channel c is at i.
NamedAt(items, i, c) == items[i].j = "object" /\ Names(items[i].o, c)
FirstFor(items, i, c) ==
    NamedAt(items, i, c) /\ \A k \in DOMAIN items : NamedAt(items, k, c) => i <= k
Effect(obj, rec) == IF Accepted(obj, rec) = {} THEN {rec} ELSE Accepted(obj, rec)

\* What the walk of a document applies at each of its arrays: the items of the first.
FirstItems(root) ==
    IF \E k \in DOMAIN root : root[k].key = "di" /\ FirstOf(root, "di").j = "array"
    THEN FirstOf(root, "di").items ELSE <<>>

\* config_json.c: "duplicate channels in the same array are rejected after the
\* first (the first wins)"; config_json.h: "Array order is purely presentational".
\* What becomes of a channel depends on the first record of the first array that
\* names it, and on nothing that stands before, between or behind, however often
\* the array is walked; a channel without such a record stays as it was.
FirstRecordWins ==
    [][ImportEnds =>
        LET items == FirstItems(doc)
        IN \A c \in Channel :
              \/ /\ \A i \in DOMAIN items : ~NamedAt(items, i, c)
                 /\ cache.di[c] = before.di[c]
              \/ \E i \in DOMAIN items :
                    /\ FirstFor(items, i, c)
                    /\ cache.di[c] \in Effect(items[i].o, before.di[c])]_vars

\* config_json.h: "Records with a missing, non-integer, or out-of-range channel
\* are rejected".
IsFraction(v) == v.j = "number" /\ v.halves % 2 # 0
FractionsRejected ==
    [][ImportEnds =>
        report.rejected >=
            Cardinality({obj \in Objects(doc) :
                            "channel" \in DOMAIN obj /\ IsFraction(obj["channel"])})]_vars

\* Documents that bring no record in a later array of the same name only, as the
\* promise of a clean report needs it.
NoneHidden == \A root \in Documents : Objects(root) \subseteq RecordsOf(FirstItems(root))

==============================================================================
