--------------------------- MODULE ConfigJsonProofs ---------------------------
(***************************************************************************)
(* config_import_json and config_export_json for documents of any length,  *)
(* any number of channels and enum values: the walk of an import applies   *)
(* each record to the channel it names, the first one wins, a clean report *)
(* means that all are applied, and an exported document restores what it   *)
(* was written from.                                                       *)
(***************************************************************************)
EXTENDS ConfigJson, FiniteSetTheorems, WellFoundedInduction, TLAPS

------------------------------------------------------------------------------
(* Numbers, documents and their entries.                                   *)

LEMMA Numbers ==
    /\ Channels \in Nat /\ Channels > 0
    /\ LevelMax \in Nat /\ LevelLegal \in Nat /\ LevelLegal <= LevelMax
    /\ MaxSteps \in Nat
    /\ Len(UnitNames) \in Nat /\ Len(UnitNames) > 0 /\ DOMAIN UnitNames = 1 .. Len(UnitNames)
<1>1. UnitNames \in Seq({UnitNames[n] : n \in DOMAIN UnitNames}) /\ UnitNames # <<>>
  BY ConfigJsonConstants
<1>2. Len(UnitNames) \in Nat /\ Len(UnitNames) > 0 /\ DOMAIN UnitNames = 1 .. Len(UnitNames)
  BY <1>1
<1> QED
  BY <1>2, ConfigJsonConstants

LEMMA Truncs ==
  ASSUME NEW h \in Int, h >= 0
  PROVE  Trunc(h) \in Nat /\ \A n \in Nat : h < 2 * n => Trunc(h) < n
<1>1. Trunc(h) = h \div 2
  BY DEF Trunc
<1>2. h \div 2 \in Nat /\ 2 * (h \div 2) <= h
  OBVIOUS
<1> QED
  BY <1>1, <1>2

LEMMA TruncOfWhole == \A n \in Nat : Trunc(2 * n) = n
  BY DEF Trunc

\* A channel number in range names a channel.
LEMMA ChannelNamed ==
  ASSUME NEW v, IsObject(v), v.j = "object", HasChannel(v.o)
  PROVE  /\ Index(v.o["channel"].halves) \in Channel
         /\ Names(v.o, Index(v.o["channel"].halves))
         /\ \A c : Names(v.o, c) => c = Index(v.o["channel"].halves)
<1> DEFINE h == v.o["channel"].halves
<1>1. h \in Int /\ h >= 0 /\ h < 2 * Channels
  BY DEF IsObject, HasChannel
<1>2. Trunc(h) \in Nat /\ Trunc(h) < Channels
  <2> HIDE DEF h
  <2> QED
    BY <1>1, Truncs, Numbers
<1>3. Trunc(h) \in Channel
  BY <1>2, Numbers DEF Channel
<1> QED
  BY <1>3 DEF Index, Names

\* A set of natural numbers has a least one.
LEMMA Least ==
    ASSUME NEW I \in SUBSET Nat, I # {}
    PROVE  \E x \in I : \A y \in I : x <= y
<1> DEFINE Upto(x) == 0 .. x
<1> DEFINE T == {Upto(x) : x \in I}
<1> DEFINE R == StrictSubsetOrdering(Nat)
<1>1. T \subseteq FiniteSubsetsOf(Nat) /\ T # {}
  <2>1. ASSUME NEW x \in I PROVE Upto(x) \subseteq Nat /\ IsFiniteSet(Upto(x))
    BY FS_Interval
  <2>2. QED
    BY <2>1 DEF FiniteSubsetsOf
<1>2. IsWellFoundedOn(R, FiniteSubsetsOf(Nat))
  BY FS_StrictSubsetOrderingWellFounded
<1>3. \E t \in T : \A u \in T : ~ (<<u, t>> \in R)
  <2> HIDE DEF T, R
  <2> QED BY <1>1, <1>2, WFMin
<1>4. PICK x \in I : \A u \in T : ~ (<<u, Upto(x)>> \in R)
  BY <1>3
<1>5. ASSUME NEW y \in I, y < x PROVE FALSE
  <2>1. Upto(y) \in T /\ Upto(y) \subseteq Upto(x) /\ Upto(x) \subseteq Nat
    BY <1>5
  <2>2. x \in Upto(x) /\ x \notin Upto(y)
    BY <1>5
  <2>3. <<Upto(y), Upto(x)>> \in R
    <3> HIDE DEF Upto
    <3> QED BY <2>1, <2>2 DEF StrictSubsetOrdering
  <2>4. QED
    BY <1>4, <2>1, <2>3
<1>6. QED
  BY <1>5

LEMMA EntriesNumbered ==
  ASSUME NEW root, IsDocument(root)
  PROVE  Len(root) \in Nat /\ DOMAIN root = 1 .. Len(root) /\ DOMAIN root \subseteq Nat
<1>1. root \in Seq({root[k] : k \in DOMAIN root})
  BY DEF IsDocument
<1> QED
  BY <1>1

\* The entry that the array walk finds for a key is one of that key.
LEMMA FirstOfIs ==
  ASSUME NEW root, IsDocument(root), NEW key, NEW k \in DOMAIN root, root[k].key = key
  PROVE  \E m \in DOMAIN root : root[m].key = key /\ FirstOf(root, key) = root[m].val
<1> DEFINE I == {m \in DOMAIN root : root[m].key = key}
<1>1. I \in SUBSET Nat /\ I # {}
  BY EntriesNumbered
<1>2. \E m \in I : \A n \in I : m <= n
  BY <1>1, Least
<1>3. \E m \in DOMAIN root : root[m].key = key /\ \A n \in DOMAIN root : root[n].key = key => m <= n
  BY <1>2
<1> QED
  BY <1>3 DEF FirstOf

LEMMA ArrayNumbered ==
  ASSUME NEW v, IsArray(v), v.j = "array"
  PROVE  /\ Len(v.items) \in Nat /\ DOMAIN v.items = 1 .. Len(v.items)
         /\ \A i \in DOMAIN v.items : IsObject(v.items[i])
<1>1. v.items \in Seq({v.items[i] : i \in DOMAIN v.items})
  BY DEF IsArray
<1> QED
  BY <1>1 DEF IsArray

\* Documents in which no key occurs twice.
DistinctKeys(root) == \A k, m \in DOMAIN root : root[k].key = root[m].key => k = m

LEMMA FirstItemsAre ==
  ASSUME NEW root, IsDocument(root)
  PROVE  /\ Len(FirstItems(root)) \in Nat
         /\ DOMAIN FirstItems(root) = 1 .. Len(FirstItems(root))
         /\ \A i \in DOMAIN FirstItems(root) : IsObject(FirstItems(root)[i])
         /\ \A i \in DOMAIN FirstItems(root) : \E k \in DOMAIN root : root[k].key = "di"
<1>1. CASE \E k \in DOMAIN root : root[k].key = "di" /\ FirstOf(root, "di").j = "array"
  <2>1. PICK k \in DOMAIN root : root[k].key = "di" /\ FirstOf(root, "di").j = "array"
    BY <1>1
  <2>2. PICK m \in DOMAIN root : root[m].key = "di" /\ FirstOf(root, "di") = root[m].val
    BY <2>1, FirstOfIs
  <2>3. IsArray(FirstOf(root, "di"))
    BY <2>2 DEF IsDocument
  <2>4. FirstItems(root) = FirstOf(root, "di").items
    BY <1>1 DEF FirstItems
  <2> QED
    BY <2>1, <2>3, <2>4, ArrayNumbered
<1>2. CASE ~\E k \in DOMAIN root : root[k].key = "di" /\ FirstOf(root, "di").j = "array"
  <2>1. FirstItems(root) = <<>>
    BY <1>2 DEF FirstItems
  <2> QED
    BY <2>1
<1> QED
  BY <1>1, <1>2

\* Where no key occurs twice there is no array but the first.
LEMMA DistinctHidesNothing ==
  ASSUME NEW root, IsDocument(root), DistinctKeys(root)
  PROVE  /\ \A k \in DOMAIN root : root[k].key = "di" /\ root[k].val.j = "array" =>
               FirstItems(root) = root[k].val.items
         /\ Objects(root) \subseteq RecordsOf(FirstItems(root))
<1>1. ASSUME NEW k \in DOMAIN root, root[k].key = "di", root[k].val.j = "array"
      PROVE  FirstItems(root) = root[k].val.items
  <2>1. PICK m \in DOMAIN root : root[m].key = "di" /\ FirstOf(root, "di") = root[m].val
    BY <1>1, FirstOfIs
  <2>2. m = k
    BY <1>1, <2>1 DEF DistinctKeys
  <2> QED
    BY <1>1, <2>1, <2>2 DEF FirstItems
<1>2. \A arr \in Arrays(root) : RecordsOf(arr.items) = RecordsOf(FirstItems(root))
  BY <1>1 DEF Arrays
<1> QED
  BY <1>1, <1>2 DEF Objects

------------------------------------------------------------------------------
(* What an export writes.                                                  *)

LEMMA ExportIs ==
  ASSUME NEW c \in CacheType
  PROVE  LET root == ExportJson(c)
         IN /\ DOMAIN root = {1, 2, 3}
            /\ root[1].key = "format" /\ root[2].key = "system" /\ root[3].key = "di"
            /\ root[2].val = Object(BuildFields(c.system))
            /\ root[3].val.j = "array"
            /\ DOMAIN root[3].val.items = 1 .. Channels
            /\ \A i \in 1 .. Channels :
                  root[3].val.items[i] = Object(BuildRecord(i - 1, c.di[i - 1]))
            /\ IsDocument(root)
            /\ DistinctKeys(root)
<1> DEFINE root == ExportJson(c)
           items == [k \in 1 .. Channels |-> Object(BuildRecord(k - 1, c.di[k - 1]))]
<1>1. /\ root = <<Entry("format", Number(4)), Entry("system", Object(BuildFields(c.system))),
                  Entry("di", Array(items))>>
      /\ DOMAIN items = 1 .. Channels
  BY DEF ExportJson
<1>2. c.system \in RecordType /\ \A i \in 1 .. Channels : i - 1 \in Nat /\ c.di[i - 1] \in RecordType
  BY Numbers DEF CacheType, Channel
<1>3. ASSUME NEW rec \in RecordType PROVE IsObject(Object(BuildFields(rec)))
  <2>1. rec.level \in Int
    BY Numbers DEF RecordType, Level
  <2> QED
    BY <2>1 DEF IsObject, Object, BuildFields, Number, String
<1>4. ASSUME NEW rec \in RecordType, NEW n \in Nat PROVE IsObject(Object(BuildRecord(n, rec)))
  <2>1. \A key \in DOMAIN BuildFields(rec) :
           BuildFields(rec)[key].j = "number" => BuildFields(rec)[key].halves \in Int
    BY <1>3 DEF IsObject, Object
  <2>2. 2 * n \in Int
    OBVIOUS
  <2> QED
    BY <2>1, <2>2 DEF IsObject, Object, BuildRecord, Number
<1>5. \A i \in 1 .. Channels : IsObject(items[i])
  BY <1>2, <1>4
<1>6. items \in Seq({items[i] : i \in DOMAIN items})
  <2> DEFINE parts == {items[i] : i \in DOMAIN items}
  <2>1. items \in [1 .. Channels -> parts]
    <3> HIDE DEF items
    <3>1. items = [i \in 1 .. Channels |-> items[i]]
      BY DEF items
    <3> QED
      BY <1>1, <3>1
  <2>2. Channels \in Nat
    BY Numbers
  <2> SUFFICES items \in Seq(parts)
    OBVIOUS
  <2> HIDE DEF items, parts
  <2> QED
    BY <2>1, <2>2
<1> HIDE DEF items
<1>7. IsArray(Array(items)) /\ IsObject(Array(items))
  BY <1>1, <1>5, <1>6 DEF IsArray, IsObject, Array
<1>8. /\ DOMAIN root = {1, 2, 3} /\ root \in Seq({root[k] : k \in DOMAIN root})
      /\ root[1] = Entry("format", Number(4))
      /\ root[2] = Entry("system", Object(BuildFields(c.system)))
      /\ root[3] = Entry("di", Array(items))
  BY <1>1
<1>9. IsObject(Number(4)) /\ IsArray(Number(4)) /\ IsArray(Object(BuildFields(c.system)))
  BY DEF IsObject, IsArray, Number, Object
<1> HIDE DEF root
<1>10. \A k \in {1, 2, 3} : IsObject(root[k].val) /\ IsArray(root[k].val)
  BY <1>2, <1>3, <1>7, <1>8, <1>9 DEF Entry
<1>11. IsDocument(root)
  BY <1>8, <1>10 DEF IsDocument
<1>12. root[1].key = "format" /\ root[2].key = "system" /\ root[3].key = "di"
  BY <1>8 DEF Entry
<1>13. DistinctKeys(root)
  BY <1>8, <1>12 DEF DistinctKeys
<1>14. root[3].val = Array(items) /\ Array(items).j = "array" /\ Array(items).items = items
  BY <1>8 DEF Entry, Array
<1>15. \A i \in 1 .. Channels : items[i] = Object(BuildRecord(i - 1, c.di[i - 1]))
  BY DEF items
<1>16. root[2].val = Object(BuildFields(c.system))
  BY <1>8 DEF Entry
<1> QED
  BY <1>1, <1>8, <1>11, <1>12, <1>13, <1>14, <1>15, <1>16 DEF root

\* An exported record, imported on top of any other, is back.
LEMMA RecordComesBack ==
  ASSUME NEW rec \in RecordType, NEW now \in RecordType, NEW obj,
         "level" \in DOMAIN obj, obj["level"] = BuildFields(rec)["level"],
         "unit" \in DOMAIN obj <=> "unit" \in DOMAIN BuildFields(rec),
         "unit" \in DOMAIN obj => obj["unit"] = BuildFields(rec)["unit"]
  PROVE  \A new \in Effect(obj, now) : Back(rec, now, new)
<1> DEFINE name == UnitNames[rec.unit + 1]
<1>1. /\ rec.level \in Nat /\ rec.level <= LevelMax
      /\ rec.unit \in Unit /\ now.unit \in Unit /\ rec.level \in Level
      /\ rec.unit + 1 \in DOMAIN UnitNames
  BY Numbers DEF RecordType, Level, Unit
<1>2. obj["level"] = Number(2 * rec.level)
  BY DEF BuildFields
<1>3. ~Keeps(obj, "level") /\ UintFromJson(obj["level"]) = {rec.level}
  <2>1. 2 * rec.level >= 0 /\ 2 * rec.level <= 2 * LevelMax
    BY <1>1, Numbers
  <2>2. Trunc(2 * rec.level) = rec.level
    BY <1>1, TruncOfWhole
  <2> QED
    BY <1>2, <2>1, <2>2 DEF Keeps, UintFromJson, Number
<1>4. CASE name = NoName
  <2>1. Keeps(obj, "unit")
    BY <1>4 DEF BuildFields, Keeps
  <2>2. PatchRecord(obj, now) = [unit : {now.unit}, level : {rec.level}]
    BY <1>3, <2>1 DEF PatchRecord
  <2>3. [unit |-> now.unit, level |-> rec.level] \in Accepted(obj, now)
    BY <1>1, <2>2 DEF Accepted, RecordType
  <2> QED
    BY <1>4, <2>2, <2>3 DEF Effect, Accepted, Back
<1>5. CASE name # NoName
  <2>1. "unit" \in DOMAIN obj /\ obj["unit"] = String(name)
    BY <1>5 DEF BuildFields
  <2>2. ~Keeps(obj, "unit") /\ EnumFromJson(obj["unit"]) = {rec.unit}
    <3>1. \A u \in Unit : UnitNames[u + 1] = name => u = rec.unit
      <4> SUFFICES ASSUME NEW u \in Unit, UnitNames[u + 1] = name PROVE u = rec.unit
        OBVIOUS
      <4>1. u + 1 \in DOMAIN UnitNames /\ u \in Int /\ rec.unit \in Int
        BY <1>1, Numbers DEF Unit
      <4>2. u + 1 = rec.unit + 1
        BY <1>1, <1>5, <4>1, ConfigJsonConstants
      <4> QED
        BY <4>1, <4>2
    <3>2. obj["unit"].j = "string" /\ obj["unit"].s = name
      BY <2>1 DEF String
    <3> QED
      BY <1>1, <1>5, <2>1, <3>1, <3>2 DEF Keeps, EnumFromJson
  <2>3. PatchRecord(obj, now) = [unit : {rec.unit}, level : {rec.level}]
    BY <1>3, <2>2 DEF PatchRecord
  <2>4. [unit |-> rec.unit, level |-> rec.level] \in Accepted(obj, now)
    BY <1>1, <2>3 DEF Accepted, RecordType
  <2> QED
    BY <1>5, <2>3, <2>4 DEF Effect, Accepted, Back
<1> QED
  BY <1>4, <1>5

------------------------------------------------------------------------------
(* The invariant.                                                          *)

\* The walk is where its variables say.
WalkInv ==
    /\ doc = NoDocument => entry = 1 /\ item = 0 /\ before = cache
    /\ item > 0 => /\ doc # NoDocument /\ entry \in DOMAIN doc /\ doc[entry].key = "di"
                   /\ Arr.j = "array" /\ item <= Len(Arr.items) + 1

Clean(r) == r.rejected = 0 /\ r.malformed = 0

\* The item had its turn: in the walk under way, or in one over an earlier entry.
Reached(i) == i < item \/ \E k \in DOMAIN doc : k < entry /\ doc[k].key = "di"

\* What is walked of the first array has had its effect and what is not has had none,
\* however often the walk comes back to it.
ArrayWalked(items) ==
    /\ \A c \in Channel :
          (\A i \in DOMAIN items : ~NamedAt(items, i, c)) => cache.di[c] = before.di[c]
    /\ \A i \in DOMAIN items : \A c \in Channel :
          FirstFor(items, i, c) =>
              /\ Reached(i) => cache.di[c] \in Effect(items[i].o, before.di[c])
              /\ ~Reached(i) => cache.di[c] = before.di[c]
    /\ item > 0 => seen = {c \in Channel : \E i \in DOMAIN items : i < item /\ NamedAt(items, i, c)}
    /\ Clean(report) =>
          \A i \in DOMAIN items : Reached(i) /\ items[i].j = "object" =>
              \E c \in Channel : FirstFor(items, i, c) /\ Shows(cache.di[c], items[i].o)

\* The same of the system record of a document with one.
SystemWalked ==
    \A k \in DOMAIN doc :
        (/\ doc[k].key = "system" /\ doc[k].val.j = "object"
         /\ \A m \in DOMAIN doc : doc[m].key = "system" => m = k) =>
            /\ entry > k => cache.system \in Effect(doc[k].val.o, before.system)
            /\ entry <= k => cache.system = before.system

JsonInv ==
    /\ WalkInv
    /\ OnlyNamedChannelsChange
    /\ doc # NoDocument => ArrayWalked(FirstItems(doc)) /\ SystemWalked

------------------------------------------------------------------------------
(* What one step of the walk does.                                         *)

Reports == [{"accepted", "rejected", "unknown_keys", "malformed"} -> Nat]

LEMMA CountedIs ==
  ASSUME report \in Reports
  PROVE  /\ \A what \in {"accepted", "rejected", "unknown_keys", "malformed"} :
               Counted(what) \in Reports
         /\ Clean(Counted("accepted")) => Clean(report)
         /\ ~Clean(Counted("rejected")) /\ ~Clean(Counted("malformed"))
<1>1. \A what \in {"accepted", "rejected", "unknown_keys", "malformed"} :
         /\ Counted(what) \in Reports
         /\ \A w \in {"accepted", "rejected", "unknown_keys", "malformed"} :
               Counted(what)[w] = IF w = what THEN report[w] + 1 ELSE report[w]
  BY DEF Reports, Counted
<1>2. report["rejected"] \in Nat /\ report["malformed"] \in Nat
  BY DEF Reports
<1> QED
  BY <1>1, <1>2 DEF Clean

LEMMA DocumentTyped ==
  ASSUME TypeOK, doc # NoDocument
  PROVE  IsDocument(doc)
<1>1. CASE doc \in Documents
  BY <1>1, ConfigJsonConstants
<1>2. CASE doc = ExportJson(original)
  BY <1>2, ExportIs DEF TypeOK
<1> QED
  BY <1>1, <1>2 DEF TypeOK

\* A record that is accepted is legal, and shows what was asked for.
LEMMA AcceptedShows ==
  ASSUME NEW obj, NEW rec, NEW r \in Accepted(obj, rec)
  PROVE  r \in RecordType /\ Shows(r, obj) /\ r \in Effect(obj, rec)
<1>1. r \in PatchRecord(obj, rec) /\ r \in RecordType
  BY DEF Accepted
<1>2. Shows(r, obj)
  BY <1>1 DEF PatchRecord, Shows
<1> QED
  BY <1>1, <1>2 DEF Effect

EntryStep == SkipEntry \/ MalformedEntry \/ UnknownEntry \/ SystemEntry

LEMMA EntryStepIs ==
  ASSUME TypeOK, EntryStep
  PROVE  /\ doc # NoDocument /\ item = 0 /\ entry <= Len(doc) /\ EntryDone
         /\ cache' \in CacheType /\ cache'.di = cache.di /\ report' \in Reports
         /\ Clean(report') => Clean(report)
         /\ doc[entry].key # "system" \/ doc[entry].val.j # "object" => cache' = cache
         /\ doc[entry].key = "system" /\ doc[entry].val.j = "object" =>
               cache'.system \in Effect(doc[entry].val.o, cache.system)
<1>1. doc # NoDocument /\ item = 0 /\ entry <= Len(doc) /\ EntryDone
  BY DEF EntryStep, SkipEntry, MalformedEntry, UnknownEntry, SystemEntry, AtEntry
<1>2. report \in Reports /\ cache \in CacheType
  BY DEF TypeOK, Reports
<1>3. CASE SkipEntry
  BY <1>1, <1>2, <1>3 DEF SkipEntry, AtEntry
<1>4. CASE MalformedEntry
  <2>1. report' = Counted("malformed") /\ cache' = cache
    BY <1>4 DEF MalformedEntry
  <2>2. doc[entry].key = "di" \/ doc[entry].val.j # "object"
    BY <1>4 DEF MalformedEntry, AtEntry
  <2> QED
    BY <1>1, <1>2, <2>1, <2>2, CountedIs
<1>5. CASE UnknownEntry
  <2>1. report' = Counted("unknown_keys") /\ cache' = cache /\ doc[entry].key # "system"
    BY <1>5 DEF UnknownEntry
  <2>2. Clean(report') => Clean(report)
    BY <1>2, <2>1 DEF Counted, Clean, Reports
  <2> QED
    BY <1>1, <1>2, <2>1, <2>2, CountedIs
<1>6. CASE SystemEntry
  <2> DEFINE obj == doc[entry].val.o
  <2>1. doc[entry].key = "system" /\ doc[entry].val.j = "object"
    BY <1>6 DEF SystemEntry, AtEntry
  <2>2. CASE Accepted(obj, cache.system) = {} /\ report' = Counted("rejected") /\ cache' = cache
    <3>1. cache'.system \in Effect(obj, cache.system)
      BY <2>2 DEF Effect
    <3> QED
      BY <1>1, <1>2, <2>1, <2>2, <3>1, CountedIs
  <2>3. ASSUME NEW r \in Accepted(obj, cache.system),
               cache' = [cache EXCEPT !.system = r], report' = Counted("accepted")
        PROVE  /\ cache' \in CacheType /\ cache'.di = cache.di /\ report' \in Reports
               /\ Clean(report') => Clean(report)
               /\ cache'.system \in Effect(obj, cache.system)
    <3>1. r \in RecordType /\ r \in Effect(obj, cache.system)
      BY AcceptedShows
    <3>2. cache' \in CacheType /\ cache'.di = cache.di /\ cache'.system = r
      BY <1>2, <2>3, <3>1 DEF CacheType
    <3>3. report' \in Reports /\ (Clean(report') => Clean(report))
      BY <1>2, <2>3, CountedIs
    <3> QED
      BY <3>1, <3>2, <3>3
  <2>4. \/ Accepted(obj, cache.system) = {} /\ report' = Counted("rejected") /\ cache' = cache
        \/ \E r \in Accepted(obj, cache.system) :
              cache' = [cache EXCEPT !.system = r] /\ report' = Counted("accepted")
    BY <1>6 DEF SystemEntry
  <2> HIDE DEF obj
  <2>5. /\ cache' \in CacheType /\ cache'.di = cache.di /\ report' \in Reports
        /\ Clean(report') => Clean(report)
        /\ cache'.system \in Effect(obj, cache.system)
    BY <1>2, <2>2, <2>3, <2>4, CountedIs DEF Effect
  <2> QED
    BY <1>1, <2>1, <2>5 DEF obj
<1> QED
  BY <1>3, <1>4, <1>5, <1>6 DEF EntryStep

\* The array that is walked is one of the document's.
LEMMA ArrOwn ==
  ASSUME TypeOK, doc # NoDocument, entry \in DOMAIN doc, doc[entry].key = "di"
  PROVE  /\ \E m \in DOMAIN doc : doc[m].key = "di" /\ Arr = doc[m].val
         /\ FirstItems(doc) = IF Arr.j = "array" THEN Arr.items ELSE <<>>
<1>1. \E m \in DOMAIN doc : doc[m].key = "di" /\ Arr = doc[m].val
  BY DocumentTyped, FirstOfIs DEF Arr
<1>2. FirstItems(doc) = IF Arr.j = "array" THEN Arr.items ELSE <<>>
  BY DEF FirstItems, Arr
<1> QED
  BY <1>1, <1>2

LEMMA ArrIs ==
  ASSUME TypeOK, doc # NoDocument, entry \in DOMAIN doc, doc[entry].key = "di", Arr.j = "array"
  PROVE  /\ Arr \in Arrays(doc) /\ FirstItems(doc) = Arr.items
         /\ Len(Arr.items) \in Nat /\ DOMAIN Arr.items = 1 .. Len(Arr.items)
         /\ \A i \in DOMAIN Arr.items : IsObject(Arr.items[i])
<1>1. IsDocument(doc)
  BY DocumentTyped
<1>2. PICK m \in DOMAIN doc : doc[m].key = "di" /\ Arr = doc[m].val
  BY ArrOwn
<1>3. IsArray(Arr)
  BY <1>1, <1>2 DEF IsDocument
<1>4. Arr \in Arrays(doc) /\ FirstItems(doc) = Arr.items
  BY <1>2, ArrOwn DEF Arrays
<1> QED
  BY <1>3, <1>4, ArrayNumbered

ItemStep == SkipItem \/ MalformedItem \/ RejectItem \/ ApplyItem

LEMMA ItemIs ==
  ASSUME TypeOK, WalkInv, AtItem
  PROVE  /\ doc # NoDocument /\ entry \in DOMAIN doc /\ doc[entry].key = "di" /\ Arr.j = "array"
         /\ item \in DOMAIN Arr.items /\ IsObject(Arr.items[item])
         /\ \A c \in Channel :
               NamedAt(Arr.items, item, c) <=>
                  Arr.items[item].j = "object" /\ HasChannel(Obj) /\ c = idx
         /\ Arr.items[item].j = "object" /\ HasChannel(Obj) => idx \in Channel
         /\ Arr.items[item].j = "object" => Obj \in Objects(doc)
<1>1. doc # NoDocument /\ entry \in DOMAIN doc /\ doc[entry].key = "di" /\ Arr.j = "array"
  BY DEF WalkInv, AtItem
<1>2. item \in DOMAIN Arr.items /\ IsObject(Arr.items[item]) /\ Arr \in Arrays(doc)
  <2>1. item \in 1 .. Len(Arr.items)
    BY <1>1, ArrIs DEF AtItem, TypeOK
  <2> QED
    BY <1>1, <2>1, ArrIs
<1>3. Arr.items[item].j = "object" /\ HasChannel(Obj) =>
         /\ idx \in Channel /\ Names(Obj, idx) /\ \A c : Names(Obj, c) => c = idx
  BY <1>2, ChannelNamed DEF Obj, idx
<1>4. \A c \in Channel : NamedAt(Arr.items, item, c) <=>
         Arr.items[item].j = "object" /\ HasChannel(Obj) /\ c = idx
  BY <1>3 DEF NamedAt, Names, Obj
<1>5. Arr.items[item].j = "object" => Obj \in Objects(doc)
  BY <1>2 DEF Objects, RecordsOf, Obj
<1> QED
  BY <1>1, <1>2, <1>3, <1>4, <1>5

LEMMA ItemStepIs ==
  ASSUME TypeOK, WalkInv, ItemStep
  PROVE  /\ AtItem /\ ItemDone
         /\ cache' \in CacheType /\ cache'.system = cache.system /\ report' \in Reports
         /\ seen' = seen \cup {c \in Channel : NamedAt(Arr.items, item, c)}
         /\ \A c \in Channel :
               ~NamedAt(Arr.items, item, c) \/ c \in seen => cache'.di[c] = cache.di[c]
         /\ \A c \in Channel :
               NamedAt(Arr.items, item, c) /\ c \notin seen =>
                  cache'.di[c] \in Effect(Arr.items[item].o, cache.di[c])
         /\ Clean(report') =>
               /\ Clean(report)
               /\ Arr.items[item].j = "object" =>
                     \E c \in Channel :
                        /\ NamedAt(Arr.items, item, c) /\ c \notin seen
                        /\ Shows(cache'.di[c], Arr.items[item].o)
<1>1. AtItem /\ ItemDone
  BY DEF ItemStep, SkipItem, MalformedItem, RejectItem, ApplyItem
<1>2. report \in Reports /\ cache \in CacheType
  BY DEF TypeOK, Reports
<1>3. CASE SkipItem \/ MalformedItem
  <2>1. /\ cache' = cache /\ seen' = seen /\ Arr.items[item].j # "object"
        /\ report' = report \/ report' = Counted("malformed")
    BY <1>3 DEF SkipItem, MalformedItem
  <2>2. \A c \in Channel : ~NamedAt(Arr.items, item, c)
    BY <2>1 DEF NamedAt
  <2>3. report' \in Reports /\ (Clean(report') => Clean(report))
    BY <1>2, <2>1, CountedIs
  <2> QED
    BY <1>1, <1>2, <2>1, <2>2, <2>3
<1>4. CASE RejectItem
  <2>1. /\ cache' = cache /\ seen' = seen /\ report' = Counted("rejected")
        /\ HasChannel(Obj) => idx \in seen
    BY <1>4 DEF RejectItem, Repeated
  <2>2. \A c \in Channel : NamedAt(Arr.items, item, c) => c \in seen
    BY <1>1, <2>1, ItemIs
  <2>3. report' \in Reports /\ ~Clean(report')
    BY <1>2, <2>1, CountedIs
  <2> QED
    BY <1>1, <1>2, <2>1, <2>2, <2>3
<1>5. CASE ApplyItem
  <2>1. /\ Arr.items[item].j = "object" /\ HasChannel(Obj) /\ idx \notin seen
        /\ seen' = seen \cup {idx}
        /\ \/ Accepted(Obj, cache.di[idx]) = {} /\ report' = Counted("rejected") /\ cache' = cache
           \/ \E r \in Accepted(Obj, cache.di[idx]) :
                 cache' = [cache EXCEPT !.di[idx] = r] /\ report' = Counted("accepted")
    BY <1>5 DEF ApplyItem, Repeated, Marked
  <2>2. /\ idx \in Channel
        /\ \A c \in Channel : NamedAt(Arr.items, item, c) <=> c = idx
    BY <1>1, <2>1, ItemIs
  <2>3. seen' = seen \cup {c \in Channel : NamedAt(Arr.items, item, c)}
    BY <2>1, <2>2
  <2>4. CASE Accepted(Obj, cache.di[idx]) = {} /\ report' = Counted("rejected") /\ cache' = cache
    <3>1. report' \in Reports /\ ~Clean(report')
      BY <1>2, <2>4, CountedIs
    <3>2. cache.di[idx] \in Effect(Arr.items[item].o, cache.di[idx])
      BY <2>4 DEF Effect, Obj
    <3> QED
      BY <1>1, <1>2, <2>2, <2>3, <2>4, <3>1, <3>2
  <2>5. CASE \E r \in Accepted(Obj, cache.di[idx]) :
                cache' = [cache EXCEPT !.di[idx] = r] /\ report' = Counted("accepted")
    <3>1. PICK r \in Accepted(Obj, cache.di[idx]) :
              cache' = [cache EXCEPT !.di[idx] = r] /\ report' = Counted("accepted")
      BY <2>5
    <3>2. r \in RecordType /\ Shows(r, Obj) /\ r \in Effect(Obj, cache.di[idx])
      BY AcceptedShows
    <3>3. report' \in Reports /\ (Clean(report') => Clean(report))
      BY <1>2, <3>1, CountedIs
    <3>4. /\ cache' \in CacheType /\ cache'.system = cache.system
          /\ cache'.di[idx] = r
          /\ \A c \in Channel : c # idx => cache'.di[c] = cache.di[c]
      BY <1>2, <2>2, <3>1, <3>2 DEF CacheType
    <3> QED
      BY <1>1, <2>1, <2>2, <2>3, <3>2, <3>3, <3>4 DEF Obj
  <2> QED
    BY <2>1, <2>4, <2>5
<1> QED
  BY <1>3, <1>4, <1>5 DEF ItemStep

------------------------------------------------------------------------------
(* Types, and where the walk is.                                           *)

LEMMA WalkStep == ASSUME TypeOK, WalkInv, [Next]_vars PROVE TypeOK' /\ WalkInv'
<1>1. CASE Import \/ Restore
  <2>1. PICK root : /\ root \in Documents \/ (root = exported /\ exported # NoDocument)
                    /\ Begin(root)
    BY <1>1 DEF Import, Restore
  <2>2. root # NoDocument /\ doc' = root /\ report' = NoReport /\ item = 0 /\ entry = 1
    BY <2>1, NoDocumentIsNone DEF Begin, WalkInv
  <2>3. report' \in Reports
    BY <2>2 DEF NoReport, Reports
  <2>4. steps' \in 0 .. MaxSteps
    BY <2>1, Numbers DEF Begin, Step, TypeOK
  <2> QED
    BY <2>1, <2>2, <2>3, <2>4 DEF Begin, TypeOK, WalkInv, Reports
<1>2. CASE Export
  <2>1. steps' \in 0 .. MaxSteps
    BY <1>2, Numbers DEF Export, Step, TypeOK
  <2> QED
    BY <1>2, <2>1 DEF Export, TypeOK, WalkInv
<1>3. CASE Return
  BY <1>3 DEF Return, TypeOK, WalkInv
<1>4. CASE EntryStep
  <2>1. /\ doc # NoDocument /\ item = 0 /\ entry' = entry + 1
        /\ cache' \in CacheType /\ report' \in Reports
        /\ UNCHANGED <<doc, item, seen, before, exported, original, steps>>
    BY <1>4, EntryStepIs DEF EntryDone
  <2>2. TypeOK'
    BY <2>1 DEF TypeOK, Reports
  <2>3. WalkInv'
    BY <2>1 DEF WalkInv, TypeOK
  <2> QED
    BY <2>2, <2>3
<1>5. CASE ArrayEntry
  <2>1. /\ doc # NoDocument /\ entry \in DOMAIN doc /\ doc[entry].key = "di" /\ Arr.j = "array"
        /\ item' = 1 /\ seen' = {}
        /\ UNCHANGED <<cache, report, doc, entry, before, exported, original, steps>>
    BY <1>5, DocumentTyped, EntriesNumbered DEF ArrayEntry, AtEntry, TypeOK
  <2>2. Arr' = Arr /\ Len(Arr.items) \in Nat
    BY <2>1, ArrIs DEF Arr
  <2> QED
    BY <2>1, <2>2 DEF TypeOK, WalkInv
<1>6. CASE ItemStep
  <2>1. /\ doc # NoDocument /\ entry \in DOMAIN doc /\ doc[entry].key = "di" /\ Arr.j = "array"
        /\ item' = item + 1
        /\ UNCHANGED <<doc, entry, before, exported, original, steps>>
    BY <1>6, ItemStepIs, ItemIs DEF ItemDone
  <2>2. Arr' = Arr /\ item + 1 <= Len(Arr.items) + 1 /\ Len(Arr.items) \in Nat
    BY <1>6, <2>1, ItemStepIs, ArrIs DEF Arr, AtItem, TypeOK
  <2>3. seen' \subseteq Channel /\ cache' \in CacheType /\ report' \in Reports
    BY <1>6, ItemStepIs DEF TypeOK
  <2> QED
    BY <2>1, <2>2, <2>3 DEF TypeOK, WalkInv, Reports
<1>7. CASE ArrayEnd
  BY <1>7 DEF ArrayEnd, TypeOK, WalkInv
<1>8. CASE UNCHANGED vars
  <2>1. Arr' = Arr
    BY <1>8 DEF vars, Arr
  <2> QED
    BY <1>8, <2>1 DEF vars, TypeOK, WalkInv
<1> QED
  BY <1>1, <1>2, <1>3, <1>4, <1>5, <1>6, <1>7, <1>8 DEF Next, EntryStep, ItemStep

LEMMA InitWalk == Init => TypeOK /\ WalkInv
<1> SUFFICES ASSUME Init PROVE TypeOK /\ WalkInv
  OBVIOUS
<1>1. FactoryCache \in CacheType
  BY Numbers DEF FactoryCache, CacheType, RecordType, Unit, Level
<1>2. NoReport \in Reports
  BY DEF NoReport, Reports
<1> QED
  BY <1>1, <1>2, Numbers DEF Init, TypeOK, WalkInv, Reports

\* For any documents the cache holds legal records and every other variable keeps its
\* type, at every step of an import.
THEOREM JsonTyped == Spec => []TypeOK
<1>1. Spec => [](TypeOK /\ WalkInv)
  <2>1. TypeOK /\ WalkInv /\ [Next]_vars => (TypeOK /\ WalkInv)'
    BY WalkStep
  <2> QED
    BY <2>1, InitWalk, PTL DEF Spec
<1> QED
  BY <1>1, PTL

\* The two imports and the two walks aside, nothing moves the cache.
LEMMA NamedStep ==
  ASSUME TypeOK, WalkInv, OnlyNamedChannelsChange, [Next]_vars
  PROVE  OnlyNamedChannelsChange'
<1>1. CASE Import \/ Restore
  <2>1. cache' = cache /\ before' = before /\ doc = NoDocument
    BY <1>1 DEF Import, Restore, Begin
  <2> QED
    BY <2>1 DEF WalkInv, OnlyNamedChannelsChange
<1>2. CASE Export \/ Return
  BY <1>2 DEF Export, Return, OnlyNamedChannelsChange
<1>3. CASE EntryStep
  BY <1>3, EntryStepIs DEF EntryDone, OnlyNamedChannelsChange
<1>4. CASE ItemStep
  <2>1. ASSUME NEW c \in Channel, NamedAt(Arr.items, item, c)
        PROVE  \E obj \in Objects(doc) : Names(obj, c)
    <3>1. AtItem
      BY <1>4, ItemStepIs
    <3>2. Arr.items[item].j = "object" /\ Names(Obj, c)
      BY <2>1 DEF NamedAt, Obj
    <3>3. Obj \in Objects(doc)
      BY <3>1, <3>2, ItemIs
    <3> QED
      BY <3>2, <3>3
  <2>2. \A c \in Channel : ~NamedAt(Arr.items, item, c) => cache'.di[c] = cache.di[c]
    BY <1>4, ItemStepIs
  <2>3. doc' = doc /\ before' = before /\ doc # NoDocument
    BY <1>4, ItemStepIs, ItemIs DEF ItemDone
  <2> QED
    BY <2>1, <2>2, <2>3 DEF OnlyNamedChannelsChange
<1>5. CASE ArrayEntry \/ ArrayEnd \/ UNCHANGED vars
  BY <1>5 DEF ArrayEntry, ArrayEnd, vars, OnlyNamedChannelsChange
<1> QED
  BY <1>1, <1>2, <1>3, <1>4, <1>5 DEF Next, EntryStep, ItemStep

\* At no moment of an import has a channel changed that no record of the document names.
THEOREM ChannelsByName == Spec => []OnlyNamedChannelsChange
<1>1. Init => TypeOK /\ WalkInv /\ OnlyNamedChannelsChange
  BY InitWalk DEF Init, OnlyNamedChannelsChange
<1>2. TypeOK /\ WalkInv /\ OnlyNamedChannelsChange /\ [Next]_vars =>
         (TypeOK /\ WalkInv /\ OnlyNamedChannelsChange)'
  BY WalkStep, NamedStep
<1> QED
  BY <1>1, <1>2, PTL DEF Spec

------------------------------------------------------------------------------
(* What is walked has had its effect.                                      *)

\* A record that is applied once more leaves what it made.
LEMMA EffectTwice ==
  ASSUME NEW obj, NEW rec, NEW new \in Effect(obj, rec)
  PROVE  Effect(obj, new) \subseteq Effect(obj, rec)
<1>1. CASE Accepted(obj, rec) = {}
  BY <1>1 DEF Effect
<1>2. CASE Accepted(obj, rec) # {}
  <2>1. new \in PatchRecord(obj, rec)
    BY <1>2 DEF Effect, Accepted
  <2>2. PatchRecord(obj, new) = PatchRecord(obj, rec)
    BY <2>1 DEF PatchRecord
  <2>3. Accepted(obj, new) = Accepted(obj, rec)
    BY <2>2 DEF Accepted
  <2> QED
    BY <1>2, <2>3 DEF Effect
<1> QED
  BY <1>1, <1>2

LEMMA DoneAtBegin ==
  ASSUME TypeOK, WalkInv, NEW root, Begin(root), IsDocument(root)
  PROVE  ArrayWalked(FirstItems(doc))' /\ SystemWalked'
<1>1. doc' = root /\ cache' = before' /\ entry' = 1 /\ item' = 0
  BY DEF Begin, WalkInv
<1>2. \A k \in DOMAIN root : k \in Nat /\ k >= 1
  BY EntriesNumbered
<1> DEFINE items == FirstItems(root)
<1>3. \A i \in DOMAIN items : i \in Nat /\ i >= 1
  BY FirstItemsAre
<1> HIDE DEF items
<1>4. \A i \in DOMAIN items : ~Reached(i)'
  BY <1>1, <1>2, <1>3 DEF Reached
<1>5. ArrayWalked(items)'
  BY <1>1, <1>4 DEF ArrayWalked
<1>6. SystemWalked'
  BY <1>1, <1>2 DEF SystemWalked
<1> QED
  BY <1>1, <1>5, <1>6 DEF items, ArrayWalked

LEMMA DoneAtEntry ==
  ASSUME TypeOK, ArrayWalked(FirstItems(doc)), SystemWalked, EntryStep
  PROVE  ArrayWalked(FirstItems(doc))' /\ SystemWalked'
<1> DEFINE items == FirstItems(doc)
<1>1. /\ doc # NoDocument /\ item = 0 /\ item' = 0 /\ entry' = entry + 1
      /\ doc' = doc /\ before' = before /\ cache'.di = cache.di
      /\ Clean(report') => Clean(report)
  BY EntryStepIs DEF EntryDone
<1>2. entry \in DOMAIN doc /\ entry \in Nat /\ DOMAIN doc \subseteq Nat
  BY <1>1, EntryStepIs, DocumentTyped, EntriesNumbered DEF TypeOK
<1>3. doc[entry].key = "di" => items = <<>>
  <2> SUFFICES ASSUME doc[entry].key = "di" PROVE items = <<>>
    OBVIOUS
  <2>1. Arr.j # "array"
    BY DEF EntryStep, SkipEntry, MalformedEntry, UnknownEntry, SystemEntry, AtEntry
  <2> QED
    BY <1>1, <1>2, <2>1, ArrOwn
<1>4. items' = items
  BY <1>1
<1>5. ArrayWalked(items)
  OBVIOUS
<1> HIDE DEF items
<1>6. \A i \in DOMAIN items : Reached(i)' <=> Reached(i)
  <2>1. CASE doc[entry].key = "di"
    BY <1>3, <2>1
  <2>2. CASE doc[entry].key # "di"
    <3>1. \A k \in DOMAIN doc : k < entry + 1 /\ doc[k].key = "di" => k < entry
      BY <1>2, <2>2
    <3> QED
      BY <1>1, <1>2, <3>1 DEF Reached
  <2> QED
    BY <2>1, <2>2
<1>7. ArrayWalked(items)'
  BY <1>1, <1>4, <1>5, <1>6 DEF ArrayWalked
<1>8. ASSUME NEW k \in DOMAIN doc, doc[k].key = "system", doc[k].val.j = "object",
             \A m \in DOMAIN doc : doc[m].key = "system" => m = k
      PROVE  /\ entry' > k => cache'.system \in Effect(doc[k].val.o, before.system)
             /\ entry' <= k => cache'.system = before.system
  <2>1. /\ entry > k => cache.system \in Effect(doc[k].val.o, before.system)
        /\ entry <= k => cache.system = before.system
    BY <1>8 DEF SystemWalked
  <2>2. CASE k = entry
    <3>1. cache'.system \in Effect(doc[k].val.o, cache.system)
      BY <1>8, <2>2, EntryStepIs
    <3> QED
      BY <1>1, <1>2, <2>1, <2>2, <3>1
  <2>3. CASE k # entry
    <3>1. cache' = cache
      BY <1>2, <1>8, <2>3, EntryStepIs
    <3>2. (entry' > k <=> entry > k) /\ (entry' <= k <=> entry <= k)
      BY <1>1, <1>2, <2>3
    <3> QED
      BY <2>1, <3>1, <3>2
  <2> QED
    BY <2>2, <2>3
<1>9. SystemWalked'
  BY <1>1, <1>8 DEF SystemWalked
<1> QED
  BY <1>7, <1>9 DEF items, ArrayWalked

\* A walk over an array leaves what is known of the system record.
LEMMA SystemInArray ==
  ASSUME SystemWalked, entry \in Nat, DOMAIN doc \subseteq Nat, doc[entry].key = "di",
         doc' = doc, before' = before, cache'.system = cache.system,
         entry' = entry \/ entry' = entry + 1
  PROVE  SystemWalked'
<1>1. ASSUME NEW k \in DOMAIN doc, doc[k].key = "system"
      PROVE  (entry' > k <=> entry > k) /\ (entry' <= k <=> entry <= k)
  <2>1. k # entry /\ k \in Nat
    BY <1>1
  <2> QED
    BY <2>1
<1> QED
  BY <1>1 DEF SystemWalked

\* Before and behind an array the same is walked of it as at its first and its last item.
LEMMA DoneAtArray ==
  ASSUME TypeOK, WalkInv, ArrayWalked(FirstItems(doc)), SystemWalked, ArrayEntry \/ ArrayEnd
  PROVE  ArrayWalked(FirstItems(doc))' /\ SystemWalked'
<1> DEFINE items == FirstItems(doc)
<1>1. /\ doc # NoDocument /\ entry <= Len(doc) /\ doc[entry].key = "di" /\ Arr.j = "array"
      /\ UNCHANGED <<cache, report, doc, before>>
  <2>1. CASE ArrayEntry
    BY <2>1 DEF ArrayEntry, AtEntry
  <2>2. CASE ArrayEnd
    <3>1. doc # NoDocument /\ entry \in DOMAIN doc
      BY <2>2 DEF ArrayEnd, WalkInv
    <3>2. entry <= Len(doc)
      BY <3>1, DocumentTyped, EntriesNumbered
    <3> QED
      BY <2>2, <3>1, <3>2 DEF ArrayEnd, WalkInv
  <2> QED
    BY <2>1, <2>2
<1>2. /\ entry \in DOMAIN doc /\ entry \in Nat /\ DOMAIN doc \subseteq Nat /\ item \in Nat
  BY <1>1, DocumentTyped, EntriesNumbered DEF TypeOK
<1>3. items = Arr.items /\ Len(items) \in Nat /\ DOMAIN items = 1 .. Len(items)
  BY <1>1, <1>2, ArrIs
<1>4. items' = items /\ ArrayWalked(items)
  BY <1>1
<1> HIDE DEF items
<1>5. \A i \in DOMAIN items : i \in Nat /\ i >= 1 /\ i <= Len(items)
  BY <1>3
<1>6. ASSUME ArrayEntry PROVE ArrayWalked(items)'
  <2>1. item = 0 /\ item' = 1 /\ seen' = {} /\ entry' = entry
    BY <1>6 DEF ArrayEntry, AtEntry
  <2>2. \A i \in DOMAIN items : ~(i < item) /\ ~(i < item')
    BY <1>5, <2>1
  <2>3. \A i \in DOMAIN items : Reached(i)' <=> Reached(i)
    BY <1>1, <2>1, <2>2 DEF Reached
  <2> QED
    BY <1>1, <1>4, <2>1, <2>2, <2>3 DEF ArrayWalked
<1>7. ASSUME ArrayEnd PROVE ArrayWalked(items)'
  <2>1. item > Len(items) /\ item' = 0 /\ entry' = entry + 1
    BY <1>3, <1>7 DEF ArrayEnd
  <2>2. \A i \in DOMAIN items : i < item
    BY <1>2, <1>3, <1>5, <2>1
  <2>3. entry < entry'
    BY <1>2, <2>1
  <2>4. \A i \in DOMAIN items : Reached(i)' /\ Reached(i)
    BY <1>1, <1>2, <2>2, <2>3 DEF Reached
  <2> QED
    BY <1>1, <1>4, <2>1, <2>4 DEF ArrayWalked
<1>8. entry' = entry \/ entry' = entry + 1
  BY DEF ArrayEntry, ArrayEnd
<1>9. SystemWalked'
  BY <1>1, <1>2, <1>8, SystemInArray
<1>10. ArrayWalked(items)'
  BY <1>6, <1>7
<1> QED
  BY <1>4, <1>9, <1>10 DEF items, ArrayWalked

\* One item further: the channel it names, if it is the first to, takes its record.
LEMMA DoneAtItem ==
  ASSUME TypeOK, WalkInv, ArrayWalked(FirstItems(doc)), SystemWalked, ItemStep
  PROVE  ArrayWalked(FirstItems(doc))' /\ SystemWalked'
<1> DEFINE items == FirstItems(doc)
           here(c) == NamedAt(items, item, c)
<1>1. /\ doc # NoDocument /\ entry \in DOMAIN doc /\ doc[entry].key = "di" /\ Arr.j = "array"
      /\ item \in DOMAIN Arr.items /\ item > 0 /\ item \in Nat
      /\ item' = item + 1 /\ UNCHANGED <<doc, entry, before>>
  BY ItemStepIs, ItemIs DEF ItemDone, AtItem, TypeOK
<1>2. /\ items = Arr.items /\ DOMAIN items \subseteq Nat /\ items' = items
      /\ entry \in Nat /\ DOMAIN doc \subseteq Nat
  <2>1. items = Arr.items /\ DOMAIN items = 1 .. Len(items)
    BY <1>1, ArrIs
  <2>2. entry \in Nat /\ DOMAIN doc \subseteq Nat
    BY <1>1, DocumentTyped, EntriesNumbered DEF TypeOK
  <2> QED
    BY <1>1, <2>1, <2>2
<1>3. ArrayWalked(items)
  OBVIOUS
<1>4. /\ seen' = seen \cup {c \in Channel : here(c)}
      /\ \A c \in Channel : ~here(c) \/ c \in seen => cache'.di[c] = cache.di[c]
      /\ \A c \in Channel :
            here(c) /\ c \notin seen => cache'.di[c] \in Effect(items[item].o, cache.di[c])
      /\ Clean(report') =>
            /\ Clean(report)
            /\ items[item].j = "object" =>
                  \E c \in Channel :
                     here(c) /\ c \notin seen /\ Shows(cache'.di[c], items[item].o)
      /\ cache'.system = cache.system
  BY <1>2, ItemStepIs
<1> HIDE DEF items
<1>5. seen = {c \in Channel : \E i \in DOMAIN items : i < item /\ NamedAt(items, i, c)}
  BY <1>1, <1>3 DEF ArrayWalked
<1>6. \A i \in DOMAIN items : (i < item' <=> i < item \/ i = item)
  BY <1>1, <1>2
<1>7. \A i \in DOMAIN items :
         /\ i = item => Reached(i)'
         /\ i # item => (Reached(i)' <=> Reached(i))
  BY <1>1, <1>2, <1>6 DEF Reached
<1>8. \A c \in Channel : here(c) /\ c \notin seen => FirstFor(items, item, c)
  <2> SUFFICES ASSUME NEW c \in Channel, here(c), c \notin seen,
                      NEW k \in DOMAIN items, NamedAt(items, k, c)
               PROVE  item <= k
    BY DEF FirstFor
  <2>1. ~(k < item)
    BY <1>5
  <2> QED
    BY <1>1, <1>2, <2>1
<1>9. \A c \in Channel : FirstFor(items, item, c) => here(c) /\ c \notin seen
  <2> SUFFICES ASSUME NEW c \in Channel, FirstFor(items, item, c), c \in seen PROVE FALSE
    BY DEF FirstFor
  <2>1. PICK i \in DOMAIN items : i < item /\ NamedAt(items, i, c)
    BY <1>5
  <2>2. item <= i
    BY <2>1 DEF FirstFor
  <2> QED
    BY <1>1, <1>2, <2>1, <2>2
<1>10. \A i \in DOMAIN items : \A c \in Channel :
          FirstFor(items, i, c) /\ i # item => cache'.di[c] = cache.di[c]
  <2> SUFFICES ASSUME NEW i \in DOMAIN items, NEW c \in Channel,
                      FirstFor(items, i, c), i # item, here(c), c \notin seen
               PROVE  FALSE
    BY <1>4
  <2>1. item <= i /\ i <= item
    BY <1>1, <1>2, <1>8 DEF FirstFor
  <2> QED
    BY <1>1, <1>2, <2>1
<1>11. \A c \in Channel :
          (\A i \in DOMAIN items : ~NamedAt(items, i, c)) => cache'.di[c] = before'.di[c]
  BY <1>1, <1>2, <1>3, <1>4 DEF ArrayWalked
<1>12. ASSUME NEW i \in DOMAIN items, NEW c \in Channel, FirstFor(items, i, c)
       PROVE  /\ Reached(i)' => cache'.di[c] \in Effect(items[i].o, before'.di[c])
              /\ ~Reached(i)' => cache'.di[c] = before'.di[c]
  <2>1. /\ Reached(i) => cache.di[c] \in Effect(items[i].o, before.di[c])
        /\ ~Reached(i) => cache.di[c] = before.di[c]
    BY <1>3, <1>12 DEF ArrayWalked
  <2>2. CASE i # item
    BY <1>1, <1>7, <1>10, <1>12, <2>1, <2>2
  <2>3. CASE i = item
    <3>1. cache'.di[c] \in Effect(items[i].o, cache.di[c])
      BY <1>4, <1>9, <1>12, <2>3
    <3>2. Effect(items[i].o, cache.di[c]) \subseteq Effect(items[i].o, before.di[c])
      <4>1. CASE Reached(i)
        BY <2>1, <4>1, EffectTwice
      <4>2. CASE ~Reached(i)
        BY <2>1, <4>2
      <4> QED
        BY <4>1, <4>2
    <3>3. cache'.di[c] \in Effect(items[i].o, before'.di[c])
      BY <1>1, <3>1, <3>2
    <3>4. Reached(i)'
      BY <1>7, <2>3
    <3> QED
      BY <3>3, <3>4
  <2> QED
    BY <2>2, <2>3
<1>13. seen' = {c \in Channel : \E i \in DOMAIN items : i < item' /\ NamedAt(items, i, c)}
  BY <1>1, <1>2, <1>4, <1>5, <1>6
<1>14. ASSUME Clean(report'), NEW i \in DOMAIN items, Reached(i)', items[i].j = "object"
       PROVE  \E c \in Channel : FirstFor(items, i, c) /\ Shows(cache'.di[c], items[i].o)
  <2>1. CASE i # item
    <3>1. PICK c \in Channel : FirstFor(items, i, c) /\ Shows(cache.di[c], items[i].o)
      BY <1>3, <1>4, <1>7, <1>14, <2>1 DEF ArrayWalked
    <3> QED
      BY <1>10, <2>1, <3>1
  <2>2. CASE i = item
    BY <1>4, <1>8, <1>14, <2>2
  <2> QED
    BY <2>1, <2>2
<1>15. ArrayWalked(items)'
  BY <1>2, <1>11, <1>12, <1>13, <1>14 DEF ArrayWalked
<1>16. SystemWalked'
  BY <1>1, <1>2, <1>4, SystemInArray
<1> QED
  BY <1>2, <1>15, <1>16 DEF items, ArrayWalked

LEMMA JsonStep ==
  ASSUME TypeOK, JsonInv, [Next]_vars
  PROVE  JsonInv'
<1>1. TypeOK' /\ WalkInv' /\ OnlyNamedChannelsChange'
  BY WalkStep, NamedStep DEF JsonInv
<1>2. ASSUME doc' # NoDocument PROVE ArrayWalked(FirstItems(doc))' /\ SystemWalked'
  <2>1. CASE Import \/ Restore
    <3>1. PICK root : /\ root \in Documents \/ (root = exported /\ exported # NoDocument)
                      /\ Begin(root)
      BY <2>1 DEF Import, Restore
    <3>2. original \in CacheType /\ exported \in {NoDocument, ExportJson(original)}
      BY DEF TypeOK
    <3>3. IsDocument(root)
      BY <3>1, <3>2, ConfigJsonConstants, ExportIs
    <3> QED
      BY <3>1, <3>3, DoneAtBegin DEF JsonInv
  <2>2. CASE Export \/ Return
    BY <1>2, <2>2 DEF Export, Return
  <2>3. ASSUME doc' = doc PROVE ArrayWalked(FirstItems(doc)) /\ SystemWalked /\ WalkInv
    BY <1>2, <2>3 DEF JsonInv
  <2>4. CASE EntryStep
    BY <2>3, <2>4, EntryStepIs, DoneAtEntry DEF EntryDone
  <2>5. CASE ArrayEntry \/ ArrayEnd
    BY <2>3, <2>5, DoneAtArray DEF ArrayEntry, ArrayEnd
  <2>6. CASE ItemStep
    BY <2>3, <2>6, ItemStepIs, DoneAtItem DEF ItemDone, JsonInv
  <2>7. CASE UNCHANGED vars
    <3> DEFINE items == FirstItems(doc)
    <3>1. ArrayWalked(items) /\ SystemWalked /\ items' = items
      BY <2>3, <2>7 DEF vars
    <3>2. SystemWalked'
      BY <2>7, <3>1 DEF vars, SystemWalked
    <3> HIDE DEF items
    <3>3. ArrayWalked(items)'
      BY <2>7, <3>1 DEF vars, ArrayWalked, Reached
    <3> QED
      BY <3>1, <3>2, <3>3 DEF items, ArrayWalked
  <2> QED
    BY <2>1, <2>2, <2>4, <2>5, <2>6, <2>7 DEF Next, EntryStep, ItemStep
<1> QED
  BY <1>1, <1>2 DEF JsonInv

LEMMA JsonInvariant == Spec => [](TypeOK /\ JsonInv)
<1>1. Init => TypeOK /\ JsonInv
  BY InitWalk DEF Init, JsonInv, OnlyNamedChannelsChange
<1>2. TypeOK /\ JsonInv /\ [Next]_vars => (TypeOK /\ JsonInv)'
  BY WalkStep, JsonStep DEF JsonInv
<1> QED
  BY <1>1, <1>2, PTL DEF Spec

------------------------------------------------------------------------------
(* What an import has done when it returns.                                *)

\* All of the document is walked.
LEMMA AtTheEnd ==
  ASSUME TypeOK, JsonInv, [Next]_vars, ImportEnds
  PROVE  /\ IsDocument(doc)
         /\ ArrayWalked(FirstItems(doc)) /\ \A i \in DOMAIN FirstItems(doc) : Reached(i)
         /\ \A k \in DOMAIN doc :
               (/\ doc[k].key = "system" /\ doc[k].val.j = "object"
                /\ \A m \in DOMAIN doc : doc[m].key = "system" => m = k) =>
                   cache.system \in Effect(doc[k].val.o, before.system)
<1>1. Return
  <2>1. ASSUME Import \/ Restore \/ Export PROVE FALSE
    BY <2>1 DEF Import, Restore, Begin, Export, ImportEnds
  <2>2. ASSUME EntryStep \/ ItemStep PROVE FALSE
    BY <2>2, EntryStepIs, ItemStepIs DEF EntryDone, ItemDone, ImportEnds, JsonInv
  <2>3. ASSUME ArrayEntry \/ ArrayEnd \/ UNCHANGED vars PROVE FALSE
    BY <2>3 DEF ArrayEntry, ArrayEnd, vars, ImportEnds
  <2> QED
    BY <2>1, <2>2, <2>3 DEF Next, EntryStep, ItemStep
<1>2. doc # NoDocument /\ item = 0 /\ entry > Len(doc)
  BY <1>1 DEF Return
<1>3. IsDocument(doc) /\ ArrayWalked(FirstItems(doc)) /\ SystemWalked
  BY <1>2, DocumentTyped DEF JsonInv
<1>4. \A k \in DOMAIN doc : entry > k /\ k < entry
  <2>1. Len(doc) \in Nat /\ DOMAIN doc = 1 .. Len(doc) /\ entry \in Nat
    BY <1>3, EntriesNumbered DEF TypeOK
  <2> QED
    BY <1>2, <2>1
<1>5. \A i \in DOMAIN FirstItems(doc) : Reached(i)
  BY <1>3, <1>4, FirstItemsAre DEF Reached
<1> QED
  BY <1>3, <1>4, <1>5 DEF SystemWalked

\* Of the records of the first array that name a channel the first one decides, and
\* whatever stands before, between or behind is without effect on it: however long the
\* array is, and however often the document repeats its key.
THEOREM FirstWins == Spec => FirstRecordWins
<1>1. TypeOK /\ JsonInv /\ [Next]_vars =>
         (ImportEnds =>
            LET items == FirstItems(doc)
            IN \A c \in Channel :
                  \/ /\ \A i \in DOMAIN items : ~NamedAt(items, i, c)
                     /\ cache.di[c] = before.di[c]
                  \/ \E i \in DOMAIN items :
                        /\ FirstFor(items, i, c)
                        /\ cache.di[c] \in Effect(items[i].o, before.di[c]))
  <2> DEFINE items == FirstItems(doc)
  <2> SUFFICES ASSUME TypeOK, JsonInv, [Next]_vars, ImportEnds, NEW c \in Channel,
                      NEW j \in DOMAIN items, NamedAt(items, j, c)
               PROVE  \E i \in DOMAIN items : /\ FirstFor(items, i, c)
                                              /\ cache.di[c] \in Effect(items[i].o, before.di[c])
    BY AtTheEnd DEF ArrayWalked
  <2>1. ArrayWalked(items) /\ (\A i \in DOMAIN items : Reached(i)) /\ DOMAIN items \subseteq Nat
    BY AtTheEnd, FirstItemsAre
  <2> HIDE DEF items
  <2> DEFINE I == {i \in DOMAIN items : NamedAt(items, i, c)}
  <2>2. I \in SUBSET Nat /\ I # {}
    BY <2>1
  <2>3. \E i \in I : \A k \in I : i <= k
    BY <2>2, Least
  <2>4. PICK i \in DOMAIN items : FirstFor(items, i, c)
    BY <2>3 DEF FirstFor
  <2> QED
    BY <2>1, <2>4 DEF ArrayWalked
<1> QED
  BY <1>1, JsonInvariant, PTL DEF Spec, FirstRecordWins

\* A report with nothing rejected and nothing malformed is to be believed: every record
\* of the document has its channel, which shows what the record asked for, unless it
\* stands in a later array of the same name only.
THEOREM CleanMeansApplied == ASSUME NoneHidden PROVE Spec => CleanReportMeansApplied
<1>1. TypeOK /\ JsonInv /\ [Next]_vars =>
         (ImportEnds /\ report.rejected = 0 /\ report.malformed = 0 =>
            \A obj \in Objects(doc) :
               \E c \in Channel : Names(obj, c) /\ Shows(cache.di[c], obj))
  <2> DEFINE items == FirstItems(doc)
  <2> SUFFICES ASSUME TypeOK, JsonInv, [Next]_vars, ImportEnds,
                      report.rejected = 0, report.malformed = 0, NEW obj \in Objects(doc)
               PROVE  \E c \in Channel : Names(obj, c) /\ Shows(cache.di[c], obj)
    OBVIOUS
  <2>1. ArrayWalked(items) /\ (\A i \in DOMAIN items : Reached(i))
    BY AtTheEnd
  <2>2. Objects(doc) \subseteq RecordsOf(items)
    <3>1. CASE doc \in Documents
      BY <3>1 DEF NoneHidden
    <3>2. CASE doc = ExportJson(original)
      BY <3>2, ExportIs, DistinctHidesNothing DEF TypeOK
    <3> QED
      BY <3>1, <3>2 DEF TypeOK, ImportEnds
  <2> HIDE DEF items
  <2>3. PICK i \in DOMAIN items : items[i].j = "object" /\ items[i].o = obj
    BY <2>2 DEF RecordsOf
  <2>4. PICK c \in Channel : FirstFor(items, i, c) /\ Shows(cache.di[c], items[i].o)
    BY <2>1, <2>3 DEF ArrayWalked, Clean
  <2> QED
    BY <2>3, <2>4 DEF FirstFor, NamedAt
<1> QED
  BY <1>1, JsonInvariant, PTL DEF Spec, CleanReportMeansApplied

\* In an exported array channel c has one record, and it comes at c.
LEMMA ExportNames ==
  ASSUME NEW items, DOMAIN items = 1 .. Channels, NEW di,
         \A i \in 1 .. Channels : items[i] = Object(BuildRecord(i - 1, di[i - 1])),
         NEW c \in Channel
  PROVE  c + 1 \in DOMAIN items /\ FirstFor(items, c + 1, c) /\ items[c + 1].o = BuildRecord(c, di[c])
<1>1. c \in Nat /\ c < Channels /\ c + 1 \in 1 .. Channels /\ (c + 1) - 1 = c
  BY Numbers DEF Channel
<1>2. ASSUME NEW i \in 1 .. Channels
      PROVE  /\ items[i].j = "object" /\ items[i].o = BuildRecord(i - 1, di[i - 1])
             /\ \A n : Names(items[i].o, n) <=> n = i - 1
  <2>1. items[i] = Object(BuildRecord(i - 1, di[i - 1]))
    OBVIOUS
  <2>2. /\ "channel" \in DOMAIN BuildRecord(i - 1, di[i - 1])
        /\ BuildRecord(i - 1, di[i - 1])["channel"] = Number(2 * (i - 1))
    BY DEF BuildRecord
  <2>3. /\ i - 1 \in Nat /\ 2 * (i - 1) >= 0 /\ 2 * (i - 1) < 2 * Channels
        /\ Trunc(2 * (i - 1)) = i - 1
    BY Numbers, TruncOfWhole
  <2> QED
    BY <2>1, <2>2, <2>3 DEF Object, Number, Names, HasChannel
<1>3. items[c + 1].o = BuildRecord(c, di[c])
  BY <1>1, <1>2
<1>4. NamedAt(items, c + 1, c)
  BY <1>1, <1>2 DEF NamedAt
<1>5. ASSUME NEW k \in DOMAIN items, NamedAt(items, k, c) PROVE c + 1 <= k
  <2>1. c = k - 1
    BY <1>2, <1>5 DEF NamedAt
  <2> QED
    BY <1>1, <2>1
<1> QED
  BY <1>1, <1>3, <1>4, <1>5 DEF FirstFor

\* What was exported comes back, whatever was imported in the meantime: all levels, and
\* all enum values that have a name.
THEOREM ExportsComeBack == Spec => RestoreReproduces
<1>1. TypeOK /\ JsonInv /\ [Next]_vars =>
         (ImportEnds /\ doc = exported =>
            /\ \A c \in Channel : Back(original.di[c], before.di[c], cache.di[c])
            /\ Back(original.system, before.system, cache.system))
  <2> SUFFICES ASSUME TypeOK, JsonInv, [Next]_vars, ImportEnds, doc = exported
               PROVE  /\ \A c \in Channel : Back(original.di[c], before.di[c], cache.di[c])
                      /\ Back(original.system, before.system, cache.system)
    OBVIOUS
  <2>1. doc = ExportJson(original) /\ original \in CacheType /\ before \in CacheType
    BY DEF TypeOK, ImportEnds
  <2>2. /\ DOMAIN doc = {1, 2, 3} /\ doc[2].key = "system" /\ doc[3].key = "di"
        /\ doc[2].val = Object(BuildFields(original.system)) /\ doc[3].val.j = "array"
        /\ DOMAIN doc[3].val.items = 1 .. Channels
        /\ \A i \in 1 .. Channels :
              doc[3].val.items[i] = Object(BuildRecord(i - 1, original.di[i - 1]))
        /\ DistinctKeys(doc)
    BY <2>1, ExportIs
  <2>5. FirstItems(doc) = doc[3].val.items
    BY <2>2, AtTheEnd, DistinctHidesNothing
  <2>3. ASSUME NEW c \in Channel PROVE Back(original.di[c], before.di[c], cache.di[c])
    <3> DEFINE items == doc[3].val.items
               obj == BuildRecord(c, original.di[c])
    <3>1. ArrayWalked(items) /\ \A i \in DOMAIN items : Reached(i)
      BY <2>5, AtTheEnd
    <3>2. c + 1 \in DOMAIN items /\ FirstFor(items, c + 1, c) /\ items[c + 1].o = obj
      <4> DEFINE di == original.di
      <4>1. /\ DOMAIN items = 1 .. Channels
            /\ \A i \in 1 .. Channels : items[i] = Object(BuildRecord(i - 1, di[i - 1]))
        BY <2>2
      <4> HIDE DEF items, di
      <4>2. /\ c + 1 \in DOMAIN items /\ FirstFor(items, c + 1, c)
            /\ items[c + 1].o = BuildRecord(c, di[c])
        BY <4>1, ExportNames
      <4> QED
        BY <4>2 DEF di
    <3>3. cache.di[c] \in Effect(obj, before.di[c])
      BY <3>1, <3>2 DEF ArrayWalked
    <3>4. original.di[c] \in RecordType /\ before.di[c] \in RecordType
      BY <2>1 DEF CacheType
    <3>5. /\ "level" \in DOMAIN obj /\ obj["level"] = BuildFields(original.di[c])["level"]
          /\ "unit" \in DOMAIN obj <=> "unit" \in DOMAIN BuildFields(original.di[c])
          /\ "unit" \in DOMAIN obj => obj["unit"] = BuildFields(original.di[c])["unit"]
      BY DEF BuildRecord, BuildFields
    <3> HIDE DEF obj
    <3> QED
      BY <3>3, <3>4, <3>5, RecordComesBack
  <2>4. Back(original.system, before.system, cache.system)
    <3> DEFINE obj == BuildFields(original.system)
    <3>1. doc[2].val.j = "object" /\ doc[2].val.o = obj
      BY <2>2 DEF Object
    <3>2. cache.system \in Effect(obj, before.system)
      BY <2>2, <3>1, AtTheEnd DEF DistinctKeys
    <3>3. original.system \in RecordType /\ before.system \in RecordType
      BY <2>1 DEF CacheType
    <3>4. "level" \in DOMAIN obj
      BY DEF BuildFields
    <3> QED
      BY <3>2, <3>3, <3>4, RecordComesBack
  <2> QED
    BY <2>3, <2>4
<1> QED
  BY <1>1, JsonInvariant, PTL DEF Spec, RestoreReproduces

===============================================================================
