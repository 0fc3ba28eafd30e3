------------------------------ MODULE ConfigBlob ------------------------------
(***************************************************************************)
(* What a stored configuration goes through when firmware versions change: *)
(* config_init overlays the slot's TLV records on the defaults, stashes    *)
(* the records it does not know and writes them back with its own at the   *)
(* next config_save.  Both walk record by record, over buffers that count  *)
(* their bytes.                                                            *)
(*                                                                         *)
(* A tag stands for all the channels of one record type; its width is what *)
(* they take in the blob, headers included, and its value is a symbol.     *)
(* The slot below holds what was last written (see SlotStore).             *)
(***************************************************************************)
EXTENDS Integers, Sequences, FiniteSets

CONSTANTS
    Order,       \* Order[fw]: firmware fw's record types, in encoding order
    Width,       \* Width[fw][t]: bytes of type t in firmware fw's layout
    Values,      \* what the records of a type can hold
    Factory,     \* its factory value
    NoValue,     \* nothing on record
    UnknownMax,  \* UNKNOWN_BUF_BYTES
    PayloadMax,  \* SLOT_PAYLOAD_MAX_BYTES
    MaxEdits     \* bound: cache changes in a behaviour

Firmware == DOMAIN Width
Known(f) == DOMAIN Width[f]
Tag == UNION {Known(f) : f \in Firmware}

\* The bytes of a firmware's records, each named by its record and its place.
Bytes(f) == UNION {{t} \X (1 .. Width[f][t]) : t \in Known(f)}
AllBytes == UNION {Bytes(f) : f \in Firmware}

ASSUME ConfigBlobConstants ==
    /\ DOMAIN Order = Firmware
    /\ \A f \in Firmware :
          /\ Width[f] \in [Known(f) -> Nat]
          /\ Order[f] \in Seq(Known(f))
          /\ \A t \in Known(f) : \E i \in DOMAIN Order[f] : Order[f][i] = t
          /\ \A i, j \in DOMAIN Order[f] : Order[f][i] = Order[f][j] => i = j
          /\ Cardinality(Bytes(f)) <= PayloadMax
    /\ IsFiniteSet(AllBytes)
    /\ Factory \in Values /\ NoValue \notin Values
    /\ UnknownMax \in Nat /\ PayloadMax \in Nat /\ MaxEdits \in Nat

VARIABLES
    fw,       \* the firmware in flash
    phase,    \* "off", or in config_init ("load"), "up", or in config_save ("save")
    next,     \* the record the decoder or the encoder comes to next
    cache,    \* s_cache: the value of every known type
    unknown,  \* s_unknown: records carried along
    out,      \* s_blob_buf while it is encoded
    blob,     \* the active slot's payload; empty before the first save
    status,   \* what the last config_init or config_save returned
    kept,     \* history: kept[t] is the value of t last stored, not reset since
    cleared,  \* history: config_reset_defaults was called since the boot
    edits     \* cache changes left of the bound

vars == <<fw, phase, next, cache, unknown, out, blob, status, kept, cleared, edits>>

Defaults(f) == [t \in Known(f) |-> Factory]

\* tlv.c: a buffer of records and the bytes they take.
Empty == [records |-> <<>>, used |-> 0]
Emit(b, r) == [records |-> Append(b.records, r), used |-> b.used + r.width]
Fits(b, r, capacity) == b.used + r.width <= capacity

Init ==
    /\ fw \in Firmware
    /\ phase = "off"
    /\ next = 1
    /\ cache = Defaults(fw)
    /\ unknown = Empty
    /\ out = Empty
    /\ blob = Empty
    /\ status = "none"
    /\ kept = [t \in Tag |-> NoValue]
    /\ cleared = FALSE
    /\ edits = MaxEdits

------------------------------------------------------------------------------
(* Decoding.                                                               *)

\* config_init: load_defaults_locked, then decode_blob_locked.
ConfigInit ==
    /\ phase = "off"
    /\ phase' = "load"
    /\ next' = 1
    /\ cache' = Defaults(fw)
    /\ unknown' = Empty
    /\ cleared' = FALSE
    /\ UNCHANGED <<fw, out, blob, status, kept, edits>>

\* preserve_unknown_locked drops a record there is no room for.
UnknownDropped(stash, r) == stash
PreserveUnknown(stash, r) == IF Fits(stash, r, UnknownMax) THEN Emit(stash, r) ELSE stash

Current == blob.records[next]

DecodeTakesAnyTag ==
    /\ phase = "load" /\ next \in DOMAIN blob.records
    /\ next' = next + 1
    /\ cache' = [t \in DOMAIN cache \cup {Current.tag} |->
                   IF t = Current.tag THEN Current.value ELSE cache[t]]
    /\ UNCHANGED <<fw, phase, unknown, out, blob, status, kept, cleared, edits>>
DecodeStashesKnown ==
    /\ phase = "load" /\ next \in DOMAIN blob.records
    /\ next' = next + 1
    /\ unknown' = PreserveUnknown(unknown, Current)
    /\ IF Current.tag \in Known(fw)
       THEN cache' = [cache EXCEPT ![Current.tag] = Current.value]
       ELSE UNCHANGED cache
    /\ UNCHANGED <<fw, phase, out, blob, status, kept, cleared, edits>>

\* One record: a short one ends the decoding, and config_init with it; the fields
\* a later firmware added at the end of a long one are ignored.
DecodeRecord ==
    /\ phase = "load" /\ next \in DOMAIN blob.records
    /\ IF Current.tag \in Known(fw) /\ Current.width < Width[fw][Current.tag]
       THEN /\ phase' = "up" /\ status' = "CODEC"
            /\ UNCHANGED <<next, cache, unknown>>
       ELSE /\ next' = next + 1
            /\ IF Current.tag \in Known(fw)
               THEN cache' = [cache EXCEPT ![Current.tag] = Current.value] /\ UNCHANGED unknown
               ELSE unknown' = PreserveUnknown(unknown, Current) /\ UNCHANGED cache
            /\ UNCHANGED <<phase, status>>
    /\ UNCHANGED <<fw, out, blob, kept, cleared, edits>>

\* The end of the blob.  Whatever config_init returns, the API is open afterwards.
DecodeEnd ==
    /\ phase = "load" /\ next > Len(blob.records)
    /\ phase' = "up" /\ status' = "OK"
    /\ UNCHANGED <<fw, next, cache, unknown, out, blob, kept, cleared, edits>>

------------------------------------------------------------------------------
(* Changing and encoding the cache.  While config_save encodes it holds    *)
(* the mutex, so nobody changes anything.                                  *)

SetRecord ==
    /\ phase = "up" /\ edits > 0
    /\ edits' = edits - 1
    /\ \E t \in Known(fw), v \in Values : cache' = [cache EXCEPT ![t] = v]
    /\ UNCHANGED <<fw, phase, next, unknown, out, blob, status, kept, cleared>>

\* config_reset_defaults; the stash goes too.
ResetKeepsStash ==
    /\ phase = "up" /\ edits > 0
    /\ edits' = edits - 1
    /\ cache' = Defaults(fw)
    /\ cleared' = TRUE
    /\ UNCHANGED <<fw, phase, next, unknown, out, blob, status, kept>>
ResetDefaults ==
    /\ phase = "up" /\ edits > 0
    /\ edits' = edits - 1
    /\ cache' = Defaults(fw)
    /\ unknown' = Empty
    /\ cleared' = TRUE
    /\ UNCHANGED <<fw, phase, next, out, blob, status, kept>>

KnownRecords ==
    [i \in DOMAIN Order[fw] |->
        LET t == Order[fw][i] IN [tag |-> t, width |-> Width[fw][t], value |-> cache[t]]]

\* encode_cache_locked: the known records in order, then the stash.
EncodedForgetsStash == KnownRecords
Encoded == KnownRecords \o unknown.records

ConfigSave ==
    /\ phase = "up"
    /\ phase' = "save"
    /\ next' = 1
    /\ out' = Empty
    /\ UNCHANGED <<fw, cache, unknown, blob, status, kept, cleared, edits>>

\* A record there is no room for ends the save and leaves the slot alone.
EmitRecord ==
    /\ phase = "save" /\ next \in DOMAIN Encoded
    /\ IF Fits(out, Encoded[next], PayloadMax)
       THEN /\ out' = Emit(out, Encoded[next])
            /\ next' = next + 1
            /\ UNCHANGED <<phase, status>>
       ELSE /\ phase' = "up" /\ status' = "TOO_LARGE"
            /\ UNCHANGED <<out, next>>
    /\ UNCHANGED <<fw, cache, unknown, blob, kept, cleared, edits>>

\* All are written, and the slot takes the blob.
SaveEnd ==
    /\ phase = "save" /\ next > Len(Encoded)
    /\ phase' = "up" /\ status' = "OK"
    /\ blob' = out
    /\ kept' = [t \in Tag |-> IF t \in Known(fw) THEN cache[t]
                              ELSE IF cleared THEN NoValue ELSE kept[t]]
    /\ UNCHANGED <<fw, next, cache, unknown, out, cleared, edits>>

\* Power goes, at any moment; RAM is lost.
PowerOff ==
    /\ phase # "off"
    /\ phase' = "off"
    /\ next' = 1
    /\ cache' = Defaults(fw)
    /\ unknown' = Empty
    /\ out' = Empty
    /\ UNCHANGED <<fw, blob, status, kept, cleared, edits>>

\* Another version is flashed while the device is down.
Flash ==
    /\ phase = "off"
    /\ \E f \in Firmware \ {fw} : fw' = f /\ cache' = Defaults(f)
    /\ UNCHANGED <<phase, next, unknown, out, blob, status, kept, cleared, edits>>

Next ==
    \/ ConfigInit \/ DecodeRecord \/ DecodeEnd
    \/ SetRecord \/ ResetDefaults
    \/ ConfigSave \/ EmitRecord \/ SaveEnd
    \/ PowerOff \/ Flash
Spec == Init /\ [][Next]_vars

------------------------------------------------------------------------------
(* Properties.                                                             *)

Records == [tag : Tag, width : Nat, value : Values]
Buffers == [records : Seq(Records), used : Nat]

TypeOK ==
    /\ fw \in Firmware
    /\ phase \in {"off", "load", "up", "save"}
    /\ next \in Nat \ {0}
    /\ cache \in [Known(fw) -> Values]
    /\ unknown \in Buffers /\ unknown.used <= UnknownMax
    /\ out \in Buffers /\ out.used <= PayloadMax
    /\ blob \in Buffers /\ blob.used <= PayloadMax
    /\ status \in {"none", "OK", "CODEC", "TOO_LARGE"}
    /\ kept \in [Tag -> Values \cup {NoValue}]
    /\ cleared \in BOOLEAN
    /\ edits \in 0 .. MaxEdits

Stored(t) == {k \in DOMAIN blob.records : blob.records[k].tag = t}

\* DESIGN.md: "byte-for-byte round-trip, no silent destruction of config data".
\* Through any succession of firmware versions, the slot holds every value that
\* was stored and not reset, once, those of types the running firmware does not
\* know included.
NothingForgotten ==
    \A t \in Tag : kept[t] # NoValue =>
        /\ Cardinality(Stored(t)) = 1
        /\ \A k \in Stored(t) : blob.records[k].value = kept[t]

\* A factory reset that is saved is complete: nothing it threw away is in the slot
\* any more, records of types the running firmware does not know included, and so
\* no version that is flashed later can bring it back.
ResetIsComplete == \A k \in DOMAIN blob.records : kept[blob.records[k].tag] # NoValue

BootEnds == phase = "load" /\ phase' = "up"

\* A boot brings back the stored value of every type the firmware knows, and the
\* factory value of those nobody has stored.
BootRestores ==
    [][BootEnds =>
        \A t \in Known(fw) : cache'[t] = IF kept[t] # NoValue THEN kept[t] ELSE Factory]_vars

\* config.c: "1 KB is plenty for one or two future-firmware record types to slip
\* through and round-trip": a configuration that was loaded can be saved again.
SavesFit == status # "TOO_LARGE"

\* Versions for which all this holds: they agree on the width of every type they
\* share, all their types fit the slot together, and those that one of them does
\* not know fit the stash.
OneLayout ==
    /\ \A f, g \in Firmware : \A t \in Known(f) \cap Known(g) : Width[f][t] = Width[g][t]
    /\ Cardinality(AllBytes) <= PayloadMax
    /\ \A f \in Firmware : Cardinality(AllBytes \ Bytes(f)) <= UnknownMax

\* DESIGN.md on a record that a later firmware finds too short: "the manager
\* applies defaults for the record" - for that one, and the others are loaded.
ShortRecordOnlyDefaultsItself ==
    [][BootEnds =>
        \A k \in DOMAIN blob.records :
            LET r == blob.records[k]
            IN (r.tag \in Known(fw) /\ r.width >= Width[fw][r.tag]) =>
                  cache'[r.tag] = r.value]_vars

\* config.h: "CONFIG_ERR_CODEC slot bytes failed to decode; defaults loaded".
CodecErrorMeansDefaults ==
    [][BootEnds /\ status' = "CODEC" => cache' = Defaults(fw)]_vars

==============================================================================
