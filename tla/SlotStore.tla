------------------------------ MODULE SlotStore ------------------------------
(***************************************************************************)
(* application/config_slot.c over drivers/storage.c: two slots in one      *)
(* EEPROM, each a header and a payload.  slot_write scans the two headers, *)
(* writes the payload of the inactive slot and then its header;            *)
(* slot_pick_active finds the newest slot whose CRC matches.               *)
(*                                                                         *)
(* The medium is the environment.  A power cut may leave any part of the   *)
(* write in progress behind; a read or a write may fail; bits may rot.     *)
(* Constants say which of these a run (or a theorem) admits and how often. *)
(*                                                                         *)
(* Bytes are abstracted to what the code compares.  A stored payload is a  *)
(* member of Payload or Garbage (erased, torn or rotten bytes).  A header  *)
(* is kept as three fields: "sane" stands for magic, format version, flags *)
(* and length; seq; and the CRC, kept as the pair <<seq, payload>> it was  *)
(* computed over, so that two inputs never collide.                        *)
(***************************************************************************)
EXTENDS Integers

CONSTANTS
    Payload,     \* blobs that slot_write accepts: 1 .. SLOT_PAYLOAD_MAX bytes
    Garbage,     \* bytes that are nobody's payload
    SeqMod,      \* sequence numbers are unsigned: 2^32 in the code
    MaxWrites,   \* bound: slot_write calls in a behaviour
    MaxCuts,     \* bound: power cuts in a behaviour
    MaxRot,      \* bound: cells that rot in a behaviour
    TornHeader,  \* may a cut or a fault leave part of a header write behind?
    ReadFaults,  \* may storage_read fail?
    WriteFaults  \* may storage_write fail?

ASSUME SlotStoreConstants ==
    /\ Garbage \notin Payload
    /\ Garbage \notin (0 .. SeqMod - 1) \X (Payload \cup {Garbage})
    /\ SeqMod \in Nat \ {0}
    /\ MaxWrites \in Nat
    /\ MaxCuts \in Nat
    /\ MaxRot \in Nat
    /\ TornHeader \in BOOLEAN
    /\ ReadFaults \in BOOLEAN
    /\ WriteFaults \in BOOLEAN

Slot == {"A", "B"}
Other(s) == IF s = "A" THEN "B" ELSE "A"
Seqs == 0 .. SeqMod - 1

Crcs == (Seqs \X Payload) \cup {Garbage}
Headers == [sane : BOOLEAN, seq : Seqs, crc : Crcs]

\* storage_init fills the medium with 0xFF: no magic, the highest seq.
Erased == [sane |-> FALSE, seq |-> SeqMod - 1, crc |-> Garbage]

VARIABLES
    hdr,    \* hdr[s]: the header stored in slot s
    body,   \* body[s]: the payload bytes stored in slot s
    call,   \* the slot_write in progress: its step and its local variables
    status, \* the status the last slot_write or slot_pick_active returned
    loaded, \* the blob the last successful call handed out or stored
    budget  \* what is left of MaxWrites, MaxCuts and MaxRot

vars == <<hdr, body, call, status, loaded, budget>>
medium == <<hdr, body>>

NoCall(step) == [step |-> step, target |-> "A", seq |-> 0, payload |-> Garbage]

Steps == {"off", "idle", "payload", "header"}
Statuses == {"NONE", "OK", "ERR_NO_VALID", "ERR_TOO_LARGE", "ERR_STORAGE", "ERR_BUF"}

TypeOK ==
    /\ hdr \in [Slot -> Headers]
    /\ body \in [Slot -> Payload \cup {Garbage}]
    /\ call \in [step : Steps, target : Slot, seq : Seqs, payload : Payload \cup {Garbage}]
    /\ call.step \in {"payload", "header"} => call.payload \in Payload
    /\ status \in Statuses
    /\ loaded \in Payload \cup {Garbage}
    /\ budget \in [writes : 0 .. MaxWrites, cuts : 0 .. MaxCuts, rot : 0 .. MaxRot]

Init ==
    /\ hdr = [s \in Slot |-> Erased]
    /\ body = [s \in Slot |-> Garbage]
    /\ call = NoCall("off")
    /\ status = "NONE"
    /\ loaded = Garbage
    /\ budget = [writes |-> MaxWrites, cuts |-> MaxCuts, rot |-> MaxRot]

------------------------------------------------------------------------------
(* Validation and the choice of the active slot.                           *)

\* The CRC covers the header up to its crc field and the payload.
ValidByHeader(s) == hdr[s].sane
Valid(s) == hdr[s].sane /\ hdr[s].crc = <<hdr[s].seq, body[s]>>

\* The slot with the higher seq among candidates, A when they are equal.
Newer(candidates) ==
    IF candidates = Slot
    THEN IF hdr["A"].seq >= hdr["B"].seq THEN "A" ELSE "B"
    ELSE IF "A" \in candidates THEN "A" ELSE "B"

ValidSlots == {s \in Slot : Valid(s)}
SaneSlots == {s \in Slot : hdr[s].sane}

\* What the next boot finds when every read succeeds.
ActivePayload == IF ValidSlots = {} THEN Garbage ELSE body[Newer(ValidSlots)]

\* The slots whose header or payload a call fails to read.
Unreadable == IF ReadFaults THEN SUBSET Slot ELSE {{}}

(* slot_pick_active, called once per boot: scan both slots, pick the newer *)
(* valid one and read its payload again.                                   *)
SlotPickActive ==
    /\ call.step = "off"
    /\ call' = NoCall("idle")
    /\ \E unread \in Unreadable, rereadFails \in {FALSE, ReadFaults} :
          LET valid == ValidSlots \ unread IN
          \/ /\ valid = {}
             /\ status' = IF unread = {} THEN "ERR_NO_VALID" ELSE "ERR_STORAGE"
             /\ loaded' = Garbage
          \/ /\ valid # {}
             /\ rereadFails
             /\ status' = "ERR_STORAGE"
             /\ loaded' = Garbage
          \/ /\ valid # {}
             /\ ~rereadFails
             /\ status' = "OK"
             /\ loaded' = body[Newer(valid)]
    /\ UNCHANGED <<medium, budget>>

------------------------------------------------------------------------------
(* slot_write: three steps, a power cut may fall between and inside them.  *)

\* A NULL or empty payload, or one longer than the slot, is turned away.
SlotWriteRefuse ==
    /\ call.step = "idle"
    /\ status' \in {"ERR_BUF", "ERR_TOO_LARGE"}
    /\ UNCHANGED <<medium, call, loaded, budget>>

(* Where the write goes, and the seq it carries, from the slots the header *)
(* scan found sane: the slot that is not the newest, one past its seq.     *)
TargetAlwaysA(sane) == "A"
TargetNewest(sane) == IF sane = {} THEN "A" ELSE Newer(sane)
WriteTarget(sane) == IF sane = {} THEN "A" ELSE Other(Newer(sane))

SeqNoWrap(sane) == IF sane = {} THEN 1 ELSE hdr[Newer(sane)].seq + 1
SeqNotBumped(sane) == IF sane = {} THEN 1 % SeqMod ELSE hdr[Newer(sane)].seq
SeqPastTarget(sane) == (IF sane = {} THEN 1 ELSE hdr[Other(Newer(sane))].seq + 1) % SeqMod
NextSeq(sane) == (IF sane = {} THEN 1 ELSE hdr[Newer(sane)].seq + 1) % SeqMod

(* The header-only scan: a slot counts when its header was readable and is *)
(* sane, whatever its CRC says.                                            *)
SlotWriteScan(p) ==
    /\ call.step = "idle"
    /\ budget.writes > 0
    /\ budget' = [budget EXCEPT !.writes = @ - 1]
    /\ \E unread \in Unreadable :
          LET sane == SaneSlots \ unread
          IN  call' = [step |-> "payload",
                       target |-> WriteTarget(sane),
                       seq |-> NextSeq(sane),
                       payload |-> p]
    /\ UNCHANGED <<medium, status, loaded>>

NewHeader ==
    [sane |-> TRUE, seq |-> call.seq, crc |-> <<call.seq, call.payload>>]

\* What an interrupted or failed write may leave in the target: bytes reach
\* the medium in address order, so seq is there before length makes a blank
\* header sane, and the crc comes last.
TornBodies == {body[call.target], Garbage, call.payload}
TornHeaders ==
    LET old == hdr[call.target] IN
    IF TornHeader
    THEN {old, [old EXCEPT !.seq = call.seq]}
           \cup [sane : {TRUE}, seq : {call.seq}, crc : {old.crc, Garbage, NewHeader.crc}]
    ELSE {old, NewHeader}

PayloadErrorIgnored ==
    /\ call.step = "payload"
    /\ \E bytes \in {call.payload} \cup (IF WriteFaults THEN TornBodies ELSE {}) :
          body' = [body EXCEPT ![call.target] = bytes]
    /\ call' = [call EXCEPT !.step = "header"]
    /\ UNCHANGED <<hdr, status, loaded, budget>>
SlotWritePayload ==
    /\ call.step = "payload"
    /\ \/ /\ body' = [body EXCEPT ![call.target] = call.payload]
          /\ call' = [call EXCEPT !.step = "header"]
          /\ UNCHANGED status
       \/ /\ WriteFaults
          /\ \E bytes \in TornBodies : body' = [body EXCEPT ![call.target] = bytes]
          /\ call' = NoCall("idle")
          /\ status' = "ERR_STORAGE"
    /\ UNCHANGED <<hdr, loaded, budget>>

\* The header is the commit record.
SlotWriteHeader ==
    /\ call.step = "header"
    /\ call' = NoCall("idle")
    /\ \/ /\ hdr' = [hdr EXCEPT ![call.target] = NewHeader]
          /\ status' = "OK"
          /\ loaded' = call.payload
       \/ /\ WriteFaults
          /\ \E h \in TornHeaders : hdr' = [hdr EXCEPT ![call.target] = h]
          /\ status' = "ERR_STORAGE"
          /\ UNCHANGED loaded
    /\ UNCHANGED <<body, budget>>

------------------------------------------------------------------------------
(* The environment.                                                        *)

PowerCut ==
    /\ call.step # "off"
    /\ budget.cuts > 0
    /\ budget' = [budget EXCEPT !.cuts = @ - 1]
    /\ IF call.step = "payload"
       THEN \E bytes \in TornBodies : body' = [body EXCEPT ![call.target] = bytes]
       ELSE UNCHANGED body
    /\ IF call.step = "header"
       THEN \E h \in TornHeaders : hdr' = [hdr EXCEPT ![call.target] = h]
       ELSE UNCHANGED hdr
    /\ call' = NoCall("off")
    /\ status' = "NONE"
    /\ loaded' = Garbage

\* A cell loses its charge between two calls: in the payload, in the seq, or
\* in a field the sanity check looks at.
BitFlip(s) ==
    /\ call.step \in {"off", "idle"}
    /\ budget.rot > 0
    /\ budget' = [budget EXCEPT !.rot = @ - 1]
    /\ \/ body' = [body EXCEPT ![s] = Garbage] /\ UNCHANGED hdr
       \/ \E n \in Seqs \ {hdr[s].seq} : hdr' = [hdr EXCEPT ![s].seq = n] /\ UNCHANGED body
       \/ hdr[s].sane /\ hdr' = [hdr EXCEPT ![s].sane = FALSE] /\ UNCHANGED body
    /\ UNCHANGED <<call, status, loaded>>

SlotWrite ==
    \/ \E p \in Payload : SlotWriteScan(p)
    \/ SlotWriteRefuse
    \/ SlotWritePayload
    \/ SlotWriteHeader

Next ==
    \/ SlotPickActive
    \/ SlotWrite
    \/ PowerCut
    \/ \E s \in Slot : BitFlip(s)

Spec == Init /\ [][Next]_vars

------------------------------------------------------------------------------
(* Properties.                                                             *)

(* What every medium below is assumed to do: nothing rots, and the device  *)
(* does not live to see seq wrap.                                          *)
LastingMedium ==
    /\ MaxRot = 0
    /\ MaxWrites < SeqMod

(* On most of them, moreover, reads succeed.                               *)
OrderlyMedium == LastingMedium /\ ~ReadFaults

(* The medium the design argues about: moreover, headers are written whole *)
(* or not at all.                                                          *)
BenignMedium == OrderlyMedium /\ ~TornHeader

(* A power cut never takes the last configuration away: when this session  *)
(* loaded or stored one, some slot validates after the cut, wherever in a  *)
(* write it falls.  "A power-loss mid-write corrupts at most one slot; the *)
(* other survives and remains the valid configuration" (config_slot.h).    *)
CutLeavesAConfiguration ==
    [][call'.step = "off" /\ loaded # Garbage => ValidSlots' # {}]_vars

(* While the device is up and no write is under way or has failed since,   *)
(* the next boot would load what the last save stored or the last boot     *)
(* loaded: what slot_write called OK "becomes the new active".             *)
LastSaveIsActive == status = "OK" /\ call.step = "idle" => ActivePayload = loaded

(* Of the two slots the code cannot tell apart by their CRC alone, at most *)
(* one carries a given seq, so that "newest" means something.              *)
SeqsDistinct == SaneSlots = Slot => hdr["A"].seq # hdr["B"].seq

(* No step of slot_write, and no power cut during one, changes a byte of   *)
(* the slot the next boot would pick, header or payload.                   *)
SparesActive ==
    \A s \in Slot :
        ValidSlots # {} /\ s = Newer(ValidSlots)
            => hdr'[s] = hdr[s] /\ body'[s] = body[s]
WriteSparesActive == [][SparesActive]_vars

(* Whatever the medium does - torn headers, failed reads and writes, rot - *)
(* a boot hands out a blob some slot_write was given whole, never erased   *)
(* or torn bytes.                                                          *)
NoCorruptBoot == status = "OK" => loaded \in Payload

(* A boot that reports success has loaded the newest of the valid slots:   *)
(* "Locate the valid slot with the highest sequence number".               *)
BootLoadsNewest ==
    [][call.step = "off" /\ status' = "OK" => loaded' = ActivePayload]_vars

(* Why a benign medium is enough.  The newest sane header, which the write *)
(* path trusts without its CRC, is always the header of a valid slot, so   *)
(* the slot the write path avoids is the slot the boot path picks.         *)
WritesBegun == MaxWrites - budget.writes
InWrite == call.step \in {"payload", "header"}
NewestIsValid == SaneSlots # {} => Valid(Newer(SaneSlots))
SeqsBelowWrites == \A s \in Slot : hdr[s].sane => hdr[s].seq <= WritesBegun
CallInOrder ==
    /\ InWrite =>
          /\ call.target = WriteTarget(SaneSlots)
          /\ call.seq = (IF SaneSlots = {} THEN 1 ELSE hdr[Newer(SaneSlots)].seq + 1)
          /\ call.seq <= WritesBegun
    /\ call.step = "header" => body[call.target] = call.payload
    /\ ~InWrite => call.payload = Garbage
LoadedIsStored == loaded # Garbage => SaneSlots # {}

(* The medium and the write under way, whatever the last boot could read.  *)
StoredInv ==
    /\ SeqsDistinct
    /\ NewestIsValid
    /\ SeqsBelowWrites
    /\ CallInOrder
    /\ LoadedIsStored

BenignInv == StoredInv /\ LastSaveIsActive

(* The header scan that begins a write was able to read both headers.      *)
ScanSeesBoth ==
    call.step = "idle" /\ call'.step = "payload" =>
        call'.target = WriteTarget(SaneSlots) /\ call'.seq = NextSeq(SaneSlots)

(* What is left of it when headers tear: the write path may avoid the wrong *)
(* slot, but what it numbers is still newer than everything else.           *)
OrderlyInv == SeqsBelowWrites /\ CallInOrder /\ LastSaveIsActive

(* Until the first power cut nothing tears if no write fails.              *)
FirstSessionInv == budget.cuts = MaxCuts => BenignInv

(* The slot layer is a durable cell: atomic, and never stale.              *)
Cell == INSTANCE DurableCell WITH
    NoPayload <- Garbage,
    value <- ActivePayload,
    inflight <- call.payload,
    powered <- call.step # "off",
    seen <- loaded,
    reply <- status
ImplementsCell == Cell!Spec
==============================================================================
