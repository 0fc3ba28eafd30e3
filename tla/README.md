# Formal verification of config-wp

TLA+ models of the configuration manager of an I/O device (FreeRTOS, C): an
in-RAM cache of configuration records, several tasks that edit it, one task
that saves it, and an A/B-slot protocol that keeps it through power cuts. The
models are translated from `src/src/`; TLC checks them on small instances and
TLAPS proves the theorems for every value of the constants. `PROJECT.json`
names, for each definition, the lines it stands for.

## 1. The system

```
 operator (TCP)    CAN/CLI           application task
      |               |                     |
  uart_sim      external_comms        main.c (demo)
      |  config_import_json |  config_set_*  |  QueueConfigChange
      +----------+----------+--------+-------+
                 v                   |  QueueConfigCommit
     config.c: s_cache + mutex       v
                 ^            eeprom_manager: queue -> task
                 |  get/set, config_save |
                 +-----------------------+
                             v
                 config_codec / tlv: cache <-> blob
                             v
                 config_slot: two slots, seq, CRC
                             v
                 drivers/storage: 4 KiB medium
```

| component | state | operations | hard parts | properties | module |
| --- | --- | --- | --- | --- | --- |
| `config_slot.c` | two headers and payloads on the medium | `slot_pick_active`, `slot_write` | power cut inside or between two writes; failed reads and writes; judging by headers alone | a configuration survives a cut; what was acknowledged is active; the active slot is not touched; nothing corrupt is loaded | `SlotStore`, `DurableCell` |
| `storage.c` | bytes | `storage_init/read/write` | torn and failed accesses | - (environment of `SlotStore`) | `SlotStore` |
| `config.c` | `s_cache`, `s_unknown`, `s_blob_buf`, `s_initialised` | init, reset, save, 16 getters and setters | encoding while others set; storage outside the mutex; decoding half a blob; capacity | coherent snapshots; nothing stored is forgotten; saves fit | `ConfigSystem`, `ConfigBlob` |
| `config_lock_freertos.c` | mutex, `s_owner`, `s_has_owner` | take, give, is_held | two unprotected reads against other tasks' writes | exclusion; exact answers; takes return | `ConfigLock` |
| `eeprom_manager.c` | request queue; the task's `dirty` | `QueueConfigChange`, `QueueConfigCommit`, task loop, appliers | coalescing; full queue; failed saves; narrowing casts | at rest everything is saved; accepted commits lead to a save; requests apply exactly | `ConfigSystem`, `FieldRecords` |
| `config_json.c` | none of its own (the cache) | import, export | get-patch-set without a lock; duplicates; fractions; names; limits of the members | patches preserve the rest; exports restore; clean reports mean applied; values are applied as they are, never narrowed | `ConfigSystem`, `ConfigJson`, `RecordJson`, `Comms` |
| `config_codec.c`, `tlv.c` | none | encode, decode, iterate | signs, widths, lengths of other versions | round trip; forward compatibility | `FieldRecords`, `ConfigBlob` |
| `config_types.h`, `_limits.h`, `_defaults.c` | constants | - | - | legal factory values | `FieldRecords` |
| `external_comms.c` | a queue of pointers; the buffers stay with the producers | `external_comms_submit`, task loop | buffers reused while a pointer is under way; a full queue | what is imported is what was submitted, in order, once | `ExternalComms`, `DocumentQueue`, `Comms` |
| `uart_sim.c` | `s_rx`, `s_tx`, the connection | accept, receive, dispatch, answer | frames cut anywhere, broken connections, a full buffer, stale bytes; import and export beside the other task; replies before the save | only whole documents are imported; answers fit the request; exports are recent; a stalled host holds up nobody but other hosts | `UartSim`, `Comms`, `ConfigSystem` (editors) |
| `main.c` | none | boot order, a demo of direct edits | its edits beside the tasks' | - (a producer and an editor) | `ConfigSystem`, `Comms` |
| `crc32.c`, `config_lock_pthread.c`, `config_print.c` | | | | | not modelled |

The hazards that these parts are exposed to, each at its line and with the
properties that watch it, are listed in `PROJECT.json`.

## 2. The modules

**DurableCell** is the abstract store: one cell that a save replaces as a
whole. A save that is acknowledged is in the cell; one that fails or that a
power cut interrupts leaves the old or the new value and nothing else; a boot
reports what the cell holds. `SlotStore` is shown to implement it and
`ConfigSystem` is built on it, so that the two meet at one interface.

**SlotStore** models `config_slot.c` over `storage.c`. `slot_write` is three
steps (header scan, payload write, header write) with its local variables in
`call`; `SlotPickActive` is `slot_pick_active` at boot; `PowerCut` and
`BitFlip` are the environment, and any read or write may fail where the
constants allow it. A payload is a symbol or `Garbage`; a header is
`sane` (magic, version, flags and length), `seq`, and the CRC, kept as the
pair it was computed over, so that CRC collisions are left out. A torn payload
is the old one, the new one or garbage. A torn header is any prefix of the new
one over the old one in address order: magic, version and flags are constants,
then `seq`, then the length (which makes a blank header sane), then the CRC. A
`seq` cut between its bytes is one of the states already there: it is at most
the new `seq`, never equal to the newest one (their low bytes differ), and its
header never validates, like the old header with new payload bytes. The
storage stub of the repository is RAM and erased on every start; what is
modelled is the persistence that `config_slot.h` is written for.

**ConfigLock** models `config_lock_freertos.c` statement by statement, since
`config_lock_is_held_by_current_thread` reads two variables no lock protects.

**ConfigSystem** composes the cache, the mutex, the manager task with its queue,
the editing tasks and `DurableCell`. A getter or a setter is one step (it holds
the mutex for a struct copy, and `ConfigLock` shows the mutex excludes); an
import is a step per get and per set; `config_save` is one step to take the
mutex, one per record encoded, one to release it and begin the slot write, one
for the write's return. `PowerCut` and `ConfigInit` are power loss and boot. A
queue that stays full for the 50 ms of `EEPROM_ENQ_TIMEOUT` refuses a request.
The history variable `behind` is up when a change was left unsaved and no save is to come:
a save failed with no commit waiting in the queue, or a commit was refused (`persist=FAIL`)
or the cache reset with no save ahead of the manager (`ManagerWillSave`). The next save that
succeeds takes it down. It is an observer: no guard reads it. A second direct caller of
`config_save` does not exist in `main.c` (`ARCHITECTURE.md`'s demo sequence
still shows one), so the manager alone saves.

**FieldRecords** holds the tables of the eight record types (kind, width, wire
width, place in the record's bytes and legal values of each field; factory values;
channels; parameters) and applies single-field requests to a record: the cast of the applier, the
validator of the setter, then the wire format of `config_codec.c` byte by byte
and back. A name is its length. TLC's integers end at 2^31 - 1, so unsigned
32-bit values above that do not occur. Decoding validates nothing, so a behaviour
also starts from a record another firmware left, with up to `MaxForeign` fields that
this firmware's validator refuses.

**RecordJson** adds the JSON side of one record: the patch and build functions of all
eight types over `FieldRecords`' tables. An object is a function from fields to JSON
values, of which one or two are given at a time; a string stands for a name of that
length or for the name of that enum value.

**ConfigBlob** models `config_init`, `config_save`, the stash of unknown TLV
records and their byte counts across firmware versions: a version is a sequence of
record types with widths, and the bootloader may flash another one while the
device is down. A record type stands for all channels of that type. Decoder and encoder
take one record per step (`DecodeRecord`, `EmitRecord`), as `tlv_iter_next` and
`tlv_writer_emit` do, over buffers that count the bytes they hold.

**DocumentQueue** is the abstract promise of `external_comms.h`: a queue of documents,
each taken once, in order. **ExternalComms** is the code, a queue of `{pointer, length}`
records over buffers that their producers own. A producer is what the header asks for: a
ring of static buffers, filled in turn; a refused submission reuses its buffer. The
task's import is one step here and detailed in `Comms`.

**UartSim** models the listener task: accept, receive (any number of units at a time, the
host's end of stream, a full buffer, a broken connection), the command line, the answers
and the close. A frame is a sequence of units: words of the command line, the newline, the
braces and the records of a document. `s_rx` is an array that no frame clears.

**Comms** composes both with the cache: imports record by record and exports record by
record, in both tasks, since the mutex is held for one record at a time. A record has one
value here, the EEPROM Manager is a choice between "queued" and "full"; `ConfigSystem` has
both in detail. `s_tx` keeps the last export. The history variables (`unannounced`,
`refused`, `edited`) are observers.

**ConfigJson** models the walk of an import over a document (entries, arrays,
items, channels, duplicates, enums, integers, setter, report), one entry or one array item
per step, and the export. `before`, `original` and `exported` are history.
One record with an enum and an integer stands for the eight record types, `di`
for the seven arrays. A number is kept in halves, which is all that the
comparisons and casts of the code tell apart. Names, booleans and signed integers
are `RecordJson`'s, documents that do not parse and exports that fail are `Comms`'; the
text of `first_error` is left out.

The `MC*` modules give the constants that a `.cfg` cannot. `SlotStoreProofs`,
`ConfigLockProofs`, `ConfigSystemProofs`, `ConfigBlobProofs`, `RecordJsonProofs`,
`ConfigJsonProofs`, `ExternalCommsProofs` and `CommsProofs` hold the theorems. Operators
next to a definition that say what a slip would look like (`SeqNotBumped`,
`DirtyOverwritten`, ...) are used by no specification: each is a variant of the
code under which one of the properties fails, and shows that the property
depends on the code.

## 3. The runs

### The slot layer (`SlotStore`)

| run | medium and bounds | checks |
| --- | --- | --- |
| `slot_benign` | headers whole, write faults, 5 writes, 3 cuts | `BenignInv`, `LastSaveIsActive`, `CutLeavesAConfiguration`, `WriteSparesActive`, and that `DurableCell` is implemented |
| `slot_harsh` | torn headers, read and write faults, 1 rotten cell, 3 writes, 2 cuts, `seq` modulo 4 | `TypeOK`, `NoCorruptBoot` |
| `slot_two_cuts` | torn headers, 2 cuts | **violated**: `CutLeavesAConfiguration` |

Two payloads tell "old" from "new"; with five writes each slot is written at
least twice and is the target of a write interrupted by each of the cuts; the
protocol only compares the sequence numbers of two headers. `slot_harsh` lets
`seq` wrap, which takes 2^32 writes in the code.

What the runs say together: with headers written whole, the protocol is a
durable cell, write faults included. With torn headers it survives one power
cut in a header (`slot_torn.cfg`; section 5 proves it), not a second one in the next write: the
scan of `slot_write` does not look at the CRC, takes the torn slot for the newest, and starts on
the good one, so that a cut in its payload already leaves nothing.

### The mutex (`ConfigLock`)

`config_lock`: three tasks, so that one may hold, one be blocked and one ask.
`LockInv`, `MutualExclusion`, `IsHeldIsExact`, and, with fairness, `TakeReturns`.
`GAPS.md` (b.4) suspects a race in the two reads of `is_held`; the model shows the
answer to be exact, and section 5 proves it: only a task itself writes its own
handle, so "the flag is up and the owner is me" cannot be true by accident.

### The running system (`ConfigSystem`)

Two records of two fields, so that a document can be half applied and two tasks
can edit different fields of one record; two editors; a queue of depth 1, so that
it is often full (16 in the code); one accepted and one refused field request.

| run | bounds | checks |
| --- | --- | --- |
| `system` | 2 imports, 1 request, 1 reset, 1 cut, saves may fail, tasks fair | `SystemInv`, `SettledIsSaved`, `SnapshotIsCoherent`; `ComesToRest`, `CommitLeadsToSave` |
| `system_lost_update` | two editors of one record | **violated**: `PatchPreservesOthers` |

`SettledIsSaved` says which loss is left where requests are coalesced and commits refused: a save
that is ahead of the manager anyway makes good a refused commit and a reset before it, and a commit
that waits makes good a failed save. What no save follows stays in RAM until another commit; no
document of the repository denies it.

`CHECK_DEADLOCK FALSE`: the producers' budgets run out and the system then rests.

### The two communication tasks (`Comms`)

`comms`: two records, so that an export can show one before and one after the other
task's import; a receive buffer of seven units, which one of the eight frames exceeds; a
queue of depth 1 and rings of 3 buffers (`EXT_QUEUE_DEPTH` is 4), so that it is full
and every buffer is reused; two producers. `MaxInputs` = 4 pays for two connections
(`HostCost` = 2), four submissions or a mixture: a frame after a longer one, and a
document while a frame is dealt with. The frames are every command, a document with a
refused record, one that is cut off and that the bytes of an earlier one would complete,
two documents in one frame, and one that does not fit.

The run checks `TypeOK`, `AnswersFit`, `ChangesAreAnnounced`; `ImportedIsSent`,
`ExportIsRecent`; and, with a fair comms task, `DocumentsAreKept` (the refinement of
`DocumentQueue` with its fairness: every accepted document is imported), while the listener may
stop anywhere.

Two things it shows beside the properties. A ring needs two buffers more than
the queue has places, for the document in the task's hands and the one being
written: six for a depth of four, where `ARCHITECTURE.md:157` speaks of a ring of four (`external_ring.cfg`, below). No producer with
a ring is in `src/`: that it has two buffers more is an assumption about producers to come.
And what follows the first document of a frame is dropped without a word: cJSON does not
look behind the value it has read.

### Records, blobs and documents

| run | bounds | checks |
| --- | --- | --- |
| `fields` | eight types, factory or with up to two illegal fields; pairs of requests, or JSON objects of up to two fields, over both sides of every boundary and halves between; a power cycle after any | `TypeOK`, `WireRoundTrip`, `JsonRestores`, `RequestsApplyExactly`, `ChangesAreLegal`, `JsonAppliesExactly` |
| `fields_narrowing` | one request | **violated**: `OutOfRangeRejected` |
| `blob_line` | three versions that add types, up to the last byte of the slot, 3 changes | `TypeOK`, `NothingForgotten`, `ResetIsComplete`, `SavesFit`, `BootRestores` |
| `blob_grown` | a type that grew | **violated**: `ShortRecordOnlyDefaultsItself` |
| `json` | all arrays of up to two entries from 14 good and bad ones, an enum whose last value has no name, documents with `system` and an unknown key before `di`, and documents with two `di` arrays; 4 operations | `TypeOK`, `RestoreReproduces`, `CleanReportMeansApplied`, `OnlyNamedChannelsChange`, `FirstRecordWins` |

Two requests are enough for one to meet the state another left, which is all a
validator of whole records can react to; two foreign fields are enough for a request that
repairs one to meet the other. A record with two of them shows where the two ways to
edit differ: a single-field request is refused for ever, since the validator sees the
other field; a document that names both repairs it. A document never narrows a number,
a request does (`fields_narrowing`); but it takes fractions towards zero, so that
-0.5 selects the enum value 0 and 1000.5 permille are 1000. The byte counts of `blob_*` are the real
ones: 1697 bytes for today's records, 2028 in the slot, 1024 in the stash.
Two array entries are enough for a duplicate, and two channels for an entry to
leave one alone. `CHECK_DEADLOCK FALSE` in `json*` and `comms*`: the
operations of a behaviour are bounded, and the tasks then wait.

Every violated run stands for a disagreement between the code and a sentence of
its documentation; `PROJECT.json` quotes it.

### Further configurations

These `.cfg` files are kept beside the runs. Each but the last two shows one more
sentence of the documentation that the code does not keep.

| configuration | what TLC shows |
| --- | --- |
| `slot_unread_scan` (`SlotStore`) | `LastSaveIsActive` fails: when `slot_write` can read neither header it writes slot A with `seq` 1 and returns `SLOT_OK`; a valid slot B with a higher `seq` stays the active one ("After this call the just-written slot becomes the new active", `config_slot.h:76`) |
| `slot_unread_boot` (`SlotStore`) | `BootLoadsNewest` fails: the newest slot cannot be read, the older one is returned with `SLOT_OK` (`config_slot.h:60`, "the valid slot with the highest sequence number") |
| `system_half_import` (`MCConfigSystem`) | `NoHalfImportSaved` fails: a commit of one task makes the manager save the half of another task's import (`ARCHITECTURE.md:218`) |
| `system_reply` (`MCConfigSystem`) | `ReplyConfirmsSave` fails: the reply is sent when the commit is queued (`UART_SIM.md:47`, "the reply genuinely confirms the bytes hit storage") |
| `blob_variant` (`MCConfigBlob`) | `SavesFit` fails: 768 bytes of unknown records fit the stash but not the 331 bytes the slot has left, and no save succeeds until a reset (`config.c:64`, "1 KB is plenty") |
| `blob_codec` (`MCConfigBlob`) | `CodecErrorMeansDefaults` fails: the records before the short one stay (`config.h:70`, "defaults loaded") |
| `json_kelvin` (`MCConfigJson`) | `RestoreReproducesAll` fails: `tc_unit_to_str` has no name for `TC_UNIT_KELVIN` (`DESIGN.md:828`, "reproduces every field"); `RestoreReproduces` of the run `json` says exactly what is lost |
| `json_twice` (`MCConfigJson`) | `CleanReportMeansApplied` fails: of two arrays of one name the first is applied twice and the second never (`config_json.h:93`, "apply each known record"); `FirstRecordWins` of the run `json` says exactly what remains |
| `json_fraction` (`MCConfigJson`) | `FractionsRejected` fails: channel 0.5 is applied to channel 0 (`config_json.h:28`, "non-integer ... rejected") |
| `comms_snapshot` (`MCComms`) | `ExportIsSnapshot` fails: a record is exported before and another after an import of the other task changed both (`DESIGN.md:841`, "callers can snapshot via export"); what does hold is `ExportIsRecent`, and the sentence itself when the other task imports nothing meanwhile (`UndisturbedExports`) |
| `external_ring` (`MCDocumentRing`) | `ImplementsQueue` fails: with four buffers for a queue of four, the fifth document is written over the first, which still waits (`ARCHITECTURE.md:157`, "a 4-slot static ring sized ≥ ext-comms queue depth"); with five it fails while a document is in the task's hands, with six it holds |
| `slot_torn` (`SlotStore`) | no error: torn headers, 5 writes, 1 cut; `LastSaveIsActive`, `CutLeavesAConfiguration` and the invariants `OrderlyInv` and `FirstSessionInv` that the proofs of them rest on |
| `system_single` (`MCConfigSystem`) | no error: `PatchPreservesOthers` holds for a record that one task writes |

Documentation that is merely out of
date, and that no run is needed for: `external_comms.h:27-32` (the task calls
`config_save`; it queues a commit), `eeprom_manager.h:33` ("non-blocking"; it waits
up to 50 ms), `ARCHITECTURE.md:157` (a ring of four receive buffers; there is one
buffer; nor is there one behind `uart_sim.h`), `UART_SIM.md` (malformed JSON answered with
`ERR_INVALID`; `config_import_json` returns `CONFIG_ERR_CODEC`), `DESIGN.md:829` (bad enum strings rejected by the setter; it is
`enum_from_json`).

## 4. Fairness

All tasks run at `tskIDLE_PRIORITY + 1` with preemption, and FreeRTOS time-slices
equal priorities: a task that can run does, in the end. Hence weak fairness of the
manager's step and of each editor's step, and of `ConfigInit` (a device that lost
power is switched on again). No producer is fair: nobody has to send anything. For
the mutex, FreeRTOS wakes blocked tasks in order of priority and arrival, so that a
task that keeps waiting is served: strong fairness of `SemaphoreTake`; and a task
leaves its critical section, a bounded copy, in the end: fairness of the give, strong
because it may stop to ask `is_held` any number of times before.

In `Comms` only the comms task is fair, for the same reason. The listener's `recv` has no
timeout and it serves one host at a time, so that its steps include moves of the host (sending,
shutting its side down, breaking off), which no scheduler brings about: none of them is fair, and
neither are hosts and producers. That every host is served in the end is therefore not claimed; a
host that stalls keeps the others out (`PROJECT.json` lists it as a hazard), but not the documents
of the comms task.

`ComesToRest` holds for producers that pause. The drain loop of `eeprom_task` ends only
at an empty receive; producers that refill the queue for ever postpone the save for
ever. The bounds of the run are that pause.

## 5. The proofs

`SlotStoreProofs` assumes nothing for `TypeCorrect` and `NoBootIsCorrupt`: on any medium a
CRC that matches was computed over bytes some save handed over. The rest is proved for
media without rot and for fewer writes than the sequence modulus (`LastingMedium`), and, but
for `UnreadBootsAreHarmless`, without failing reads (`OrderlyMedium`). Write faults at every step, and any number of power cuts at any step, are
allowed. The difficulty is that the write path judges a slot by its header
and the boot path by its CRC, so that "the slot the write avoids is the slot the boot
picks" is not inductive.

With headers written whole (`BenignMedium`), `BenignInv` strengthens it. Its part about the
medium and the write under way is `StoredInv`: the newest sane
header belongs to a valid slot (`NewestIsValid`), because a payload is only written to the
other slot and a header only after its payload; sequence numbers differ (`SeqsDistinct`)
and are at most the number of writes begun (`SeqsBelowWrites`), because a write carries one
more than the newest; and the local variables of a write in progress are the ones a new scan
would choose (`CallInOrder`). From it follow `ActiveSlotIsSpared`,
`PowerCutIsSurvived`, and the refinement `SlotStoreImplementsCell`, where the cell's value
is the payload of the slot the next boot would pick: a payload write and a scan change
nothing of it, the header write is the commit.

With torn headers `NewestIsValid` is lost, and `slot_two_cuts` shows what follows. Two
things remain. After a save that returned OK, or a boot, and until the next write begins, the
next boot would load that configuration (`LastSaveStaysActive`, any number of cuts and failed
writes before, from `OrderlyInv`): whichever slot a write goes to, it carries a number above
that of every sane header, torn or not. And, where no write fails, the first cut of a lifetime
leaves a configuration (`FirstTornHeaderIsSurvived`, from `FirstSessionInv`): up to it
everything is as on the benign medium, and it falls on the slot that is not active.

With failing reads `slot_unread_scan.cfg` refutes `LastSaveIsActive` and `slot_unread_boot.cfg`
refutes `BootLoadsNewest`. `UnreadBootsAreHarmless` says which reads matter for what is stored:
if each header scan that begins a write sees both headers (`ScanSeesBoth`), then, whatever
the boots fail to read, `StoredInv`, `WriteSparesActive` and `CutLeavesAConfiguration` hold.
`StoredInv` speaks of the medium and of the locals of `slot_write` only, and neither is touched by
what a boot was able to load. `LastSaveIsActive` cannot be among them: it speaks of the
configuration a boot loaded, and an unread newest slot makes that a stale one.

`ConfigLockProofs` proves, for any number of tasks, `LockInv` (owner fields and program
counters track the mutex), and from it `Exclusion` and `HeldAnswerIsExact`. Its key part:
a task that found the flag up while it does not hold the mutex will find another
owner, since only it writes its own handle.

`ConfigSystemProofs` proves, for any records, fields, editors, documents, requests and
queue depth, with failures, resets and cuts: `TypeCorrect`;
`CoherentSnapshot`, from `SaveInOrder` (while the manager encodes, the mutex is up, so
the part of the blob that is done equals the cache, and it is down again while storage is
written); and `RestIsSaved`, from
`NothingForgotten`: whenever cache and storage differ and `behind` is down, a save that
will see the difference is still to come - a dirty manager, a commit in the queue, or an
editor on its way to one. `SystemInv` is the conjunction, and is inductive.

`ExternalCommsProofs` proves, for any producers, documents, queue depth and any ring with two
buffers more, `PointersStayGood` and the refinement `CommsImplementsQueue`. `CommsInv` bounds
the age of every pointer: a producer has had at most as many documents accepted since message
`i` as there are messages from `i` on. Hence its next buffer is less than a ring ahead of
every pointer in flight and, by the lemma `RingApart`, not one of theirs.

`CommsProofs` is about the composition, for any records, documents, frames and a receive
buffer of any length (`CommsConstants`). `ImportedWasSent`: by `FrameInv` the received part of
`s_rx` is a beginning of what the present host sends, whatever stands behind it; and
a beginning that holds a command line and a complete document holds the whole frame's
(`FrameOfPrefix`, `DocumentOfPrefix`), since the first newline and the first closing brace are
found at the same place in both. `ExportsAreRecent`: by `ExportInv`, of every record nobody has
set since the export began, the export has copied the present value or has still to come
to it. `UndisturbedExports`: while the comms task sets no record during an export, `edited` stays
empty (`NothingEdited`; the listener does not import while it exports), and `ExportInv` then says that
the whole document is the present cache. That the comms task may set one is what
`comms_snapshot` shows. `AnnouncedAlways` needs only that an import that has begun ends in a commit.

Its second part is about the answers: `CommsTyped`, `AnswersFitAlways`, and
`DocumentsInOrder`, the safety half of the refinement of `DocumentQueue`, which follows from
`CommsImplementsQueue` because every step of `Comms` is a step of `ExternalComms` or leaves
its variables alone. `AnswersFit` needs more than itself: `RepliesKept` says which command
the frame in `s_rx` carries, that the status kept for the reply is that of this frame's
import or export, and how many records of the document are done. It assumes that
`s_rx` holds more than two units (16384 bytes in the code) and what `Comms` assumes of its
frames.

`RecordJsonProofs` is about the eight real record types, with their tables written out, and
takes nothing but the alphabets of the requests and documents as given. A record is carried
by a frame of bytes whose fields have fixed places, so that decoding is proved
place by place (`BytesRestore` for one integer of each width and sign) without induction over
the layout. `TypeOK` is not inductive: a field keeps the range of its C member only because
every applier casts to it, every JSON number is compared with the member's limits, and a
decoded byte string has no other values. `Carried` says so; from it follow `RecordTyped`,
`RecordsSurvive` (a record survives the wire, more bytes behind it or not),
`OnlyLegalChanges`, `RequestsAreExact`, `DocumentsAreExact` and `ExportsRestore`. The last is
about the import of an export over any record, not only over those that `JsonRestores` tries: the
exported record comes back but for enum values without a name, where the record below stays, and
the import is refused if what would come out is illegal.

`ConfigBlobProofs` shows what the stash of unknown records is for, for any number of versions
and types. `BlobTyped` holds for all versions. The rest assumes `OneLayout`: the versions
agree on the width of every type they share, all types fit the slot, and those that one
version does not know fit its stash; `blob_grown` and `blob_variant` show what happens
otherwise. `BlobInv` says of a boot under way that the stash and the cache have between
them exactly the records decoded so far (`Carries`, `Restored`), and of a save that the
buffer holds a beginning of cache and stash; hence the slot holds each type once and with the value
last stored (`BlobIsKept`). Byte counts are sums of any length; they are handled as
cardinalities: a record stands for a set of bytes of `AllBytes`, records of different types have no byte in
common, so a buffer without duplicates never holds more than there is (`RoomInSlot`,
`RoomInStash`). From it follow `NothingIsForgotten`, `ResetsAreComplete`, `SavesAlwaysFit` and
`BootsRestore`.

`ConfigJsonProofs` is about documents of any length, any number of channels and any enum. An
import is a walk of the specification and not a function on documents, so that induction
over its steps replaces induction over data. The code looks an array up by its name, so that of two arrays of one
name it walks the first one twice; `FirstItems` is that first array. `JsonInv` says at each step
how far the walk has come (`Reached`): a channel that no record of the reached part of
`FirstItems` names is what it was when the import began; one that is named shows the effect of
the first record that names it; `seen` is exactly the set of those; and while the report
counts no failure, every record reached is in the cache. For an entry that walks the array
again, the effect is already there: applying a record once more changes nothing
(`EffectTwice`). From it follow `FirstWins`, for all documents, and, since an exported array names
channel `c` once and at its place (`ExportNames`), `ExportsComeBack`. `CleanMeansApplied`
assumes that no later array holds a record the first one does not (`NoneHidden`, which TLC
evaluates for the documents of the run `json`); `json_twice` is what such a record
meets: a clean report, and it is not applied. `JsonTyped` and
`ChannelsByName` need no assumption on the documents.

`SoleWritersLoseNothing` (in `ConfigSystemProofs`) is the other side of `system_lost_update`: with
one editor, no request to a record a document names, and no reset (`SoleWriters`), the copy an
import takes is fresh until it is written back (`CopiesAreFresh`), and the fields a document
does not name are untouched.

Only model-checked: liveness (`TakeReturns`, `ComesToRest`, `CommitLeadsToSave`,
the fair half of `DocumentsAreKept`), which is beyond TLAPS. The violated properties are refuted by their runs.

## 6. Not modelled

- The arithmetic of `crc32.c`, and collisions. `config_print.c` (output only).
  `config_lock_pthread.c` (host tests only).
- Of `uart_sim.c`: failures of `socket`, `bind` and `listen`, after which the task ends; retries
  after `EINTR` and a failed `accept`; leading blanks, carriage returns and upper-casing in the
  command line; the signal that a send on a broken connection may raise; partial sends, which
  `uart_sim_send_all` repeats until all is sent or the host is gone.
- The text of a document and of `first_error`. The longest export stays below 15 KB (8843 bytes
  for factory values), so that it always fits the 16384 bytes of `s_tx`; an export that fails
  for lack of heap is in `Comms`.
- Early returns for NULL arguments and for calls before `config_init`; `config_deinit`
  other than as loss of power: no task of the firmware takes these paths.
- `config_init`'s storage error (`config.c:656`) in `ConfigSystem`, where a boot always loads what
  `DurableCell` holds: failing reads at boot are `SlotStore`'s, decoding errors `ConfigBlob`'s.
- In `ConfigBlob` all channels of a type are one record. The code stashes channel by channel, so that
  of a type that exceeds the stash some channels may stay; the properties are about lines of
  firmware where the stash is not the limit.
- In `ConfigJson` and `RecordJson` an object is a function from keys to values: a key that is
  repeated inside one object, of which cJSON finds the first, does not occur. (A key repeated at
  the top level does.)
- Malformed TLV framing: a blob reaches the decoder after its CRC matched.

## 7. Plan

Done, in this order: `DurableCell` and `SlotStore` with proofs (the durability of the
configuration is the system's first promise); `ConfigLock` and `ConfigSystem` with proofs
(the interleaving of its tasks); `FieldRecords`, `ConfigBlob`, `ConfigJson`; `DocumentQueue`,
`ExternalComms`, `UartSim` and `Comms` with proofs (what reaches the tasks, and what they
answer); records of other firmware and `RecordJson`; torn headers and arbitrary media in
`SlotStoreProofs`; the proofs about answers, records, blobs and the lost update; `ConfigJson` as a walk, with its
proofs; and what is left of a guarantee where it fails as a whole: boots with failing
reads, exports nobody disturbs, and documents with repeated keys.

Nothing of the plan is open. What a continuation could add, in order of use: a text-level model
of the command line of `uart_sim.c` (blanks, carriage returns, case), and the counterpart of
`LastSaveStaysActive` for media where headers tear and reads fail together.
