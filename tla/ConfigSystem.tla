----------------------------- MODULE ConfigSystem -----------------------------
(***************************************************************************)
(* The running firmware: the configuration cache of config.c behind its    *)
(* mutex, the EEPROM Manager task with its request queue, the tasks that   *)
(* edit the cache themselves and then queue a commit (the UART simulator   *)
(* and the external comms task importing JSON, the application task), and  *)
(* the slot layer, which is used through what it promises: DurableCell.    *)
(*                                                                         *)
(* Tasks interleave between any two calls into config.c.  A getter or a    *)
(* setter holds the mutex for one struct copy and is one step; config_save *)
(* holds it for the whole encoding, one step per record, and has released  *)
(* it before the slot write starts.                                        *)
(*                                                                         *)
(* A record is a function from fields to values; a configuration is one    *)
(* record per index.  Values outside Legal are those a setter refuses.     *)
(***************************************************************************)
EXTENDS Integers, Sequences, FiniteSets

CONSTANTS
    Record,        \* the cache entries: di[0] .. di[15], ..., system
    Field,         \* the fields of a record
    Legal,         \* field values that pass the validators
    Illegal,       \* field values a validator rejects
    Factory,       \* the factory value of every field
    NoConfig,      \* no stored configuration
    Editors,       \* tasks that edit the cache: uart-sim, ext-comms, app
    Messages,      \* what they apply: sequences of patches, see Patches
    FieldRequests, \* what QueueConfigChange posts: single-field patches
    QueueDepth,    \* EEPROM_QUEUE_DEPTH
    SaveFaults,    \* may config_save fail?
    MaxImports,    \* bound: messages applied in a behaviour
    MaxFields,     \* bound: field requests posted
    MaxResets,     \* bound: config_reset_defaults calls
    MaxCuts        \* bound: power cuts

Records == [Field -> Legal]
Configs == [Record -> Records]
FactoryConfig == [r \in Record |-> [f \in Field |-> Factory]]

\* A patch names a record and gives new values to some of its fields.
Patches == [rec : Record, sets : UNION {[fs -> Legal \cup Illegal] : fs \in SUBSET Field}]

ASSUME ConfigSystemConstants ==
    /\ Legal \cap Illegal = {}
    /\ Factory \in Legal
    /\ NoConfig \notin Configs
    /\ Messages \subseteq Seq(Patches) \ {<<>>}
    /\ FieldRequests \subseteq Patches
    /\ QueueDepth \in Nat \ {0}
    /\ SaveFaults \in BOOLEAN
    /\ MaxImports \in Nat /\ MaxFields \in Nat /\ MaxResets \in Nat /\ MaxCuts \in Nat

VARIABLES
    cache,    \* s_cache
    lock,     \* does the manager hold the cache mutex while it encodes?
    queue,    \* the EEPROM Manager's request queue
    manager,  \* the manager task: where it is and its local variables
    editor,   \* editor[e]: the editing task e likewise
    budget,   \* what is left of the bounds
    behind,   \* history: a change was left unsaved, and no save is to come
    value, inflight, powered, seen, reply \* the slot layer, see DurableCell

tasks == <<cache, lock, queue, manager, editor, budget, behind>>
store == <<value, inflight, powered, seen, reply>>
vars == <<tasks, store>>

Store == INSTANCE DurableCell WITH Payload <- Configs, NoPayload <- NoConfig

Commit == [kind |-> "COMMIT"]
FieldRequest(p) == [kind |-> "FIELD", patch |-> p]
Requests == {Commit} \cup {FieldRequest(p) : p \in FieldRequests}

NoCopy == [f \in Field |-> Factory]
ManagerIdle == [pc |-> "receive", req |-> Commit, copy |-> NoCopy, dirty |-> FALSE,
                blob |-> FactoryConfig, left |-> {}]
EditorIdle == [pc |-> "idle", msg |-> <<>>, next |-> 1, copy |-> NoCopy]

ManagerStates ==
    [pc : {"receive", "get", "set", "drain", "save", "encode", "storage"},
     req : Requests, copy : Records, dirty : BOOLEAN, blob : Configs, left : SUBSET Record]
EditorStates ==
    [pc : {"idle", "get", "set", "commit"},
     msg : Messages \cup {<<>>}, next : Nat, copy : Records]

TypeOK ==
    /\ cache \in Configs
    /\ lock \in BOOLEAN
    /\ queue \in Seq(Requests)
    /\ manager \in ManagerStates
    /\ manager.pc \in {"get", "set"} => manager.req.kind = "FIELD"
    /\ editor \in [Editors -> EditorStates]
    /\ \A e \in Editors :
          editor[e].pc \in {"get", "set"} => editor[e].next \in DOMAIN editor[e].msg
    /\ behind \in BOOLEAN
    /\ value \in Configs \cup {NoConfig}
    /\ inflight \in Configs \cup {NoConfig}

\* Before the first boot; the cache is static memory nobody has read yet.
Init ==
    /\ cache = FactoryConfig
    /\ lock = FALSE
    /\ queue = <<>>
    /\ manager = ManagerIdle
    /\ editor = [e \in Editors |-> EditorIdle]
    /\ budget = [imports |-> MaxImports, fields |-> MaxFields,
                 resets |-> MaxResets, cuts |-> MaxCuts]
    /\ behind = FALSE
    /\ Store!Init

\* What the observer behind goes by: a commit that waits, or a save the manager
\* is bound for, will store whatever the cache holds by then.
CommitQueued == \E i \in DOMAIN queue : queue[i] = Commit
ManagerWillSave ==
    \/ manager.pc \in {"get", "set", "drain"} /\ manager.dirty
    \/ manager.pc \in {"save", "encode"}
    \/ CommitQueued

Spend(what) == budget[what] > 0 /\ budget' = [budget EXCEPT ![what] = @ - 1]

------------------------------------------------------------------------------
(* config.c: the cache.                                                    *)

\* config_get_*: copies a record under the mutex.
MutexFree == ~lock
GetRecord(r) == cache[r]

\* A patch is laid over the record that was read; the setter checks the whole
\* record, so a patch with one illegal value changes nothing.
Patched(copy, p) == [f \in Field |-> IF f \in DOMAIN p.sets THEN p.sets[f] ELSE copy[f]]
AcceptedUnchecked(copy, p) == TRUE
Accepted(copy, p) == Patched(copy, p) \in Records

\* config_set_*: validates before taking the mutex, copies under it.
SetRecord(copy, p) ==
    \/ /\ Accepted(copy, p)
       /\ MutexFree
       /\ cache' = [cache EXCEPT ![p.rec] = Patched(copy, p)]
    \/ /\ ~Accepted(copy, p)
       /\ UNCHANGED cache

\* config_reset_defaults: RAM only, and nobody is told to save.
ConfigResetDefaults ==
    /\ powered
    /\ MutexFree
    /\ Spend("resets")
    /\ cache' = FactoryConfig
    /\ behind' = (behind \/ ~ManagerWillSave)
    /\ UNCHANGED <<lock, queue, manager, editor, store>>

------------------------------------------------------------------------------
(* eeprom_manager.c: the request queue and the task.                       *)

\* xQueueSend with a timeout: a full queue may stay full until it expires.
Send(req) == Len(queue) < QueueDepth /\ queue' = Append(queue, req)
SendTimesOut == Len(queue) = QueueDepth /\ UNCHANGED queue

\* QueueConfigChange, from any task.
QueueConfigChange(p) ==
    /\ powered
    /\ Spend("fields")
    /\ Send(FieldRequest(p)) \/ SendTimesOut
    /\ UNCHANGED <<cache, lock, manager, editor, behind, store>>

\* The next request, from the blocking receive or while draining.  A commit
\* makes the cache dirty; a field request is applied first.
DirtyOverwritten(req) == req.kind = "COMMIT"
DirtyAfter(req) == manager.dirty \/ req.kind = "COMMIT"

ManagerReceive ==
    /\ powered
    /\ manager.pc \in {"receive", "drain"}
    /\ queue # <<>>
    /\ queue' = Tail(queue)
    /\ LET req == Head(queue) IN
          manager' = [manager EXCEPT
                         !.pc = IF req.kind = "COMMIT" THEN "drain" ELSE "get",
                         !.req = req,
                         !.dirty = DirtyAfter(req)]
    /\ UNCHANGED <<cache, lock, editor, budget, behind, store>>

\* apply_field: config_get_*, change one field, config_set_*.
ManagerApplyGet ==
    /\ powered
    /\ manager.pc = "get"
    /\ MutexFree
    /\ manager' = [manager EXCEPT !.pc = "set", !.copy = GetRecord(manager.req.patch.rec)]
    /\ UNCHANGED <<cache, lock, queue, editor, budget, behind, store>>

ManagerApplySet ==
    /\ powered
    /\ manager.pc = "set"
    /\ SetRecord(manager.copy, manager.req.patch)
    /\ manager' = [manager EXCEPT !.pc = "drain",
                                  !.req = Commit,
                                  !.copy = NoCopy,
                                  !.dirty = @ \/ Accepted(manager.copy, manager.req.patch)]
    /\ UNCHANGED <<lock, queue, editor, budget, behind, store>>

\* The drain ends at the first empty receive: save if anything changed.
ManagerDrained ==
    /\ powered
    /\ manager.pc = "drain"
    /\ queue = <<>>
    /\ manager' = IF manager.dirty THEN [manager EXCEPT !.pc = "save"] ELSE ManagerIdle
    /\ UNCHANGED <<cache, lock, queue, editor, budget, behind, store>>

\* config_save takes the mutex ...
SaveTakesLock ==
    /\ powered
    /\ manager.pc = "save"
    /\ MutexFree
    /\ lock' = TRUE
    /\ manager' = [manager EXCEPT !.pc = "encode", !.left = Record]
    /\ UNCHANGED <<cache, queue, editor, budget, behind, store>>

\* ... encodes the cache into the blob buffer record by record ...
EncodeRecord(r) ==
    /\ powered
    /\ manager.pc = "encode"
    /\ r \in manager.left
    /\ manager' = [manager EXCEPT !.blob[r] = cache[r], !.left = @ \ {r}]
    /\ UNCHANGED <<cache, lock, queue, editor, budget, behind, store>>

\* ... releases it and hands the blob to slot_write, or gives up.
EncodeLockKept ==
    /\ powered
    /\ manager.pc = "encode"
    /\ manager.left = {}
    /\ UNCHANGED lock
    /\ manager' = [manager EXCEPT !.pc = "storage"]
    /\ Store!BeginSave(manager.blob)
    /\ behind' = FALSE
    /\ UNCHANGED <<cache, queue, editor, budget>>
EncodeDone ==
    /\ powered
    /\ manager.pc = "encode"
    /\ manager.left = {}
    /\ lock' = FALSE
    /\ \/ /\ manager' = [manager EXCEPT !.pc = "storage"]
          /\ Store!BeginSave(manager.blob)
          /\ behind' = FALSE
       \/ /\ SaveFaults \* CONFIG_ERR_TOO_LARGE
          /\ manager' = ManagerIdle
          /\ behind' = (behind \/ ~CommitQueued)
          /\ UNCHANGED store
    /\ UNCHANGED <<cache, queue, editor, budget>>

\* slot_write returns.  A failure is logged; the task does not try again.
FailureEmptiesQueue ==
    /\ powered
    /\ manager.pc = "storage"
    /\ \/ Store!AckSave /\ UNCHANGED <<queue, behind>>
       \/ SaveFaults /\ Store!FailSave /\ queue' = <<>> /\ behind' = (behind \/ ~CommitQueued)
    /\ manager' = ManagerIdle
    /\ UNCHANGED <<cache, lock, editor, budget>>
SaveReturns ==
    /\ powered
    /\ manager.pc = "storage"
    /\ \/ Store!AckSave /\ UNCHANGED behind
       \/ SaveFaults /\ Store!FailSave /\ behind' = (behind \/ ~CommitQueued)
    /\ manager' = ManagerIdle
    /\ UNCHANGED <<cache, lock, queue, editor, budget>>

------------------------------------------------------------------------------
(* uart_sim.c, external_comms.c, main.c: tasks that edit the cache record  *)
(* by record (config_import_json) and queue a commit afterwards.           *)

ImportStart(e, m) ==
    /\ powered
    /\ editor[e].pc = "idle"
    /\ Spend("imports")
    /\ editor' = [editor EXCEPT ![e].pc = "get", ![e].msg = m, ![e].next = 1]
    /\ UNCHANGED <<cache, lock, queue, manager, behind, store>>

PatchAt(e) == editor[e].msg[editor[e].next]

ImportGet(e) ==
    /\ powered
    /\ editor[e].pc = "get"
    /\ MutexFree
    /\ editor' = [editor EXCEPT ![e].pc = "set", ![e].copy = GetRecord(PatchAt(e).rec)]
    /\ UNCHANGED <<cache, lock, queue, manager, budget, behind, store>>

\* On to the next record of the document, or to the commit after the last.
Advance(e) ==
    editor' = [editor EXCEPT ![e].copy = NoCopy,
                             ![e].next = @ + 1,
                             ![e].pc = IF editor[e].next = Len(editor[e].msg)
                                       THEN "commit" ELSE "get"]

\* A patch that is refused is counted and skipped; the import goes on.
SetWithoutMutex(e) ==
    /\ powered
    /\ editor[e].pc = "set"
    /\ cache' = IF Accepted(editor[e].copy, PatchAt(e))
                THEN [cache EXCEPT ![PatchAt(e).rec] = Patched(editor[e].copy, PatchAt(e))]
                ELSE cache
    /\ Advance(e)
    /\ UNCHANGED <<lock, queue, manager, budget, behind, store>>
SetFromFactory(e) ==
    /\ powered
    /\ editor[e].pc = "set"
    /\ SetRecord(NoCopy, PatchAt(e))
    /\ Advance(e)
    /\ UNCHANGED <<lock, queue, manager, budget, behind, store>>
ImportSet(e) ==
    /\ powered
    /\ editor[e].pc = "set"
    /\ SetRecord(editor[e].copy, PatchAt(e))
    /\ Advance(e)
    /\ UNCHANGED <<lock, queue, manager, budget, behind, store>>

\* QueueConfigCommit; the operator reads persist=FAIL when it is refused.
ImportCommit(e) ==
    /\ powered
    /\ editor[e].pc = "commit"
    /\ \/ Send(Commit) /\ UNCHANGED behind
       \/ SendTimesOut /\ behind' = (behind \/ ~ManagerWillSave)
    /\ editor' = [editor EXCEPT ![e] = EditorIdle]
    /\ UNCHANGED <<cache, lock, manager, budget, store>>

------------------------------------------------------------------------------
(* Power.                                                                  *)

PowerCut ==
    /\ Store!PowerCut
    /\ Spend("cuts")
    /\ cache' = FactoryConfig
    /\ lock' = FALSE
    /\ queue' = <<>>
    /\ manager' = ManagerIdle
    /\ editor' = [e \in Editors |-> EditorIdle]
    /\ behind' = FALSE

\* eeprom_manager_init -> config_init, before any task runs: factory values,
\* then whatever the slot layer holds laid over them.
ConfigInit ==
    /\ Store!Load
    /\ cache' = IF value = NoConfig THEN FactoryConfig ELSE value
    /\ UNCHANGED <<lock, queue, manager, editor, budget, behind>>

ManagerStep ==
    \/ ManagerReceive
    \/ ManagerApplyGet
    \/ ManagerApplySet
    \/ ManagerDrained
    \/ SaveTakesLock
    \/ \E r \in Record : EncodeRecord(r)
    \/ EncodeDone
    \/ SaveReturns

EditorStep(e) == ImportGet(e) \/ ImportSet(e) \/ ImportCommit(e)

Next ==
    \/ ManagerStep
    \/ \E e \in Editors : EditorStep(e) \/ \E m \in Messages : ImportStart(e, m)
    \/ \E p \in FieldRequests : QueueConfigChange(p)
    \/ ConfigResetDefaults
    \/ PowerCut
    \/ ConfigInit

Spec == Init /\ [][Next]_vars

(* Every task of the scheduler keeps running (equal priorities, preemption *)
(* on every tick) and a device that lost power is switched on again.       *)
FairSpec ==
    /\ Spec
    /\ WF_vars(ManagerStep)
    /\ WF_vars(ConfigInit)
    /\ \A e \in Editors : WF_vars(EditorStep(e))

------------------------------------------------------------------------------
(* Properties.                                                             *)

Stored == IF value = NoConfig THEN FactoryConfig ELSE value
Settled ==
    /\ powered
    /\ queue = <<>>
    /\ manager.pc = "receive"
    /\ \A e \in Editors : editor[e].pc = "idle"

(* When the tasks have come to rest, a reboot loses nothing: the stored    *)
(* configuration is the one in the cache.  A burst of requests is coalesced*)
(* into one save without forgetting any of them, and that save makes good  *)
(* what went wrong before it: a reset in RAM and the import of a refused   *)
(* commit are in it, and a commit that waited through a failed save stores *)
(* what that one did not.  The exceptions (behind) are a failed save with  *)
(* no commit waiting, and a refused commit or a reset with no save to come.*)
SettledIsSaved == Settled /\ ~behind => cache = Stored

(* Why: as long as the two differ, a save that will see the difference is  *)
(* still to come, or the one under way has it.                             *)
HalfImported(e) == editor[e].pc \in {"get", "set"} /\ editor[e].next > 1
SaveToCome ==
    \/ ManagerWillSave
    \/ \E e \in Editors : HalfImported(e) \/ editor[e].pc = "commit"
Saving == IF inflight = NoConfig THEN Stored ELSE inflight
NothingForgotten == powered /\ ~behind /\ ~SaveToCome => cache = Saving

(* The blob that goes to storage is the cache as it stood at one moment:   *)
(* setters of other tasks wait while config_save encodes it.               *)
SnapshotIsCoherent ==
    [][inflight = NoConfig /\ inflight' # NoConfig => inflight' = cache]_vars

(* Why: while the manager encodes, the mutex is up, so the part of the     *)
(* blob that is written stays equal to the cache; while the slot write is  *)
(* in progress it is down again.                                           *)
SaveInOrder ==
    /\ inflight # NoConfig <=> manager.pc = "storage"
    /\ lock <=> manager.pc = "encode"
    /\ manager.pc = "encode" => \A r \in Record \ manager.left : manager.blob[r] = cache[r]
    /\ ~powered => manager.pc = "receive"

SystemInv == TypeOK /\ SaveInOrder /\ NothingForgotten

(* Fields that a patch does not name keep the value they have in the cache *)
(* when the patched record is set ("Missing fields keep their cached       *)
(* value").  It holds where every record has one writer.                   *)
SoleWriters ==
    /\ \A d, e \in Editors : d = e
    /\ \A m \in Messages, p \in FieldRequests : \A i \in DOMAIN m : m[i].rec # p.rec
    /\ MaxResets = 0
Untouched(p) == \A f \in Field \ DOMAIN p.sets : cache'[p.rec][f] = cache[p.rec][f]
PatchPreservesOthers ==
    [][/\ \A e \in Editors :
             editor[e].pc = "set" /\ editor'[e].pc \in {"get", "commit"} => Untouched(PatchAt(e))
       /\ manager.pc = "set" /\ manager'.pc = "drain" => Untouched(manager.req.patch)]_vars

(* No save stores part of an import: when a save begins, no import is      *)
(* between its first and its last record.                                  *)
NoHalfImportSaved ==
    [][inflight = NoConfig /\ inflight' # NoConfig => \A e \in Editors : ~HalfImported(e)]_vars

(* UART_SIM.md: "the reply genuinely confirms the bytes hit storage": when *)
(* an editor has queued its commit and replies, the cache is stored.       *)
ReplyConfirmsSave ==
    [][\A e \in Editors :
         editor[e].pc = "commit" /\ queue' = Append(queue, Commit) => Stored = cache]_vars

(* Producers that pause let the manager finish: the queue drains, the save *)
(* ends and every task returns to rest.                                    *)
ComesToRest == []<>Settled

(* A commit that was accepted is acted on: config_save is entered, unless  *)
(* the power goes first, whatever else is drained with it and however that *)
(* ends.                                                                   *)
CommitLeadsToSave == CommitQueued ~> (manager.pc = "encode" \/ ~powered)
==============================================================================
