-------------------------- MODULE ConfigSystemProofs --------------------------
(***************************************************************************)
(* For every number of tasks, records, fields, documents and requests, and *)
(* whatever fails or loses power: what config_save stores is the cache of  *)
(* one moment, and a system at rest has in storage what it has in its      *)
(* cache, unless a change was left behind that no save was to follow.      *)
(***************************************************************************)
EXTENDS ConfigSystem, TLAPS

LEMMA ConfigsAreValues == NoConfig \notin Configs
  BY ConfigSystemConstants

LEMMA FactoryIsConfig == NoCopy \in Records /\ FactoryConfig \in Configs
  BY ConfigSystemConstants DEF NoCopy, FactoryConfig, Records, Configs

LEMMA IdleTyped ==
    /\ Commit \in Requests
    /\ ManagerIdle \in ManagerStates
    /\ EditorIdle \in EditorStates
  <1>1. Commit \in Requests
    BY DEF Requests
  <1> QED
    BY <1>1, FactoryIsConfig DEF ManagerIdle, ManagerStates, EditorIdle, EditorStates

(* A request that is no commit carries a patch.                            *)
LEMMA FieldRequestTyped ==
  ASSUME NEW req \in Requests, req.kind = "FIELD"
  PROVE  req.patch \in Patches
  BY ConfigSystemConstants DEF Requests, Commit, FieldRequest

LEMMA RequestKinds ==
  ASSUME NEW req \in Requests
  PROVE  req.kind = "COMMIT" <=> req = Commit
  BY DEF Requests, Commit, FieldRequest

LEMMA RequestKindsAre ==
  ASSUME NEW req \in Requests, req.kind # "COMMIT"
  PROVE  req.kind = "FIELD"
  BY DEF Requests, Commit, FieldRequest

(* An accepted record keeps the cache a configuration.                     *)
LEMMA SetRecordTyped ==
  ASSUME TypeOK, NEW copy, NEW p, SetRecord(copy, p)
  PROVE  cache' \in Configs
  BY DEF TypeOK, SetRecord, Accepted, Configs

LEMMA TypeOKStep == TypeOK /\ [Next]_vars => TypeOK'
<1> SUFFICES ASSUME TypeOK, [Next]_vars PROVE TypeOK'
  OBVIOUS
<1> USE DEF store
<1>1. CASE ManagerReceive
  <2>1. queue # <<>> /\ Head(queue) \in Requests /\ queue' \in Seq(Requests)
    BY <1>1 DEF ManagerReceive, TypeOK
  <2>2. /\ manager' \in ManagerStates
        /\ manager'.pc \in {"get", "set"} => manager'.req.kind = "FIELD"
    BY <1>1, <2>1, RequestKindsAre DEF ManagerReceive, TypeOK, ManagerStates, DirtyAfter
  <2> QED
    BY <1>1, <2>1, <2>2 DEF ManagerReceive, TypeOK
<1>2. CASE ManagerApplyGet
  <2>1. manager.req.patch.rec \in Record
    BY <1>2, FieldRequestTyped DEF ManagerApplyGet, TypeOK, ManagerStates, Patches
  <2>2. GetRecord(manager.req.patch.rec) \in Records
    BY <2>1 DEF GetRecord, TypeOK, Configs
  <2> QED
    BY <1>2, <2>2 DEF ManagerApplyGet, TypeOK, ManagerStates
<1>3. CASE ManagerApplySet
  <2>1. cache' \in Configs
    BY <1>3, SetRecordTyped DEF ManagerApplySet
  <2> QED
    BY <1>3, <2>1, IdleTyped, FactoryIsConfig
    DEF ManagerApplySet, TypeOK, ManagerStates, Accepted
<1>4. CASE ManagerDrained
  BY <1>4, IdleTyped DEF ManagerDrained, TypeOK, ManagerStates, ManagerIdle
<1>5. CASE SaveTakesLock
  BY <1>5 DEF SaveTakesLock, TypeOK, ManagerStates
<1>6. ASSUME NEW r \in Record, EncodeRecord(r) PROVE TypeOK'
  <2>1. [manager.blob EXCEPT ![r] = cache[r]] \in Configs
    BY DEF TypeOK, ManagerStates, Configs
  <2> QED
    BY <1>6, <2>1 DEF EncodeRecord, TypeOK, ManagerStates
<1>7. CASE EncodeDone
  BY <1>7, IdleTyped
  DEF EncodeDone, TypeOK, ManagerStates, ManagerIdle, Store!BeginSave
<1>8. CASE SaveReturns
  BY <1>8, IdleTyped
  DEF SaveReturns, TypeOK, ManagerIdle, Store!AckSave, Store!FailSave
<1>9. ASSUME NEW e \in Editors, NEW m \in Messages, ImportStart(e, m) PROVE TypeOK'
  <2>1. m \in Seq(Patches) /\ 1 \in DOMAIN m
    BY ConfigSystemConstants
  <2>2. editor' = [editor EXCEPT ![e].pc = "get", ![e].msg = m, ![e].next = 1]
    BY <1>9 DEF ImportStart
  <2>3. editor' \in [Editors -> EditorStates]
    <3>1. editor[e] \in EditorStates
      BY DEF TypeOK
    <3>2. [editor[e] EXCEPT !.pc = "get", !.msg = m, !.next = 1] \in EditorStates
      BY <3>1 DEF EditorStates
    <3>3. editor' = [editor EXCEPT ![e] = [editor[e] EXCEPT !.pc = "get", !.msg = m, !.next = 1]]
      BY <2>2, <3>1 DEF TypeOK
    <3> QED
      BY <3>2, <3>3 DEF TypeOK
  <2>4. /\ editor'[e].msg = m /\ editor'[e].next = 1
        /\ \A d \in Editors \ {e} : editor'[d] = editor[d]
    BY <2>2 DEF TypeOK, EditorStates
  <2>5. UNCHANGED <<cache, lock, queue, manager, behind, store>>
    BY <1>9 DEF ImportStart
  <2> QED
    BY <2>1, <2>3, <2>4, <2>5 DEF TypeOK
<1>10. ASSUME NEW e \in Editors, ImportGet(e) PROVE TypeOK'
  <2>1. PatchAt(e) \in Patches
    BY <1>10, ConfigSystemConstants DEF ImportGet, TypeOK, EditorStates, PatchAt
  <2>2. GetRecord(PatchAt(e).rec) \in Records
    BY <2>1 DEF GetRecord, TypeOK, Configs, Patches
  <2> DEFINE got == GetRecord(PatchAt(e).rec)
  <2>3. editor' = [editor EXCEPT ![e] = [editor[e] EXCEPT !.pc = "set", !.copy = got]]
    BY <1>10 DEF ImportGet, TypeOK, EditorStates
  <2>4. got \in Records /\ editor \in [Editors -> EditorStates]
    BY <2>2 DEF TypeOK
  <2> HIDE DEF got
  <2>5. [editor[e] EXCEPT !.pc = "set", !.copy = got] \in EditorStates
    BY <2>4 DEF EditorStates
  <2>6. editor' \in [Editors -> EditorStates]
    BY <2>3, <2>4, <2>5
  <2>7. UNCHANGED <<cache, lock, queue, manager, budget, behind, store>>
    BY <1>10 DEF ImportGet
  <2>8. /\ editor[e].pc = "get"
        /\ editor'[e].msg = editor[e].msg /\ editor'[e].next = editor[e].next
        /\ \A d \in Editors \ {e} : editor'[d] = editor[d]
    BY <1>10, <2>3, <2>4 DEF ImportGet, EditorStates
  <2> QED
    BY <2>6, <2>7, <2>8 DEF TypeOK
<1>11. ASSUME NEW e \in Editors, ImportSet(e) PROVE TypeOK'
  <2>1. cache' \in Configs
    BY <1>11, SetRecordTyped DEF ImportSet
  <2>2. editor[e].msg \in Seq(Patches)
    BY <1>11, ConfigSystemConstants DEF ImportSet, TypeOK, EditorStates
  <2>3. /\ editor' \in [Editors -> EditorStates]
        /\ editor'[e].pc \in {"get", "set"} => editor'[e].next \in DOMAIN editor'[e].msg
        /\ \A d \in Editors \ {e} : editor'[d] = editor[d]
    <3>1. /\ editor[e].pc = "set" /\ editor[e].next \in DOMAIN editor[e].msg
          /\ editor[e].next \in Nat
          /\ Len(editor[e].msg) \in Nat /\ DOMAIN editor[e].msg = 1 .. Len(editor[e].msg)
      BY <1>11, <2>2 DEF ImportSet, TypeOK, EditorStates
    <3>2. Advance(e)
      BY <1>11 DEF ImportSet
    <3>3. editor' \in [Editors -> EditorStates]
      BY <3>2, FactoryIsConfig DEF Advance, TypeOK, EditorStates
    <3>4. /\ editor'[e].msg = editor[e].msg /\ editor'[e].next = editor[e].next + 1
          /\ editor'[e].pc = IF editor[e].next = Len(editor[e].msg) THEN "commit" ELSE "get"
          /\ \A d \in Editors \ {e} : editor'[d] = editor[d]
      BY <3>2 DEF Advance, TypeOK, EditorStates
    <3>5. editor[e].next # Len(editor[e].msg) => editor[e].next + 1 \in DOMAIN editor[e].msg
      BY <3>1
    <3> QED
      BY <3>3, <3>4, <3>5
  <2> QED
    BY <1>11, <2>1, <2>3 DEF ImportSet, TypeOK
<1>12. ASSUME NEW e \in Editors, ImportCommit(e) PROVE TypeOK'
  <2>1. queue' \in Seq(Requests)
    BY <1>12, IdleTyped DEF ImportCommit, TypeOK, Send, SendTimesOut
  <2>2. /\ editor' \in [Editors -> EditorStates]
        /\ editor'[e].pc = "idle"
        /\ \A d \in Editors \ {e} : editor'[d] = editor[d]
    BY <1>12, IdleTyped DEF ImportCommit, TypeOK, EditorIdle
  <2> QED
    BY <1>12, <2>1, <2>2 DEF ImportCommit, TypeOK
<1>13. ASSUME NEW p \in FieldRequests, QueueConfigChange(p) PROVE TypeOK'
  <2>1. queue' \in Seq(Requests)
    BY <1>13 DEF QueueConfigChange, TypeOK, Send, SendTimesOut, Requests
  <2> QED
    BY <1>13, <2>1 DEF QueueConfigChange, TypeOK
<1>14. CASE ConfigResetDefaults
  BY <1>14, FactoryIsConfig DEF ConfigResetDefaults, TypeOK
<1>15. CASE PowerCut
  <2>1. manager'.pc = "receive" /\ \A e \in Editors : editor'[e].pc = "idle"
    BY <1>15 DEF PowerCut, ManagerIdle, EditorIdle
  <2>2. manager' \in ManagerStates /\ editor' \in [Editors -> EditorStates]
    BY <1>15, IdleTyped DEF PowerCut
  <2>3. /\ value' \in Configs \cup {NoConfig}
        /\ inflight' \in Configs \cup {NoConfig}
    BY <1>15 DEF PowerCut, Store!PowerCut, TypeOK
  <2>4. cache' \in Configs
    BY <1>15, FactoryIsConfig DEF PowerCut
  <2>5. queue' \in Seq(Requests)
    BY <1>15 DEF PowerCut
  <2>6. lock' \in BOOLEAN /\ behind' \in BOOLEAN
    BY <1>15 DEF PowerCut
  <2> QED
    BY <2>1, <2>2, <2>3, <2>4, <2>5, <2>6 DEF TypeOK
<1>16. CASE ConfigInit
  BY <1>16, FactoryIsConfig DEF ConfigInit, TypeOK, Store!Load
<1>17. CASE UNCHANGED vars
  BY <1>17 DEF vars, tasks, TypeOK
<1>18. QED
  BY <1>1, <1>2, <1>3, <1>4, <1>5, <1>6, <1>7, <1>8, <1>9, <1>10, <1>11, <1>12, <1>13,
     <1>14, <1>15, <1>16, <1>17
  DEF Next, ManagerStep, EditorStep

LEMMA TypeInit == Init => TypeOK
<1> SUFFICES ASSUME Init PROVE TypeOK
  OBVIOUS
<1>1. manager \in ManagerStates /\ manager.pc = "receive"
  BY IdleTyped DEF Init, ManagerIdle
<1>2. editor \in [Editors -> EditorStates] /\ \A e \in Editors : editor[e].pc = "idle"
  BY IdleTyped DEF Init, EditorIdle
<1>3. cache \in Configs
  BY FactoryIsConfig DEF Init
<1>4. queue \in Seq(Requests)
  BY DEF Init
<1>5. lock \in BOOLEAN /\ behind \in BOOLEAN /\ value = NoConfig /\ inflight = NoConfig
  BY DEF Init, Store!Init
<1> QED
  BY <1>1, <1>2, <1>3, <1>4, <1>5 DEF TypeOK

(* Every variable keeps its type, whatever the tasks do and in whatever    *)
(* order: requests in the queue are requests, the cache and the stored     *)
(* value are configurations of legal fields.                               *)
THEOREM TypeCorrect == Spec => []TypeOK
<1>1. QED
  BY TypeInit, TypeOKStep, PTL DEF Spec

(* ---------------------------------------------------------------------- *)
(* The save: mutex, blob and slot write.                                  *)

LEMMA SaveInOrderStep == TypeOK /\ SaveInOrder /\ [Next]_vars => SaveInOrder'
<1> SUFFICES ASSUME TypeOK, SaveInOrder, [Next]_vars PROVE SaveInOrder'
  OBVIOUS
<1> USE DEF SaveInOrder, store
<1>1. CASE ManagerReceive
  BY <1>1 DEF ManagerReceive, TypeOK, ManagerStates
<1>2. CASE ManagerApplyGet
  BY <1>2 DEF ManagerApplyGet, TypeOK, ManagerStates
<1>3. CASE ManagerApplySet
  BY <1>3 DEF ManagerApplySet, TypeOK, ManagerStates
<1>4. CASE ManagerDrained
  BY <1>4 DEF ManagerDrained, ManagerIdle, TypeOK, ManagerStates
<1>5. CASE SaveTakesLock
  BY <1>5 DEF SaveTakesLock, TypeOK, ManagerStates
<1>6. ASSUME NEW r \in Record, EncodeRecord(r) PROVE SaveInOrder'
  <2>1. /\ manager'.pc = "encode"
        /\ manager'.left = manager.left \ {r}
        /\ manager'.blob = [manager.blob EXCEPT ![r] = cache[r]]
    BY <1>6 DEF EncodeRecord, TypeOK, ManagerStates
  <2>2. \A q \in Record \ manager'.left : manager'.blob[q] = cache'[q]
    BY <1>6, <2>1 DEF EncodeRecord, TypeOK, ManagerStates, Configs
  <2> QED
    BY <1>6, <2>1, <2>2 DEF EncodeRecord
<1>7. CASE EncodeDone
  <2>1. manager.blob # NoConfig /\ manager.pc = "encode" /\ lock' = FALSE
    BY <1>7, ConfigsAreValues DEF EncodeDone, TypeOK, ManagerStates
  <2>2. powered /\ powered' = powered
    BY <1>7 DEF EncodeDone, Store!BeginSave
  <2>3. CASE inflight' = manager.blob /\ manager'.pc = "storage"
    BY <2>1, <2>2, <2>3
  <2>4. CASE inflight' = inflight /\ manager' = ManagerIdle
    BY <2>1, <2>2, <2>4 DEF ManagerIdle
  <2> QED
    BY <1>7, <2>3, <2>4 DEF EncodeDone, TypeOK, ManagerStates, Store!BeginSave
<1>8. CASE SaveReturns
  BY <1>8 DEF SaveReturns, ManagerIdle, Store!AckSave, Store!FailSave
<1>9. ASSUME NEW e \in Editors, NEW m \in Messages, ImportStart(e, m) PROVE SaveInOrder'
  BY <1>9 DEF ImportStart
<1>10. ASSUME NEW e \in Editors, ImportGet(e) PROVE SaveInOrder'
  BY <1>10 DEF ImportGet
<1>11. ASSUME NEW e \in Editors, ImportSet(e) PROVE SaveInOrder'
  \* The setter waits for the mutex, or refuses and leaves the cache alone.
  BY <1>11 DEF ImportSet, SetRecord, MutexFree
<1>12. ASSUME NEW e \in Editors, ImportCommit(e) PROVE SaveInOrder'
  BY <1>12 DEF ImportCommit
<1>13. ASSUME NEW p \in FieldRequests, QueueConfigChange(p) PROVE SaveInOrder'
  BY <1>13 DEF QueueConfigChange
<1>14. CASE ConfigResetDefaults
  BY <1>14 DEF ConfigResetDefaults, MutexFree
<1>15. CASE PowerCut
  BY <1>15 DEF PowerCut, ManagerIdle, Store!PowerCut
<1>16. CASE ConfigInit
  BY <1>16 DEF ConfigInit, Store!Load
<1>17. CASE UNCHANGED vars
  BY <1>17 DEF vars, tasks
<1>18. QED
  BY <1>1, <1>2, <1>3, <1>4, <1>5, <1>6, <1>7, <1>8, <1>9, <1>10, <1>11, <1>12, <1>13,
     <1>14, <1>15, <1>16, <1>17
  DEF Next, ManagerStep, EditorStep

LEMMA SaveInOrderInit == Init => SaveInOrder
  BY DEF Init, SaveInOrder, ManagerIdle, Store!Init

LEMMA SaveInOrderAlways == Spec => [](TypeOK /\ SaveInOrder)
  BY TypeInit, TypeOKStep, SaveInOrderInit, SaveInOrderStep, PTL DEF Spec

LEMMA BlobIsCache ==
  ASSUME TypeOK, SaveInOrder, manager.pc = "encode", manager.left = {}
  PROVE  manager.blob = cache
  BY DEF TypeOK, SaveInOrder, ManagerStates, Configs

(* Only config_save starts a slot write.                                   *)
LEMMA SavesBeginAfterEncoding ==
  ASSUME TypeOK, SaveInOrder, [Next]_vars, inflight = NoConfig, inflight' # NoConfig
  PROVE  EncodeDone
<1> USE DEF store
<1>1. CASE ManagerReceive
  BY <1>1 DEF ManagerReceive
<1>2. CASE ManagerApplyGet
  BY <1>2 DEF ManagerApplyGet
<1>3. CASE ManagerApplySet
  BY <1>3 DEF ManagerApplySet
<1>4. CASE ManagerDrained
  BY <1>4 DEF ManagerDrained
<1>5. CASE SaveTakesLock
  BY <1>5 DEF SaveTakesLock
<1>6. ASSUME NEW r \in Record, EncodeRecord(r) PROVE FALSE
  BY <1>6 DEF EncodeRecord
<1>7. CASE SaveReturns
  BY <1>7 DEF SaveReturns, Store!AckSave, Store!FailSave
<1>8. ASSUME NEW e \in Editors, NEW m \in Messages, ImportStart(e, m) PROVE FALSE
  BY <1>8 DEF ImportStart
<1>9. ASSUME NEW e \in Editors, EditorStep(e) PROVE FALSE
  BY <1>9 DEF EditorStep, ImportGet, ImportSet, ImportCommit
<1>10. ASSUME NEW p \in FieldRequests, QueueConfigChange(p) PROVE FALSE
  BY <1>10 DEF QueueConfigChange
<1>11. CASE ConfigResetDefaults
  BY <1>11 DEF ConfigResetDefaults
<1>12. CASE PowerCut
  BY <1>12 DEF PowerCut, Store!PowerCut
<1>13. CASE ConfigInit
  BY <1>13 DEF ConfigInit, Store!Load
<1>14. CASE UNCHANGED vars
  BY <1>14 DEF vars
<1>15. QED
  BY <1>1, <1>2, <1>3, <1>4, <1>5, <1>6, <1>7, <1>8, <1>9, <1>10, <1>11, <1>12, <1>13, <1>14
  DEF Next, ManagerStep

(* What config_save hands to slot_write is the cache of the very moment    *)
(* the mutex is released: no setter got between two of its records.        *)
THEOREM CoherentSnapshot == Spec => SnapshotIsCoherent
<1>1. TypeOK /\ SaveInOrder /\ [Next]_vars
        => [inflight = NoConfig /\ inflight' # NoConfig => inflight' = cache]_vars
  <2> SUFFICES ASSUME TypeOK, SaveInOrder, [Next]_vars, inflight = NoConfig, inflight' # NoConfig
               PROVE  inflight' = cache
    OBVIOUS
  <2>1. EncodeDone
    BY SavesBeginAfterEncoding
  <2>2. manager.blob = cache
    BY <2>1, BlobIsCache DEF EncodeDone
  <2> QED
    BY <2>1, <2>2 DEF EncodeDone, Store!BeginSave, store
<1> QED
  BY <1>1, SaveInOrderAlways, PTL DEF Spec, SnapshotIsCoherent

(* ---------------------------------------------------------------------- *)
(* Nothing that was accepted is forgotten.                                *)

LEMMA CommitStaysQueued ==
  ASSUME TypeOK, queue' = queue \/ \E req \in Requests : queue' = Append(queue, req), CommitQueued
  PROVE  CommitQueued'
<1>1. PICK i \in DOMAIN queue : queue[i] = Commit
  BY DEF CommitQueued
<1>2. i \in DOMAIN queue' /\ queue'[i] = Commit
  BY <1>1 DEF TypeOK
<1> QED
  BY <1>2 DEF CommitQueued

LEMMA NothingForgottenStep ==
  TypeOK /\ SaveInOrder /\ NothingForgotten /\ [Next]_vars => NothingForgotten'
<1> SUFFICES ASSUME TypeOK, SaveInOrder, NothingForgotten, [Next]_vars,
                    powered', ~behind', ~SaveToCome'
             PROVE  cache' = Saving'
  BY DEF NothingForgotten
<1> USE DEF store
<1>1. CASE ManagerReceive
  <2>1. CASE Head(queue).kind = "COMMIT"
    BY <1>1, <2>1
    DEF ManagerReceive, TypeOK, ManagerStates, DirtyAfter, SaveToCome, ManagerWillSave
  <2>2. CASE Head(queue).kind # "COMMIT"
    <3>1. ~CommitQueued
      <4> SUFFICES ASSUME NEW i \in DOMAIN queue, queue[i] = Commit PROVE FALSE
        BY DEF CommitQueued
      <4>1. i # 1
        BY <1>1, <2>2 DEF ManagerReceive, TypeOK, Commit
      <4>2. i - 1 \in DOMAIN queue' /\ queue'[i - 1] = Commit
        BY <1>1, <4>1 DEF ManagerReceive, TypeOK
      <4> QED
        BY <4>2 DEF SaveToCome, ManagerWillSave, CommitQueued
    <3>2. manager.pc \in {"receive", "drain"} /\ ~manager.dirty
      BY <1>1, <2>2
      DEF ManagerReceive, TypeOK, ManagerStates, DirtyAfter, SaveToCome, ManagerWillSave
    <3>3. ~SaveToCome
      BY <1>1, <3>1, <3>2 DEF ManagerReceive, SaveToCome, ManagerWillSave, HalfImported
    <3> QED
      BY <1>1, <3>3 DEF ManagerReceive, NothingForgotten, Saving, Stored
  <2> QED
    BY <2>1, <2>2
<1>2. CASE ManagerApplyGet
  <2>1. ~SaveToCome
    BY <1>2
    DEF ManagerApplyGet, TypeOK, ManagerStates, SaveToCome, ManagerWillSave, CommitQueued,
        HalfImported
  <2> QED
    BY <1>2, <2>1 DEF ManagerApplyGet, NothingForgotten, Saving, Stored
<1>3. CASE ManagerApplySet
  <2>1. manager'.pc = "drain" /\ ~manager'.dirty
    BY <1>3 DEF ManagerApplySet, TypeOK, ManagerStates, SaveToCome, ManagerWillSave
  <2>2. ~manager.dirty /\ ~Accepted(manager.copy, manager.req.patch)
    BY <1>3, <2>1 DEF ManagerApplySet, TypeOK, ManagerStates
  <2>3. cache' = cache
    BY <1>3, <2>2 DEF ManagerApplySet, SetRecord
  <2>4. ~SaveToCome
    BY <1>3, <2>2 DEF ManagerApplySet, SaveToCome, ManagerWillSave, CommitQueued, HalfImported
  <2> QED
    BY <1>3, <2>3, <2>4 DEF ManagerApplySet, NothingForgotten, Saving, Stored
<1>4. CASE ManagerDrained
  <2>1. ~manager.dirty
    BY <1>4 DEF ManagerDrained, TypeOK, ManagerStates, SaveToCome, ManagerWillSave
  <2>2. ~SaveToCome
    BY <1>4, <2>1 DEF ManagerDrained, SaveToCome, ManagerWillSave, CommitQueued, HalfImported
  <2> QED
    BY <1>4, <2>2 DEF ManagerDrained, NothingForgotten, Saving, Stored
<1>5. CASE SaveTakesLock
  BY <1>5 DEF SaveTakesLock, TypeOK, ManagerStates, SaveToCome, ManagerWillSave
<1>6. ASSUME NEW r \in Record, EncodeRecord(r) PROVE FALSE
  BY <1>6 DEF EncodeRecord, TypeOK, ManagerStates, SaveToCome, ManagerWillSave
<1>7. CASE EncodeDone
  <2>1. Store!BeginSave(manager.blob)
    \* Giving up would leave behind up, or a commit in the queue.
    BY <1>7 DEF EncodeDone, SaveToCome, ManagerWillSave, CommitQueued
  <2>2. inflight' = cache /\ cache' = cache
    BY <1>7, <2>1, BlobIsCache DEF EncodeDone, Store!BeginSave
  <2>3. inflight' # NoConfig
    BY <2>2, ConfigsAreValues DEF TypeOK
  <2> QED
    BY <2>2, <2>3 DEF Saving
<1>8. CASE SaveReturns
  <2>1. Store!AckSave /\ UNCHANGED behind
    \* So would a write that failed.
    BY <1>8 DEF SaveReturns, SaveToCome, ManagerWillSave, CommitQueued
  <2>2. inflight # NoConfig /\ value' = inflight /\ inflight' = NoConfig
    BY <2>1 DEF Store!AckSave
  <2>3. ~SaveToCome
    BY <1>8 DEF SaveReturns, SaveToCome, ManagerWillSave, CommitQueued, HalfImported
  <2> QED
    BY <1>8, <2>1, <2>2, <2>3
    DEF SaveReturns, Store!AckSave, NothingForgotten, Saving, Stored
<1>9. ASSUME NEW e \in Editors, NEW m \in Messages, ImportStart(e, m) PROVE cache' = Saving'
  <2>1. \A d \in Editors \ {e} : editor'[d] = editor[d]
    BY <1>9 DEF ImportStart, TypeOK
  <2>2. ~SaveToCome
    BY <1>9, <2>1 DEF ImportStart, SaveToCome, ManagerWillSave, CommitQueued, HalfImported
  <2> QED
    BY <1>9, <2>2 DEF ImportStart, NothingForgotten, Saving, Stored
<1>10. ASSUME NEW e \in Editors, ImportGet(e) PROVE cache' = Saving'
  <2>1. /\ \A d \in Editors \ {e} : editor'[d] = editor[d]
        /\ editor[e].pc = "get" /\ editor'[e].pc = "set" /\ editor'[e].next = editor[e].next
    BY <1>10 DEF ImportGet, TypeOK, EditorStates
  <2>2. ~SaveToCome
    BY <1>10, <2>1 DEF ImportGet, SaveToCome, ManagerWillSave, CommitQueued, HalfImported
  <2> QED
    BY <1>10, <2>2 DEF ImportGet, NothingForgotten, Saving, Stored
<1>11. ASSUME NEW e \in Editors, ImportSet(e) PROVE FALSE
  <2>1. editor[e].msg \in Seq(Patches) /\ editor[e].next \in DOMAIN editor[e].msg
    BY <1>11, ConfigSystemConstants DEF ImportSet, TypeOK, EditorStates
  <2>2. editor'[e].pc \in {"get", "commit"} /\ editor'[e].next > 1
    BY <1>11, <2>1 DEF ImportSet, Advance, TypeOK, EditorStates
  <2> QED
    BY <2>2 DEF SaveToCome, ManagerWillSave, HalfImported
<1>12. ASSUME NEW e \in Editors, ImportCommit(e) PROVE FALSE
  <2>1. queue' = Append(queue, Commit)
    \* A refused commit leaves behind up, or relies on a save of the manager's.
    BY <1>12
    DEF ImportCommit, Send, SendTimesOut, SaveToCome, ManagerWillSave, CommitQueued
  <2>2. queue'[Len(queue) + 1] = Commit /\ Len(queue) + 1 \in DOMAIN queue'
    BY <2>1, IdleTyped DEF TypeOK
  <2> QED
    BY <2>2 DEF SaveToCome, ManagerWillSave, CommitQueued
<1>13. ASSUME NEW p \in FieldRequests, QueueConfigChange(p) PROVE cache' = Saving'
  <2>1. queue' = queue \/ \E req \in Requests : queue' = Append(queue, req)
    BY <1>13 DEF QueueConfigChange, Send, SendTimesOut, Requests
  <2>2. ~CommitQueued
    BY <2>1, CommitStaysQueued DEF SaveToCome, ManagerWillSave
  <2>3. ~SaveToCome
    BY <1>13, <2>2 DEF QueueConfigChange, SaveToCome, ManagerWillSave, HalfImported
  <2> QED
    BY <1>13, <2>3 DEF QueueConfigChange, NothingForgotten, Saving, Stored
<1>14. CASE ConfigResetDefaults
  \* Likewise.
  BY <1>14 DEF ConfigResetDefaults, SaveToCome, ManagerWillSave, CommitQueued
<1>15. CASE PowerCut
  BY <1>15 DEF PowerCut, Store!PowerCut
<1>16. CASE ConfigInit
  \* With the power off no save is in progress.
  <2>1. inflight = NoConfig
    BY <1>16 DEF ConfigInit, Store!Load, SaveInOrder
  <2> QED
    BY <1>16, <2>1 DEF ConfigInit, Store!Load, Saving, Stored
<1>17. CASE UNCHANGED vars
  BY <1>17
  DEF vars, tasks, NothingForgotten, SaveToCome, ManagerWillSave, CommitQueued, HalfImported,
      Saving, Stored
<1>18. QED
  BY <1>1, <1>2, <1>3, <1>4, <1>5, <1>6, <1>7, <1>8, <1>9, <1>10, <1>11, <1>12, <1>13,
     <1>14, <1>15, <1>16, <1>17
  DEF Next, ManagerStep, EditorStep

(* The inductive invariant of the running system.                          *)
THEOREM SystemInvariant == Spec => []SystemInv
<1>1. Init => NothingForgotten
  BY DEF Init, NothingForgotten, Store!Init
<1>2. TypeOK /\ SaveInOrder /\ NothingForgotten <=> SystemInv
  BY DEF SystemInv
<1> QED
  BY <1>1, <1>2, TypeInit, TypeOKStep, SaveInOrderInit, SaveInOrderStep,
     NothingForgottenStep, PTL DEF Spec

(* However requests, imports, resets, failures and power cuts interleave:  *)
(* a system at rest has in storage what it has in its cache, unless a save *)
(* failed with no commit waiting, or a reset or a refused commit came with *)
(* no save ahead of it, and no save has succeeded since.                   *)
THEOREM RestIsSaved == Spec => []SettledIsSaved
<1>1. SystemInv => SettledIsSaved
  <2> SUFFICES ASSUME SystemInv, Settled, ~behind PROVE cache = Stored
    BY DEF SettledIsSaved
  <2>1. ~SaveToCome
    BY DEF Settled, SaveToCome, ManagerWillSave, CommitQueued, HalfImported
  <2>2. inflight = NoConfig
    BY DEF Settled, SystemInv, SaveInOrder
  <2> QED
    BY <2>1, <2>2 DEF SystemInv, NothingForgotten, Saving, Settled
<1> QED
  BY <1>1, SystemInvariant, PTL

------------------------------------------------------------------------------
(* The read-modify-write of one task.                                      *)

(* Between a task's get and its set the cache keeps the record it has read. *)
CopiesAreFresh ==
    /\ \A e \in Editors : editor[e].pc = "set" => editor[e].copy = cache[PatchAt(e).rec]
    /\ manager.pc = "set" => manager.copy = cache[manager.req.patch.rec]
    /\ ~powered => manager.pc # "set" /\ \A e \in Editors : editor[e].pc # "set"
    /\ budget \in [{"imports", "fields", "resets", "cuts"} -> Int] /\ budget["resets"] = 0

(* What the two kinds of writers are about to set.                         *)
LEMMA PendingPatches ==
  ASSUME TypeOK
  PROVE  /\ manager.pc = "set" =>
               manager.req.patch \in FieldRequests /\ manager.req.patch \in Patches
         /\ \A e \in Editors : editor[e].pc = "set" =>
               /\ \E m \in Messages : \E i \in DOMAIN m : PatchAt(e) = m[i]
               /\ PatchAt(e) \in Patches
<1>1. manager.pc = "set" => manager.req.patch \in FieldRequests
  BY DEF TypeOK, ManagerStates, Requests, Commit, FieldRequest
<1>2. ASSUME NEW e \in Editors, editor[e].pc = "set"
      PROVE  /\ \E m \in Messages : \E i \in DOMAIN m : PatchAt(e) = m[i]
             /\ PatchAt(e) \in Patches
  <2>1. editor[e].msg \in Messages /\ editor[e].next \in DOMAIN editor[e].msg
    BY <1>2 DEF TypeOK, EditorStates
  <2> QED
    BY <2>1, ConfigSystemConstants DEF PatchAt
<1> QED
  BY <1>1, <1>2, ConfigSystemConstants

LEMMA CopiesStep ==
  ASSUME SoleWriters, TypeOK, CopiesAreFresh, [Next]_vars
  PROVE  CopiesAreFresh'
<1> USE DEF store
<1>b. /\ budget \in [{"imports", "fields", "resets", "cuts"} -> Int] /\ budget["resets"] = 0
      /\ \A what \in {"imports", "fields", "cuts"} : Spend(what) =>
            budget' \in [{"imports", "fields", "resets", "cuts"} -> Int] /\ budget'["resets"] = 0
      /\ ~Spend("resets")
  BY DEF CopiesAreFresh, Spend
<1>1. CASE ManagerReceive
  BY <1>1 DEF ManagerReceive, CopiesAreFresh, PatchAt, TypeOK, ManagerStates
<1>2. CASE ManagerApplyGet
  BY <1>2 DEF ManagerApplyGet, CopiesAreFresh, PatchAt, GetRecord, TypeOK, ManagerStates
<1>3. CASE ManagerApplySet
  <2>1. manager'.pc = "drain"
    BY <1>3 DEF ManagerApplySet, TypeOK, ManagerStates
  <2>2. ASSUME NEW e \in Editors, editor[e].pc = "set"
        PROVE  cache'[PatchAt(e).rec] = cache[PatchAt(e).rec]
    <3>1. PatchAt(e).rec # manager.req.patch.rec
      BY <1>3, <2>2, PendingPatches DEF ManagerApplySet, SoleWriters
    <3>2. PatchAt(e).rec \in Record
      BY <2>2, PendingPatches DEF Patches
    <3> QED
      BY <1>3, <3>1, <3>2 DEF ManagerApplySet, SetRecord, TypeOK, Configs
  <2> QED
    BY <1>3, <2>1, <2>2 DEF ManagerApplySet, CopiesAreFresh, PatchAt
<1>4. CASE ManagerDrained
  BY <1>4 DEF ManagerDrained, CopiesAreFresh, PatchAt, ManagerIdle, TypeOK, ManagerStates
<1>5. CASE SaveTakesLock
  BY <1>5 DEF SaveTakesLock, CopiesAreFresh, PatchAt, TypeOK, ManagerStates
<1>6. ASSUME NEW r \in Record, EncodeRecord(r) PROVE CopiesAreFresh'
  <2>1. manager'.pc = "encode"
    BY <1>6 DEF EncodeRecord, TypeOK, ManagerStates
  <2> QED
    BY <1>6, <2>1 DEF EncodeRecord, CopiesAreFresh, PatchAt
<1>7. CASE EncodeDone
  <2>1. manager'.pc \in {"storage", "receive"} /\ powered' = powered
    <3>1. manager'.pc \in {"storage", "receive"}
      <4>1. manager' = [manager EXCEPT !.pc = "storage"] \/ manager' = ManagerIdle
        BY <1>7 DEF EncodeDone
      <4> QED
        BY <4>1 DEF ManagerIdle, TypeOK, ManagerStates
    <3>2. CASE Store!BeginSave(manager.blob)
      BY <3>1, <3>2 DEF Store!BeginSave
    <3>3. CASE UNCHANGED store
      BY <3>1, <3>3
    <3> QED
      BY <1>7, <3>2, <3>3 DEF EncodeDone
  <2> QED
    BY <1>7, <2>1 DEF EncodeDone, CopiesAreFresh, PatchAt
<1>8. CASE SaveReturns
  <2>1. manager'.pc = "receive" /\ powered'
    BY <1>8 DEF SaveReturns, ManagerIdle, Store!AckSave, Store!FailSave
  <2> QED
    BY <1>8, <2>1 DEF SaveReturns, CopiesAreFresh, PatchAt
<1>9. ASSUME NEW e \in Editors, NEW m \in Messages, ImportStart(e, m) PROVE CopiesAreFresh'
  <2>1. editor'[e].pc = "get" /\ \A d \in Editors \ {e} : editor'[d] = editor[d]
    BY <1>9 DEF ImportStart, TypeOK, EditorStates
  <2>2. /\ budget' \in [{"imports", "fields", "resets", "cuts"} -> Int] /\ budget'["resets"] = 0
        /\ powered /\ UNCHANGED <<cache, manager, store>>
    BY <1>9, <1>b DEF ImportStart
  <2> QED
    BY <2>1, <2>2 DEF CopiesAreFresh, PatchAt
<1>10. ASSUME NEW e \in Editors, ImportGet(e) PROVE CopiesAreFresh'
  <2>1. /\ editor'[e].msg = editor[e].msg /\ editor'[e].next = editor[e].next
        /\ editor'[e].copy = cache[PatchAt(e).rec]
        /\ \A d \in Editors \ {e} : editor'[d] = editor[d]
    BY <1>10 DEF ImportGet, GetRecord, TypeOK, EditorStates
  <2>2. powered /\ UNCHANGED <<cache, manager, budget, store>>
    BY <1>10 DEF ImportGet
  <2>3. PatchAt(e)' = PatchAt(e) /\ \A d \in Editors \ {e} : PatchAt(d)' = PatchAt(d)
    BY <2>1 DEF PatchAt
  <2> QED
    BY <2>1, <2>2, <2>3 DEF CopiesAreFresh
<1>11. ASSUME NEW e \in Editors, ImportSet(e) PROVE CopiesAreFresh'
  <2>1. editor'[e].pc # "set" /\ \A d \in Editors : d = e
    BY <1>11 DEF ImportSet, Advance, TypeOK, EditorStates, SoleWriters
  <2>2. manager.pc = "set" =>
          cache'[manager.req.patch.rec] = cache[manager.req.patch.rec]
    <3> SUFFICES ASSUME manager.pc = "set"
                 PROVE  cache'[manager.req.patch.rec] = cache[manager.req.patch.rec]
      OBVIOUS
    <3>1. PatchAt(e).rec # manager.req.patch.rec
      BY <1>11, PendingPatches DEF ImportSet, SoleWriters
    <3>2. manager.req.patch.rec \in Record
      BY PendingPatches DEF Patches
    <3> QED
      BY <1>11, <3>1, <3>2 DEF ImportSet, SetRecord, TypeOK, Configs
  <2> QED
    BY <1>11, <2>1, <2>2 DEF ImportSet, CopiesAreFresh
<1>12. ASSUME NEW e \in Editors, ImportCommit(e) PROVE CopiesAreFresh'
  <2>1. editor'[e].pc = "idle" /\ \A d \in Editors \ {e} : editor'[d] = editor[d]
    BY <1>12 DEF ImportCommit, EditorIdle, TypeOK
  <2> QED
    BY <1>12, <2>1 DEF ImportCommit, CopiesAreFresh, PatchAt
<1>13. ASSUME NEW p \in FieldRequests, QueueConfigChange(p) PROVE CopiesAreFresh'
  BY <1>13, <1>b DEF QueueConfigChange, CopiesAreFresh, PatchAt
<1>14. CASE ConfigResetDefaults
  BY <1>14, <1>b DEF ConfigResetDefaults
<1>15. CASE PowerCut
  BY <1>15, <1>b DEF PowerCut, CopiesAreFresh, ManagerIdle, EditorIdle
<1>16. CASE ConfigInit
  BY <1>16 DEF ConfigInit, Store!Load, CopiesAreFresh
<1>17. CASE UNCHANGED vars
  BY <1>17 DEF vars, tasks, CopiesAreFresh, PatchAt
<1>18. QED
  BY <1>1, <1>2, <1>3, <1>4, <1>5, <1>6, <1>7, <1>8, <1>9, <1>10, <1>11, <1>12, <1>13,
     <1>14, <1>15, <1>16, <1>17
  DEF Next, ManagerStep, EditorStep

(* Only a set ends the update a get began.                                 *)
LEMMA UpdatesEndWithSet ==
  ASSUME TypeOK, [Next]_vars
  PROVE  /\ \A e \in Editors :
               editor[e].pc = "set" /\ editor'[e].pc \in {"get", "commit"} => ImportSet(e)
         /\ manager.pc = "set" /\ manager'.pc = "drain" => ManagerApplySet
<1> USE DEF store
<1>1. ASSUME NEW e \in Editors, editor[e].pc = "set", editor'[e].pc \in {"get", "commit"}
      PROVE  ImportSet(e)
  <2>1. ASSUME ManagerStep PROVE FALSE
    BY <1>1, <2>1
    DEF ManagerStep, ManagerReceive, ManagerApplyGet, ManagerApplySet, ManagerDrained,
        SaveTakesLock, EncodeRecord, EncodeDone, SaveReturns
  <2>2. ASSUME NEW d \in Editors, NEW m \in Messages, ImportStart(d, m) PROVE FALSE
    BY <1>1, <2>2 DEF ImportStart, TypeOK
  <2>3. ASSUME NEW d \in Editors, EditorStep(d), ~ImportSet(e) PROVE FALSE
    <3>1. CASE d = e
      BY <1>1, <2>3, <3>1 DEF EditorStep, ImportGet, ImportCommit
    <3>2. CASE d # e
      BY <1>1, <2>3, <3>2 DEF EditorStep, ImportGet, ImportSet, Advance, ImportCommit, TypeOK
    <3> QED
      BY <3>1, <3>2
  <2>4. ASSUME NEW p \in FieldRequests, QueueConfigChange(p) PROVE FALSE
    BY <1>1, <2>4 DEF QueueConfigChange
  <2>5. ASSUME ConfigResetDefaults \/ PowerCut \/ ConfigInit \/ UNCHANGED vars PROVE FALSE
    BY <1>1, <2>5 DEF ConfigResetDefaults, PowerCut, EditorIdle, ConfigInit, vars, tasks
  <2> QED
    BY <2>1, <2>2, <2>3, <2>4, <2>5 DEF Next
<1>2. ASSUME manager.pc = "set", manager'.pc = "drain" PROVE ManagerApplySet
  <2>1. ASSUME ManagerStep, ~ManagerApplySet PROVE FALSE
    BY <1>2, <2>1
    DEF ManagerStep, ManagerReceive, ManagerApplyGet, ManagerDrained,
        SaveTakesLock, EncodeRecord, EncodeDone, SaveReturns
  <2>2. ASSUME NEW d \in Editors, NEW m \in Messages, ImportStart(d, m) PROVE FALSE
    BY <1>2, <2>2 DEF ImportStart
  <2>3. ASSUME NEW d \in Editors, EditorStep(d) PROVE FALSE
    BY <1>2, <2>3 DEF EditorStep, ImportGet, ImportSet, ImportCommit
  <2>4. ASSUME NEW p \in FieldRequests, QueueConfigChange(p) PROVE FALSE
    BY <1>2, <2>4 DEF QueueConfigChange
  <2>5. ASSUME ConfigResetDefaults \/ PowerCut \/ ConfigInit \/ UNCHANGED vars PROVE FALSE
    BY <1>2, <2>5 DEF ConfigResetDefaults, PowerCut, ManagerIdle, ConfigInit, vars, tasks
  <2> QED
    BY <2>1, <2>2, <2>3, <2>4, <2>5 DEF Next
<1> QED
  BY <1>1, <1>2

(* Where every record has one writer, a document or a request changes the   *)
(* fields it names and no other: the get and the set of one task are one    *)
(* update, although the mutex is released in between.                       *)
THEOREM SoleWritersLoseNothing ==
    ASSUME SoleWriters
    PROVE  Spec => PatchPreservesOthers
<1>1. TypeOK /\ CopiesAreFresh /\ [Next]_vars => CopiesAreFresh'
  BY CopiesStep
<1>2. Init => CopiesAreFresh
  BY ConfigSystemConstants
  DEF Init, CopiesAreFresh, SoleWriters, ManagerIdle, EditorIdle
<1>3. TypeOK /\ CopiesAreFresh /\ [Next]_vars =>
        [/\ \A e \in Editors :
               editor[e].pc = "set" /\ editor'[e].pc \in {"get", "commit"} =>
                  Untouched(PatchAt(e))
         /\ manager.pc = "set" /\ manager'.pc = "drain" =>
               Untouched(manager.req.patch)]_vars
  <2> SUFFICES ASSUME TypeOK, CopiesAreFresh, [Next]_vars
               PROVE  /\ \A e \in Editors :
                           editor[e].pc = "set" /\ editor'[e].pc \in {"get", "commit"} =>
                              Untouched(PatchAt(e))
                      /\ manager.pc = "set" /\ manager'.pc = "drain" =>
                           Untouched(manager.req.patch)
    OBVIOUS
  <2>1. ASSUME NEW copy, NEW p \in Patches, copy = cache[p.rec], SetRecord(copy, p)
        PROVE  Untouched(p)
    BY <2>1 DEF SetRecord, Untouched, Patched, Patches, TypeOK, Configs
  <2>2. ASSUME NEW e \in Editors, editor[e].pc = "set", editor'[e].pc \in {"get", "commit"}
        PROVE  Untouched(PatchAt(e))
    <3>1. SetRecord(editor[e].copy, PatchAt(e))
      BY <2>2, UpdatesEndWithSet DEF ImportSet
    <3>2. PatchAt(e) \in Patches /\ editor[e].copy = cache[PatchAt(e).rec]
      BY <2>2, PendingPatches DEF CopiesAreFresh
    <3> QED
      BY <2>1, <3>1, <3>2
  <2>3. ASSUME manager.pc = "set", manager'.pc = "drain"
        PROVE  Untouched(manager.req.patch)
    <3>1. SetRecord(manager.copy, manager.req.patch)
      BY <2>3, UpdatesEndWithSet DEF ManagerApplySet
    <3>2. manager.req.patch \in Patches /\ manager.copy = cache[manager.req.patch.rec]
      BY <2>3, PendingPatches DEF CopiesAreFresh
    <3> QED
      BY <2>1, <3>1, <3>2
  <2> QED
    BY <2>2, <2>3
<1> QED
  BY <1>1, <1>2, <1>3, TypeCorrect, PTL DEF Spec, PatchPreservesOthers
===============================================================================
