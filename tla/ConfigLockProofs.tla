--------------------------- MODULE ConfigLockProofs ---------------------------
(***************************************************************************)
(* For any number of tasks: the mutex excludes, and is_held answers        *)
(* exactly whether its caller holds the mutex.                             *)
(***************************************************************************)
EXTENDS ConfigLock, TLAPS

(* A step moves one task; every action is one of these.                    *)
LEMMA LockInvStep == LockInv /\ [Next]_vars => LockInv'
<1> SUFFICES ASSUME LockInv, [Next]_vars PROVE LockInv'
  OBVIOUS
<1> USE NoThreadIsNone DEF LockInv, TypeOK, OwnerTracking, PCs, Goto, Forget, InCritical,
        Published, Holds
<1>1. ASSUME NEW t \in Threads, CallTake(t) PROVE LockInv'
  BY <1>1 DEF CallTake
<1>2. ASSUME NEW t \in Threads, AskHeld(t) PROVE LockInv'
  BY <1>2 DEF AskHeld
<1>3. ASSUME NEW t \in Threads, SemaphoreTake(t) PROVE LockInv'
  BY <1>3 DEF SemaphoreTake
<1>4. ASSUME NEW t \in Threads, SetOwner(t) PROVE LockInv'
  BY <1>4 DEF SetOwner
<1>5. ASSUME NEW t \in Threads, SetHasOwner(t) PROVE LockInv'
  BY <1>5 DEF SetHasOwner
<1>6. ASSUME NEW t \in Threads, ClearHasOwner(t) PROVE LockInv'
  BY <1>6 DEF ClearHasOwner
<1>7. ASSUME NEW t \in Threads, SemaphoreGive(t) PROVE LockInv'
  BY <1>7 DEF SemaphoreGive
<1>8. ASSUME NEW t \in Threads, CompareOwner(t) PROVE LockInv'
  BY <1>8 DEF CompareOwner
<1>9. CASE UNCHANGED vars
  BY <1>9 DEF vars
<1>10. QED
  BY <1>1, <1>2, <1>3, <1>4, <1>5, <1>6, <1>7, <1>8, <1>9 DEF Next, Step

(* The owner fields track the mutex in every reachable state.              *)
THEOREM LockInvariant == Spec => []LockInv
<1>1. Init => LockInv
  BY NoThreadIsNone
  DEF Init, LockInv, TypeOK, OwnerTracking, PCs, InCritical, Published, Holds
<1>2. QED
  BY <1>1, LockInvStep, PTL DEF Spec

(* Two tasks are never both between take and give.                         *)
THEOREM Exclusion == Spec => []MutualExclusion
<1>1. LockInv => MutualExclusion
  BY DEF LockInv, OwnerTracking, MutualExclusion, Holds
<1>2. QED
  BY <1>1, LockInvariant, PTL

(* The guard before storage I/O is exact for any number of tasks.          *)
THEOREM HeldAnswerIsExact == Spec => []IsHeldIsExact
<1>1. LockInv => IsHeldIsExact
  BY DEF LockInv, OwnerTracking, IsHeldIsExact, Holds, InCritical, Published
<1>2. QED
  BY <1>1, LockInvariant, PTL
==============================================================================
