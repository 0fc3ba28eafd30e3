------------------------------ MODULE ConfigLock ------------------------------
(***************************************************************************)
(* application/config_lock_freertos.c: the cache mutex and the two static  *)
(* variables that record its owner.  config_save asserts with              *)
(* config_lock_is_held_by_current_thread that it does not hold the mutex   *)
(* across storage I/O; the answer is computed from unprotected reads while *)
(* other tasks take and give, so every C statement is a step of its own.   *)
(* The FreeRTOS mutex itself is the external part.                         *)
(***************************************************************************)
CONSTANTS Threads, \* the tasks
          NoThread \* NULL, no task's handle

ASSUME NoThreadIsNone == NoThread \notin Threads

VARIABLES
    mutex,    \* the FreeRTOS mutex: its holder, or NoThread
    owner,    \* s_owner
    hasOwner, \* s_has_owner
    pc,       \* pc[t]: the statement task t executes next
    ret       \* ret[t]: what is_held last told t about where it still is

vars == <<mutex, owner, hasOwner, pc, ret>>

PCs == {"idle",    \* outside, holding nothing
        "wait",    \* blocked in xSemaphoreTake
        "own",     \* holds the mutex, s_owner not written yet
        "flag",    \* s_has_owner not written yet
        "locked",  \* config_lock_take has returned
        "release", \* config_lock_give: s_has_owner cleared, mutex still held
        "compareIdle", "compareLocked"} \* is_held: read s_has_owner, not s_owner

TypeOK ==
    /\ mutex \in Threads \cup {NoThread}
    /\ owner \in Threads \cup {NoThread}
    /\ hasOwner \in BOOLEAN
    /\ pc \in [Threads -> PCs]
    /\ ret \in [Threads -> {"none", "held", "free"}]

Init ==
    /\ mutex = NoThread
    /\ owner = NoThread
    /\ hasOwner = FALSE
    /\ pc = [t \in Threads |-> "idle"]
    /\ ret = [t \in Threads |-> "none"]

Goto(t, from, to) == pc[t] = from /\ pc' = [pc EXCEPT ![t] = to]
Forget(t) == ret' = [ret EXCEPT ![t] = "none"]
Holds(t) == mutex = t

------------------------------------------------------------------------------
(* config_lock_take                                                        *)

CallTake(t) ==
    /\ Goto(t, "idle", "wait")
    /\ Forget(t)
    /\ UNCHANGED <<mutex, owner, hasOwner>>

SemaphoreTakeUnchecked(t) ==
    /\ Goto(t, "wait", "own")
    /\ mutex' = t
    /\ UNCHANGED <<owner, hasOwner, ret>>
SemaphoreTake(t) ==
    /\ Goto(t, "wait", "own")
    /\ mutex = NoThread
    /\ mutex' = t
    /\ UNCHANGED <<owner, hasOwner, ret>>

SetOwner(t) ==
    /\ Goto(t, "own", "flag")
    /\ owner' = t
    /\ UNCHANGED <<mutex, hasOwner, ret>>

SetHasOwner(t) ==
    /\ Goto(t, "flag", "locked")
    /\ hasOwner' = TRUE
    /\ UNCHANGED <<mutex, owner, ret>>

(* config_lock_give                                                        *)

FlagLeftSet(t) ==
    /\ Goto(t, "locked", "release")
    /\ Forget(t)
    /\ UNCHANGED <<mutex, owner, hasOwner>>
ClearHasOwner(t) ==
    /\ Goto(t, "locked", "release")
    /\ hasOwner' = FALSE
    /\ Forget(t)
    /\ UNCHANGED <<mutex, owner>>

SemaphoreNotGiven(t) ==
    /\ Goto(t, "release", "locked")
    /\ UNCHANGED <<mutex, owner, hasOwner, ret>>
SemaphoreGive(t) ==
    /\ Goto(t, "release", "idle")
    /\ mutex' = NoThread
    /\ UNCHANGED <<owner, hasOwner, ret>>

(* config_lock_is_held_by_current_thread, called with and without the lock *)

AskHeld(t) ==
    /\ \/ /\ ~hasOwner
          /\ pc[t] \in {"idle", "locked"}
          /\ ret' = [ret EXCEPT ![t] = "free"]
          /\ UNCHANGED pc
       \/ /\ hasOwner
          /\ Goto(t, "idle", "compareIdle") \/ Goto(t, "locked", "compareLocked")
          /\ UNCHANGED ret
    /\ UNCHANGED <<mutex, owner, hasOwner>>

OwnerNotCompared(t) ==
    /\ Goto(t, "compareIdle", "idle") \/ Goto(t, "compareLocked", "locked")
    /\ ret' = [ret EXCEPT ![t] = "held"]
    /\ UNCHANGED <<mutex, owner, hasOwner>>
CompareOwner(t) ==
    /\ Goto(t, "compareIdle", "idle") \/ Goto(t, "compareLocked", "locked")
    /\ ret' = [ret EXCEPT ![t] = IF owner = t THEN "held" ELSE "free"]
    /\ UNCHANGED <<mutex, owner, hasOwner>>

Step(t) ==
    \/ SemaphoreTake(t)
    \/ SetOwner(t)
    \/ SetHasOwner(t)
    \/ ClearHasOwner(t)
    \/ SemaphoreGive(t)
    \/ CompareOwner(t)

Next == \E t \in Threads : CallTake(t) \/ AskHeld(t) \/ Step(t)

Spec == Init /\ [][Next]_vars

(* Every task keeps running and leaves its critical section, a copy of a   *)
(* few bytes, in the end; FreeRTOS wakes the tasks blocked on a mutex in   *)
(* the order of their priority and arrival, and all tasks run at one       *)
(* priority, so none waits behind others for ever.                         *)
FairSpec ==
    /\ Spec
    /\ \A t \in Threads :
          /\ SF_vars(SemaphoreTake(t))
          /\ SF_vars(ClearHasOwner(t))
          /\ WF_vars(SetOwner(t) \/ SetHasOwner(t) \/ SemaphoreGive(t) \/ CompareOwner(t))

------------------------------------------------------------------------------
(* Properties.                                                             *)

InCritical(t) == pc[t] \in {"own", "flag", "locked", "release", "compareLocked"}
Published(t) == pc[t] \in {"locked", "compareLocked"}

(* At most one task is between xSemaphoreTake and xSemaphoreGive, so the   *)
(* plain copies of the cache under the lock never overlap.                 *)
MutualExclusion == \A t, u \in Threads : InCritical(t) /\ InCritical(u) => t = u

(* is_held answers exactly, under any contention: the assert of            *)
(* config_save neither fires for a task that released the mutex nor stays  *)
(* silent for one that kept it ("accurate even under heavy contention").   *)
IsHeldIsExact ==
    \A t \in Threads : /\ ret[t] = "held" => Holds(t)
                       /\ ret[t] = "free" => ~Holds(t)

(* Why: the owner fields are only trusted while the flag is up, and a task *)
(* outside can find the flag up but never its own handle beside it.        *)
OwnerTracking ==
    /\ \A t \in Threads : InCritical(t) <=> Holds(t)
    /\ hasOwner <=> \E t \in Threads : Published(t)
    /\ \A t \in Threads : Published(t) \/ pc[t] = "flag" => owner = t
    /\ \A t \in Threads : pc[t] = "compareIdle" => owner # t
    /\ \A t \in Threads : ret[t] = "free" => pc[t] \in {"idle", "compareIdle"}
    /\ \A t \in Threads : ret[t] = "held" => Published(t)

LockInv == TypeOK /\ OwnerTracking

(* A task that asks for the mutex gets it.                                 *)
TakeReturns == \A t \in Threads : pc[t] = "wait" ~> pc[t] = "locked"
==============================================================================
