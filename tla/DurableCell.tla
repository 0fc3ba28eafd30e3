----------------------------- MODULE DurableCell -----------------------------
(***************************************************************************)
(* What the slot layer promises to the configuration manager: one durable  *)
(* cell that a save replaces as a whole.  A save that is acknowledged is   *)
(* in the cell; a save that fails, or that a power cut interrupts, leaves  *)
(* either the old or the new value there and nothing else; a boot reports  *)
(* exactly what the cell holds.  SlotStore implements this specification.  *)
(***************************************************************************)
CONSTANTS Payload,  \* the blobs a caller may save
          NoPayload \* the cell before the first save, not in Payload

VARIABLES value,    \* what a boot would find
          inflight, \* the blob being saved, NoPayload when no save is running
          powered,  \* is the device up?
          seen,     \* the blob the last call handed out or acknowledged
          reply     \* the status the last call returned

cellVars == <<value, inflight, powered, seen, reply>>

Replies == {"NONE", "OK", "ERR_NO_VALID", "ERR_TOO_LARGE", "ERR_STORAGE", "ERR_BUF"}

Init ==
    /\ value = NoPayload
    /\ inflight = NoPayload
    /\ powered = FALSE
    /\ seen = NoPayload
    /\ reply = "NONE"

Load ==
    /\ ~powered
    /\ powered' = TRUE
    /\ seen' = value
    /\ reply' = IF value = NoPayload THEN "ERR_NO_VALID" ELSE "OK"
    /\ UNCHANGED <<value, inflight>>

BeginSave(p) ==
    /\ powered
    /\ inflight = NoPayload
    /\ inflight' = p
    /\ UNCHANGED <<value, powered, seen, reply>>

\* A save the store turns away before it touches anything.
RefuseSave ==
    /\ powered
    /\ inflight = NoPayload
    /\ reply' \in {"ERR_BUF", "ERR_TOO_LARGE"}
    /\ UNCHANGED <<value, inflight, powered, seen>>

AckSave ==
    /\ inflight # NoPayload
    /\ value' = inflight
    /\ seen' = inflight
    /\ inflight' = NoPayload
    /\ reply' = "OK"
    /\ UNCHANGED powered

FailSave ==
    /\ inflight # NoPayload
    /\ value' \in {value, inflight}
    /\ inflight' = NoPayload
    /\ reply' = "ERR_STORAGE"
    /\ UNCHANGED <<powered, seen>>

PowerCut ==
    /\ powered
    /\ value' \in IF inflight = NoPayload THEN {value} ELSE {value, inflight}
    /\ inflight' = NoPayload
    /\ powered' = FALSE
    /\ seen' = NoPayload
    /\ reply' = "NONE"

Next ==
    \/ Load
    \/ \E p \in Payload : BeginSave(p)
    \/ RefuseSave
    \/ AckSave
    \/ FailSave
    \/ PowerCut

Spec == Init /\ [][Next]_cellVars
==============================================================================
