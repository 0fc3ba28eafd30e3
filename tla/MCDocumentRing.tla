---------------------------- MODULE MCDocumentRing ----------------------------
(* ExternalComms by itself, with a bound on the submissions: for rings that  *)
(* are smaller than Comms assumes.  "a 4-slot static ring sized >= ext-comms *)
(* queue depth" (ARCHITECTURE.md) is one of them.                            *)
EXTENDS ExternalComms

CONSTANT MaxInputs \* bound: documents written into a buffer

RingSpec == Init /\ inputs = MaxInputs /\ [][Next]_vars
===============================================================================
