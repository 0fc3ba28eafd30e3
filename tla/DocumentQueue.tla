---------------------------- MODULE DocumentQueue ----------------------------
(***************************************************************************)
(* What a producer of JSON documents is promised: a document that was      *)
(* accepted is imported as it was submitted, once, and in the order of     *)
(* submission.  ExternalComms queues pointers and is shown to implement    *)
(* this queue of documents.                                                *)
(***************************************************************************)
EXTENDS Naturals, Sequences

CONSTANTS
    Document,    \* what is submitted
    NoDocument,  \* not one of them: no document is being imported
    Capacity     \* documents that may wait

VARIABLES
    pending,  \* accepted, oldest first
    taken     \* the document being imported

vars == <<pending, taken>>

Init ==
    /\ pending = <<>>
    /\ taken = NoDocument

Post(d) ==
    /\ Len(pending) < Capacity
    /\ pending' = Append(pending, d)
    /\ UNCHANGED taken

Take ==
    /\ taken = NoDocument
    /\ pending # <<>>
    /\ taken' = Head(pending)
    /\ pending' = Tail(pending)

Finish ==
    /\ taken # NoDocument
    /\ taken' = NoDocument
    /\ UNCHANGED pending

Next == (\E d \in Document : Post(d)) \/ Take \/ Finish

Spec == Init /\ [][Next]_vars

\* Nothing that was accepted waits for ever.
FairSpec == Spec /\ WF_vars(Take) /\ WF_vars(Finish)
==============================================================================
