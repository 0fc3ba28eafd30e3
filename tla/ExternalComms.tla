---------------------------- MODULE ExternalComms ----------------------------
(***************************************************************************)
(* external_comms.c: producers hand a JSON document to the comms task by   *)
(* its address.  The queue holds {pointer, length} records; the bytes stay *)
(* in the producer's buffer until the task has parsed them.                *)
(*                                                                         *)
(* A producer is what external_comms.h asks for: it owns a ring of static  *)
(* buffers, fills the next one, submits it, and moves on when the queue    *)
(* has taken it.  The application task of main.c, whose only buffer is a   *)
(* literal, is a producer that submits once.  A pointer is kept as its     *)
(* owner and the number of the submission; the buffer it points to is that *)
(* number modulo the size of the ring.                                     *)
(***************************************************************************)
EXTENDS Integers, Sequences

CONSTANTS
    Producer,    \* tasks that submit documents
    Document,    \* what they submit, well-formed or not
    NoDocument,
    QueueDepth,  \* EXT_QUEUE_DEPTH
    RingSize     \* buffers of a producer

\* Every waiting document, the one in the task's hands and the one being
\* written need a buffer of their own.  (Assumed where the module is used.)
ExternalCommsConstants ==
    /\ NoDocument \notin Document
    /\ QueueDepth \in Nat \ {0}
    /\ RingSize \in Nat
    /\ RingSize >= QueueDepth + 2

VARIABLES
    buffer,  \* buffer[p][k]: the bytes in buffer k of producer p
    filled,  \* filled[p]: has p written its next document?
    count,   \* count[p]: documents of p that were accepted
    queue,   \* s_queue
    ext,     \* the comms task: where it is, its msg, the document it parsed
    inputs   \* what is left of the bound on submissions

vars == <<buffer, filled, count, queue, ext, inputs>>

Ring == 0 .. RingSize - 1
Pointer == [owner : Producer, nr : Nat]
Bytes(msg) == buffer[msg.owner][msg.nr % RingSize]

NoPointer == [owner |-> "none", nr |-> 0]
Waiting == [pc |-> "receive", msg |-> NoPointer, doc |-> NoDocument]

TypeOK ==
    /\ buffer \in [Producer -> [Ring -> Document \cup {NoDocument}]]
    /\ filled \in [Producer -> BOOLEAN]
    /\ count \in [Producer -> Nat]
    /\ queue \in Seq(Pointer)
    /\ Len(queue) <= QueueDepth
    /\ ext \in [pc : {"receive", "held", "import"},
                msg : Pointer \cup {NoPointer}, doc : Document \cup {NoDocument}]
    /\ ext.pc = "held" => ext.msg \in Pointer
    /\ IF ext.pc = "import" THEN ext.doc \in Document ELSE ext.doc = NoDocument
    /\ inputs \in Nat

\* external_comms_init, before the scheduler starts.
Init ==
    /\ buffer = [p \in Producer |-> [k \in Ring |-> NoDocument]]
    /\ filled = [p \in Producer |-> FALSE]
    /\ count = [p \in Producer |-> 0]
    /\ queue = <<>>
    /\ ext = Waiting

------------------------------------------------------------------------------
(* Producers.                                                              *)

\* The next buffer of the ring is overwritten, whatever it held.
Fill(p, d) ==
    /\ ~filled[p]
    /\ inputs > 0
    /\ inputs' = inputs - 1
    /\ buffer' = [buffer EXCEPT ![p][count[p] % RingSize] = d]
    /\ filled' = [filled EXCEPT ![p] = TRUE]
    /\ UNCHANGED <<count, queue, ext>>

\* external_comms_submit: a queue that stays full for 100 ms refuses the
\* document, and its buffer is the next one to be filled.
SubmitAlwaysAdvances(p) ==
    /\ filled[p]
    /\ filled' = [filled EXCEPT ![p] = FALSE]
    /\ count' = [count EXCEPT ![p] = @ + 1]
    /\ queue' = IF Len(queue) < QueueDepth
                THEN Append(queue, [owner |-> p, nr |-> count[p]]) ELSE queue
    /\ UNCHANGED <<buffer, ext, inputs>>
Submit(p) ==
    /\ filled[p]
    /\ filled' = [filled EXCEPT ![p] = FALSE]
    /\ \/ /\ Len(queue) < QueueDepth
          /\ queue' = Append(queue, [owner |-> p, nr |-> count[p]])
          /\ count' = [count EXCEPT ![p] = @ + 1]
       \/ /\ Len(queue) = QueueDepth
          /\ UNCHANGED <<queue, count>>
    /\ UNCHANGED <<buffer, ext, inputs>>

------------------------------------------------------------------------------
(* ext_task.                                                               *)

\* xQueueReceive copies the pointer, not the document.
Receive ==
    /\ ext.pc = "receive"
    /\ queue # <<>>
    /\ ext' = [ext EXCEPT !.pc = "held", !.msg = Head(queue)]
    /\ queue' = Tail(queue)
    /\ UNCHANGED <<buffer, filled, count, inputs>>

\* config_import_json starts by parsing the bytes; from here on the task works
\* on the tree the parser built.
Parse ==
    /\ ext.pc = "held"
    /\ ext' = [ext EXCEPT !.pc = "import", !.msg = NoPointer, !.doc = Bytes(ext.msg)]
    /\ UNCHANGED <<buffer, filled, count, queue, inputs>>

\* The import and the commit after it, which the composition has in detail.
Finish ==
    /\ ext.pc = "import"
    /\ ext' = Waiting
    /\ UNCHANGED <<buffer, filled, count, queue, inputs>>

Next ==
    \/ \E p \in Producer : Submit(p) \/ \E d \in Document : Fill(p, d)
    \/ Receive
    \/ Parse
    \/ Finish

Spec == Init /\ inputs \in Nat /\ [][Next]_vars

------------------------------------------------------------------------------
(* Properties.                                                             *)

(* How old a pointer can be: producer p has had at most as many documents  *)
(* accepted since message i of the queue as there are messages from i on.  *)
PointersAreRecent ==
    /\ \A i \in DOMAIN queue :
          LET p == queue[i].owner
          IN queue[i].nr < count[p] /\ count[p] - queue[i].nr <= Len(queue) - i + 1
    /\ ext.pc = "held" =>
          LET p == ext.msg.owner
          IN ext.msg.nr < count[p] /\ count[p] - ext.msg.nr <= Len(queue) + 1

\* A buffer that a pointer still points to holds a document, and so does one
\* that was filled.
PointersAreFilled ==
    /\ \A i \in DOMAIN queue : Bytes(queue[i]) \in Document
    /\ ext.pc = "held" => Bytes(ext.msg) \in Document
    /\ \A p \in Producer : filled[p] => buffer[p][count[p] % RingSize] \in Document

CommsInv == TypeOK /\ PointersAreRecent /\ PointersAreFilled

(* "The JSON buffer must remain valid until the consumer task has          *)
(* processed the message.  Long-lived producers (CAN/UART RX rings, static *)
(* demo literals) satisfy this trivially" (external_comms.h): with a ring  *)
(* of RingSize buffers the queue of pointers is a queue of documents - what*)
(* is imported is what was submitted, in order, each document once.        *)
Documents == INSTANCE DocumentQueue WITH
    Capacity <- QueueDepth,
    pending <- [i \in DOMAIN queue |-> Bytes(queue[i])],
    taken <- IF ext.pc = "held" THEN Bytes(ext.msg) ELSE ext.doc
ImplementsQueue == Documents!Spec
==============================================================================
