-------------------------------- MODULE Comms --------------------------------
(***************************************************************************)
(* The two tasks that speak to the operator, together: uart_sim.c and      *)
(* external_comms.c over config_json.c and the cache.  Both import record  *)
(* by record and then queue a commit; the UART task also exports, record   *)
(* by record, while the other one may be importing.  The mutex is held for *)
(* a record at a time (ConfigLock), so a record is one step.               *)
(*                                                                         *)
(* A record has one value here: a patch replaces it, and what the getter   *)
(* before the setter returns makes no difference (ConfigSystem has records *)
(* of several fields).  The EEPROM Manager is the environment: it takes a  *)
(* commit or has no room for it (ConfigSystem has its queue).              *)
(***************************************************************************)
EXTENDS Integers, Sequences, FiniteSets

CONSTANTS
    Record,      \* the records of the cache, in the order of the export
    Legal,       \* values the setter takes
    Factory,     \* the value of every record after boot
    Patches,     \* unit of a document -> [rec, val]
    Streams,     \* what hosts send to the UART
    RxCap,       \* units that fit its buffer
    Producer,    \* tasks that submit documents to the comms task
    Document,    \* what they submit
    NoDocument,
    QueueDepth,  \* EXT_QUEUE_DEPTH
    RingSize,    \* buffers of a producer
    MaxInputs,   \* bound: submissions and connections together
    HostCost     \* how many submissions a connection counts for

VARIABLES
    cache,       \* s_cache
    import,      \* import[t]: the import of task t, record by record
    export,      \* the export of the UART task
    tx,          \* s_tx; never cleared
    unannounced, \* history: imported records that no accepted commit has followed
    refused,     \* history: the last commit was refused, and its task says so
    edited,      \* history: records set since the export began
    rx, uart, host,                    \* see UartSim
    buffer, filled, count, queue, ext, \* see ExternalComms
    inputs       \* what is left of the bound

own == <<cache, import, export, tx, unannounced, refused, edited>>
line == <<rx, uart, host>>
post == <<buffer, filled, count, queue, ext>>
vars == <<own, line, post, inputs>>

Line == INSTANCE UartSim
Post == INSTANCE ExternalComms

Task == {"uart", "ext"}
Records == {Record[i] : i \in DOMAIN Record}

ASSUME CommsConstants ==
    /\ Post!ExternalCommsConstants
    /\ Record \in Seq(STRING)
    /\ Streams \subseteq Seq(STRING)
    /\ RxCap \in Nat
    /\ RxCap > 2    \* the longest command is two units
    /\ Factory \in Legal
    /\ MaxInputs \in Nat
    /\ HostCost \in Nat \ {0}

\* Every unit between the braces of a document stands for a patch.
ASSUME CommsDocuments ==
    /\ Document \subseteq Seq(STRING)
    /\ \A u \in DOMAIN Patches : Patches[u].rec \in Records
    /\ \A doc \in Document \cup {Line!PayloadOf(stream) : stream \in Streams} :
          Line!WellFormed(doc) => \A i \in DOMAIN Line!RecordsOf(doc) :
                                     Line!RecordsOf(doc)[i] \in DOMAIN Patches

NoImport == [active |-> FALSE, todo |-> <<>>, accepted |-> 0, rejected |-> 0]
Begin(doc) == [active |-> TRUE, todo |-> Line!RecordsOf(doc), accepted |-> 0, rejected |-> 0]
BlankPage == [r \in Records |-> "blank"]

Init ==
    /\ cache = [r \in Records |-> Factory]
    /\ import = [t \in Task |-> NoImport]
    /\ export = [todo |-> <<>>, doc |-> BlankPage]
    /\ tx = BlankPage
    /\ unannounced = FALSE
    /\ refused = FALSE
    /\ edited = {}
    /\ Line!Init
    /\ Post!Init
    /\ inputs = MaxInputs

------------------------------------------------------------------------------
(* config_import_json, in either task.                                     *)

\* One record of the document; one that the setter refuses is counted.
ImportRecord(t) ==
    /\ import[t].active
    /\ import[t].todo # <<>>
    /\ LET patch == Patches[Head(import[t].todo)]
           good == patch.val \in Legal
       IN /\ cache' = IF good THEN [cache EXCEPT ![patch.rec] = patch.val] ELSE cache
          /\ import' = [import EXCEPT ![t].todo = Tail(@),
                                      ![t].accepted = IF good THEN @ + 1 ELSE @,
                                      ![t].rejected = IF good THEN @ ELSE @ + 1]
          /\ unannounced' = (unannounced \/ good)
          /\ edited' = IF good /\ uart.pc = "export" THEN edited \cup {patch.rec} ELSE edited
    /\ UNCHANGED <<export, tx, refused, line, post, inputs>>

\* QueueConfigCommit, after every import that parsed, however many of its
\* records were refused.
CommitIfClean(t, queued) ==
    /\ import[t].active
    /\ import[t].todo = <<>>
    /\ import' = [import EXCEPT ![t] = NoImport]
    /\ refused' = (import[t].rejected = 0 /\ ~queued)
    /\ unannounced' = (unannounced /\ (import[t].rejected > 0 \/ ~queued))
    /\ UNCHANGED <<cache, export, tx, edited>>
Commit(t, queued) ==
    /\ import[t].active
    /\ import[t].todo = <<>>
    /\ import' = [import EXCEPT ![t] = NoImport]
    /\ refused' = ~queued
    /\ unannounced' = (unannounced /\ ~queued)
    /\ UNCHANGED <<cache, export, tx, edited>>

------------------------------------------------------------------------------
(* uart_sim.c                                                              *)

UartReceives ==
    /\ Line!Receiving
    /\ UNCHANGED <<own, post>>

UartDispatches ==
    /\ Line!Dispatch
    /\ import' = IF uart'.pc = "import"
                 THEN [import EXCEPT !["uart"] = Begin(Line!PayloadOf(Line!Received))]
                 ELSE import
    /\ export' = IF uart'.pc = "export" THEN [todo |-> Record, doc |-> BlankPage] ELSE export
    /\ edited' = {}
    /\ UNCHANGED <<cache, tx, unannounced, refused, post>>

\* uart_sim_handle_set, after the import: the answer says what the import
\* counted and whether the commit is queued.
UartCommits ==
    \E queued \in BOOLEAN :
        /\ Commit("uart", queued)
        /\ Line!ImportReturns([kind |-> "accepted",
                               accepted |-> import["uart"].accepted,
                               rejected |-> import["uart"].rejected,
                               persist |-> queued])
        /\ UNCHANGED post

\* config_export_json: a getter per record ...
ExportRecord ==
    /\ uart.pc = "export"
    /\ export.todo # <<>>
    /\ LET r == Head(export.todo)
       IN export' = [todo |-> Tail(export.todo), doc |-> [export.doc EXCEPT ![r] = cache[r]]]
    /\ UNCHANGED <<cache, import, tx, unannounced, refused, edited, line, post, inputs>>

\* ... and the text into s_tx after the last; or the heap is exhausted on the
\* way, and s_tx stays as it was.
ExportReturns(ok) ==
    /\ uart.pc = "export"
    /\ ok => export.todo = <<>>
    /\ tx' = IF ok THEN export.doc ELSE tx
    /\ export' = [todo |-> <<>>, doc |-> BlankPage]
    /\ UNCHANGED <<cache, import, unannounced, refused, edited>>

\* uart_sim_handle_get.
StatusIgnored ==
    \E ok \in BOOLEAN :
        /\ ExportReturns(ok)
        /\ Line!ExportReturns([kind |-> "document", doc |-> tx'])
        /\ UNCHANGED post
UartExports ==
    \E ok \in BOOLEAN :
        /\ ExportReturns(ok)
        /\ Line!ExportReturns(IF ok THEN [kind |-> "document", doc |-> tx']
                              ELSE Line!Answer("export failed"))
        /\ UNCHANGED post

UartAnswers ==
    /\ Line!SendReply \/ Line!Close
    /\ UNCHANGED <<own, post>>

UartTask ==
    \/ UartReceives
    \/ UartDispatches
    \/ ImportRecord("uart")
    \/ UartCommits
    \/ ExportRecord
    \/ UartExports
    \/ UartAnswers

------------------------------------------------------------------------------
(* external_comms.c                                                        *)

ExtReceives ==
    /\ Post!Receive
    /\ UNCHANGED <<own, line>>

ExtParses ==
    /\ Post!Parse
    /\ import' = IF Line!WellFormed(ext'.doc)
                 THEN [import EXCEPT !["ext"] = Begin(ext'.doc)] ELSE import
    /\ UNCHANGED <<cache, export, tx, unannounced, refused, edited, line>>

\* A document that did not parse is not followed by a commit.
ExtCommits ==
    /\ Post!Finish
    /\ \/ \E queued \in BOOLEAN : Commit("ext", queued)
       \/ ~import["ext"].active /\ UNCHANGED own
    /\ UNCHANGED line

ExtTask ==
    \/ ExtReceives
    \/ ExtParses
    \/ ImportRecord("ext")
    \/ ExtCommits

------------------------------------------------------------------------------
(* Hosts and producers.                                                    *)

HostConnects ==
    /\ \E stream \in Streams : Line!Accept(stream)
    /\ UNCHANGED <<own, post>>

ProducerActs ==
    /\ \E p \in Producer : Post!Submit(p) \/ \E d \in Document : Post!Fill(p, d)
    /\ UNCHANGED <<own, line>>

Next == UartTask \/ ExtTask \/ HostConnects \/ ProducerActs

Spec == Init /\ [][Next]_vars

(* The comms task keeps running (equal priorities, time slices).  Nothing  *)
(* is assumed of the listener: its recv has no timeout, and a host that    *)
(* neither sends, nor shuts its side down, nor breaks off holds it for     *)
(* ever.                                                                   *)
FairSpec == Spec /\ WF_vars(ExtTask)

------------------------------------------------------------------------------
(* Properties.                                                             *)

TypeOK ==
    /\ cache \in [Records -> Legal]
    /\ tx \in [Records -> Legal \cup {"blank"}]
    /\ edited \subseteq Records
    /\ \A t \in Task : import[t].accepted \in Nat /\ import[t].rejected \in Nat
    /\ import["uart"].active <=> uart.pc = "import"
    /\ import["ext"].active => ext.pc = "import"
    /\ Line!TypeOK
    /\ Post!CommsInv

(* What the UART task imports is a document its present host sent, whole:  *)
(* neither a full buffer nor a connection that breaks off makes it apply a *)
(* part, and nothing of an earlier frame that still stands in s_rx joins   *)
(* it.                                                                     *)
ImportedIsSent ==
    [][uart.pc = "dispatch" /\ uart'.pc = "import" =>
        LET sent == Line!PayloadOf(host.stream)
        IN /\ Line!Command(host.stream) = "SET"
           /\ Line!WellFormed(sent)
           /\ import'["uart"].todo = Line!RecordsOf(sent)]_vars

\* The records of a document that the setter refuses, by their places.
Refusals(units) == {i \in DOMAIN units : Patches[units[i]].val \notin Legal}

(* The answer a host reads fits what it sent, however the network cut it   *)
(* up and whatever the other task does: "OK accepted=... rejected=..."     *)
(* counts the records of its own document, a document is the answer to     *)
(* AT+GET_CONFIG alone, and only a frame that is longer than the buffer    *)
(* has a good document refused.                                            *)
Fits(stream, answer) ==
    LET payload == Line!PayloadOf(stream) IN
    CASE answer.kind \in {"document", "export failed"} -> Line!Command(stream) = "GET"
      [] answer.kind = "OK" -> Line!Command(stream) = "AT"
      [] answer.kind = "unknown command" -> Line!Command(stream) = "unknown"
      [] answer.kind = "accepted" ->
            /\ Line!Command(stream) = "SET"
            /\ Line!WellFormed(payload)
            /\ answer.rejected = Cardinality(Refusals(Line!RecordsOf(payload)))
            /\ answer.accepted + answer.rejected = Len(Line!RecordsOf(payload))
      [] OTHER ->
            /\ Line!Command(stream) = "SET"
            /\ Line!WellFormed(payload) => Len(stream) > RxCap
AnswersFit == host.read # Line!Silence => Fits(host.stream, host.read)

(* A document that AT+GET_CONFIG answers with shows the cache as it is now *)
(* in every record that no other task has set since the export began: it   *)
(* is never an older document left in s_tx, and no record in it is older   *)
(* than the request.                                                       *)
ExportIsRecent ==
    [][uart'.reply # uart.reply /\ uart'.reply.kind = "document" =>
        \A r \in Records \ edited : uart'.reply.doc[r] = cache[r]]_vars

(* "Callers can snapshot via export" (DESIGN.md): the document shows the   *)
(* cache of one moment.  It need not: the mutex is released between the    *)
(* records.                                                                *)
ExportIsSnapshot ==
    [][uart'.reply # uart.reply /\ uart'.reply.kind = "document" =>
        \/ edited = {}
        \/ uart'.reply.doc = cache]_vars

(* "Partial accepts (some records rejected) still count": a record that an *)
(* import has put into the cache is followed by a commit, unless the queue *)
(* of the EEPROM Manager refuses it and the operator is told.              *)
ChangesAreAnnounced ==
    unannounced => refused \/ \E t \in Task : import[t].active

(* The comms task is a queue of documents, and serves it: what was         *)
(* accepted is imported as submitted, in order, once, in the end; and a    *)
(* host that stalls in the middle of its frame, or a listener in the       *)
(* middle of an import or an export, does not keep it from that.           *)
DocumentsAreKept == Post!Documents!FairSpec
==============================================================================
