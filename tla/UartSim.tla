------------------------------- MODULE UartSim -------------------------------
(***************************************************************************)
(* drivers/uart_sim.c: the listener task.  It accepts one connection at a  *)
(* time, receives into one static buffer until the host shuts its side     *)
(* down, the buffer is full or the connection breaks, takes the first line *)
(* for a command, carries it out, answers and closes.                      *)
(*                                                                         *)
(* What a host sends is a sequence of units: the words of the command line *)
(* ("AT", "+GET", "+SET", ...), its newline, and the tokens of a JSON      *)
(* document (its braces "begin" and "end", one unit per record).  The      *)
(* network cuts the sequence between units wherever it likes.  What an     *)
(* answer says of the configuration comes from the module that composes    *)
(* this one with it.                                                       *)
(***************************************************************************)
EXTENDS Integers, Sequences, FiniteSets, SequencesExt, Functions

CONSTANTS
    Streams,  \* what hosts send
    RxCap,    \* units that fit s_rx: UART_SIM_RX_BUF_BYTES - 1 bytes
    HostCost  \* what a connection takes from the bound

VARIABLES
    rx,     \* s_rx; never cleared
    uart,   \* the listener task: where it is, off, and the reply it sends
    host,   \* the connected host: what it sends, whether it is there, what it read
    inputs  \* what is left of the bound on connections

vars == <<rx, uart, host, inputs>>

Silence == [kind |-> "none"]
Answer(k) == [kind |-> k]

Listening == [pc |-> "accept", off |-> 0, reply |-> Silence]
NoHost == [stream |-> <<>>, there |-> FALSE, read |-> Silence]

Init ==
    /\ rx = [i \in 1 .. RxCap |-> "nul"]
    /\ uart = Listening
    /\ host = NoHost

------------------------------------------------------------------------------
(* A frame and its parts.                                                  *)

Newline(bytes) == SelectInSeq(bytes, LAMBDA u : u = "nl")

\* uart_sim_extract_cmd: the command is the first line, the payload the rest;
\* a frame without a newline is all command.
CommandLine(bytes) ==
    IF Newline(bytes) = 0 THEN bytes ELSE SubSeq(bytes, 1, Newline(bytes) - 1)
PayloadOf(bytes) ==
    IF Newline(bytes) = 0 THEN <<>> ELSE SubSeq(bytes, Newline(bytes) + 1, Len(bytes))

Command(bytes) ==
    CASE CommandLine(bytes) = <<"AT", "+GET">> -> "GET"
      [] CommandLine(bytes) = <<"AT", "+SET">> -> "SET"
      [] CommandLine(bytes) = <<"AT">> -> "AT"
      [] OTHER -> "unknown"

\* What has been received of the current frame.
WholeBuffer == rx
Received == SubSeq(rx, 1, uart.off)

\* cJSON reads one value and does not look behind it, so the document ends at
\* the first closing brace.
Closing(bytes) == SelectInSeq(bytes, LAMBDA u : u = "end")
WellFormed(bytes) ==
    /\ bytes # <<>>
    /\ bytes[1] = "begin"
    /\ Closing(bytes) > 0
    /\ \A i \in 2 .. Closing(bytes) - 1 : bytes[i] # "begin"
RecordsOf(bytes) == SubSeq(bytes, 2, Closing(bytes) - 1)

------------------------------------------------------------------------------
(* uart_sim_task.                                                          *)

Accept(stream) ==
    /\ uart.pc = "accept"
    /\ inputs >= HostCost
    /\ inputs' = inputs - HostCost
    /\ host' = [stream |-> stream, there |-> TRUE, read |-> Silence]
    /\ uart' = [uart EXCEPT !.pc = "recv", !.off = 0]
    /\ UNCHANGED rx

\* recv returns k units; a full buffer ends the frame.
RecvPastEnd(k) ==
    /\ uart.pc = "recv"
    /\ host.there
    /\ uart.off + k <= Len(host.stream)
    /\ rx' = [i \in DOMAIN rx |-> IF i \in uart.off + 1 .. uart.off + k
                                  THEN host.stream[i] ELSE rx[i]]
    /\ uart' = [uart EXCEPT !.off = @ + k]
    /\ UNCHANGED <<host, inputs>>
RecvOnce(k) ==
    /\ uart.pc = "recv"
    /\ host.there
    /\ uart.off + k <= Min({RxCap, Len(host.stream)})
    /\ rx' = [i \in DOMAIN rx |-> IF i \in uart.off + 1 .. uart.off + k
                                  THEN host.stream[i] ELSE rx[i]]
    /\ uart' = [uart EXCEPT !.off = @ + k, !.pc = "dispatch"]
    /\ UNCHANGED <<host, inputs>>
Recv(k) ==
    /\ uart.pc = "recv"
    /\ host.there
    /\ uart.off + k <= Min({RxCap, Len(host.stream)})
    /\ rx' = [i \in DOMAIN rx |-> IF i \in uart.off + 1 .. uart.off + k
                                  THEN host.stream[i] ELSE rx[i]]
    /\ uart' = [uart EXCEPT !.off = @ + k,
                            !.pc = IF uart.off + k >= RxCap THEN "dispatch" ELSE "recv"]
    /\ UNCHANGED <<host, inputs>>

\* An empty frame is closed without an answer.
FrameEnds == uart' = [uart EXCEPT !.pc = IF uart.off = 0 THEN "close" ELSE "dispatch"]

\* recv returns 0: the host has sent everything and shut its side down.
EndOfFrame ==
    /\ uart.pc = "recv"
    /\ host.there
    /\ uart.off = Len(host.stream)
    /\ FrameEnds
    /\ UNCHANGED <<rx, host, inputs>>

\* recv fails: the host is gone.  What has arrived is taken for the frame.
RecvFails ==
    /\ uart.pc = "recv"
    /\ host.there
    /\ host' = [host EXCEPT !.there = FALSE]
    /\ FrameEnds
    /\ UNCHANGED <<rx, inputs>>

Reply(answer) == uart' = [uart EXCEPT !.pc = "reply", !.reply = answer]

\* AT, an unknown command, AT+SET_CONFIG without a payload or with one that
\* does not parse are answered at once; the others call config_json.c.
Dispatch ==
    /\ uart.pc = "dispatch"
    /\ LET payload == PayloadOf(Received) IN
       CASE Command(Received) = "AT" -> Reply(Answer("OK"))
         [] Command(Received) = "GET" -> uart' = [uart EXCEPT !.pc = "export"]
         [] Command(Received) = "unknown" -> Reply(Answer("unknown command"))
         [] OTHER ->
            IF payload = <<>> THEN Reply(Answer("missing payload"))
            ELSE IF ~WellFormed(payload) THEN Reply(Answer("import failed"))
            ELSE uart' = [uart EXCEPT !.pc = "import"]
    /\ UNCHANGED <<rx, host, inputs>>

\* config_import_json or config_export_json has returned.
ImportReturns(answer) ==
    /\ uart.pc = "import"
    /\ Reply(answer)
    /\ UNCHANGED <<rx, host, inputs>>
ExportReturns(answer) ==
    /\ uart.pc = "export"
    /\ Reply(answer)
    /\ UNCHANGED <<rx, host, inputs>>

\* uart_sim_send_all: the host reads the answer, or goes away before its end.
SendReply ==
    /\ uart.pc = "reply"
    /\ \/ host.there /\ host' = [host EXCEPT !.read = uart.reply]
       \/ host' = [host EXCEPT !.there = FALSE]
    /\ uart' = [uart EXCEPT !.pc = "close"]
    /\ UNCHANGED <<rx, inputs>>

Close ==
    /\ uart.pc = "close"
    /\ uart' = Listening
    /\ host' = NoHost
    /\ UNCHANGED <<rx, inputs>>

Receiving == EndOfFrame \/ RecvFails \/ \E k \in 1 .. Len(host.stream) : Recv(k)

TypeOK ==
    /\ DOMAIN rx = 1 .. RxCap
    /\ uart.pc \in {"accept", "recv", "dispatch", "export", "import", "reply", "close"}
    /\ uart.off \in 0 .. Min({RxCap, Len(host.stream)})
    /\ uart.pc \in {"recv", "dispatch", "export", "import"} => uart.reply = Silence
    /\ inputs \in Nat
==============================================================================
