------------------------------- MODULE MCComms -------------------------------
(* Hosts' frames and producers' documents for Comms.                       *)
EXTENDS Comms

MCRecord == <<"system", "di">>
MCLegal == {"off", "on"}
MCPatches == [system1 |-> [rec |-> "system", val |-> "on"],
              di1 |-> [rec |-> "di", val |-> "on"],
              di0 |-> [rec |-> "di", val |-> "off"],
              di9 |-> [rec |-> "di", val |-> "bad"]]

Set(payload) == <<"AT", "+SET", "nl">> \o payload

\* Every command; a document of two records, one of them refused; one that is
\* cut off, which the bytes of the first would complete; one followed by
\* another; one that does not fit the buffer of seven units.
MCStreams ==
    {<<"AT", "nl">>, <<"AT", "+GET", "nl">>, <<"AT", "+SET">>, <<"+GET", "nl">>,
     Set(<<"begin", "di1", "di9", "end">>),
     Set(<<"begin", "di0">>),
     Set(<<"begin", "end", "begin", "di1">>),
     Set(<<"begin", "di1", "di1", "system1", "end">>)}

\* What producers submit: two records; one; something that does not parse.
MCDocuments == {<<"begin", "di1", "system1", "end">>, <<"begin", "di0">>}
==============================================================================
