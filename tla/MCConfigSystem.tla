---------------------------- MODULE MCConfigSystem ----------------------------
(***************************************************************************)
(* Small instances of ConfigSystem: two records of two fields, documents   *)
(* of one and two records, one of them with a value the setter refuses.    *)
(***************************************************************************)
EXTENDS ConfigSystem

MCLegal == {0, 1}
MCIllegal == {9}

Set(r, f, v) == [rec |-> r, sets |-> [x \in {f} |-> v]]

\* Two documents of two records; the first record of the second is refused.
MCMessages ==
    {<<Set("sys", "id", 1), Set("di", "id", 1)>>,
     <<Set("sys", "id", 9), Set("di", "rate", 1)>>}

\* Documents that touch the system record only.
MCOneRecord == {<<Set("sys", "id", 1)>>, <<Set("sys", "rate", 1)>>}

\* Field requests: one accepted and one refused; none on the system record.
MCFields == {Set("sys", "rate", 1), Set("sys", "rate", 9)}
MCFieldsElsewhere == {Set("di", "rate", 1), Set("di", "id", 1)}
==============================================================================
