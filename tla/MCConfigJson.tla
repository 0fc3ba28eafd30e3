----------------------------- MODULE MCConfigJson -----------------------------
(* Documents and enums for ConfigJson. *)
EXTENDS ConfigJson

Integral == {[channel |-> Number(0), level |-> Number(2)],
             [channel |-> Number(2), level |-> Number(2), unit |-> String("FAHRENHEIT")],
             [channel |-> Number(2), unit |-> Number(0)],
             [channel |-> Number(0), unit |-> String("BAD")],
             [channel |-> Number(2), unit |-> Number(4)],
             [channel |-> Number(2), level |-> Number(4)],
             [channel |-> Number(0), level |-> Number(6), unit |-> Number(2)],
             [channel |-> Number(2), level |-> Null, unit |-> Number(-2)],
             [channel |-> Number(4), level |-> Number(0)],
             [channel |-> Number(-2)],
             [channel |-> String("0")],
             [level |-> Number(0)]}
Fractions == {[channel |-> Number(1), level |-> Number(1)],
              [channel |-> Number(3), unit |-> Number(-1)]}

ItemsOf(objects) == {Object(o) : o \in objects} \cup {Null, Number(0)}
ArraysOf(items) == {Array(s) : s \in UNION {[1 .. n -> items] : n \in 0 .. 2}} \cup {Null, Number(2)}
Lone(items) == {<<Entry("di", a)>> : a \in ArraysOf(items)}
System == {Entry("system", v) : v \in {Number(0), Object([level |-> Number(0), unit |-> Number(2)]),
                                       Object([level |-> Number(4)])}}
Mixed == {<<s, Entry("note", Null),
            Entry("di", Array(<<Object([channel |-> Number(2), unit |-> Number(2)])>>))>> : s \in System}

\* An array that occurs twice, the second time with the last record of the first.
Twice == {<<Entry("di", Array(<<Object(a), Object(b)>>)), Entry("di", Array(<<Object(b)>>))>> :
             a, b \in Integral}
MCDocuments == Lone(ItemsOf(Integral)) \cup Mixed \cup Twice
MCTwoArrays == {<<a, b>> : a, b \in {Entry("di", Array(<<Object(o)>>)) : o \in Integral}}
MCFractions == Lone(ItemsOf(Fractions))
\* tc_unit_to_str knows no name for the last of the thermocouple units.
MCUnits == <<"CELSIUS", "FAHRENHEIT", "none">>

\* What CleanMeansApplied of ConfigJsonProofs asks of the documents.
ASSUME NothingIsHidden ==
    \A root \in MCDocuments \cup MCFractions : Objects(root) \subseteq RecordsOf(FirstItems(root))
==============================================================================
