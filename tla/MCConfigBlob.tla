----------------------------- MODULE MCConfigBlob -----------------------------
(* Firmware lines for ConfigBlob.  Today's layout takes 1697 bytes: 816 for *)
(* the digital channels, 864 for the other five channel types and 17 for    *)
(* the system record.                                                       *)
EXTENDS ConfigBlob

MCTags == <<"digital", "other", "pulse", "motor", "system">>

\* Versions that only add record types, up to the last byte of the slot.
TodayLayout == [digital |-> 816, other |-> 864, system |-> 17]
LineLayouts == [today |-> TodayLayout,
                next  |-> [digital |-> 816, other |-> 864, pulse |-> 200, system |-> 17],
                last  |-> [digital |-> 816, other |-> 864, pulse |-> 200,
                           motor |-> 131, system |-> 17]]

\* A later version that gave up the digital channels for two new types.
VariantLayouts == [today   |-> TodayLayout,
                   variant |-> [other |-> 864, pulse |-> 384, motor |-> 384, system |-> 17]]

\* A later version that added a 2-byte field to each of the 24 other channels.
GrownLayouts == [today |-> TodayLayout,
                 grown |-> [digital |-> 816, other |-> 912, system |-> 17]]

\* The encoding order is the same in all of them.
InOrder(layouts) ==
    [f \in DOMAIN layouts |-> SelectSeq(MCTags, LAMBDA t : t \in DOMAIN layouts[f])]
LineOrder == InOrder(LineLayouts)
VariantOrder == InOrder(VariantLayouts)
GrownOrder == InOrder(GrownLayouts)
==============================================================================
