--------------------------- MODULE MCInsyncAdcc ---------------------------
(* Small instances of InsyncAdcc for TLC. *)
EXTENDS InsyncAdcc

\* Two channels, with readings that no other channel has.
TwoChannels   == {0, 5}
Disjoint == [c \in Channels |-> {0, 100 + c, 1016 + c}]
NoEvent  == Syn
=============================================================================
