------------------------------ MODULE MCVadcc ------------------------------
(* Small instances of Vadcc for TLC. *)
EXTENDS Vadcc

NoEvent == Syn

\* In and out of the range of 0..7 by 0..1023, no reading in two pairs; the last
\* is 5 in the bits that the shift leaves. That <<8, 1>> is refused shows: packed,
\* it would be reading 2 of channel 0.
SomePairs ==
    {<<-1, 2>>, <<0, 0>>, <<0, 3>>, <<0, 1024>>, <<7, 1022>>, <<7, 1023>>, <<8, 1>>, <<7, 2^29 + 5>>}
=============================================================================
