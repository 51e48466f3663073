-------------------------- MODULE MCInsyncKeypanel --------------------------
(* Small instances of InsyncKeypanel for TLC. *)
EXTENDS InsyncKeypanel

NoRotation  == {0}
LeftRight   == {0, 3, 253}    \* still, +3 and -3
=============================================================================
