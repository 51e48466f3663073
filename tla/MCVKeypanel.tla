---------------------------- MODULE MCVKeypanel ----------------------------
(* Small instances of VKeypanel for TLC. *)
EXTENDS VKeypanelHistory

CONSTANTS led, rxw

Two      == {<<"up", 1>>, <<"down", 2>>, <<"up", 2>>}
One      == {<<"up", 1>>}
TwoTasks == {led, rxw} \cup Two
OneTasks == {led, rxw} \cup One
=============================================================================
