------------------------------- MODULE MCConsole -------------------------------
(***************************************************************************)
(* Instances of Console for TLC.                                           *)
(***************************************************************************)
EXTENDS Console

\* Two mailboxes, and one that the CSV gains later.
TwoRows == <<"a", "b">>
ThreeRows == <<"b", "a", "d">>
OneRow == <<"a">>
OneMore == <<<<"c">>>>
NoMore == <<>>
TwoThenOne == <<<<"c", "d">>, <<"e">>>>

\* Between two hosts, in both directions.
Crossing == [r \in {"a", "b", "c", "d", "e"} |-> IF r \in {"a", "d"} THEN <<1, 2>> ELSE <<2, 1>>]
Within == [r \in {"a", "b", "c", "d", "e"} |-> <<1, 1>>]
===============================================================================
