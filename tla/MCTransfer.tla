------------------------------- MODULE MCTransfer -------------------------------
(***************************************************************************)
(* Transfer for TLC.                                                       *)
(***************************************************************************)
EXTENDS Transfer

CONSTANTS m1, m2, m3

TwoMessages == {m1, m2}
ThreeMessages == {m1, m2, m3}
NoRows == <<>>
OneRow == <<m1>>
TwoRows == <<m1, m2>>
ThreeRows == <<m1, m2, m3>>
Sizes == [m \in Msg |-> IF m = m1 THEN 2 ELSE IF m = m2 THEN 1 ELSE 0]
Connections == {src, dst}
Either == BOOLEAN
Secured == {dst}
Short == {m1, m2}
AnyFault == {"cut", "stall", "refuse", "vanish", "kick"}
NoFault == {}
Kicking == {"kick"}
First == {m1}
LastRow == {m3}
===============================================================================
