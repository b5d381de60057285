----------------------------- MODULE MCFlagSync -----------------------------
(* Instances of FlagSync for TLC. *)
EXTENDS FlagSync

TwoMessages == {1, 2}
TheSecond   == {2}
Seen        == {"seen"}
Read        == [u \in TwoMessages |-> IF u = 1 THEN {"seen", "label"} ELSE {"seen"}]
Label       == {"label"}
=============================================================================
