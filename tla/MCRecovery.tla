------------------------------- MODULE MCRecovery -------------------------------
(***************************************************************************)
(* Recovery for TLC.                                                       *)
(***************************************************************************)
EXTENDS Recovery

\* One message that breaks the connection and one that is refused, around a good one.
Three == <<"killer", "good", "refused">>
None == {}
AllTroubles == {"dst", "src", "pause"}
===============================================================================
