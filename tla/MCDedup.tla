------------------------------ MODULE MCDedup ------------------------------
(* Instances of Dedup for TLC. *)
EXTENDS Dedup

TwoFolders == <<"f", "g">>

\* In f two copies of one mail and a third that arrives later; in g two
\* different mails of one size without a Message-ID.
FiveMails ==
  [f |-> <<[mid |-> "a", size |-> 1, body |-> "x"], [mid |-> "a", size |-> 1, body |-> "x"],
           [mid |-> "a", size |-> 1, body |-> "x"]>>,
   g |-> <<[mid |-> "-", size |-> 2, body |-> "y"], [mid |-> "-", size |-> 2, body |-> "z"]>>]

OneArrives    == [f |-> 2, g |-> 2]
FirstFlagged  == {<<"f", 1>>}
Restores      == {"undelete", "compact"}
Deletes       == {"delete"}
=============================================================================
