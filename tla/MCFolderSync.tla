----------------------------- MODULE MCFolderSync -----------------------------
(***************************************************************************)
(* FolderSync for TLC: source messages 1, 2, ... with contents of the same *)
(* number, so that a fingerprint can be shared or not.                     *)
(***************************************************************************)
EXTENDS FolderSync

Uids2 == {1, 2}
Uids3 == {1, 2, 3}

\* Contents 1..4: 1..3 are source messages, 4 is foreign mail.
Bodies == 1..4

SrcBodies2 == [u \in Uids2 |-> u]
SrcBodies3 == [u \in Uids3 |-> u]

\* Every content has a fingerprint of its own ...
DistinctFp == [b \in Bodies |-> b]

\* ... or contents 1 and 2 carry the same Message-ID.
SharedFp == [b \in Bodies |-> IF b = 2 THEN 1 ELSE b]

None == {}
Foreign == {4}
First == {1}
FirstAndForeign == {1, 4}

NoFingerprint == 0
===============================================================================
