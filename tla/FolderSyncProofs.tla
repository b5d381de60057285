--------------------------- MODULE FolderSyncProofs ---------------------------
(***************************************************************************)
(* What holds of FolderSync for any number of messages, windows, retries   *)
(* and interruptions: what is confirmed is delivered, no message twice, no *)
(* two are confirmed by one, and what was delivered unconfirmed is found   *)
(* by the next session.  That the migration of a folder implements         *)
(* Delivery follows.                                                       *)
(***************************************************************************)
EXTENDS FolderSync, FiniteSetTheorems, FunctionTheorems, WellFoundedInduction, TLAPS

USE UidAssumption, FpAssumption, SrcAssumption

-------------------------------------------------------------------------------
(* The operators the actions are built from *)

\* A set of numbers that is not empty has a least element.
LEMMA LeastOfNumbers ==
  ASSUME NEW S \in SUBSET Nat, S # {}
  PROVE  \E u \in S : \A v \in S : u <= v
<1> DEFINE Below == OpToRel(<, Nat)
<1>1. \E u \in S : \A v \in S : ~ (<<v, u>> \in Below)
  <2>1. IsWellFoundedOn(Below, Nat)
    BY NatLessThanWellFounded
  <2> HIDE DEF Below
  <2> QED
    BY <2>1, WFMin
<1>2. \A u, v \in Nat : v < u => <<v, u>> \in Below
  BY DEF OpToRel
<1> HIDE DEF Below
<1>3. PICK u \in S : \A v \in S : ~ (<<v, u>> \in Below)
  BY <1>1
<1>4. \A v \in S : u <= v
  <2> TAKE v \in S
  <2>1. ~ (v < u)
    BY <1>2, <1>3
  <2> QED
    BY <2>1
<1> QED
  BY <1>4

\* The first of a set of UIDs is one of them, and no other is below it.
LEMMA LeastIsElement ==
  ASSUME NEW S \in SUBSET Uid, S # {}
  PROVE  Least(S) \in S /\ \A v \in S : Least(S) <= v
<1>1. S \in SUBSET Nat
  OBVIOUS
<1>2. \E u \in S : \A v \in S : u <= v
  BY <1>1, LeastOfNumbers
<1> QED
  BY <1>2 DEF Least

\* The window of a pass is taken from its rows.
LEMMA FrontIsSubset ==
  ASSUME NEW S, NEW n
  PROVE  Front(S, n) \subseteq S
BY DEF Front

\* SetFP changes fingerprints only.
LEMMA FillFpType ==
  ASSUME TypeOK, NEW us \in SUBSET Uid
  PROVE  /\ FillFp(us) \in [Uid -> Row]
         /\ \A u \in Uid : /\ FillFp(us)[u].st = rows[u].st
                           /\ FillFp(us)[u].dst = rows[u].dst
BY DEF TypeOK, FillFp, Row

\* MarkState changes states only.
LEMMA MarkStateType ==
  ASSUME TypeOK, NEW us \in SUBSET Uid, NEW st \in {"planned", "inflight", "failed"}
  PROVE  /\ MarkState(us, st) \in [Uid -> Row]
         /\ \A u \in Uid : /\ MarkState(us, st)[u].st \in {rows[u].st, st}
                           /\ MarkState(us, st)[u].dst = rows[u].dst
                           /\ MarkState(us, st)[u].fp = rows[u].fp
<1>1. rows \in [Uid -> Row]
  BY DEF TypeOK
<1>2. \A u \in Uid : [rows[u] EXCEPT !.st = st] \in Row
  BY <1>1 DEF Row
<1> QED
  BY <1>1, <1>2 DEF MarkState, Row

\* Replan moves one row to planned or none.
LEMMA ReplanType ==
  ASSUME TypeOK, Replan
  PROVE  /\ rows' \in [Uid -> Row]
         /\ \A u \in Uid : /\ rows'[u].st \in {rows[u].st, "planned"}
                           /\ rows'[u].dst = rows[u].dst
                           /\ rows'[u].fp = rows[u].fp
<1> DEFINE v == Least(command.keys)
<1>1. command.keys \in SUBSET Uid /\ command.keys # {}
  BY DEF Replan, TypeOK, Command
<1>2. v \in Uid
  BY <1>1, LeastIsElement
<1>3. rows' = rows \/ rows' = MarkState({v}, "planned")
  BY DEF Replan
<1> HIDE DEF v
<1>4. CASE rows' = rows
  BY <1>4 DEF TypeOK
<1>5. CASE rows' = MarkState({v}, "planned")
  BY <1>2, <1>5, MarkStateType
<1> QED
  BY <1>3, <1>4, <1>5

\* MarkDone leaves a row alone or confirms it by one of its triples.
LEMMA MarkDoneType ==
  ASSUME TypeOK, NEW ts \in SUBSET Triple
  PROVE  /\ MarkDone(ts) \in [Uid -> Row]
         /\ \A u \in Uid :
              \/ MarkDone(ts)[u] = rows[u]
              \/ /\ rows[u].st # "none"
                 /\ MarkDone(ts)[u].st = "done"
                 /\ [src |-> u, dst |-> MarkDone(ts)[u].dst] \in ts
                 /\ MarkDone(ts)[u].fp =
                      IF rows[u].fp = NoFp THEN FP[src.body[u]] ELSE rows[u].fp
<1> SUFFICES ASSUME NEW u \in Uid
             PROVE  /\ MarkDone(ts)[u] \in Row
                    /\ \/ MarkDone(ts)[u] = rows[u]
                       \/ /\ rows[u].st # "none"
                          /\ MarkDone(ts)[u].st = "done"
                          /\ [src |-> u, dst |-> MarkDone(ts)[u].dst] \in ts
                          /\ MarkDone(ts)[u].fp =
                               IF rows[u].fp = NoFp THEN FP[src.body[u]] ELSE rows[u].fp
  BY DEF MarkDone
<1>1. CASE rows[u].st # "none" /\ \E t \in ts : t.src = u
  <2> DEFINE t == CHOOSE t \in ts : t.src = u
  <2>1. t \in ts /\ t.src = u
    BY <1>1
  <2>2. t = [src |-> u, dst |-> t.dst] /\ t.dst \in Nat
    BY <2>1 DEF Triple
  <2> QED
    BY <1>1, <2>1, <2>2 DEF MarkDone, TypeOK, Row
<1>2. CASE ~(rows[u].st # "none" /\ \E t \in ts : t.src = u)
  BY <1>2 DEF MarkDone, TypeOK
<1> QED
  BY <1>1, <1>2

\* An APPEND adds one message, above all the others.
UidsBelowNext == \A e \in dst.mail : e.uid < dst.next

TypeInv == TypeOK /\ UidsBelowNext

LEMMA DeliverType ==
  ASSUME TypeInv, NEW b \in Body
  PROVE  /\ Deliver(b) \in [uv : Nat \ {0}, next : Nat \ {0}, mail : SUBSET Mail]
         /\ Deliver(b).uv = dst.uv
         /\ Deliver(b).mail = dst.mail \union {[uid |-> dst.next, body |-> b]}
         /\ \A e \in Deliver(b).mail : e.uid < Deliver(b).next
<1>1. dst.next + 1 \in Nat \ {0} /\ dst.next < dst.next + 1
  BY DEF TypeInv, TypeOK
<1>2. [uid |-> dst.next, body |-> b] \in Mail
  BY DEF TypeInv, TypeOK, Mail
<1>3. \A e \in dst.mail : e \in Mail /\ e.uid \in Nat /\ e.uid < dst.next
  BY DEF TypeInv, TypeOK, UidsBelowNext, Mail
<1>4. Deliver(b) = [uv |-> dst.uv, next |-> dst.next + 1,
                    mail |-> dst.mail \union {[uid |-> dst.next, body |-> b]}]
  <2> DEFINE one == {[uid |-> dst.next, body |-> b]}
  <2>1. Deliver(b) = [dst EXCEPT !.next = dst.next + 1,
                                 !.mail = dst.mail \union one]
    BY DEF Deliver
  <2>2. dst \in [uv : Nat \ {0}, next : Nat \ {0}, mail : SUBSET Mail]
    BY DEF TypeInv, TypeOK
  <2> HIDE DEF one
  <2>3. Deliver(b) = [uv |-> dst.uv, next |-> dst.next + 1,
                      mail |-> dst.mail \union one]
    BY <2>1, <2>2
  <2> QED
    BY <2>3 DEF one
<1>5. \A e \in Deliver(b).mail : e \in Mail /\ e.uid < dst.next + 1
  <2> TAKE e \in Deliver(b).mail
  <2>1. CASE e \in dst.mail
    BY <1>3, <2>1 DEF TypeInv, TypeOK
  <2>2. CASE e = [uid |-> dst.next, body |-> b]
    BY <1>1, <1>2, <2>2
  <2> QED
    BY <1>4, <2>1, <2>2
<1> QED
  BY <1>1, <1>4, <1>5 DEF TypeInv, TypeOK

\* Match only pairs rows with messages of their fingerprint.
LEMMA MatchPairs ==
  ASSUME TypeOK, NEW us \in SUBSET Uid, NEW r \in [Uid -> Row],
         NEW mail \in SUBSET Mail
  PROVE  /\ Match(us, r, mail) \subseteq Triple
         /\ \A t \in Match(us, r, mail) :
              /\ t.src \in us
              /\ \E e \in mail : e.uid = t.dst /\ FP[e.body] = r[t.src].fp
BY DEF Match, Triple, Mail

\* What the end of a session leaves in memory is well formed.
LEMMA EndSessionType ==
  ASSUME TypeOK, EndSession
  PROVE  /\ pc' \in Places /\ link' \in {"up", "kicked", "lost"}
         /\ sess' \in Session /\ plan' \subseteq Triple /\ pass' \in Pass
         /\ todo' \subseteq Uid /\ win' \subseteq Uid /\ fresh' \subseteq Uid
         /\ wire' \in [Uid -> Ack] /\ batch' \subseteq Triple
         /\ failures' \subseteq Uid /\ failing' \in Uid \union {0}
         /\ copied' \subseteq Uid /\ limbo' \subseteq Body
<1>1. NoSession \in Session /\ NoPass \in Pass /\ Idle \in [Uid -> Ack]
  BY DEF NoSession, Session, NoPass, Pass, Idle, Off, Ack
<1>2. {src.body[u] : u \in Unanswered} \subseteq Body
  BY DEF TypeOK, Unanswered
<1> QED
  BY <1>1, <1>2 DEF EndSession, TypeOK, Places

\* A pass over some rows starts with well-formed windows.
LEMMA StartPassType ==
  ASSUME NEW us \in SUBSET Uid, NEW mode \in {"batch", "isolate"}, NEW n \in Nat,
         StartPass(us, mode, n)
  PROVE  /\ pass' \in Pass /\ win' \subseteq Uid /\ fresh' \subseteq Uid
         /\ todo' \subseteq Uid /\ failures' = {} /\ pc' = "pass"
<1>1. Front(us, FetchWindow) \subseteq Uid
  BY FrontIsSubset
<1> QED
  BY <1>1 DEF StartPass, Pass

-------------------------------------------------------------------------------
(* Type correctness *)

LEMMA TypeInit == Init => TypeInv
<1> SUFFICES ASSUME Init PROVE TypeInv
  OBVIOUS
<1>1. Cardinality(Preloaded) \in Nat
  BY PreloadAssumption, FS_CardinalityType
<1>2. PICK number \in [Preloaded -> 1..Cardinality(Preloaded)] :
        dst = [uv |-> 1, next |-> Cardinality(Preloaded) + 1,
               mail |-> {[uid |-> number[b], body |-> b] : b \in Preloaded}]
  BY DEF Init
<1>3. \A b \in Preloaded : /\ [uid |-> number[b], body |-> b] \in Mail
                           /\ number[b] < Cardinality(Preloaded) + 1
  BY <1>1, PreloadAssumption DEF Mail
<1>4. /\ dst \in [uv : Nat \ {0}, next : Nat \ {0}, mail : SUBSET Mail]
      /\ UidsBelowNext
  BY <1>1, <1>2, <1>3 DEF UidsBelowNext
<1>5. rows \in [Uid -> Row]
  BY DEF Init, NoRow, Row
<1>6. wire \in [Uid -> Ack]
  BY DEF Init, Idle, Off, Ack
<1>7. sess \in Session /\ pass \in Pass /\ folder \in Folder
  BY DEF Init, NoSession, Session, NoPass, Pass, Folder
<1>8. src \in [uv : Nat \ {0}, body : [Uid -> Body]]
  <2>1. src = [uv |-> 1, body |-> SrcBody]
    BY DEF Init
  <2> QED
    BY <2>1
<1>9. /\ registry \in [Uid -> {"none", "FAILED", "RETRY_PENDING", "IGNORED", "RECOVERED"}]
      /\ budget \in [cut : Nat, kick : Nat, srcChurn : Nat, dstChurn : Nat,
                      requeue : Nat, compact : Nat]
  BY DEF Init
<1>10. command \in Command
  BY DEF Init, NoCommand, Command
<1> QED
  BY <1>4, <1>5, <1>6, <1>7, <1>8, <1>9, <1>10 DEF Init, TypeInv, TypeOK, Places

\* Selecting, probing and reconciling keep the types.
LEMMA SelectTypes ==
  ASSUME TypeInv, 
         OpenFolder \/ StatusDst \/ ReconcileScan \/ ReconcileAdopt \/ ReconcileReplan
  PROVE  TypeInv'
<1> USE DEF dbVars, passVars, sessVars, memVars
<1>1. CASE OpenFolder
  <2>1. rows' \in [Uid -> Row]
    <3>1. NoRow \in Row
      BY DEF NoRow, Row
    <3> QED
      BY <1>1, <3>1 DEF OpenFolder, TypeInv, TypeOK
  <2>2. folder' \in Folder
    <3>1. folder' = folder \/ folder' = [folder EXCEPT !.adopt = FALSE, !.uvSrc = 0]
      BY <1>1 DEF OpenFolder
    <3>2. [folder EXCEPT !.adopt = FALSE, !.uvSrc = 0] \in Folder
      BY DEF TypeInv, TypeOK, Folder
    <3> QED
      BY <3>1, <3>2 DEF TypeInv, TypeOK
  <2>3. sess' \in Session
    <3>1. (folder.adopt /\ ~SrcChurned) \in BOOLEAN
      BY DEF TypeInv, TypeOK, Folder, SrcChurned
    <3>2. NoSession \in Session /\ folder.bracket \in Nat
      BY DEF TypeInv, TypeOK, Folder, NoSession, Session
    <3> DEFINE done == folder.adopt /\ ~SrcChurned
    <3>3. sess' = [NoSession EXCEPT !.bracket = folder.bracket, !.adoptDone = done]
      BY <1>1 DEF OpenFolder
    <3> HIDE DEF done
    <3> QED
      BY <3>1, <3>2, <3>3 DEF Session, done
  <2> QED
    BY <1>1, <2>1, <2>2, <2>3 DEF OpenFolder, TypeInv, TypeOK, UidsBelowNext, Places
<1>2. CASE StatusDst
  <2>1. rows' \in [Uid -> Row]
    <3>1. \A r \in Row : ResetRow(r) \in Row
      BY DEF ResetRow, Row
    <3> QED
      BY <1>2, <3>1 DEF StatusDst, TypeInv, TypeOK
  <2>2. folder' \in Folder
    BY <1>2 DEF StatusDst, TypeInv, TypeOK, NoteStatus, Folder
  <2>3. sess' \in Session
    <3> DEFINE occupied  == dst.mail # {}
               adoptDone == sess.adoptDone /\ ~DstChurned
               bracket   == IF DstChurned THEN 0 ELSE sess.bracket
    <3>1. occupied \in BOOLEAN /\ adoptDone \in BOOLEAN
      BY DEF TypeInv, TypeOK, Session, DstChurned
    <3>2. bracket \in Nat /\ dst.next \in Nat
      BY DEF TypeInv, TypeOK, Session
    <3>3. sess' = [sess EXCEPT !.occupied = occupied, !.next = dst.next,
                               !.adoptDone = adoptDone, !.bracket = bracket]
      BY <1>2 DEF StatusDst
    <3> HIDE DEF occupied, adoptDone, bracket
    <3> QED
      BY <3>1, <3>2, <3>3 DEF TypeInv, TypeOK, Session
  <2> QED
    BY <1>2, <2>1, <2>2, <2>3 DEF StatusDst, TypeInv, TypeOK, UidsBelowNext, Places
<1>3. CASE ReconcileScan
  <2>1. With("inflight") \in SUBSET Uid
    BY DEF With
  <2>2. rows' \in [Uid -> Row]
    BY <1>3, <2>1, FillFpType DEF ReconcileScan, TypeInv
  <2>3. plan' \subseteq Triple
    BY <1>3, <2>1, <2>2, MatchPairs DEF ReconcileScan, TypeInv, TypeOK, Tail
  <2> QED
    BY <1>3, <2>2, <2>3 DEF ReconcileScan, TypeInv, TypeOK, UidsBelowNext, Places
<1>4. CASE ReconcileAdopt
  BY <1>4, MarkDoneType DEF ReconcileAdopt, TypeInv, TypeOK, UidsBelowNext, Places
<1>5. CASE ReconcileReplan
  <2>1. rows' \in [Uid -> Row]
    BY <1>5, MarkStateType DEF ReconcileReplan, With, TypeInv
  <2> QED
    BY <1>5, <2>1 DEF ReconcileReplan, TypeInv, TypeOK, UidsBelowNext, Places
<1> QED
  BY <1>1, <1>2, <1>3, <1>4, <1>5

\* Scanning and adopting keep the types.
LEMMA ScanTypes ==
  ASSUME TypeInv, 
         ScanSource \/ InsertChunk \/ RecordSource \/ AdoptScan \/ AdoptConfirm \/ RecordDst \/ RecordBracket
  PROVE  TypeInv'
<1> USE DEF dbVars, passVars, sessVars, memVars
<1>1. CASE ScanSource
  BY <1>1 DEF ScanSource, TypeInv, TypeOK, UidsBelowNext, With, Session, Places, SwitchAssumption
<1>2. CASE InsertChunk
  <2> DEFINE planned == [u \in Uid |->
                           [st |-> "planned", dst |-> 0,
                            fp |-> IF sess.adopt THEN FP[src.body[u]] ELSE NoFp]]
  <2>1. planned \in [Uid -> Row]
    BY DEF TypeInv, TypeOK, Row
  <2>2. PICK last \in todo :
          LET chunk == {u \in todo : u <= last}
          IN  /\ rows' = [u \in Uid |-> IF u \in chunk /\ rows[u].st = "none"
                                        THEN planned[u] ELSE rows[u]]
              /\ todo' = todo \ chunk
    BY <1>2 DEF InsertChunk, InsertPlanned
  <2> HIDE DEF planned
  <2>3. rows' \in [Uid -> Row] /\ todo' \subseteq Uid
    BY <2>1, <2>2 DEF TypeInv, TypeOK
  <2> QED
    BY <1>2, <2>3 DEF InsertChunk, TypeInv, TypeOK, UidsBelowNext
<1>3. CASE RecordSource
  BY <1>3 DEF RecordSource, TypeInv, TypeOK, UidsBelowNext, Folder, Places
<1>4. CASE AdoptScan
  <2>1. With("planned") \in SUBSET Uid
    BY DEF With
  <2>2. rows' \in [Uid -> Row]
    BY <1>4, <2>1, FillFpType DEF AdoptScan, TypeInv
  <2>3. plan' \subseteq Triple
    BY <1>4, <2>1, <2>2, MatchPairs DEF AdoptScan, TypeInv, TypeOK
  <2> QED
    BY <1>4, <2>2, <2>3 DEF AdoptScan, TypeInv, TypeOK, UidsBelowNext, Places
<1>5. CASE AdoptConfirm
  BY <1>5, MarkDoneType DEF AdoptConfirm, TypeInv, TypeOK, UidsBelowNext, Places
<1>6. CASE RecordDst
  BY <1>6 DEF RecordDst, TypeInv, TypeOK, UidsBelowNext, Folder, Session, Places
<1>7. CASE RecordBracket
  BY <1>7 DEF RecordBracket, RegistryUIDs, TypeInv, TypeOK, UidsBelowNext, Folder, Session, Places
<1> QED
  BY <1>1, <1>2, <1>3, <1>4, <1>5, <1>6, <1>7

\* The passes keep the types.
LEMMA TransferTypes ==
  ASSUME TypeInv, 
         StartIsolation \/ LeaveIsolation \/ TakeHint \/ StartBatch \/ MarkIntent \/ Stream \/ StreamKicked \/ Settle \/ TimedFlush \/ EndPass \/ ServerAppend \/ ServerRefuse
  PROVE  TypeInv'
<1> USE DEF dbVars, passVars, sessVars, memVars
<1>1. CASE StartIsolation
  <2>1. PICK us \in SUBSET (ladder \intersect (With("planned") \union With("inflight"))) :
          StartPass(us, "isolate", 1)
    BY <1>1 DEF StartIsolation
  <2>2. us \in SUBSET Uid
    BY DEF With
  <2>3. /\ pass' \in Pass /\ win' \subseteq Uid /\ fresh' \subseteq Uid
        /\ todo' \subseteq Uid /\ failures' = {} /\ pc' = "pass"
    BY <2>1, <2>2, StartPassType
  <2> QED
    BY <1>1, <2>3 DEF StartIsolation, TypeInv, TypeOK, UidsBelowNext, Places
<1>2. CASE LeaveIsolation
  BY <1>2 DEF LeaveIsolation, TypeInv, TypeOK, UidsBelowNext, Places
<1>3. CASE TakeHint
  <2>1. ladder' \subseteq Uid
    BY <1>3, FrontIsSubset DEF TakeHint, With
  <2>2. hint' \in BOOLEAN
    BY <1>3 DEF TakeHint
  <2> QED
    BY <1>3, <2>1, <2>2 DEF TakeHint, TypeInv, TypeOK, UidsBelowNext, Places
<1>4. CASE StartBatch
  <2>1. /\ pass' \in Pass /\ win' \subseteq Uid /\ fresh' \subseteq Uid
        /\ todo' \subseteq Uid /\ failures' \subseteq Uid /\ pc' \in Places
    <3>1. CASE StartPass(With("planned"), "batch", 1)
      BY <3>1, StartPassType DEF With, Places
    <3>2. CASE pc' = "recover" /\ UNCHANGED <<pass, win, fresh, todo, failures>>
      BY <3>2 DEF TypeInv, TypeOK, Places
    <3> QED
      BY <1>4, <3>1, <3>2 DEF StartBatch
  <2> QED
    BY <1>4, <2>1 DEF StartBatch, TypeInv, TypeOK, UidsBelowNext
<1>5. CASE MarkIntent
  <2>1. rows' \in [Uid -> Row]
    BY <1>5, MarkStateType DEF MarkIntent, TypeInv, TypeOK
  <2> QED
    BY <1>5, <2>1 DEF MarkIntent, TypeInv, TypeOK, UidsBelowNext
<1>6. CASE Stream
  <2>1. Least(win) \in Uid /\ (todo # {} => Least(todo) \in Uid)
    BY <1>6, LeastIsElement DEF Stream, TypeInv, TypeOK
  <2>2. win' \subseteq Uid /\ fresh' \subseteq Uid /\ todo' \subseteq Uid
    BY <1>6, <2>1 DEF Stream, TypeInv, TypeOK
  <2>3. wire' \in [Uid -> Ack]
    BY <1>6, <2>1 DEF Stream, TypeInv, TypeOK, Ack
  <2> QED
    BY <1>6, <2>2, <2>3 DEF Stream, TypeInv, TypeOK, UidsBelowNext
<1>7. CASE StreamKicked
  <2>1. Least(win) \in Uid
    BY <1>7, LeastIsElement DEF StreamKicked, TypeInv, TypeOK
  <2> QED
    BY <1>7, <2>1 DEF StreamKicked, TypeInv, TypeOK, UidsBelowNext
<1>8. CASE Settle
  <2>1. Least(Pending) \in Uid
    BY <1>8, LeastIsElement DEF Settle, Pending
  <2>2. [src |-> Least(Pending), dst |-> wire[Least(Pending)].dst] \in Triple
    BY <2>1 DEF Triple, TypeInv, TypeOK, Ack
  <2>3. wire' \in [Uid -> Ack]
    BY <1>8, <2>1 DEF Settle, TypeInv, TypeOK, Off, Ack
  <2>4. batch' \subseteq Triple /\ copied' \subseteq Uid /\ failures' \subseteq Uid
    BY <1>8, <2>1, <2>2 DEF Settle, TypeInv, TypeOK
  <2> QED
    BY <1>8, <2>3, <2>4 DEF Settle, TypeInv, TypeOK, UidsBelowNext
<1>9. CASE TimedFlush
  BY <1>9, MarkDoneType DEF TimedFlush, TypeInv, TypeOK, UidsBelowNext
<1>10. CASE EndPass
  <2>1. rows' \in [Uid -> Row]
    BY <1>10, MarkDoneType DEF EndPass, TypeInv, TypeOK
  <2>2. /\ pass' \in Pass /\ win' \subseteq Uid /\ fresh' \subseteq Uid
        /\ todo' \subseteq Uid /\ failures' \subseteq Uid /\ pc' \in Places
        /\ ladder' \subseteq Uid
    <3>1. CASE StartPass(failures, "batch", pass.n + 1) /\ UNCHANGED ladder
      <4>1. pass.n + 1 \in Nat /\ failures \in SUBSET Uid
        BY DEF TypeInv, TypeOK, Pass
      <4> QED
        BY <3>1, <4>1, StartPassType DEF TypeInv, TypeOK, Places
    <3>2. CASE /\ UNCHANGED <<ladder, pass, win, fresh, todo, failures>>
               /\ pc' \in {"recover", "fail"}
      BY <3>2 DEF TypeInv, TypeOK, Places
    <3>3. CASE /\ UNCHANGED <<pass, win, fresh, todo>>
               /\ pc' = "fail"
               /\ failures' \subseteq failures
               /\ ladder' \subseteq ladder \union failures
      BY <3>3 DEF TypeInv, TypeOK, Places
    <3>4. \/ StartPass(failures, "batch", pass.n + 1) /\ UNCHANGED ladder
          \/ /\ UNCHANGED <<ladder, pass, win, fresh, todo, failures>>
             /\ pc' \in {"recover", "fail"}
          \/ /\ UNCHANGED <<pass, win, fresh, todo>>
             /\ pc' = "fail"
             /\ failures' \subseteq failures
             /\ ladder' \subseteq ladder \union failures
      BY <1>10 DEF EndPass
    <3> QED
      BY <3>1, <3>2, <3>3, <3>4
  <2> QED
    BY <1>10, <2>1, <2>2 DEF EndPass, TypeInv, TypeOK, UidsBelowNext
<1>11. CASE ServerAppend
  <2>1. Least(Unanswered) \in Uid
    <3>1. Unanswered # {} /\ Unanswered \subseteq Uid
      BY <1>11 DEF ServerAppend, Unanswered
    <3> QED
      BY <3>1, LeastIsElement
  <2>2. src.body[Least(Unanswered)] \in Body
    BY <2>1 DEF TypeInv, TypeOK
  <2>3. wire' \in [Uid -> Ack]
    BY <1>11, <2>1 DEF ServerAppend, TypeInv, TypeOK, Ack
  <2> QED
    BY <1>11, <2>2, <2>3, DeliverType DEF ServerAppend, TypeInv, TypeOK, UidsBelowNext
<1>12. CASE ServerRefuse
  <2>1. Least(Unanswered) \in Uid
    <3>1. Unanswered # {} /\ Unanswered \subseteq Uid
      BY <1>12 DEF ServerRefuse, Unanswered
    <3> QED
      BY <3>1, LeastIsElement
  <2>2. wire' \in [Uid -> Ack]
    <3>1. wire \in [Uid -> Ack]
      BY DEF TypeInv, TypeOK
    <3>2. PICK u \in Uid : wire' = [wire EXCEPT ![u].ack = "no"]
      BY <1>12, <2>1 DEF ServerRefuse
    <3>3. [wire[u] EXCEPT !.ack = "no"] \in Ack
      BY <3>1 DEF Ack
    <3> QED
      BY <3>1, <3>2, <3>3
  <2> QED
    BY <1>12, <2>2 DEF ServerRefuse, TypeInv, TypeOK, UidsBelowNext
<1> QED
  BY <1>1, <1>2, <1>3, <1>4, <1>5, <1>6, <1>7, <1>8, <1>9, <1>10, <1>11, <1>12

\* Recording failures and ending a session keep the types.
LEMMA EndTypes ==
  ASSUME TypeInv, 
         RecordFailed \/ MarkFailed \/ AfterFailures \/ MarkRecoveries \/ Finalize \/ LoseConnection \/ RefuseLiteral \/ LoseOnSingle \/ Hangup \/ Kick \/ Unwind \/ Stop \/ Crash
  PROVE  TypeInv'
<1> USE DEF dbVars, passVars, sessVars, memVars
<1>1. CASE RecordFailed
  <2>1. Least(failures) \in Uid
    BY <1>1, LeastIsElement DEF RecordFailed, TypeInv, TypeOK
  <2>2. registry' \in [Uid -> {"none", "FAILED", "RETRY_PENDING", "IGNORED", "RECOVERED"}]
    BY <1>1, <2>1 DEF RecordFailed, Entry, TypeInv, TypeOK
  <2> QED
    BY <1>1, <2>1, <2>2 DEF RecordFailed, TypeInv, TypeOK, UidsBelowNext
<1>2. CASE MarkFailed
  <2>1. rows' \in [Uid -> Row]
    BY <1>2, MarkStateType DEF MarkFailed, TypeInv, TypeOK
  <2> QED
    BY <1>2, <2>1 DEF MarkFailed, TypeInv, TypeOK, UidsBelowNext
<1>3. CASE AfterFailures
  BY <1>3 DEF AfterFailures, TypeInv, TypeOK, UidsBelowNext, Places
<1>4. CASE MarkRecoveries
  BY <1>4 DEF MarkRecoveries, MarkRecovered, TypeInv, TypeOK, UidsBelowNext, Places
<1>5. CASE Finalize
  BY <1>5, EndSessionType DEF Finalize, TypeInv, TypeOK, UidsBelowNext, FinalStatus, Folder, Session
<1>6. CASE LoseConnection
  BY <1>6, MarkDoneType, EndSessionType DEF LoseConnection, TypeInv, TypeOK, UidsBelowNext, NoteLoss
<1>7. CASE RefuseLiteral
  BY <1>7, MarkDoneType, EndSessionType DEF RefuseLiteral, TypeInv, TypeOK, UidsBelowNext
<1>8. CASE LoseOnSingle
  <2>1. {src.body[u] : u \in Unanswered} \subseteq Body
    BY DEF TypeInv, TypeOK, Unanswered
  <2>2. Idle \in [Uid -> Ack] /\ pass.rows \subseteq Uid
    BY DEF TypeInv, TypeOK, Idle, Off, Ack, Pass
  <2>3. budget' \in [cut : Nat, kick : Nat, srcChurn : Nat, dstChurn : Nat,
                     requeue : Nat, compact : Nat]
    <3>1. budget' = [budget EXCEPT !.cut = budget.cut + 1]
      BY <1>8 DEF LoseOnSingle
    <3> QED
      BY <3>1 DEF TypeInv, TypeOK
  <2> QED
    BY <1>8, <2>1, <2>2, <2>3 DEF LoseOnSingle, TypeInv, TypeOK, UidsBelowNext, Places
<1>9. CASE Hangup
  BY <1>9, EndSessionType DEF Hangup, TypeInv, TypeOK, UidsBelowNext
<1>10. CASE Kick
  <2>1. {src.body[u] : u \in Unanswered} \subseteq Body
    BY DEF TypeInv, TypeOK, Unanswered
  <2>2. wire' \in [Uid -> Ack]
    <3>1. [ack |-> "kicked", dst |-> 0] \in Ack
      BY DEF Ack
    <3> QED
      BY <1>10, <3>1 DEF Kick, TypeInv, TypeOK
  <2>3. hint' \in BOOLEAN
    BY <1>10 DEF Kick, TypeInv, TypeOK
  <2>4. budget' \in [cut : Nat, kick : Nat, srcChurn : Nat, dstChurn : Nat,
                     requeue : Nat, compact : Nat]
    BY <1>10 DEF Kick, TypeInv, TypeOK
  <2> QED
    BY <1>10, <2>1, <2>2, <2>3, <2>4 DEF Kick, TypeInv, TypeOK, UidsBelowNext
<1>11. CASE Unwind
  BY <1>11, MarkDoneType, EndSessionType DEF Unwind, TypeInv, TypeOK, UidsBelowNext, NoteLoss
<1>12. CASE Stop
  <2>1. rows' \in [Uid -> Row]
    BY <1>12, MarkDoneType DEF Stop, TypeInv, TypeOK
  <2>2. hint' \in BOOLEAN
    BY <1>12 DEF Stop
  <2>3. budget' \in [cut : Nat, kick : Nat, srcChurn : Nat, dstChurn : Nat,
                     requeue : Nat, compact : Nat]
    BY <1>12 DEF Stop, TypeInv, TypeOK
  <2> QED
    BY <1>12, <2>1, <2>2, <2>3, EndSessionType DEF Stop, TypeInv, TypeOK, UidsBelowNext
<1>13. CASE Crash
  <2>1. rows' \in [Uid -> Row]
    BY <1>13 DEF Crash, TypeInv, TypeOK
  <2>2. hint' \in BOOLEAN
    BY <1>13 DEF Crash
  <2>3. budget' \in [cut : Nat, kick : Nat, srcChurn : Nat, dstChurn : Nat,
                     requeue : Nat, compact : Nat]
    BY <1>13 DEF Crash, TypeInv, TypeOK
  <2> QED
    BY <1>13, <2>1, <2>2, <2>3, EndSessionType DEF Crash, TypeInv, TypeOK, UidsBelowNext
<1> QED
  BY <1>1, <1>2, <1>3, <1>4, <1>5, <1>6, <1>7, <1>8, <1>9, <1>10, <1>11, <1>12, <1>13

\* The servers and the operator keep the types.
LEMMA OutsideTypes ==
  ASSUME TypeInv, 
         \/ ServerLate \/ ChurnSource \/ ChurnDestination \/ RetryFailed
         \/ MarkPending \/ Replan \/ CommandEnds \/ IgnoreFailed \/ Compact
  PROVE  TypeInv'
<1> USE DEF dbVars, passVars, sessVars, memVars
<1>1. CASE ServerLate
  BY <1>1, DeliverType DEF ServerLate, TypeInv, TypeOK, UidsBelowNext
<1>2. CASE ChurnSource
  BY <1>2 DEF ChurnSource, TypeInv, TypeOK, UidsBelowNext
<1>3. CASE ChurnDestination
  <2>1. \A e \in dst.mail : dst.next - e.uid \in Nat \ {0} /\ dst.next - e.uid < dst.next
    BY DEF TypeInv, TypeOK, UidsBelowNext, Mail
  <2>2. \A e \in dst.mail : e \in Mail /\ [e EXCEPT !.uid = dst.next - @] \in Mail
    BY <2>1 DEF TypeInv, TypeOK, Mail
  <2>3. PICK mail \in {{}, {[e EXCEPT !.uid = dst.next - @] : e \in dst.mail}} :
          dst' = [dst EXCEPT !.uv = @ + 1, !.mail = mail]
    BY <1>3 DEF ChurnDestination
  <2>4. mail \subseteq Mail /\ \A e \in mail : e.uid < dst.next
    BY <2>1, <2>2 DEF TypeInv, TypeOK, Mail
  <2>5. /\ dst' \in [uv : Nat \ {0}, next : Nat \ {0}, mail : SUBSET Mail]
        /\ UidsBelowNext'
    <3>1. dst.uv + 1 \in Nat \ {0}
      BY DEF TypeInv, TypeOK
    <3>2. dst' = [dst EXCEPT !.uv = dst.uv + 1, !.mail = mail]
      BY <2>3
    <3>3. dst' = [uv |-> dst.uv + 1, next |-> dst.next, mail |-> mail]
      BY <3>2 DEF TypeInv, TypeOK
    <3> QED
      BY <2>4, <3>1, <3>3 DEF TypeInv, TypeOK, UidsBelowNext
  <2>6. budget' \in [cut : Nat, kick : Nat, srcChurn : Nat, dstChurn : Nat,
                     requeue : Nat, compact : Nat]
    BY <1>3 DEF ChurnDestination, TypeInv, TypeOK
  <2> QED
    BY <1>3, <2>5, <2>6 DEF ChurnDestination, TypeInv, TypeOK, UidsBelowNext
<1>4. CASE RetryFailed
  <2>1. PICK us \in {Uid} \union {{u} : u \in Uid} :
          command' = [stage |-> "mark", sel |-> us, keys |-> Selected(us)]
    BY <1>4 DEF RetryFailed
  <2>2. us \subseteq Uid /\ Selected(us) \subseteq Uid
    BY DEF Selected
  <2>3. command' \in Command
    BY <2>1, <2>2 DEF Command
  <2>4. budget' \in [cut : Nat, kick : Nat, srcChurn : Nat, dstChurn : Nat,
                     requeue : Nat, compact : Nat]
    BY <1>4 DEF RetryFailed, TypeInv, TypeOK
  <2> QED
    BY <1>4, <2>3, <2>4 DEF RetryFailed, TypeInv, TypeOK, UidsBelowNext
<1>5. CASE MarkPending
  <2>1. registry' \in [Uid -> {"none", "FAILED", "RETRY_PENDING", "IGNORED", "RECOVERED"}]
    BY <1>5 DEF MarkPending, TypeInv, TypeOK
  <2>2. command' \in Command
    BY <1>5 DEF MarkPending, Command, TypeInv, TypeOK
  <2> QED
    BY <1>5, <2>1, <2>2 DEF MarkPending, TypeInv, TypeOK, UidsBelowNext
<1>6. CASE Replan
  <2>1. command' \in Command
    <3>1. command \in Command
      BY DEF TypeInv, TypeOK
    <3>2. command' = [command EXCEPT !.keys = command.keys \ {Least(command.keys)}]
      BY <1>6 DEF Replan
    <3> QED
      BY <3>1, <3>2 DEF Command
  <2> QED
    BY <1>6, <2>1, ReplanType DEF Replan, TypeInv, TypeOK, UidsBelowNext
<1>7. CASE CommandEnds
  <2>1. command' \in Command
    BY <1>7 DEF CommandEnds, NoCommand, Command
  <2>2. budget' \in [cut : Nat, kick : Nat, srcChurn : Nat, dstChurn : Nat,
                     requeue : Nat, compact : Nat]
    BY <1>7 DEF CommandEnds, TypeInv, TypeOK
  <2> QED
    BY <1>7, <2>1, <2>2 DEF CommandEnds, TypeInv, TypeOK, UidsBelowNext
<1>8. CASE IgnoreFailed
  <2>1. registry' \in [Uid -> {"none", "FAILED", "RETRY_PENDING", "IGNORED", "RECOVERED"}]
    BY <1>8 DEF IgnoreFailed, TypeInv, TypeOK
  <2>2. budget' \in [cut : Nat, kick : Nat, srcChurn : Nat, dstChurn : Nat,
                     requeue : Nat, compact : Nat]
    BY <1>8 DEF IgnoreFailed, TypeInv, TypeOK
  <2> QED
    BY <1>8, <2>1, <2>2 DEF IgnoreFailed, TypeInv, TypeOK, UidsBelowNext
<1>9. CASE Compact
  <2>1. rows' \in [Uid -> Row]
    BY <1>9 DEF Compact, TypeInv, TypeOK, NoRow, Row
  <2>2. budget' \in [cut : Nat, kick : Nat, srcChurn : Nat, dstChurn : Nat,
                     requeue : Nat, compact : Nat]
    BY <1>9 DEF Compact, TypeInv, TypeOK
  <2> QED
    BY <1>9, <2>1, <2>2 DEF Compact, TypeInv, TypeOK, UidsBelowNext
<1> QED
  BY <1>1, <1>2, <1>3, <1>4, <1>5, <1>6, <1>7, <1>8, <1>9

\* Every step keeps the types.
LEMMA TypeStep == TypeInv /\ [Next]_vars => TypeInv'
<1>1. CASE UNCHANGED vars
  BY <1>1 DEF vars, dbVars, passVars, sessVars, memVars, TypeInv, TypeOK, UidsBelowNext
<1>2. CASE Next
  BY <1>2, SelectTypes, ScanTypes, TransferTypes, EndTypes, OutsideTypes
     DEF Next, Step, Server
<1> QED
  BY <1>1, <1>2

\* The state of a folder's migration is well formed in every reachable state, and
\* no message of the destination has a UID at or above UIDNEXT.
THEOREM TypeCorrect == Spec => [](TypeOK /\ UidsBelowNext)
<1>1. Spec => []TypeInv
  BY TypeInit, TypeStep, PTL DEF Spec
<1> QED
  BY <1>1, PTL DEF TypeInv

-------------------------------------------------------------------------------
(* What is confirmed is on the destination *)

\* DoneIsDelivered is not inductive: a row is confirmed by a triple computed
\* earlier, from a fingerprint stored earlier, while the folders may be renumbered
\* between sessions.  The invariant follows the evidence from where it is found
\* to where it is used.

\* A recorded UIDVALIDITY is a current or an earlier one ...
RecordedIsPast == folder.uvSrc <= src.uv /\ folder.uvDst <= dst.uv

\* ... and the session goes on with the current ones only.
SessionIsCurrent ==
  /\ pc # "idle" => folder.uvSrc \in {0, src.uv}
  /\ pc \notin {"idle", "status"} => folder.uvDst \in {0, dst.uv}

\* Nothing found out in a session outlives it in memory.
NothingKept == pc = "idle" => plan = {} /\ batch = {} /\ wire = Idle

\* A stored fingerprint is that of the message its row names now.
FingerprintIsCurrent ==
  folder.uvSrc \in {0, src.uv} =>
    \A u \in Uid : rows[u].fp \in {NoFp, FP[src.body[u]]}

\* A match, an acknowledged APPEND and an answer not read yet name a message of
\* the destination that carries the source message.
EvidenceIsTrue ==
  /\ \A t \in plan \union batch : Carries(t.dst, t.src)
  /\ \A u \in Uid : wire[u].ack = "ok" => Carries(wire[u].dst, u)

IInv ==
  /\ TypeInv
  /\ RecordedIsPast
  /\ SessionIsCurrent
  /\ NothingKept
  /\ FingerprintIsCurrent
  /\ EvidenceIsTrue
  /\ DoneIsDelivered

\* What carries a message goes on carrying it while the destination only grows.
LEMMA CarriesStays ==
  ASSUME src' = src, dst.mail \subseteq dst'.mail, NEW d, NEW u, Carries(d, u)
  PROVE  Carries(d, u)'
BY DEF Carries

\* What the matching of fingerprints finds is true.
LEMMA MatchIsTrue ==
  ASSUME IInv, pc # "idle", NEW us \in SUBSET Uid, NEW mail \in SUBSET dst.mail
  PROVE  \A t \in Match(us, FillFp(us), mail) : Carries(t.dst, t.src)
<1> SUFFICES ASSUME NEW t \in Match(us, FillFp(us), mail)
             PROVE  Carries(t.dst, t.src)
  OBVIOUS
<1>1. TypeOK
  BY DEF IInv, TypeInv
<1>2. FillFp(us) \in [Uid -> Row] /\ mail \subseteq Mail
  BY <1>1, FillFpType DEF TypeOK
<1>3. t.src \in us /\ \E e \in mail : e.uid = t.dst /\ FP[e.body] = FillFp(us)[t.src].fp
  BY <1>1, <1>2, MatchPairs
<1>4. FillFp(us)[t.src].fp = FP[src.body[t.src]]
  <2>1. rows[t.src].fp \in {NoFp, FP[src.body[t.src]]}
    BY <1>3 DEF IInv, FingerprintIsCurrent, SessionIsCurrent
  <2> QED
    BY <1>1, <1>3, <2>1 DEF FillFp, TypeOK, Row
<1> QED
  BY <1>3, <1>4 DEF Carries

\* Carries, after the step (which leaves src alone)
WillCarry(d, u) ==
  \E e \in dst'.mail : d \in {0, e.uid} /\ FP[e.body] = FP[src.body[u]]

\* What a step of one session, of a server or of the operator may do: the folders
\* keep their UIDVALIDITY and their messages, the current ones are recorded, rows
\* and evidence are true or as they were.
RowsAreTrue ==
  \A u \in Uid :
    /\ rows'[u].fp \in {rows[u].fp, NoFp, FP[src.body[u]]}
    /\ rows'[u].st = "done" => \/ rows[u].st = "done" /\ rows'[u].dst = rows[u].dst
                               \/ Carries(rows'[u].dst, u)

AnswersAreTrue ==
  \A u \in Uid :
    wire'[u].ack = "ok" => wire'[u] = wire[u] \/ WillCarry(wire'[u].dst, u)

TriplesAreTrue ==
  \A t \in plan' \union batch' : t \in plan \union batch \/ Carries(t.dst, t.src)

SessionMoves ==
  /\ pc' = "idle" \/ pc' = pc \/ pc \notin {"idle", "status"}
  /\ pc' = "idle" => \/ plan' = {} /\ batch' = {} /\ wire' = Idle
                     \/ pc = "idle" /\ UNCHANGED <<plan, batch, wire>>

RecordMoves ==
  \/ folder'.uvSrc = folder.uvSrc /\ folder'.uvDst = folder.uvDst
  \/ /\ pc \notin {"idle", "status"}
     /\ folder'.uvSrc \in {folder.uvSrc, src.uv}
     /\ folder'.uvDst \in {folder.uvDst, dst.uv}

FoldersStay == src' = src /\ dst'.uv = dst.uv /\ dst.mail \subseteq dst'.mail

Gentle ==
  /\ FoldersStay /\ SessionMoves /\ RecordMoves
  /\ RowsAreTrue /\ AnswersAreTrue /\ TriplesAreTrue

\* What is left alone is as it should be.
LEMMA Untouched ==
  /\ src' = src /\ dst' = dst => FoldersStay
  /\ folder' = folder => RecordMoves
  /\ rows' = rows => RowsAreTrue
  /\ wire' = wire => AnswersAreTrue
  /\ plan' = plan /\ batch' = batch => TriplesAreTrue
BY DEF FoldersStay, RecordMoves, RowsAreTrue, AnswersAreTrue, TriplesAreTrue

LEMMA GentleKeepsIInv ==
  ASSUME IInv, TypeInv', Gentle
  PROVE  IInv'
<1> USE DEF FoldersStay, SessionMoves, RecordMoves, RowsAreTrue, AnswersAreTrue,
            TriplesAreTrue
<1>1. TypeOK /\ TypeOK'
  BY DEF IInv, TypeInv
<1>2. RecordedIsPast'
  <2>1. /\ src.uv \in Nat /\ dst.uv \in Nat
        /\ folder.uvSrc \in Nat /\ folder.uvDst \in Nat
    BY <1>1 DEF TypeOK, Folder
  <2>2. src'.uv = src.uv /\ dst'.uv = dst.uv
    BY DEF Gentle
  <2>3. folder'.uvSrc \in {folder.uvSrc, src.uv} /\ folder'.uvDst \in {folder.uvDst, dst.uv}
    BY DEF Gentle
  <2>4. folder'.uvSrc <= src'.uv
    BY <2>1, <2>2, <2>3 DEF IInv, RecordedIsPast
  <2>5. folder'.uvDst <= dst'.uv
    BY <2>1, <2>2, <2>3 DEF IInv, RecordedIsPast
  <2> QED
    BY <2>4, <2>5 DEF RecordedIsPast
<1>3. SessionIsCurrent'
  BY DEF IInv, SessionIsCurrent, Gentle
<1>4. NothingKept'
  BY DEF IInv, NothingKept, Gentle
<1>5. FingerprintIsCurrent'
  <2>1. folder'.uvSrc \in {0, src.uv} => folder.uvSrc \in {0, src.uv}
    BY DEF IInv, SessionIsCurrent, Gentle
  <2> QED
    BY <2>1 DEF IInv, FingerprintIsCurrent, Gentle
<1>6. \A d, u : Carries(d, u) => Carries(d, u)'
  BY CarriesStays DEF Gentle
<1>7. EvidenceIsTrue'
  <2>1. \A t \in plan' \union batch' : Carries(t.dst, t.src)'
    <3> TAKE t \in plan' \union batch'
    <3>1. Carries(t.dst, t.src)
      BY DEF IInv, EvidenceIsTrue, Gentle
    <3> QED
      BY <1>6, <3>1
  <2>2. \A u \in Uid : wire'[u].ack = "ok" => WillCarry(wire'[u].dst, u)
    <3> SUFFICES ASSUME NEW u \in Uid, wire'[u].ack = "ok", wire'[u] = wire[u]
                 PROVE  WillCarry(wire'[u].dst, u)
      BY DEF Gentle
    <3>1. Carries(wire[u].dst, u)
      BY DEF IInv, EvidenceIsTrue
    <3> QED
      BY <3>1 DEF Carries, WillCarry, Gentle
  <2> QED
    BY <2>1, <2>2 DEF EvidenceIsTrue, Carries, WillCarry, Gentle
<1>8. DoneIsDelivered'
  <2> SUFFICES ASSUME SameEpoch', NEW u \in Uid, rows'[u].st = "done"
               PROVE  Carries(rows[u].dst, u)'
    BY DEF DoneIsDelivered, With
  <2>1. SameEpoch
    BY DEF IInv, SessionIsCurrent, SameEpoch, Gentle
  <2>2. CASE rows[u].st = "done" /\ rows'[u].dst = rows[u].dst
    <3>1. Carries(rows'[u].dst, u)
      BY <2>1, <2>2 DEF IInv, DoneIsDelivered, With
    <3> QED
      BY <3>1 DEF Carries, Gentle
  <2>3. CASE Carries(rows'[u].dst, u)
    BY <2>3 DEF Carries, Gentle
  <2> QED
    BY <2>2, <2>3 DEF Gentle
<1> QED
  BY <1>2, <1>3, <1>4, <1>5, <1>7, <1>8 DEF IInv

\* A flush, or the end of a probe, confirms rows by true evidence.
LEMMA ConfirmKeepsRowsTrue ==
  ASSUME IInv, NEW ts \in SUBSET (plan \union batch), rows' = MarkDone(ts)
  PROVE  RowsAreTrue
<1> SUFFICES ASSUME NEW u \in Uid
             PROVE  /\ rows'[u].fp \in {rows[u].fp, NoFp, FP[src.body[u]]}
                    /\ rows'[u].st = "done" =>
                         \/ rows[u].st = "done" /\ rows'[u].dst = rows[u].dst
                         \/ Carries(rows'[u].dst, u)
  BY DEF RowsAreTrue
<1>1. TypeOK /\ ts \in SUBSET Triple
  BY DEF IInv, TypeInv, TypeOK
<1>2. CASE rows'[u] = rows[u]
  BY <1>2
<1>3. CASE /\ [src |-> u, dst |-> rows'[u].dst] \in ts
           /\ rows'[u].fp \in {rows[u].fp, FP[src.body[u]]}
  <2> DEFINE t == [src |-> u, dst |-> rows'[u].dst]
  <2>1. t \in plan \union batch
    BY <1>3
  <2>2. Carries(t.dst, t.src)
    BY <2>1 DEF IInv, EvidenceIsTrue
  <2> QED
    BY <1>3, <2>2
<1> QED
  BY <1>1, <1>2, <1>3, MarkDoneType

\* A step that ends the session and leaves the folders and their record alone.
LEMMA EndIsGentle ==
  ASSUME EndSession, RowsAreTrue, UNCHANGED <<src, dst>>,
         folder'.uvSrc = folder.uvSrc, folder'.uvDst = folder.uvDst
  PROVE  Gentle
<1>1. \A u \in Uid : wire'[u].ack # "ok"
  BY DEF EndSession, Idle, Off
<1>2. pc' = "idle" /\ plan' = {} /\ batch' = {} /\ wire' = Idle
  BY DEF EndSession
<1>3. AnswersAreTrue /\ TriplesAreTrue
  BY <1>1, <1>2 DEF AnswersAreTrue, TriplesAreTrue
<1>4. FoldersStay
  BY DEF FoldersStay
<1>5. SessionMoves
  BY <1>2 DEF SessionMoves
<1>6. RecordMoves
  BY DEF RecordMoves
<1> QED
  BY <1>3, <1>4, <1>5, <1>6 DEF Gentle

-------------------------------------------------------------------------------

\* The steps of the session's own course.
LEMMA CourseIsGentle ==
  ASSUME IInv,
         ReconcileScan \/ ReconcileAdopt \/ ReconcileReplan \/ ScanSource \/ InsertChunk \/ RecordSource \/ AdoptScan \/ AdoptConfirm \/ RecordDst \/ RecordBracket \/ StartIsolation \/ LeaveIsolation \/ TakeHint \/ StartBatch \/ MarkIntent \/ Stream \/ StreamKicked \/ Settle \/ TimedFlush \/ EndPass \/ ServerAppend \/ ServerRefuse \/ RecordFailed \/ MarkFailed \/ AfterFailures \/ MarkRecoveries
  PROVE  Gentle
<1> USE DEF dbVars, passVars, sessVars, memVars
<1>0. TypeOK
  BY DEF IInv, TypeInv
<1>1. CASE ReconcileScan
  <2>1. With("inflight") \in SUBSET Uid
    BY DEF With
  <2>2. RowsAreTrue
    BY <1>0, <1>1, <2>1, FillFpType DEF ReconcileScan, FillFp, RowsAreTrue, TypeOK
  <2>3. \A t \in plan' : Carries(t.dst, t.src)
    BY <1>1, <2>1, MatchIsTrue DEF ReconcileScan, Tail
  <2> QED
    BY <1>1, <2>2, <2>3, Untouched DEF ReconcileScan, Gentle, SessionMoves, TriplesAreTrue
<1>2. CASE ReconcileAdopt
  <2>1. RowsAreTrue
    BY <1>2, ConfirmKeepsRowsTrue DEF ReconcileAdopt
  <2> QED
    BY <1>2, <2>1, Untouched DEF ReconcileAdopt, Gentle, SessionMoves, TriplesAreTrue
<1>3. CASE ReconcileReplan
  <2>1. RowsAreTrue
    BY <1>0, <1>3, MarkStateType DEF ReconcileReplan, With, RowsAreTrue, TypeOK
  <2> QED
    BY <1>3, <2>1, Untouched DEF ReconcileReplan, Gentle, SessionMoves
<1>4. CASE ScanSource
  BY <1>4, Untouched DEF ScanSource, Gentle, SessionMoves
<1>5. CASE InsertChunk
  <2>1. RowsAreTrue
    <3> SUFFICES ASSUME NEW u \in Uid
                 PROVE  \/ rows'[u] = rows[u]
                        \/ /\ rows'[u].fp \in {NoFp, FP[src.body[u]]}
                           /\ rows'[u].st # "done"
      BY DEF RowsAreTrue
    <3>1. \/ rows'[u] = rows[u]
          \/ rows'[u] = [st |-> "planned", dst |-> 0,
                         fp |-> IF sess.adopt THEN FP[src.body[u]] ELSE NoFp]
      BY <1>5 DEF InsertChunk, InsertPlanned
    <3> QED
      BY <3>1
  <2> QED
    BY <1>5, <2>1, Untouched DEF InsertChunk, Gentle, SessionMoves
<1>6. CASE RecordSource
  <2>1. RecordMoves
    BY <1>0, <1>6 DEF RecordSource, RecordMoves, TypeOK, Folder
  <2> QED
    BY <1>6, <2>1, Untouched DEF RecordSource, Gentle, SessionMoves
<1>7. CASE AdoptScan
  <2>1. With("planned") \in SUBSET Uid
    BY DEF With
  <2>2. RowsAreTrue
    BY <1>0, <1>7, <2>1, FillFpType DEF AdoptScan, FillFp, RowsAreTrue, TypeOK
  <2>3. \A t \in plan' : Carries(t.dst, t.src)
    BY <1>7, <2>1, MatchIsTrue DEF AdoptScan, Tail
  <2> QED
    BY <1>7, <2>2, <2>3, Untouched DEF AdoptScan, Gentle, SessionMoves, TriplesAreTrue
<1>8. CASE AdoptConfirm
  <2>1. RowsAreTrue
    BY <1>8, ConfirmKeepsRowsTrue DEF AdoptConfirm
  <2> QED
    BY <1>8, <2>1, Untouched DEF AdoptConfirm, Gentle, SessionMoves, TriplesAreTrue
<1>9. CASE RecordDst
  <2>1. RecordMoves
    BY <1>0, <1>9 DEF RecordDst, RecordMoves, TypeOK, Folder
  <2> QED
    BY <1>9, <2>1, Untouched DEF RecordDst, Gentle, SessionMoves
<1>10. CASE RecordBracket
  <2>1. RecordMoves
    BY <1>0, <1>10 DEF RecordBracket, RecordMoves, TypeOK, Folder
  <2> QED
    BY <1>10, <2>1, Untouched DEF RecordBracket, Gentle, SessionMoves
<1>11. CASE StartIsolation
  <2>1. pc' = "pass"
    BY <1>11 DEF StartIsolation, StartPass
  <2> QED
    BY <1>11, <2>1, Untouched DEF StartIsolation, Gentle, SessionMoves
<1>12. CASE LeaveIsolation
  BY <1>12, Untouched DEF LeaveIsolation, Gentle, SessionMoves
<1>13. CASE TakeHint
  BY <1>13, Untouched DEF TakeHint, Gentle, SessionMoves
<1>14. CASE StartBatch
  <2>1. pc' \in {"pass", "recover"}
    BY <1>14 DEF StartBatch, StartPass
  <2> QED
    BY <1>14, <2>1, Untouched DEF StartBatch, Gentle, SessionMoves
<1>15. CASE MarkIntent
  <2>1. RowsAreTrue
    BY <1>0, <1>15, MarkStateType DEF MarkIntent, With, RowsAreTrue, TypeOK
  <2> QED
    BY <1>15, <2>1, Untouched DEF MarkIntent, Gentle, SessionMoves
<1>16. CASE Stream
  BY <1>16, Untouched DEF Stream, Gentle, SessionMoves, AnswersAreTrue
<1>17. CASE StreamKicked
  BY <1>17, Untouched DEF StreamKicked, Gentle, SessionMoves
<1>18. CASE Settle
  <2>1. \A u \in Uid : wire'[u] = wire[u] \/ wire'[u].ack = "off"
    BY <1>0, <1>18 DEF Settle, Off, TypeOK
  <2>2. \A t \in batch' : t \in batch \/ Carries(t.dst, t.src)
    <3>1. Least(Pending) \in Uid
      BY <1>18, LeastIsElement DEF Settle, Pending
    <3>2. CASE wire[Least(Pending)].ack = "ok"
      <4>1. Carries(wire[Least(Pending)].dst, Least(Pending))
        BY <3>1, <3>2 DEF IInv, EvidenceIsTrue
      <4> QED
        BY <1>18, <3>2, <4>1 DEF Settle, Acknowledged
    <3>3. CASE wire[Least(Pending)].ack # "ok"
      BY <1>18, <3>3 DEF Settle, Acknowledged
    <3> QED
      BY <3>2, <3>3
  <2> QED
    BY <1>18, <2>1, <2>2, Untouched DEF Settle, Gentle, SessionMoves, AnswersAreTrue, TriplesAreTrue
<1>19. CASE TimedFlush
  <2>1. RowsAreTrue
    BY <1>19, ConfirmKeepsRowsTrue DEF TimedFlush
  <2> QED
    BY <1>19, <2>1, Untouched DEF TimedFlush, Gentle, SessionMoves, TriplesAreTrue
<1>20. CASE EndPass
  <2>1. RowsAreTrue
    BY <1>20, ConfirmKeepsRowsTrue DEF EndPass
  <2>2. pc' \in {"pass", "recover", "fail"}
    BY <1>20 DEF EndPass, StartPass
  <2> QED
    BY <1>20, <2>1, <2>2, Untouched DEF EndPass, Gentle, SessionMoves, TriplesAreTrue
<1>21. CASE ServerAppend
  <2> DEFINE u == Least(Unanswered)
             b == src.body[u]
  <2>1. Unanswered # {} /\ Unanswered \in SUBSET Uid
    BY <1>21 DEF ServerAppend, Unanswered
  <2>2. u \in Uid /\ b \in Body
    BY <1>0, <2>1, LeastIsElement DEF TypeOK
  <2>3. /\ dst' = Deliver(b)
        /\ wire' = [wire EXCEPT ![u] = [ack |-> "ok",
                                        dst |-> IF UidPlus THEN dst.next ELSE 0]]
        /\ src' = src
    BY <1>21 DEF ServerAppend
  <2>4. b = src.body[u]
    OBVIOUS
  <2> HIDE DEF u, b
  <2>5. dst'.uv = dst.uv /\ dst'.mail = dst.mail \union {[uid |-> dst.next, body |-> b]}
    BY <2>2, <2>3, DeliverType DEF IInv
  <2>6. FoldersStay
    BY <2>3, <2>5 DEF FoldersStay
  <2>7. \A d \in {0, dst.next} : WillCarry(d, u)
    <3>1. [uid |-> dst.next, body |-> b] \in dst'.mail
      BY <2>5
    <3> QED
      BY <2>4, <3>1 DEF WillCarry
  <2>8. AnswersAreTrue
    <3> SUFFICES ASSUME NEW v \in Uid
                 PROVE  wire'[v] = wire[v] \/ WillCarry(wire'[v].dst, v)
      BY DEF AnswersAreTrue
    <3>1. CASE v = u
      <4>1. wire'[u].dst \in {0, dst.next}
        BY <1>0, <2>2, <2>3 DEF TypeOK
      <4> QED
        BY <2>7, <3>1, <4>1
    <3>2. CASE v # u
      BY <1>0, <2>3, <3>2 DEF TypeOK
    <3> QED
      BY <3>1, <3>2
  <2>9. pc # "idle"
    BY <2>1 DEF IInv, NothingKept, Idle, Off, Unanswered
  <2> QED
    BY <1>21, <2>6, <2>8, <2>9, Untouched DEF ServerAppend, Gentle, SessionMoves
<1>22. CASE ServerRefuse
  <2>1. \A u \in Uid : wire'[u] = wire[u] \/ wire'[u].ack = "no"
    BY <1>0, <1>22 DEF ServerRefuse, TypeOK, Ack
  <2>2. AnswersAreTrue
    BY <2>1 DEF AnswersAreTrue
  <2>3. pc # "idle"
    BY <1>22 DEF ServerRefuse, IInv, NothingKept, Idle, Off, Unanswered
  <2> QED
    BY <1>22, <2>2, <2>3, Untouched DEF ServerRefuse, Gentle, SessionMoves
<1>23. CASE RecordFailed
  BY <1>23, Untouched DEF RecordFailed, Gentle, SessionMoves
<1>24. CASE MarkFailed
  <2>1. RowsAreTrue
    BY <1>0, <1>24, MarkStateType DEF MarkFailed, With, RowsAreTrue, TypeOK
  <2> QED
    BY <1>24, <2>1, Untouched DEF MarkFailed, Gentle, SessionMoves
<1>25. CASE AfterFailures
  BY <1>25, Untouched DEF AfterFailures, Gentle, SessionMoves
<1>26. CASE MarkRecoveries
  BY <1>26, Untouched DEF MarkRecoveries, Gentle, SessionMoves
<1> QED
  BY <1>1, <1>2, <1>3, <1>4, <1>5, <1>6, <1>7, <1>8, <1>9, <1>10, <1>11, <1>12, <1>13, <1>14, <1>15, <1>16, <1>17, <1>18, <1>19, <1>20, <1>21, <1>22, <1>23, <1>24, <1>25, <1>26

\* The steps that cut it short, and those of the others.
LEMMA CutsAreGentle ==
  ASSUME IInv,
         Finalize \/ LoseConnection \/ RefuseLiteral \/ LoseOnSingle \/ Hangup \/ Kick \/ Unwind \/ Stop \/ Crash \/ ServerLate \/ RetryFailed \/ MarkPending \/ Replan \/ CommandEnds \/ IgnoreFailed \/ Compact
  PROVE  Gentle
<1> USE DEF dbVars, passVars, sessVars, memVars
<1>0. TypeOK
  BY DEF IInv, TypeInv
<1>1. CASE Finalize
  <2>1. RowsAreTrue /\ folder'.uvSrc = folder.uvSrc /\ folder'.uvDst = folder.uvDst
    BY <1>0, <1>1 DEF Finalize, RowsAreTrue, TypeOK, Folder
  <2> QED
    BY <1>1, <2>1, EndIsGentle DEF Finalize
<1>2. CASE LoseConnection
  <2>1. RowsAreTrue
    BY <1>2, ConfirmKeepsRowsTrue DEF LoseConnection
  <2> QED
    BY <1>2, <2>1, EndIsGentle DEF LoseConnection
<1>3. CASE RefuseLiteral
  <2>1. RowsAreTrue
    BY <1>3, ConfirmKeepsRowsTrue DEF RefuseLiteral
  <2> QED
    BY <1>3, <2>1, EndIsGentle DEF RefuseLiteral
<1>4. CASE LoseOnSingle
  <2>1. \A u \in Uid : wire'[u].ack = "off"
    BY <1>4 DEF LoseOnSingle, Idle, Off
  <2> QED
    BY <1>4, <2>1, Untouched DEF LoseOnSingle, Gentle, SessionMoves, AnswersAreTrue
<1>5. CASE Hangup
  <2>1. RowsAreTrue /\ folder'.uvSrc = folder.uvSrc /\ folder'.uvDst = folder.uvDst
    BY <1>0, <1>5 DEF Hangup, RowsAreTrue, TypeOK, Folder
  <2> QED
    BY <1>5, <2>1, EndIsGentle DEF Hangup
<1>6. CASE Kick
  <2>1. \A u \in Uid : wire'[u] = wire[u] \/ wire'[u].ack = "kicked"
    BY <1>6 DEF Kick
  <2> QED
    BY <1>6, <2>1, Untouched DEF Kick, Gentle, SessionMoves, AnswersAreTrue
<1>7. CASE Unwind
  <2>1. RowsAreTrue
    BY <1>7, ConfirmKeepsRowsTrue DEF Unwind
  <2> QED
    BY <1>7, <2>1, EndIsGentle DEF Unwind
<1>8. CASE Stop
  <2>1. RowsAreTrue
    BY <1>8, ConfirmKeepsRowsTrue DEF Stop
  <2> QED
    BY <1>8, <2>1, EndIsGentle DEF Stop
<1>9. CASE Crash
  <2>1. RowsAreTrue /\ folder'.uvSrc = folder.uvSrc /\ folder'.uvDst = folder.uvDst
    BY <1>0, <1>9 DEF Crash, RowsAreTrue, TypeOK, Folder
  <2> QED
    BY <1>9, <2>1, EndIsGentle DEF Crash
<1>10. CASE ServerLate
  <2>1. PICK b \in limbo : dst' = Deliver(b)
    BY <1>10 DEF ServerLate
  <2>2. dst'.uv = dst.uv /\ dst.mail \subseteq dst'.mail
    BY <1>0, <2>1, DeliverType DEF IInv, TypeOK
  <2> QED
    BY <1>10, <2>2, Untouched DEF ServerLate, Gentle, SessionMoves, FoldersStay
<1>11. CASE RetryFailed
  BY <1>11, Untouched DEF RetryFailed, Gentle, SessionMoves
<1>12. CASE MarkPending
  BY <1>12, Untouched DEF MarkPending, Gentle, SessionMoves
<1>13. CASE Replan
  <2>1. RowsAreTrue
    BY <1>0, <1>13, ReplanType DEF RowsAreTrue
  <2> QED
    BY <1>13, <2>1, Untouched DEF Replan, Gentle, SessionMoves
<1>14. CASE CommandEnds
  BY <1>14, Untouched DEF CommandEnds, Gentle, SessionMoves
<1>15. CASE IgnoreFailed
  BY <1>15, Untouched DEF IgnoreFailed, Gentle, SessionMoves
<1>16. CASE Compact
  <2>1. RowsAreTrue
    BY <1>0, <1>16 DEF Compact, NoRow, RowsAreTrue, TypeOK
  <2> QED
    BY <1>16, <2>1, Untouched DEF Compact, Gentle, SessionMoves
<1> QED
  BY <1>1, <1>2, <1>3, <1>4, <1>5, <1>6, <1>7, <1>8, <1>9, <1>10, <1>11, <1>12,
     <1>13, <1>14, <1>15, <1>16

-------------------------------------------------------------------------------
(* The steps that are not gentle: a session begins, a folder is renumbered *)

LEMMA OpenFolderKeepsIInv ==
  ASSUME IInv, TypeInv', OpenFolder
  PROVE  IInv'
<1> USE DEF dbVars, passVars, sessVars, memVars
<1>1. TypeOK
  BY DEF IInv, TypeInv
<1>2. UNCHANGED <<src, dst, plan, batch, wire>> /\ pc = "idle" /\ pc' = "status"
  BY DEF OpenFolder
<1>3. plan = {} /\ batch = {} /\ wire = Idle
  BY <1>2 DEF IInv, NothingKept
<1>4. NothingKept' /\ EvidenceIsTrue'
  BY <1>2, <1>3 DEF NothingKept, EvidenceIsTrue, Idle, Off
<1>5. CASE SrcChurned
  <2>1. folder'.uvSrc = 0 /\ folder'.uvDst = folder.uvDst
    <3>1. folder' = [folder EXCEPT !.adopt = FALSE, !.uvSrc = 0]
      BY <1>5 DEF OpenFolder
    <3>2. folder \in Folder
      BY <1>1 DEF TypeOK
    <3> QED
      BY <3>1, <3>2 DEF Folder
  <2>2. rows' = [u \in Uid |-> NoRow]
    BY <1>5 DEF OpenFolder
  <2>3. FingerprintIsCurrent' /\ DoneIsDelivered'
    BY <2>2 DEF FingerprintIsCurrent, DoneIsDelivered, With, NoRow
  <2>4. RecordedIsPast' /\ SessionIsCurrent'
    BY <1>1, <1>2, <2>1 DEF IInv, RecordedIsPast, SessionIsCurrent, TypeOK
  <2> QED
    BY <1>4, <2>3, <2>4 DEF IInv
<1>6. CASE ~SrcChurned
  <2>1. UNCHANGED <<rows, folder>>
    BY <1>6 DEF OpenFolder
  <2>2. folder.uvSrc \in {0, src.uv}
    BY <1>6 DEF SrcChurned
  <2>3. FingerprintIsCurrent'
    BY <1>2, <2>1 DEF IInv, FingerprintIsCurrent
  <2>4. DoneIsDelivered'
    BY <1>2, <2>1 DEF IInv, DoneIsDelivered, With, SameEpoch, Carries
  <2>5. RecordedIsPast' /\ SessionIsCurrent'
    BY <1>2, <2>1, <2>2 DEF IInv, RecordedIsPast, SessionIsCurrent
  <2> QED
    BY <1>4, <2>3, <2>4, <2>5 DEF IInv
<1> QED
  BY <1>5, <1>6

LEMMA StatusDstKeepsIInv ==
  ASSUME IInv, TypeInv', StatusDst
  PROVE  IInv'
<1> USE DEF dbVars, passVars, sessVars, memVars
<1>1. TypeOK
  BY DEF IInv, TypeInv
<1>2. /\ UNCHANGED <<src, dst, plan, batch, wire>>
      /\ pc = "status" /\ pc' \in {"reconcile", "scan"}
  BY DEF StatusDst
<1>3. folder.uvSrc \in {0, src.uv}
  BY <1>2 DEF IInv, SessionIsCurrent
<1>4. NothingKept'
  BY <1>2 DEF NothingKept
<1>5. EvidenceIsTrue'
  BY <1>2 DEF IInv, EvidenceIsTrue, Carries
<1>6. /\ folder'.uvSrc = folder.uvSrc
      /\ folder'.uvDst = IF DstChurned THEN 0 ELSE folder.uvDst
  BY <1>1 DEF StatusDst, NoteStatus, TypeOK, Folder
<1>7. RecordedIsPast'
  BY <1>1, <1>2, <1>6 DEF IInv, RecordedIsPast, TypeOK
<1>8. SessionIsCurrent'
  BY <1>2, <1>3, <1>6 DEF SessionIsCurrent, DstChurned
<1>9. \A u \in Uid : /\ rows'[u].fp = rows[u].fp
                     /\ rows'[u].st = "done" => ~DstChurned /\ rows'[u] = rows[u]
  <2> TAKE u \in Uid
  <2>1. rows'[u] = IF DstChurned THEN ResetRow(rows[u]) ELSE rows[u]
    BY DEF StatusDst
  <2>2. ResetRow(rows[u]).fp = rows[u].fp /\ ResetRow(rows[u]).st # "done"
    BY <1>1 DEF ResetRow, TypeOK, Row
  <2> QED
    BY <2>1, <2>2
<1>10. FingerprintIsCurrent'
  BY <1>2, <1>6, <1>9 DEF IInv, FingerprintIsCurrent
<1>11. DoneIsDelivered'
  BY <1>2, <1>6, <1>9 DEF IInv, DoneIsDelivered, With, SameEpoch, Carries
<1> QED
  BY <1>4, <1>5, <1>7, <1>8, <1>10, <1>11 DEF IInv

\* Renumbering a folder whose UIDVALIDITY is on record ends the epoch of the record.
LEMMA ChurnKeepsIInv ==
  ASSUME IInv, TypeInv', ~EarlyChurn, ChurnSource \/ ChurnDestination
  PROVE  IInv'
<1> USE DEF dbVars, passVars, sessVars, memVars
<1>1. TypeOK
  BY DEF IInv, TypeInv
<1>2. UNCHANGED <<rows, folder, plan, batch, wire>> /\ pc = "idle" /\ pc' = "idle"
  BY DEF ChurnSource, ChurnDestination
<1>3. plan = {} /\ batch = {} /\ wire = Idle
  BY <1>2 DEF IInv, NothingKept
<1>4. NothingKept' /\ EvidenceIsTrue'
  BY <1>2, <1>3 DEF NothingKept, EvidenceIsTrue, Idle, Off
<1>5. SessionIsCurrent'
  BY <1>2 DEF SessionIsCurrent
<1>6. /\ folder.uvSrc \in Nat /\ folder.uvDst \in Nat
      /\ src.uv \in Nat /\ dst.uv \in Nat
      /\ folder.uvSrc <= src.uv /\ folder.uvDst <= dst.uv
  BY <1>1 DEF IInv, RecordedIsPast, TypeOK, Folder
<1>7. CASE ChurnSource
  <2>1. src'.uv = src.uv + 1 /\ dst' = dst /\ folder.uvSrc # 0
    BY <1>7 DEF ChurnSource
  <2>2. folder'.uvSrc \notin {0, src'.uv}
    BY <1>2, <1>6, <2>1
  <2>3. FingerprintIsCurrent' /\ DoneIsDelivered'
    BY <2>2 DEF FingerprintIsCurrent, DoneIsDelivered, SameEpoch
  <2>4. RecordedIsPast'
    BY <1>2, <1>6, <2>1 DEF RecordedIsPast
  <2> QED
    BY <1>4, <1>5, <2>3, <2>4 DEF IInv
<1>8. CASE ChurnDestination
  <2>1. dst'.uv = dst.uv + 1 /\ src' = src /\ folder.uvDst # 0
    BY <1>1, <1>8 DEF ChurnDestination, TypeOK
  <2>2. folder'.uvDst \notin {0, dst'.uv}
    BY <1>2, <1>6, <2>1
  <2>3. FingerprintIsCurrent' /\ DoneIsDelivered'
    BY <1>2, <2>1, <2>2 DEF IInv, FingerprintIsCurrent, DoneIsDelivered, SameEpoch
  <2>4. RecordedIsPast'
    BY <1>2, <1>6, <2>1 DEF RecordedIsPast
  <2> QED
    BY <1>4, <1>5, <2>3, <2>4 DEF IInv
<1> QED
  BY <1>7, <1>8

-------------------------------------------------------------------------------

LEMMA IInvInit == Init => IInv
<1> SUFFICES ASSUME Init PROVE IInv
  OBVIOUS
<1>1. TypeInv
  BY TypeInit
<1>2. src.uv = 1 /\ folder.uvSrc = 0 /\ folder.uvDst = 0 /\ pc = "idle"
  BY DEF Init
<1>3. rows = [u \in Uid |-> NoRow] /\ plan = {} /\ batch = {} /\ wire = Idle
  BY DEF Init
<1>4. RecordedIsPast /\ SessionIsCurrent
  BY <1>1, <1>2 DEF RecordedIsPast, SessionIsCurrent, TypeInv, TypeOK
<1>5. NothingKept /\ EvidenceIsTrue
  BY <1>3 DEF NothingKept, EvidenceIsTrue, Idle, Off
<1>6. FingerprintIsCurrent /\ DoneIsDelivered
  BY <1>3 DEF FingerprintIsCurrent, DoneIsDelivered, With, NoRow
<1> QED
  BY <1>1, <1>4, <1>5, <1>6 DEF IInv

LEMMA IInvStep ==
  ASSUME ~EarlyChurn
  PROVE  IInv /\ [Next]_vars => IInv'
<1> SUFFICES ASSUME IInv, [Next]_vars PROVE IInv'
  OBVIOUS
<1>1. TypeInv'
  BY TypeStep DEF IInv
<1>2. CASE UNCHANGED vars
  <2>1. SessionMoves
    BY <1>2 DEF SessionMoves, vars, dbVars, passVars, sessVars, memVars
  <2>2. Gentle
    BY <1>2, <2>1, Untouched DEF Gentle, vars, dbVars, passVars, sessVars, memVars
  <2> QED
    BY <1>1, <2>2, GentleKeepsIInv
<1>3. CASE OpenFolder
  BY <1>1, <1>3, OpenFolderKeepsIInv
<1>4. CASE StatusDst
  BY <1>1, <1>4, StatusDstKeepsIInv
<1>5. CASE ChurnSource \/ ChurnDestination
  BY <1>1, <1>5, ChurnKeepsIInv
<1>6. CASE Next /\ ~(OpenFolder \/ StatusDst \/ ChurnSource \/ ChurnDestination)
  <2>1. Gentle
    BY <1>6, CourseIsGentle, CutsAreGentle DEF Next, Step, Server
  <2> QED
    BY <1>1, <2>1, GentleKeepsIInv
<1> QED
  BY <1>2, <1>3, <1>4, <1>5, <1>6

\* A confirmed message is on the destination, under the UID its row names, whatever
\* cuts the sessions short and however late the destination executes an APPEND, as
\* long as no folder is renumbered before its UIDVALIDITY was recorded.
THEOREM ConfirmedIsDelivered ==
  ASSUME ~EarlyChurn
  PROVE  Spec => []DoneIsDelivered
<1>1. Init => IInv
  BY IInvInit
<1>2. IInv /\ [Next]_vars => IInv'
  BY IInvStep
<1>3. IInv => DoneIsDelivered
  BY DEF IInv
<1> QED
  BY <1>1, <1>2, <1>3, PTL DEF Spec

-------------------------------------------------------------------------------
(* The bookkeeping of one session: which rows a pass holds, in which state *)
(* they are on record, and what that makes of rows that are confirmed,     *)
(* given up or left over.                                                  *)

\* The rows a set of done triples is about
Srcs(ts) == {t.src : t \in ts}

\* Rows that are still to be delivered
Open(u) == rows[u].st \in {"planned", "inflight"}

\* From the first pass on
Late == {"transfer", "ladder", "pass", "fail", "recover", "finalize"}

\* Only a pass has APPENDs out and acknowledgements to flush.
NothingPending == pc # "pass" => Pending = {} /\ batch = {}

\* A row of the pass is waiting for its fetch, fetched, sent, acknowledged or
\* failed: one of these, and a pass whose window is empty has fetched everything.
Parted ==
  pc = "pass" =>
    /\ fresh \subseteq win
    /\ todo # {} => win # {}
    /\ todo \union win \union Pending \union Srcs(batch) \union failures
         \subseteq pass.rows
    /\ \A u \in Uid :
         /\ u \in todo => u \notin win \union Pending \union Srcs(batch) \union failures
         /\ u \in win => u \notin Pending \union Srcs(batch) \union failures
         /\ u \in Pending => u \notin Srcs(batch) \union failures
         /\ u \in Srcs(batch) => u \notin failures

\* A row the pass has not marked yet is open; one that may have been sent is on
\* record as in flight; one the pass is through with is confirmed (compact may have
\* deleted it since).
PassRows ==
  pc = "pass" =>
    \A u \in Uid :
      /\ u \in todo \union fresh => Open(u)
      /\ u \in (win \ fresh) \union Pending \union Srcs(batch) \union failures
           => rows[u].st = "inflight"
      /\ u \in pass.rows =>
           \/ u \in todo \union win \union Pending \union Srcs(batch) \union failures
           \/ rows[u].st \in {"done", "none"}

\* permanentFail works on open rows, and has the entry before it marks the row.
FailRows ==
  /\ pc = "fail" => (\A u \in failures : Open(u)) /\ failing \in failures \union {0}
  /\ pc # "fail" => failing = 0
  /\ failing # 0 => failing \in Selected(Uid)

\* What the session counts as copied is confirmed, or about to be flushed; compact
\* may have deleted its row since.
CopiedRows ==
  /\ pc \notin Late => copied = {}
  /\ \A u \in copied : u \in Srcs(batch) \/ rows[u].st \in {"done", "none"}

\* A probe confirms rows that are still open.
PlanRows ==
  /\ plan # {} => pc \in {"readopt", "confirm"}
  /\ \A t \in plan : Open(t.src)

SInv ==
  /\ TypeInv
  /\ NothingPending
  /\ Parted
  /\ PassRows
  /\ FailRows
  /\ CopiedRows
  /\ PlanRows
  /\ FailedCanBeRetried

-------------------------------------------------------------------------------
(* The operators *)

\* The first n >= 1 elements of a set that has elements are not none.
LEMMA FrontHasElements ==
  ASSUME NEW S \in SUBSET Uid, S # {}, NEW n \in Nat \ {0}
  PROVE  Front(S, n) # {}
<1> DEFINE u == Least(S)
<1>1. u \in S
  BY LeastIsElement
<1>2. \A v \in S : u <= v
  BY LeastIsElement
<1> HIDE DEF u
<1>3. \A v \in S : ~ (v < u)
  <2> TAKE v \in S
  <2>1. u \in Nat /\ v \in Nat /\ u <= v
    BY <1>1, <1>2
  <2> QED
    BY <2>1
<1>4. Cardinality({v \in S : v < u}) = 0
  <2>1. {v \in S : v < u} = {}
    BY <1>3
  <2> QED
    BY <2>1, FS_EmptySet
<1> QED
  BY <1>1, <1>4 DEF Front

\* MarkDone confirms every row of its triples that is on record, and no other.
LEMMA MarkDoneStates ==
  ASSUME TypeOK, NEW ts \in SUBSET Triple, NEW u \in Uid
  PROVE  MarkDone(ts)[u].st =
           IF u \in Srcs(ts) /\ rows[u].st # "none" THEN "done" ELSE rows[u].st
BY DEF MarkDone, Srcs, TypeOK

\* MarkState moves the rows of its set that are on record, and no other.
LEMMA MarkStateStates ==
  ASSUME TypeOK, NEW us \in SUBSET Uid, NEW st \in {"planned", "inflight", "failed"},
         NEW u \in Uid
  PROVE  MarkState(us, st)[u].st =
           IF u \in us /\ rows[u].st # "none" THEN st ELSE rows[u].st
<1>1. rows[u] \in Row
  BY DEF TypeOK
<1>2. [rows[u] EXCEPT !.st = st].st = st
  BY <1>1 DEF Row
<1> QED
  BY <1>2 DEF MarkState

\* What a probe matches are rows of the set it was asked about.
LEMMA MatchSources ==
  ASSUME NEW us, NEW r, NEW mail
  PROVE  \A t \in Match(us, r, mail) : t.src \in us
BY DEF Match

\* An acknowledgement adds one row to the batch.
LEMMA SrcsOfOneMore ==
  ASSUME NEW ts, NEW u, NEW d
  PROVE  Srcs(ts \union {[src |-> u, dst |-> d]}) = Srcs(ts) \union {u}
<1> DEFINE t == [src |-> u, dst |-> d]
<1>1. t.src = u
  OBVIOUS
<1> HIDE DEF t
<1>2. Srcs(ts \union {t}) = Srcs(ts) \union {t.src}
  BY DEF Srcs
<1> QED
  BY <1>1, <1>2 DEF t

\* Outside of a pass no answer is awaited.
LEMMA NothingOutside ==
  ASSUME NothingPending, pc # "pass"
  PROVE  Pending = {} /\ Unanswered = {} /\ \A u \in Uid : wire[u].ack = "off"
BY DEF NothingPending, Pending, Unanswered

-------------------------------------------------------------------------------
(* Kinds of steps *)

\* Rows that others than the session have changed: compact forgets confirmed ones,
\* retry-failed plans failed ones.
Disturbed ==
  \A u \in Uid : \/ rows'[u].st = rows[u].st
                 \/ rows[u].st = "done" /\ rows'[u].st = "none"
                 \/ rows[u].st = "failed" /\ rows'[u].st = "planned"

\* The registry entries a command selects stay selected.
EntriesStay == \A u \in Uid : u \in Selected(Uid) => u \in Selected(Uid)'

\* A step that leaves the session's memory alone.
LEMMA OutsideKeepsSession ==
  ASSUME SInv, TypeInv', Disturbed, EntriesStay, UNCHANGED <<pc, plan, passVars>>
  PROVE  SInv'
<1> USE DEF passVars, Disturbed
<1>1. Pending' = Pending /\ Srcs(batch)' = Srcs(batch) /\ Srcs(plan)' = Srcs(plan)
  BY DEF Pending, Srcs
<1>2. \A u \in Uid : /\ Open(u) => Open(u)'
                     /\ rows[u].st = "inflight" => rows'[u].st = "inflight"
                     /\ rows[u].st \in {"done", "none"} => rows'[u].st \in {"done", "none"}
                     /\ rows'[u].st = "failed" => rows[u].st = "failed"
  BY DEF Open
<1>3. NothingPending'
  BY <1>1 DEF SInv, NothingPending
<1>4. Parted'
  BY <1>1 DEF SInv, Parted
<1>5. PassRows'
  BY <1>1, <1>2 DEF SInv, PassRows
<1>6. FailRows'
  BY <1>2 DEF SInv, FailRows, EntriesStay, Selected, TypeInv, TypeOK
<1>7. CopiedRows'
  BY <1>1, <1>2 DEF SInv, CopiedRows, TypeInv, TypeOK
<1>8. PlanRows'
  <2>1. \A t \in plan : t.src \in Uid /\ Open(t.src)
    BY DEF SInv, PlanRows, TypeInv, TypeOK, Triple
  <2>2. \A t \in plan' : Open(t.src)'
    BY <1>2, <2>1
  <2> QED
    BY <2>2 DEF SInv, PlanRows
<1>9. FailedCanBeRetried'
  BY <1>2 DEF SInv, FailedCanBeRetried, With, EntriesStay
<1> QED
  BY <1>3, <1>4, <1>5, <1>6, <1>7, <1>8, <1>9 DEF SInv

\* A step that ends the session forgets all of it.
LEMMA EndKeepsSession ==
  ASSUME SInv, TypeInv', EndSession, registry' = registry,
         \A u \in Uid : rows'[u].st = "failed" => rows[u].st = "failed"
  PROVE  SInv'
<1>1. /\ pc' = "idle" /\ wire' = Idle /\ batch' = {} /\ failing' = 0
      /\ copied' = {} /\ plan' = {}
  BY DEF EndSession
<1>2. (NothingPending /\ Parted /\ PassRows /\ FailRows /\ CopiedRows /\ PlanRows)'
  BY <1>1 DEF NothingPending, Parted, PassRows, FailRows, CopiedRows, PlanRows,
              Pending, Idle, Off
<1>3. FailedCanBeRetried'
  BY DEF SInv, FailedCanBeRetried, With, Selected
<1> QED
  BY <1>2, <1>3 DEF SInv

\* A step between passes: nothing is pending, nothing is failing.
LEMMA BetweenKeepsSession ==
  ASSUME SInv, TypeInv', pc # "pass", pc' \notin {"pass", "fail"},
         UNCHANGED <<wire, batch, copied>>, failing' = 0,
         pc \in Late => pc' \in Late,
         PlanRows', FailedCanBeRetried',
         \A u \in copied : rows'[u].st \in {"done", "none"}
  PROVE  SInv'
<1>1. Pending = {} /\ batch = {}
  BY DEF SInv, NothingPending
<1>2. NothingPending' /\ Parted' /\ PassRows' /\ FailRows'
  BY <1>1 DEF NothingPending, Parted, PassRows, FailRows, Pending
<1>3. CopiedRows'
  BY DEF SInv, CopiedRows
<1> QED
  BY <1>2, <1>3 DEF SInv

-------------------------------------------------------------------------------
(* The steps *)

\* Up to the transfer.
LEMMA SelectKeepsSession ==
  ASSUME SInv, TypeInv',
         \/ OpenFolder \/ StatusDst \/ ReconcileScan \/ ReconcileAdopt \/ ReconcileReplan
         \/ ScanSource \/ InsertChunk \/ RecordSource \/ AdoptScan \/ AdoptConfirm
         \/ RecordDst \/ RecordBracket
  PROVE  SInv'
<1> USE DEF dbVars, passVars, sessVars, memVars
<1>0. TypeOK
  BY DEF SInv, TypeInv
<1>1. UNCHANGED <<registry, wire, batch, copied, failing>>
  BY DEF OpenFolder, StatusDst, ReconcileScan, ReconcileAdopt, ReconcileReplan, ScanSource,
         InsertChunk, RecordSource, AdoptScan, AdoptConfirm, RecordDst, RecordBracket
<1>2. pc \notin Late /\ pc' \notin {"pass", "fail"}
  BY DEF OpenFolder, StatusDst, ReconcileScan, ReconcileAdopt, ReconcileReplan, ScanSource,
         InsertChunk, RecordSource, AdoptScan, AdoptConfirm, RecordDst, RecordBracket, Late
<1>3. copied = {} /\ failing' = 0
  BY <1>1, <1>2 DEF SInv, CopiedRows, FailRows, Late
<1>4. \A u \in Uid : rows'[u].st = "failed" => rows[u].st = "failed"
  <2> TAKE u \in Uid
  <2>1. CASE OpenFolder
    BY <2>1 DEF OpenFolder, NoRow
  <2>2. CASE StatusDst
    BY <1>0, <2>2 DEF StatusDst, ResetRow, TypeOK, Row
  <2>3. CASE ReconcileScan
    BY <1>0, <2>3, FillFpType DEF ReconcileScan, With
  <2>4. CASE ReconcileAdopt
    BY <1>0, <2>4, MarkDoneStates DEF ReconcileAdopt, TypeOK
  <2>5. CASE ReconcileReplan
    BY <1>0, <2>5, MarkStateStates DEF ReconcileReplan, With
  <2>6. CASE InsertChunk
    BY <2>6 DEF InsertChunk, InsertPlanned
  <2>7. CASE AdoptScan
    BY <1>0, <2>7, FillFpType DEF AdoptScan, With
  <2>8. CASE AdoptConfirm
    BY <1>0, <2>8, MarkDoneStates DEF AdoptConfirm, TypeOK
  <2>9. CASE ScanSource \/ RecordSource \/ RecordDst \/ RecordBracket
    BY <2>9 DEF ScanSource, RecordSource, RecordDst, RecordBracket
  <2> QED
    BY <2>1, <2>2, <2>3, <2>4, <2>5, <2>6, <2>7, <2>8, <2>9
<1>5. FailedCanBeRetried'
  BY <1>1, <1>4 DEF SInv, FailedCanBeRetried, With, Selected
<1>6. PlanRows'
  <2>1. CASE ReconcileScan
    <3>1. With("inflight") \in SUBSET Uid
      BY DEF With
    <3>2. \A t \in plan' : t.src \in With("inflight")
      BY <2>1, MatchSources DEF ReconcileScan
    <3>3. \A u \in With("inflight") : rows'[u].st = "inflight"
      BY <1>0, <2>1, <3>1, FillFpType DEF ReconcileScan, With
    <3>4. pc' = "readopt"
      BY <2>1 DEF ReconcileScan
    <3> QED
      BY <3>2, <3>3, <3>4 DEF PlanRows, Open
  <2>2. CASE AdoptScan
    <3>1. With("planned") \in SUBSET Uid
      BY DEF With
    <3>2. \A t \in plan' : t.src \in With("planned")
      BY <2>2, MatchSources DEF AdoptScan
    <3>3. \A u \in With("planned") : rows'[u].st = "planned"
      BY <1>0, <2>2, <3>1, FillFpType DEF AdoptScan, With
    <3>4. pc' = "confirm"
      BY <2>2 DEF AdoptScan
    <3> QED
      BY <3>2, <3>3, <3>4 DEF PlanRows, Open
  <2>3. CASE ~(ReconcileScan \/ AdoptScan)
    <3>1. plan' = {}
      <4>1. plan' = plan \/ plan' = {}
        BY <2>3 DEF OpenFolder, StatusDst, ReconcileAdopt, ReconcileReplan, ScanSource,
              InsertChunk, RecordSource, AdoptConfirm, RecordDst, RecordBracket
      <4>2. pc \in {"readopt", "confirm"} => plan' = {}
        BY <2>3 DEF OpenFolder, StatusDst, ReconcileAdopt, ReconcileReplan, ScanSource,
              InsertChunk, RecordSource, AdoptConfirm, RecordDst, RecordBracket
      <4> QED
        BY <4>1, <4>2 DEF SInv, PlanRows
    <3> QED
      BY <3>1 DEF PlanRows
  <2> QED
    BY <2>1, <2>2, <2>3
<1> QED
  BY <1>1, <1>2, <1>3, <1>5, <1>6, BetweenKeepsSession DEF Late

\* A pass that starts over some open rows.
LEMMA StartKeepsParts ==
  ASSUME NEW us \in SUBSET Uid, us # {}, NEW mode, NEW n, StartPass(us, mode, n),
         Pending' = {}, batch' = {},
         \A u \in us : rows'[u].st \in {"planned", "inflight"}
  PROVE  Parted' /\ PassRows'
<1>1. Front(us, FetchWindow) \subseteq us /\ Front(us, FetchWindow) # {}
  BY FrontIsSubset, FrontHasElements, WindowAssumption
<1>2. /\ pass'.rows = us /\ win' = Front(us, FetchWindow) /\ fresh' = win'
      /\ todo' = us \ win' /\ failures' = {}
  BY DEF StartPass
<1>3. Srcs(batch)' = {}
  BY DEF Srcs
<1>4. Parted'
  BY <1>1, <1>2, <1>3 DEF Parted
<1>5. PassRows'
  BY <1>1, <1>2, <1>3 DEF PassRows, Open
<1> QED
  BY <1>4, <1>5

\* From one pass to the next.
LEMMA LadderKeepsSession ==
  ASSUME SInv, TypeInv',
         \/ StartIsolation \/ LeaveIsolation \/ TakeHint \/ StartBatch \/ AfterFailures
         \/ MarkRecoveries
  PROVE  SInv'
<1> USE DEF dbVars, passVars, sessVars, memVars
<1>0. TypeOK
  BY DEF SInv, TypeInv
<1>1. UNCHANGED <<rows, wire, batch, copied, failing, plan>>
  BY DEF StartIsolation, LeaveIsolation, TakeHint, StartBatch, AfterFailures, MarkRecoveries
<1>2. pc \in Late \ {"pass"} /\ pc' \in Late
  BY DEF StartIsolation, LeaveIsolation, TakeHint, StartBatch, AfterFailures,
         MarkRecoveries, StartPass, Late
<1>3. Pending = {} /\ batch = {} /\ plan = {}
  BY <1>2 DEF SInv, NothingPending, PlanRows, Late
<1>4. failing = 0
  BY <1>0, <1>2, UidAssumption
     DEF SInv, FailRows, Late, StartIsolation, LeaveIsolation, TakeHint, StartBatch,
         AfterFailures, MarkRecoveries
<1>5. PlanRows'
  BY <1>1, <1>3 DEF PlanRows
<1>6. \A u \in copied : rows[u].st \in {"done", "none"}
  BY <1>3 DEF SInv, CopiedRows, Srcs
<1>7. FailedCanBeRetried'
  <2>1. CASE MarkRecoveries
    <3> SUFFICES ASSUME NEW u \in Uid, rows'[u].st = "failed"
                 PROVE  u \in Selected(Uid)'
      BY DEF FailedCanBeRetried, With
    <3>1. rows[u].st = "failed" /\ u \notin copied
      BY <1>1, <1>6
    <3>2. registry'[u] = registry[u]
      BY <2>1, <3>1 DEF MarkRecoveries, MarkRecovered
    <3>3. u \in Selected(Uid)
      BY <3>1 DEF SInv, FailedCanBeRetried, With
    <3> QED
      BY <3>2, <3>3 DEF Selected
  <2>2. CASE registry' = registry
    BY <1>1, <2>2 DEF SInv, FailedCanBeRetried, With, Selected
  <2> QED
    BY <2>1, <2>2 DEF StartIsolation, LeaveIsolation, TakeHint, StartBatch, AfterFailures
<1>8. CASE pc' # "pass"
  <2>1. pc' # "fail"
    BY <1>8 DEF StartIsolation, LeaveIsolation, TakeHint, StartBatch, AfterFailures,
           MarkRecoveries, StartPass
  <2> QED
    BY <1>1, <1>2, <1>4, <1>5, <1>6, <1>7, <1>8, <2>1, BetweenKeepsSession
<1>9. CASE pc' = "pass"
  <2>1. PICK us \in SUBSET Uid, mode \in {"batch", "isolate"} :
          us # {} /\ StartPass(us, mode, 1) /\ us \subseteq With("planned") \union With("inflight")
    <3>1. CASE StartIsolation
      BY <3>1 DEF StartIsolation, With
    <3>2. CASE StartBatch
      BY <1>9, <3>2 DEF StartBatch, With
    <3> QED
      BY <1>9, <3>1, <3>2 DEF LeaveIsolation, TakeHint, AfterFailures, MarkRecoveries
  <2>2. \A u \in us : rows'[u].st \in {"planned", "inflight"}
    BY <1>1, <2>1 DEF With
  <2>3. Pending' = {} /\ batch' = {}
    BY <1>1, <1>3 DEF Pending
  <2>4. Parted' /\ PassRows'
    BY <2>1, <2>2, <2>3, StartKeepsParts
  <2>5. FailRows' /\ NothingPending'
    BY <1>1, <1>4, <1>9 DEF FailRows, NothingPending
  <2>6. CopiedRows'
    BY <1>1, <1>6, <1>9 DEF CopiedRows, Late
  <2> QED
    BY <1>5, <1>7, <2>4, <2>5, <2>6 DEF SInv
<1> QED
  BY <1>8, <1>9

\* Inside a pass only the pass changes.
LEMMA InsideKeepsSession ==
  ASSUME SInv, TypeInv', pc = "pass", pc' = "pass", UNCHANGED <<registry, plan, failing>>,
         \A u \in Uid : rows'[u].st = "failed" => rows[u].st = "failed",
         Parted', PassRows',
         \A u \in copied' : u \in Srcs(batch)' \/ rows'[u].st \in {"done", "none"}
  PROVE  SInv'
<1>1. plan = {} /\ failing = 0
  BY DEF SInv, PlanRows, FailRows
<1>2. NothingPending' /\ FailRows' /\ CopiedRows' /\ PlanRows'
  BY <1>1 DEF NothingPending, FailRows, CopiedRows, PlanRows, Late
<1>3. FailedCanBeRetried'
  BY DEF SInv, FailedCanBeRetried, With, Selected
<1> QED
  BY <1>2, <1>3 DEF SInv

\* Marking intents and streaming.
LEMMA StreamKeepsSession ==
  ASSUME SInv, TypeInv', MarkIntent \/ Stream \/ StreamKicked
  PROVE  SInv'
<1> USE DEF dbVars, passVars, sessVars, memVars
<1>0. TypeOK
  BY DEF SInv, TypeInv
<1>1. pc = "pass" /\ pc' = "pass" /\ UNCHANGED <<registry, plan, failing, batch, copied>>
  BY DEF MarkIntent, Stream, StreamKicked
<1>2. Srcs(batch)' = Srcs(batch)
  BY <1>1 DEF Srcs
<1>3. /\ fresh \subseteq win
      /\ todo # {} => win # {}
      /\ todo \union win \union Pending \union Srcs(batch) \union failures
           \subseteq pass.rows
      /\ \A u \in Uid :
           /\ u \in todo => u \notin win \union Pending \union Srcs(batch) \union failures
           /\ u \in win => u \notin Pending \union Srcs(batch) \union failures
           /\ u \in Pending => u \notin Srcs(batch) \union failures
           /\ u \in Srcs(batch) => u \notin failures
  BY <1>1 DEF SInv, Parted
<1>4. \A u \in Uid :
        /\ u \in todo \union fresh => rows[u].st \in {"planned", "inflight"}
        /\ u \in (win \ fresh) \union Pending \union Srcs(batch) \union failures
             => rows[u].st = "inflight"
        /\ u \in pass.rows =>
             \/ u \in todo \union win \union Pending \union Srcs(batch) \union failures
             \/ rows[u].st \in {"done", "none"}
  BY <1>1 DEF SInv, PassRows, Open
<1>5. \A u \in copied : u \in Srcs(batch) \/ rows[u].st \in {"done", "none"}
  BY DEF SInv, CopiedRows
<1>6. todo \subseteq Uid /\ win \subseteq Uid /\ fresh \subseteq Uid
  BY <1>0 DEF TypeOK
<1>7. CASE MarkIntent
  <2>1. UNCHANGED <<pass, todo, win, wire, failures>> /\ fresh' = {}
    BY <1>7 DEF MarkIntent
  <2>2. Pending' = Pending
    BY <2>1 DEF Pending
  <2>3. \A u \in Uid : rows'[u].st = IF u \in fresh /\ rows[u].st # "none"
                                     THEN "inflight" ELSE rows[u].st
    BY <1>0, <1>6, <1>7, MarkStateStates DEF MarkIntent
  <2>4. Parted'
    BY <1>2, <1>3, <2>1, <2>2 DEF Parted
  <2>5. PassRows'
    BY <1>2, <1>3, <1>4, <2>1, <2>2, <2>3 DEF PassRows, Open
  <2>6. \A u \in copied : u \in Srcs(batch) \/ rows'[u].st \in {"done", "none"}
    <3> SUFFICES ASSUME NEW u \in copied, u \notin Srcs(batch)
                 PROVE  rows'[u].st \in {"done", "none"}
      OBVIOUS
    <3>1. u \in Uid /\ rows[u].st \in {"done", "none"}
      BY <1>0, <1>5 DEF TypeOK
    <3>2. u \notin fresh
      BY <1>4, <3>1
    <3> QED
      BY <2>3, <3>1, <3>2
  <2> QED
    BY <1>1, <1>2, <2>3, <2>4, <2>5, <2>6, InsideKeepsSession
<1>8. CASE Stream
  <2> DEFINE u    == Least(win)
             more == IF todo = {} THEN {} ELSE {Least(todo)}
  <2>1. /\ UNCHANGED <<rows, pass, failures>> /\ fresh = {} /\ win # {}
        /\ win' = (win \ {u}) \union more
        /\ fresh' = fresh \union more
        /\ todo' = todo \ more
        /\ wire' = [wire EXCEPT ![u] = [ack |-> "sent", dst |-> 0]]
    BY <1>8 DEF Stream, IntentsRecorded
  <2>2. u \in win /\ more \subseteq todo /\ (todo # {} => more # {})
    BY <1>6, <2>1, LeastIsElement
  <2> HIDE DEF u, more
  <2>3. Pending' = Pending \union {u}
    BY <1>0, <1>6, <2>1, <2>2 DEF Pending, TypeOK
  <2>4. Parted'
    BY <1>2, <1>3, <1>6, <2>1, <2>2, <2>3 DEF Parted
  <2>5. PassRows'
    BY <1>2, <1>3, <1>4, <1>6, <2>1, <2>2, <2>3 DEF PassRows, Open
  <2> QED
    BY <1>1, <1>2, <1>5, <2>1, <2>4, <2>5, InsideKeepsSession
<1>9. CASE StreamKicked
  <2> DEFINE u == Least(win)
  <2>1. /\ UNCHANGED <<rows, pass, todo, fresh, wire>> /\ fresh = {} /\ win # {} /\ todo = {}
        /\ win' = win \ {u}
        /\ failures' = failures \union {u}
    BY <1>9 DEF StreamKicked
  <2>2. u \in win
    BY <1>6, <2>1, LeastIsElement
  <2> HIDE DEF u
  <2>3. Pending' = Pending
    BY <2>1 DEF Pending
  <2>4. Parted'
    BY <1>2, <1>3, <1>6, <2>1, <2>2, <2>3 DEF Parted
  <2>5. PassRows'
    BY <1>2, <1>3, <1>4, <1>6, <2>1, <2>2, <2>3 DEF PassRows, Open
  <2> QED
    BY <1>1, <1>2, <1>5, <2>1, <2>4, <2>5, InsideKeepsSession
<1> QED
  BY <1>7, <1>8, <1>9

\* Answers, lost answers, and what settles them.
LEMMA AnswersKeepSession ==
  ASSUME SInv, TypeInv', Settle \/ TimedFlush \/ ServerAppend \/ ServerRefuse \/ Kick
  PROVE  SInv'
<1> USE DEF dbVars, passVars, sessVars, memVars
<1>0. TypeOK
  BY DEF SInv, TypeInv
<1>1. pc = "pass" /\ pc' = "pass" /\ UNCHANGED <<registry, plan, failing, pass, todo, win, fresh>>
  <2>1. Unanswered # {} => pc = "pass"
    BY NothingOutside DEF SInv
  <2> QED
    BY <2>1 DEF Settle, TimedFlush, ServerAppend, ServerRefuse, Kick
<1>3. /\ fresh \subseteq win
      /\ todo # {} => win # {}
      /\ todo \union win \union Pending \union Srcs(batch) \union failures
           \subseteq pass.rows
      /\ \A u \in Uid :
           /\ u \in todo => u \notin win \union Pending \union Srcs(batch) \union failures
           /\ u \in win => u \notin Pending \union Srcs(batch) \union failures
           /\ u \in Pending => u \notin Srcs(batch) \union failures
           /\ u \in Srcs(batch) => u \notin failures
  BY <1>1 DEF SInv, Parted
<1>4. \A u \in Uid :
        /\ u \in todo \union fresh => rows[u].st \in {"planned", "inflight"}
        /\ u \in (win \ fresh) \union Pending \union Srcs(batch) \union failures
             => rows[u].st = "inflight"
        /\ u \in pass.rows =>
             \/ u \in todo \union win \union Pending \union Srcs(batch) \union failures
             \/ rows[u].st \in {"done", "none"}
  BY <1>1 DEF SInv, PassRows, Open
<1>5. \A u \in copied : u \in Srcs(batch) \/ rows[u].st \in {"done", "none"}
  BY DEF SInv, CopiedRows
<1>6. todo \subseteq Uid /\ win \subseteq Uid /\ fresh \subseteq Uid
  BY <1>0 DEF TypeOK
<1>7. CASE Settle
  <2> DEFINE u == Least(Pending)
  <2>1. Pending \in SUBSET Uid /\ Pending # {}
    BY <1>7 DEF Settle, Pending
  <2>2. u \in Pending /\ u \in Uid
    BY <2>1, LeastIsElement
  <2>3. /\ rows' = rows /\ wire' = [wire EXCEPT ![u] = Off]
        /\ \/ /\ batch' = batch \union {[src |-> u, dst |-> wire[u].dst]}
              /\ copied' = copied \union {u}
              /\ failures' = failures
           \/ /\ failures' = failures \union {u}
              /\ UNCHANGED <<batch, copied>>
    BY <1>7 DEF Settle
  <2> HIDE DEF u
  <2>4. Pending' = Pending \ {u}
    BY <1>0, <2>2, <2>3 DEF Pending, TypeOK, Off
  <2>5. CASE /\ batch' = batch \union {[src |-> u, dst |-> wire[u].dst]}
             /\ copied' = copied \union {u}
             /\ failures' = failures
    <3>1. Srcs(batch)' = Srcs(batch) \union {u}
      BY <2>5, SrcsOfOneMore DEF Srcs
    <3>2. Parted'
      BY <1>1, <1>3, <1>6, <2>2, <2>4, <2>5, <3>1 DEF Parted
    <3>3. PassRows'
      BY <1>1, <1>3, <1>4, <1>6, <2>2, <2>3, <2>4, <2>5, <3>1 DEF PassRows, Open
    <3> QED
      BY <1>1, <1>5, <2>3, <2>5, <3>1, <3>2, <3>3, InsideKeepsSession
  <2>6. CASE failures' = failures \union {u} /\ UNCHANGED <<batch, copied>>
    <3>1. Srcs(batch)' = Srcs(batch)
      BY <2>6 DEF Srcs
    <3>2. Parted'
      BY <1>1, <1>3, <1>6, <2>2, <2>4, <2>6, <3>1 DEF Parted
    <3>3. PassRows'
      BY <1>1, <1>3, <1>4, <1>6, <2>2, <2>3, <2>4, <2>6, <3>1 DEF PassRows, Open
    <3> QED
      BY <1>1, <1>5, <2>3, <2>6, <3>1, <3>2, <3>3, InsideKeepsSession
  <2> QED
    BY <2>3, <2>5, <2>6
<1>8. CASE TimedFlush
  <2>1. UNCHANGED <<wire, failures, copied>> /\ batch' = {} /\ batch \in SUBSET Triple
    BY <1>0, <1>8 DEF TimedFlush, TypeOK
  <2>2. Pending' = Pending /\ Srcs(batch)' = {}
    BY <2>1 DEF Pending, Srcs
  <2>3. \A u \in Uid : rows'[u].st = IF u \in Srcs(batch) /\ rows[u].st # "none"
                                     THEN "done" ELSE rows[u].st
    BY <1>0, <1>8, <2>1, MarkDoneStates DEF TimedFlush
  <2>4. Parted'
    BY <1>1, <1>3, <2>1, <2>2 DEF Parted
  <2>5. PassRows'
    BY <1>1, <1>3, <1>4, <2>1, <2>2, <2>3 DEF PassRows, Open
  <2>6. \A u \in copied : rows'[u].st \in {"done", "none"}
    BY <1>0, <1>5, <2>3 DEF TypeOK
  <2> QED
    BY <1>1, <2>1, <2>3, <2>4, <2>5, <2>6, InsideKeepsSession
<1>9. CASE ServerAppend \/ ServerRefuse \/ Kick
  <2>1. UNCHANGED <<rows, batch, failures, copied>>
    BY <1>9 DEF ServerAppend, ServerRefuse, Kick
  <2>2. \A u \in Uid : wire'[u].ack = "off" <=> wire[u].ack = "off"
    <3>1. CASE ServerAppend
      <4>1. Least(Unanswered) \in Unanswered
        <5>1. Unanswered # {} /\ Unanswered \in SUBSET Uid
          BY <3>1 DEF ServerAppend, Unanswered
        <5> QED
          BY <5>1, LeastIsElement
      <4> QED
        BY <1>0, <3>1, <4>1 DEF ServerAppend, Unanswered, TypeOK
    <3>2. CASE ServerRefuse
      <4>1. Least(Unanswered) \in Unanswered
        <5>1. Unanswered # {} /\ Unanswered \in SUBSET Uid
          BY <3>2 DEF ServerRefuse, Unanswered
        <5> QED
          BY <5>1, LeastIsElement
      <4> QED
        BY <1>0, <3>2, <4>1 DEF ServerRefuse, Unanswered, TypeOK, Ack
    <3>3. CASE Kick
      BY <1>0, <3>3 DEF Kick, Pending, TypeOK
    <3> QED
      BY <1>9, <3>1, <3>2, <3>3
  <2>3. Pending' = Pending /\ Srcs(batch)' = Srcs(batch)
    BY <2>1, <2>2 DEF Pending, Srcs
  <2>4. Parted'
    BY <1>1, <1>3, <2>1, <2>3 DEF Parted
  <2>5. PassRows'
    BY <1>1, <1>3, <1>4, <2>1, <2>3 DEF PassRows, Open
  <2> QED
    BY <1>1, <1>5, <2>1, <2>3, <2>4, <2>5, InsideKeepsSession
<1> QED
  BY <1>7, <1>8, <1>9

\* The end of a pass: another one over what failed, permanentFail, or neither.
LEMMA EndPassKeepsSession ==
  ASSUME SInv, TypeInv', EndPass
  PROVE  SInv'
<1> USE DEF dbVars, passVars, sessVars, memVars
<1>0. TypeOK
  BY DEF SInv, TypeInv
<1>1. /\ pc = "pass" /\ UNCHANGED <<registry, plan, failing, wire, copied>>
      /\ Pending = {} /\ batch' = {} /\ batch \in SUBSET Triple
  BY <1>0 DEF EndPass, TypeOK
<1>2. \A u \in Uid : rows'[u].st = IF u \in Srcs(batch) /\ rows[u].st # "none"
                                   THEN "done" ELSE rows[u].st
  BY <1>0, <1>1, MarkDoneStates DEF EndPass
<1>3. plan = {} /\ failing = 0
  BY <1>1 DEF SInv, PlanRows, FailRows
<1>4. \A u \in failures : u \in Uid /\ rows'[u].st = "inflight"
  BY <1>0, <1>1, <1>2 DEF SInv, Parted, PassRows, TypeOK
<1>5. Pending' = {} /\ Srcs(batch)' = {}
  BY <1>1 DEF Pending, Srcs
<1>7. \A u \in copied : rows'[u].st \in {"done", "none"}
  BY <1>0, <1>2 DEF SInv, CopiedRows, TypeOK
<1>8. FailedCanBeRetried'
  BY <1>1, <1>2 DEF SInv, FailedCanBeRetried, With, Selected
<1>9. PlanRows'
  BY <1>1, <1>3 DEF PlanRows
<1>10. CASE StartPass(failures, "batch", pass.n + 1) /\ failures # {}
  <2>1. pc' = "pass" /\ failures \in SUBSET Uid
    BY <1>0, <1>10 DEF StartPass, TypeOK
  <2>2. Parted' /\ PassRows'
    BY <1>1, <1>4, <1>5, <1>10, <2>1, StartKeepsParts
  <2>3. \A u \in Uid : rows'[u].st = "failed" => rows[u].st = "failed"
    BY <1>2
  <2> QED
    BY <1>1, <1>7, <2>1, <2>2, <2>3, InsideKeepsSession
<1>11. CASE pc' \in {"recover", "fail"} /\ failures' \subseteq failures
  <2>1. NothingPending' /\ Parted' /\ PassRows'
    BY <1>1, <1>5, <1>11 DEF NothingPending, Parted, PassRows
  <2>2. CopiedRows'
    BY <1>1, <1>7, <1>11 DEF CopiedRows, Late
  <2>3. FailRows'
    BY <1>1, <1>3, <1>4, <1>11 DEF FailRows, Open
  <2> QED
    BY <1>8, <1>9, <2>1, <2>2, <2>3 DEF SInv
<1>12. \/ StartPass(failures, "batch", pass.n + 1) /\ failures # {}
       \/ pc' \in {"recover", "fail"} /\ failures' \subseteq failures
  BY DEF EndPass
<1> QED
  BY <1>10, <1>11, <1>12

\* The last try of a single loses the connection: the row goes to permanentFail.
LEMMA LoseOnSingleKeepsSession ==
  ASSUME SInv, TypeInv', LoseOnSingle
  PROVE  SInv'
<1> USE DEF dbVars, passVars, sessVars, memVars
<1>0. TypeOK
  BY DEF SInv, TypeInv
<1>1. /\ pc = "pass" /\ pc' = "fail" /\ failures' = pass.rows /\ wire' = Idle
      /\ UNCHANGED <<rows, registry, plan, failing, batch, copied>>
      /\ win # {} \/ Pending # {}
      /\ Cardinality(pass.rows) = 1
  BY DEF LoseOnSingle
<1>2. PICK x \in pass.rows : pass.rows = {x}
  <2>1. IsFiniteSet(pass.rows)
    BY <1>0, FS_Subset DEF TypeOK, Pass
  <2> QED
    BY <1>1, <2>1, FS_Singleton
<1>3. /\ todo \union win \union Pending \union Srcs(batch) \union failures
           \subseteq pass.rows
      /\ fresh \subseteq win
      /\ \A u \in Uid :
           /\ u \in win => u \notin Pending \union Srcs(batch) \union failures
           /\ u \in Pending => u \notin Srcs(batch) \union failures
  BY <1>1 DEF SInv, Parted
<1>4. x \in Uid /\ x \in win \union Pending
  BY <1>0, <1>1, <1>2, <1>3 DEF TypeOK, Pass
<1>5. Srcs(batch) = {}
  BY <1>2, <1>3, <1>4
<1>6. batch = {}
  <2>1. \A t \in batch : t.src \in Srcs(batch)
    BY DEF Srcs
  <2> QED
    BY <1>5, <2>1
<1>7. rows[x].st \in {"planned", "inflight"}
  <2>1. x \in fresh => Open(x)
    BY <1>1, <1>4 DEF SInv, PassRows
  <2>2. x \notin fresh => rows[x].st = "inflight"
    BY <1>1, <1>4 DEF SInv, PassRows
  <2> QED
    BY <2>1, <2>2 DEF Open
<1>8. plan = {} /\ failing = 0
  BY <1>1 DEF SInv, PlanRows, FailRows
<1>9. NothingPending' /\ Parted' /\ PassRows' /\ PlanRows'
  BY <1>1, <1>6, <1>8 DEF NothingPending, Parted, PassRows, PlanRows, Pending, Idle, Off
<1>10. FailRows'
  BY <1>1, <1>2, <1>7, <1>8 DEF FailRows, Open
<1>11. CopiedRows'
  BY <1>1 DEF SInv, CopiedRows, Late, Srcs
<1>12. FailedCanBeRetried'
  BY <1>1 DEF SInv, FailedCanBeRetried, With, Selected
<1> QED
  BY <1>9, <1>10, <1>11, <1>12 DEF SInv

\* permanentFail: the entry, then the row.
LEMMA FailKeepsSession ==
  ASSUME SInv, TypeInv', RecordFailed \/ MarkFailed
  PROVE  SInv'
<1> USE DEF dbVars, passVars, sessVars, memVars
<1>0. TypeOK
  BY DEF SInv, TypeInv
<1>1. pc = "fail" /\ pc' = "fail" /\ UNCHANGED <<wire, batch, copied, plan>>
  BY DEF RecordFailed, MarkFailed
<1>2. /\ Pending = {} /\ batch = {} /\ plan = {} /\ \A u \in failures : Open(u)
      /\ failing \in failures \union {0}
  BY <1>1 DEF SInv, NothingPending, PlanRows, FailRows
<1>3. NothingPending' /\ Parted' /\ PassRows' /\ PlanRows'
  BY <1>1, <1>2 DEF NothingPending, Parted, PassRows, PlanRows, Pending
<1>4. \A u \in copied : rows[u].st \in {"done", "none"}
  BY <1>2 DEF SInv, CopiedRows, Srcs
<1>5. CASE RecordFailed
  <2>1. /\ rows' = rows /\ failures' = failures /\ failures \in SUBSET Uid
        /\ failures # {} /\ failing' = Least(failures)
        /\ registry' = [registry EXCEPT ![Least(failures)] = "FAILED"]
    BY <1>0, <1>5 DEF RecordFailed, Entry, TypeOK
  <2>2. failing' \in failures /\ failing' \in Uid
    BY <2>1, LeastIsElement
  <2>3. \A u \in Uid : u \in Selected(Uid) \/ u = failing' => u \in Selected(Uid)'
    BY <1>0, <2>1, <2>2 DEF Selected, TypeOK
  <2>4. FailRows'
    BY <1>1, <1>2, <2>1, <2>2, <2>3 DEF FailRows, Open
  <2>5. CopiedRows'
    BY <1>1, <1>4, <2>1 DEF CopiedRows, Late
  <2>6. FailedCanBeRetried'
    BY <2>1, <2>3 DEF SInv, FailedCanBeRetried, With
  <2> QED
    BY <1>3, <2>4, <2>5, <2>6 DEF SInv
<1>6. CASE MarkFailed
  <2>1. /\ rows' = MarkState({failing}, "failed") /\ failures' = failures \ {failing}
        /\ failing' = 0 /\ registry' = registry /\ failing # 0
    BY <1>6 DEF MarkFailed
  <2>2. failing \in Uid /\ failing \in failures /\ failing \in Selected(Uid)
    BY <1>0, <1>2, <2>1 DEF SInv, FailRows, TypeOK
  <2>3. \A u \in Uid : rows'[u].st = IF u = failing /\ rows[u].st # "none"
                                     THEN "failed" ELSE rows[u].st
    BY <1>0, <2>1, <2>2, MarkStateStates
  <2>4. FailRows'
    <3>1. \A u \in failures' : Open(u)'
      BY <1>0, <1>2, <2>1, <2>3 DEF Open, TypeOK
    <3> QED
      BY <1>1, <2>1, <3>1 DEF FailRows
  <2>5. CopiedRows'
    <3>1. \A u \in copied : u # failing
      BY <1>2, <1>4, <2>2 DEF Open
    <3>2. \A u \in copied : rows'[u].st \in {"done", "none"}
      BY <1>0, <1>4, <2>3, <3>1 DEF TypeOK
    <3> QED
      BY <1>1, <3>2 DEF CopiedRows, Late
  <2>6. FailedCanBeRetried'
    BY <2>1, <2>2, <2>3 DEF SInv, FailedCanBeRetried, With, Selected
  <2> QED
    BY <1>3, <2>4, <2>5, <2>6 DEF SInv
<1> QED
  BY <1>5, <1>6

\* Whatever ends a session.
LEMMA EndsKeepSession ==
  ASSUME SInv, TypeInv',
         \/ Finalize \/ LoseConnection \/ RefuseLiteral \/ Hangup \/ Unwind \/ Stop \/ Crash
  PROVE  SInv'
<1> USE DEF dbVars, passVars, sessVars, memVars
<1>0. TypeOK /\ batch \in SUBSET Triple
  BY DEF SInv, TypeInv, TypeOK
<1>1. EndSession /\ registry' = registry /\ (rows' = rows \/ rows' = MarkDone(batch))
  BY DEF Finalize, LoseConnection, RefuseLiteral, Hangup, Unwind, Stop, Crash
<1>2. \A u \in Uid : MarkDone(batch)[u].st = "failed" => rows[u].st = "failed"
  BY <1>0, MarkDoneStates
<1> QED
  BY <1>1, <1>2, EndKeepsSession

\* The servers, the operator and the folders' owners.
LEMMA OthersKeepSession ==
  ASSUME SInv, TypeInv',
         \/ ServerLate \/ ChurnSource \/ ChurnDestination \/ RetryFailed
         \/ MarkPending \/ Replan \/ CommandEnds \/ IgnoreFailed \/ Compact
  PROVE  SInv'
<1> USE DEF dbVars, passVars, sessVars, memVars
<1>0. TypeOK
  BY DEF SInv, TypeInv
<1>1. UNCHANGED <<pc, plan, passVars>>
  BY DEF ServerLate, ChurnSource, ChurnDestination, RetryFailed, MarkPending, Replan,
         CommandEnds, IgnoreFailed, Compact
<1>2. Disturbed
  <2>1. CASE Replan
    <3> DEFINE v == Least(command.keys)
    <3>1. command.keys \in SUBSET Uid /\ command.keys # {}
      BY <1>0, <2>1 DEF Replan, TypeOK, Command
    <3>2. v \in Uid
      BY <3>1, LeastIsElement
    <3>3. rows' = IF rows[v].st = "failed" THEN MarkState({v}, "planned") ELSE rows
      BY <2>1 DEF Replan
    <3> HIDE DEF v
    <3>4. CASE rows[v].st = "failed"
      <4>1. \A u \in Uid : rows'[u].st = IF u = v /\ rows[u].st # "none"
                                         THEN "planned" ELSE rows[u].st
        BY <1>0, <3>2, <3>3, <3>4, MarkStateStates
      <4> QED
        BY <3>4, <4>1 DEF Disturbed
    <3>5. CASE rows[v].st # "failed"
      BY <3>3, <3>5 DEF Disturbed
    <3> QED
      BY <3>4, <3>5
  <2>2. CASE Compact
    BY <1>0, <2>2 DEF Compact, Disturbed, NoRow, TypeOK
  <2>3. CASE rows' = rows
    BY <2>3 DEF Disturbed
  <2> QED
    BY <2>1, <2>2, <2>3 DEF ServerLate, ChurnSource, ChurnDestination, RetryFailed,
          MarkPending, CommandEnds, IgnoreFailed
<1>3. EntriesStay
  <2>1. CASE registry' = registry
    BY <2>1 DEF EntriesStay, Selected
  <2>2. CASE MarkPending
    BY <1>0, <2>2 DEF MarkPending, EntriesStay, Selected, TypeOK
  <2>3. CASE IgnoreFailed
    BY <1>0, <2>3 DEF IgnoreFailed, EntriesStay, Selected, TypeOK
  <2> QED
    BY <2>1, <2>2, <2>3 DEF ServerLate, ChurnSource, ChurnDestination, RetryFailed,
          Replan, CommandEnds, Compact
<1> QED
  BY <1>1, <1>2, <1>3, OutsideKeepsSession

-------------------------------------------------------------------------------

LEMMA SInvInit == Init => SInv
<1> SUFFICES ASSUME Init PROVE SInv
  OBVIOUS
<1>1. /\ pc = "idle" /\ wire = Idle /\ batch = {} /\ failing = 0 /\ copied = {} /\ plan = {}
      /\ rows = [u \in Uid |-> NoRow]
  BY DEF Init
<1>2. NothingPending /\ Parted /\ PassRows /\ FailRows /\ CopiedRows /\ PlanRows
  BY <1>1 DEF NothingPending, Parted, PassRows, FailRows, CopiedRows, PlanRows,
              Pending, Idle, Off
<1>3. FailedCanBeRetried
  BY <1>1 DEF FailedCanBeRetried, With, NoRow
<1> QED
  BY <1>2, <1>3, TypeInit DEF SInv

LEMMA SInvStep == SInv /\ [Next]_vars => SInv'
<1> SUFFICES ASSUME SInv, [Next]_vars PROVE SInv'
  OBVIOUS
<1>1. TypeInv'
  BY TypeStep DEF SInv
<1>2. CASE UNCHANGED vars
  BY <1>1, <1>2, OutsideKeepsSession
     DEF vars, dbVars, passVars, sessVars, memVars, Disturbed, EntriesStay, Selected
<1>3. CASE Next
  BY <1>1, <1>3, SelectKeepsSession, LadderKeepsSession, StreamKeepsSession,
     AnswersKeepSession, EndPassKeepsSession, LoseOnSingleKeepsSession, FailKeepsSession,
     EndsKeepSession, OthersKeepSession DEF Next, Step, Server
<1> QED
  BY <1>2, <1>3

LEMMA SessionInvariant == Spec => []SInv
BY SInvInit, SInvStep, PTL DEF Spec

-------------------------------------------------------------------------------

\* While the fate of an APPEND is open its row is on record as in flight, however
\* passes, retries, kicks, commands of the operator and renumberings interleave: no
\* session can end with an APPEND out that the next one does not reconcile.
THEOREM IntentIsOnRecord == Spec => []IntentCoversAppend
<1>1. SInv => IntentCoversAppend
  <2> SUFFICES ASSUME SInv, NEW u \in Uid,
                      u \in Pending \/ u \in Srcs(batch)
               PROVE  rows[u].st = "inflight"
    BY DEF IntentCoversAppend, Pending, Srcs
  <2>1. pc = "pass"
    BY NothingOutside DEF SInv, NothingPending, Srcs
  <2> QED
    BY <2>1 DEF SInv, PassRows
<1> QED
  BY <1>1, SessionInvariant, PTL

\* A failed message always has a registry entry that retry-failed selects, also when
\* an earlier failure of it was recovered in between, when the operator queues it
\* again while the session fails it, or when the session dies between the entry and
\* the row.
THEOREM FailedIsSelected == Spec => []FailedCanBeRetried
<1>1. SInv => FailedCanBeRetried
  BY DEF SInv
<1> QED
  BY <1>1, SessionInvariant, PTL

-------------------------------------------------------------------------------
(* Confirmed mail stays confirmed *)

\* A probe or a flush does not touch a row that is confirmed already: its triples
\* are about rows that are open.
LEMMA ConfirmedIsNotConfirmedAgain ==
  ASSUME SInv, NEW u \in Uid, rows[u].st = "done"
  PROVE  MarkDone(plan)[u] = rows[u] /\ MarkDone(batch)[u] = rows[u]
<1>1. TypeOK
  BY DEF SInv, TypeInv
<1>2. \A t \in plan : t.src # u
  BY DEF SInv, PlanRows, Open
<1>3. \A t \in batch : t.src # u
  <2>1. pc # "pass" => batch = {}
    BY DEF SInv, NothingPending
  <2>2. pc = "pass" => u \notin Srcs(batch)
    BY DEF SInv, PassRows
  <2> QED
    BY <2>1, <2>2 DEF Srcs
<1> QED
  BY <1>1, <1>2, <1>3 DEF MarkDone, TypeOK

\* Each step, but for compact.
LEMMA ConfirmedStaysStep ==
  ASSUME SInv, [Next]_vars, ~Compact, NEW u \in Uid, rows[u].st = "done"
  PROVE  \/ rows'[u].st = "done" /\ rows'[u].dst = rows[u].dst
         \/ folder.uvSrc # src.uv \/ folder.uvDst # dst.uv
<1> USE DEF dbVars, passVars, sessVars, memVars
<1>0. TypeOK
  BY DEF SInv, TypeInv
<1>1. CASE OpenFolder
  BY <1>1 DEF OpenFolder, SrcChurned
<1>2. CASE StatusDst
  BY <1>0, <1>2 DEF StatusDst, DstChurned, TypeOK
<1>3. CASE rows' = rows
  BY <1>3
<1>4. CASE rows' = MarkDone(plan) \/ rows' = MarkDone(batch)
  BY <1>4, ConfirmedIsNotConfirmedAgain
<1>5. CASE \E us \in SUBSET Uid : rows' = FillFp(us)
  BY <1>0, <1>5, FillFpType
<1>6. CASE \E us \in SUBSET Uid, st \in {"planned", "inflight", "failed"} :
             u \notin us /\ rows' = MarkState(us, st)
  BY <1>6 DEF MarkState
<1>7. CASE InsertChunk
  BY <1>7 DEF InsertChunk, InsertPlanned
<1>8. ReconcileScan \/ AdoptScan => \E us \in SUBSET Uid : rows' = FillFp(us)
  <2>1. With("planned") \in SUBSET Uid /\ With("inflight") \in SUBSET Uid
    BY DEF With
  <2> QED
    BY <2>1 DEF ReconcileScan, AdoptScan
<1>9. ReconcileReplan \/ MarkIntent \/ MarkFailed \/ Replan =>
        \/ rows' = rows
        \/ \E us \in SUBSET Uid, st \in {"planned", "inflight", "failed"} :
             u \notin us /\ rows' = MarkState(us, st)
  <2>1. CASE ReconcileReplan
    <3>1. With("inflight") \in SUBSET Uid /\ u \notin With("inflight")
      BY DEF With
    <3> QED
      BY <2>1, <3>1 DEF ReconcileReplan
  <2>2. CASE MarkIntent
    <3>1. fresh \in SUBSET Uid /\ u \notin fresh
      BY <1>0, <2>2 DEF MarkIntent, SInv, PassRows, Open, TypeOK
    <3> QED
      BY <2>2, <3>1 DEF MarkIntent
  <2>3. CASE MarkFailed
    <3>1. failing \in Uid /\ failing # u
      BY <1>0, <2>3 DEF MarkFailed, SInv, FailRows, Open, TypeOK
    <3> QED
      BY <2>3, <3>1 DEF MarkFailed
  <2>4. CASE Replan
    <3> DEFINE v == Least(command.keys)
    <3>1. command.keys \in SUBSET Uid /\ command.keys # {}
      BY <1>0, <2>4 DEF Replan, TypeOK, Command
    <3>2. v \in Uid
      BY <3>1, LeastIsElement
    <3>3. rows' = IF rows[v].st = "failed" THEN MarkState({v}, "planned") ELSE rows
      BY <2>4 DEF Replan
    <3> HIDE DEF v
    <3> QED
      BY <3>2, <3>3
  <2> QED
    BY <2>1, <2>2, <2>3, <2>4
<1>10. ReconcileAdopt \/ AdoptConfirm \/ TimedFlush \/ EndPass \/ LoseConnection
       \/ RefuseLiteral \/ Unwind \/ Stop =>
         rows' = MarkDone(plan) \/ rows' = MarkDone(batch)
  BY DEF ReconcileAdopt, AdoptConfirm, TimedFlush, EndPass, LoseConnection, RefuseLiteral,
         Unwind, Stop
<1>11. \/ ScanSource \/ RecordSource \/ RecordDst \/ RecordBracket \/ StartIsolation
       \/ LeaveIsolation \/ TakeHint \/ StartBatch \/ Stream \/ StreamKicked \/ Settle
       \/ RecordFailed \/ AfterFailures \/ MarkRecoveries \/ Finalize \/ Hangup
       => rows' = rows
  BY DEF ScanSource, RecordSource, RecordDst, RecordBracket, StartIsolation, LeaveIsolation,
         TakeHint, StartBatch, Stream, StreamKicked, Settle, RecordFailed, AfterFailures,
         MarkRecoveries, Finalize, Hangup
<1>12. \/ ServerAppend \/ ServerRefuse \/ ServerLate \/ LoseOnSingle \/ Kick \/ Crash
       \/ ChurnSource \/ ChurnDestination \/ RetryFailed \/ MarkPending \/ CommandEnds
       \/ IgnoreFailed \/ UNCHANGED vars
       => rows' = rows
  BY DEF ServerAppend, ServerRefuse, ServerLate, LoseOnSingle, Kick, Crash, ChurnSource,
         ChurnDestination, RetryFailed, MarkPending, CommandEnds, IgnoreFailed, vars
<1> QED
  BY <1>1, <1>2, <1>3, <1>4, <1>5, <1>6, <1>7, <1>8, <1>9, <1>10, <1>11, <1>12
     DEF Next, Step, Server

\* Confirmed mail stays confirmed, by the same destination message, through every
\* later session, retry and command, until a UIDVALIDITY changes or compact deletes
\* the row.
THEOREM ConfirmedStaysConfirmed ==
  ASSUME MaxCompact = 0
  PROVE  Spec => ConfirmedStays
<1> DEFINE A == \A u \in With("done") :
                  \/ rows'[u].st = "done" /\ rows'[u].dst = rows[u].dst
                  \/ folder.uvSrc # src.uv \/ folder.uvDst # dst.uv
<1>1. SInv /\ [Next]_vars => A
  <2> SUFFICES ASSUME SInv, [Next]_vars, NEW u \in With("done")
               PROVE  \/ rows'[u].st = "done" /\ rows'[u].dst = rows[u].dst
                      \/ folder.uvSrc # src.uv \/ folder.uvDst # dst.uv
    OBVIOUS
  <2>1. ~Compact
    <3>1. budget.compact \in Nat
      BY DEF SInv, TypeInv, TypeOK
    <3> QED
      BY <3>1 DEF Compact
  <2> QED
    BY <2>1, ConfirmedStaysStep DEF With
<1> HIDE DEF A
<1>2. Spec => [][A]_vars
  BY <1>1, SessionInvariant, PTL DEF Spec
<1> QED
  BY <1>2 DEF ConfirmedStays, A

-------------------------------------------------------------------------------
(* Nothing is left over when a folder is finished *)

\* The operator leaves the rows of a running session alone.
Offline == OnlineRequeue => MaxRequeue = 0 /\ MaxCompact = 0

\* No command that was never given is under way.
QuietCommand == MaxRequeue = 0 => command = NoCommand

\* The rows the session is not through with: those of the ladder, and those of the
\* pass or of permanentFail.
Held(u) ==
  \/ pc \in {"transfer", "ladder"} /\ u \in ladder
  \/ pc \in {"pass", "fail"} /\ pass.mode = "isolate" /\ u \in ladder
  \/ pc = "pass" /\ u \in todo \union win \union Pending \union Srcs(batch) \union failures
  \/ pc = "fail" /\ u \in failures

\* After the scan every source message has a row.
NoneLeft ==
  \A u \in Uid :
    rows[u].st = "none" =>
      /\ pc \notin Late \union {"adopt", "confirm", "record", "bracket"}
      /\ pc = "insert" => u \in todo

\* After reconcile a row is only in flight while the session deals with it.
InflightHeld ==
  pc \in Late \union {"scan", "insert", "adopt", "confirm", "record", "bracket"} =>
    \A u \in Uid : rows[u].st = "inflight" => Held(u)

\* The batch takes every planned row along.
PlannedHeld ==
  pc \in {"recover", "finalize"} \/ (pc \in {"pass", "fail"} /\ pass.mode = "batch") =>
    \A u \in Uid : rows[u].st = "planned" => Held(u)

WInv == SInv /\ QuietCommand /\ NoneLeft /\ InflightHeld /\ PlannedHeld

\* A command that was never given stays so.
LEMMA QuietCommandStep ==
  ASSUME TypeOK, QuietCommand, [Next]_vars
  PROVE  QuietCommand'
<1> SUFFICES ASSUME MaxRequeue = 0 PROVE command' = NoCommand
  BY DEF QuietCommand
<1>1. command = NoCommand /\ command.stage = "none" /\ budget.requeue \in Nat
  BY DEF QuietCommand, NoCommand, TypeOK
<1>2. ~RetryFailed /\ ~MarkPending /\ ~Replan
  BY <1>1 DEF RetryFailed, MarkPending, Replan
<1>3. command' \in {command, NoCommand}
  BY <1>2 DEF Next, Step, Server, vars, OpenFolder, StatusDst, ReconcileScan, ReconcileAdopt,
     ReconcileReplan, ScanSource, InsertChunk, RecordSource, AdoptScan, AdoptConfirm,
     RecordDst, RecordBracket, StartIsolation, LeaveIsolation, TakeHint, StartBatch,
     MarkIntent, Stream, StreamKicked, Settle, EndPass, RecordFailed, MarkFailed,
     AfterFailures, MarkRecoveries, Finalize, Hangup, Unwind, ServerAppend, ServerRefuse,
     ServerLate, TimedFlush, LoseConnection, RefuseLiteral, LoseOnSingle, Kick, Stop, Crash,
     ChurnSource, ChurnDestination, CommandEnds, IgnoreFailed, Compact
<1> QED
  BY <1>1, <1>3

\* From the probe of the destination to the transfer.
LEMMA SelectLeavesNone ==
  ASSUME WInv, SInv',
         \/ OpenFolder \/ StatusDst \/ ReconcileScan \/ ReconcileAdopt \/ ReconcileReplan
         \/ ScanSource \/ InsertChunk \/ RecordSource \/ AdoptScan \/ AdoptConfirm
         \/ RecordDst \/ RecordBracket
  PROVE  (NoneLeft /\ InflightHeld /\ PlannedHeld)'
<1> USE DEF NoneLeft, InflightHeld, PlannedHeld, Held, Late
<1>0. TypeOK /\ TypeOK'
  BY DEF WInv, SInv, TypeInv
<1>1. CASE OpenFolder
  BY <1>1 DEF OpenFolder
<1>2. CASE StatusDst
  <2>1. pc' \in {"reconcile", "scan"}
    BY <1>2 DEF StatusDst
  <2>2. pc' = "scan" => \A u \in Uid : rows'[u].st # "inflight"
    BY <1>2 DEF StatusDst
  <2> QED
    BY <2>1, <2>2
<1>3. CASE ReconcileScan \/ ReconcileAdopt
  BY <1>3 DEF ReconcileScan, ReconcileAdopt
<1>4. CASE ReconcileReplan
  <2>1. With("inflight") \in SUBSET Uid /\ pc' = "scan"
    BY <1>4 DEF With, ReconcileReplan
  <2>2. \A u \in Uid : rows'[u].st # "inflight"
    BY <1>0, <1>4, <2>1, MarkStateStates DEF ReconcileReplan, With
  <2> QED
    BY <2>1, <2>2
<1>5. CASE ScanSource
  BY <1>5 DEF ScanSource, WInv, With, dbVars
<1>6. CASE InsertChunk
  <2>1. PICK last \in todo :
          /\ rows' = InsertPlanned({u \in todo : u <= last})
          /\ todo' = todo \ {u \in todo : u <= last}
    BY <1>6 DEF InsertChunk
  <2>2. pc = "insert" /\ pc' = "insert"
    BY <1>6 DEF InsertChunk
  <2>3. \A u \in Uid : /\ rows'[u].st = "none" => u \in todo'
                       /\ rows'[u].st = "inflight" => rows[u].st = "inflight"
    BY <2>1, <2>2 DEF InsertPlanned, WInv
  <2> QED
    BY <2>2, <2>3 DEF WInv
<1>7. CASE RecordSource
  BY <1>7 DEF RecordSource, WInv
<1>8. CASE AdoptScan
  <2>1. With("planned") \in SUBSET Uid /\ pc = "adopt" /\ pc' = "confirm"
    BY <1>8 DEF With, AdoptScan
  <2>2. \A u \in Uid : rows'[u].st = rows[u].st
    BY <1>0, <1>8, <2>1, FillFpType DEF AdoptScan
  <2> QED
    BY <2>1, <2>2 DEF WInv
<1>9. CASE AdoptConfirm
  <2>1. pc = "confirm" /\ pc' = "record" /\ plan \in SUBSET Triple
    BY <1>0, <1>9 DEF AdoptConfirm, TypeOK
  <2>2. \A u \in Uid : rows'[u].st \in {rows[u].st, "done"}
    BY <1>0, <1>9, <2>1, MarkDoneStates DEF AdoptConfirm
  <2> QED
    BY <2>1, <2>2 DEF WInv
<1>10. CASE RecordDst \/ RecordBracket
  BY <1>10 DEF RecordDst, RecordBracket, WInv
<1> QED
  BY <1>1, <1>2, <1>3, <1>4, <1>5, <1>6, <1>7, <1>8, <1>9, <1>10

\* Between passes.
LEMMA LadderLeavesNone ==
  ASSUME WInv, SInv',
         \/ StartIsolation \/ LeaveIsolation \/ TakeHint \/ StartBatch \/ AfterFailures
         \/ MarkRecoveries
  PROVE  (NoneLeft /\ InflightHeld /\ PlannedHeld)'
<1> USE DEF NoneLeft, InflightHeld, PlannedHeld, Held, Late
<1>1. UNCHANGED rows /\ pc \in Late /\ pc' \in Late
  BY DEF StartIsolation, LeaveIsolation, TakeHint, StartBatch, AfterFailures, MarkRecoveries,
         StartPass, dbVars
<1>2. NoneLeft'
  BY <1>1 DEF WInv
<1>3. CASE StartIsolation
  BY <1>1, <1>2, <1>3 DEF StartIsolation, StartPass, WInv, memVars
<1>4. CASE LeaveIsolation
  BY <1>1, <1>2, <1>4 DEF LeaveIsolation, With, WInv
<1>5. CASE TakeHint
  BY <1>1, <1>2, <1>5 DEF TakeHint, WInv
<1>6. CASE StartBatch
  <2>1. \A u \in Uid : rows[u].st # "inflight"
    BY <1>6 DEF StartBatch, WInv
  <2>2. CASE With("planned") # {}
    <3>1. StartPass(With("planned"), "batch", 1)
      BY <1>6, <2>2 DEF StartBatch
    <3>2. pc' = "pass" /\ With("planned") = todo' \union win'
      BY <3>1, FrontIsSubset DEF StartPass
    <3> QED
      BY <1>1, <1>2, <2>1, <3>2 DEF With
  <2>3. CASE With("planned") = {}
    <3>1. pc' = "recover"
      BY <1>6, <2>3 DEF StartBatch
    <3> QED
      BY <1>1, <1>2, <2>1, <2>3, <3>1 DEF With
  <2> QED
    BY <2>2, <2>3
<1>7. CASE AfterFailures
  BY <1>1, <1>2, <1>7 DEF AfterFailures, WInv, memVars, passVars, SInv, TypeInv, TypeOK, Pass
<1>8. CASE MarkRecoveries
  BY <1>1, <1>2, <1>8 DEF MarkRecoveries, WInv
<1> QED
  BY <1>3, <1>4, <1>5, <1>6, <1>7, <1>8

\* Inside a pass: its rows stay with it until they are confirmed.
LEMMA InsideLeavesNone ==
  ASSUME WInv, SInv',
         \/ MarkIntent \/ Stream \/ StreamKicked \/ Settle \/ TimedFlush
         \/ ServerAppend \/ ServerRefuse \/ Kick
  PROVE  (NoneLeft /\ InflightHeld /\ PlannedHeld)'
<1> USE DEF dbVars, passVars, sessVars, memVars
<1>0. TypeOK /\ batch \in SUBSET Triple /\ fresh \in SUBSET Uid
  BY DEF WInv, SInv, TypeInv, TypeOK
<1>1. pc = "pass" /\ pc' = "pass" /\ UNCHANGED <<pass, ladder>>
  <2>1. Unanswered # {} => pc = "pass"
    BY NothingOutside DEF WInv, SInv
  <2> QED
    BY <2>1 DEF MarkIntent, Stream, StreamKicked, Settle, TimedFlush, ServerAppend,
                ServerRefuse, Kick
<1>2. todo \union win \union Pending \union Srcs(batch) \union failures \subseteq pass.rows
  BY <1>1 DEF WInv, SInv, Parted
<1>3. \A u \in Uid : u \in pass.rows =>
        \/ u \in (todo \union win \union Pending \union Srcs(batch) \union failures)'
        \/ rows'[u].st \in {"done", "none"}
  BY <1>1 DEF SInv, PassRows
<1>4. \A u \in Uid : /\ rows'[u].st = "none" => rows[u].st = "none"
                     /\ rows'[u].st = "planned" => rows[u].st = "planned"
                     /\ rows'[u].st = "inflight" => rows[u].st = "inflight" \/ u \in pass.rows
  <2>1. CASE MarkIntent
    <3>1. fresh \subseteq pass.rows
      BY <1>1, <1>2 DEF WInv, SInv, Parted
    <3> QED
      BY <1>0, <2>1, <3>1, MarkStateStates DEF MarkIntent
  <2>2. CASE TimedFlush
    BY <1>0, <2>2, MarkDoneStates DEF TimedFlush
  <2>3. CASE rows' = rows
    BY <2>3
  <2> QED
    BY <2>1, <2>2, <2>3 DEF Stream, StreamKicked, Settle, ServerAppend, ServerRefuse, Kick
<1>5. NoneLeft'
  BY <1>1, <1>4 DEF WInv, NoneLeft, Late
<1>6. \A u \in Uid : /\ rows'[u].st = "inflight" => Held(u) \/ u \in pass.rows
                     /\ pass.mode = "batch" /\ rows'[u].st = "planned" => Held(u)
  BY <1>1, <1>4 DEF WInv, InflightHeld, PlannedHeld, Late
<1>7. \A u \in Uid :
        (Held(u) \/ u \in pass.rows) /\ rows'[u].st \notin {"done", "none"} => Held(u)'
  BY <1>1, <1>2, <1>3 DEF Held
<1> QED
  BY <1>1, <1>5, <1>6, <1>7 DEF InflightHeld, PlannedHeld

\* The end of a pass: what it was not through with goes to another pass, to
\* permanentFail or back to the ladder.
LEMMA EndPassLeavesNone ==
  ASSUME WInv, SInv', EndPass \/ LoseOnSingle
  PROVE  (NoneLeft /\ InflightHeld /\ PlannedHeld)'
<1> USE DEF dbVars, passVars, sessVars, memVars
<1>0. TypeOK /\ batch \in SUBSET Triple
  BY DEF WInv, SInv, TypeInv, TypeOK
<1>1. pc = "pass" /\ pc' \in {"pass", "recover", "fail"}
  BY DEF EndPass, LoseOnSingle, StartPass
<1>2. \A u \in Uid : Held(u) /\ rows[u].st \notin {"none", "done"} =>
        \/ u \in todo \union win \union Pending \union Srcs(batch) \union failures
        \/ pass.mode = "isolate" /\ u \in ladder /\ u \notin pass.rows
  BY <1>1 DEF Held, WInv, SInv, PassRows
<1>3. todo \union win \union Pending \union Srcs(batch) \union failures \subseteq pass.rows
  BY <1>1 DEF WInv, SInv, Parted
<1>4. \A u \in Uid : /\ rows[u].st # "none"
                     /\ rows[u].st = "inflight" => Held(u)
                     /\ pass.mode = "batch" /\ rows[u].st = "planned" => Held(u)
  BY <1>1 DEF WInv, NoneLeft, InflightHeld, PlannedHeld, Late
<1>5. CASE EndPass
  <2>1. /\ Pending = {} /\ win = {} /\ todo = {}
        /\ rows' = MarkDone(batch)
    BY <1>1, <1>5 DEF EndPass, WInv, SInv, Parted
  <2>2. \A u \in Uid : rows'[u].st = IF u \in Srcs(batch) THEN "done" ELSE rows[u].st
    BY <1>0, <1>4, <2>1, MarkDoneStates
  <2>3. NoneLeft'
    BY <1>4, <2>2 DEF NoneLeft
  <2>4. \A u \in Uid : /\ rows'[u].st = "inflight" =>
                            u \in failures \/ (pass.mode = "isolate" /\ u \in ladder \ pass.rows)
                       /\ pass.mode = "batch" /\ rows'[u].st = "planned" => u \in failures
    BY <1>2, <1>4, <2>1, <2>2
  <2>5. CASE pass.mode = "batch" /\ StartPass(failures, "batch", pass.n + 1)
    <3>1. pass'.mode = "batch" /\ failures = todo' \union win' /\ pc' = "pass"
      BY <2>5, FrontIsSubset DEF StartPass
    <3> QED
      BY <2>3, <2>4, <2>5, <3>1 DEF InflightHeld, PlannedHeld, Held
  <2>6. CASE pass.mode = "batch" /\ failures = {} /\ pc' = "recover"
    BY <2>3, <2>4, <2>6 DEF InflightHeld, PlannedHeld, Held
  <2>7. CASE /\ pass.mode = "batch" /\ pass' = pass
             /\ failures' = failures /\ pc' = "fail"
    BY <2>3, <2>4, <2>7 DEF InflightHeld, PlannedHeld, Held
  <2>8. CASE /\ pass.mode # "batch" /\ pass' = pass /\ pc' = "fail"
             /\ ladder' = (ladder \ pass.rows) \union (failures \ failures')
    <3>1. pass.mode = "isolate"
      BY <1>0, <2>8 DEF TypeOK, Pass
    <3> QED
      BY <2>3, <2>4, <2>8, <3>1 DEF InflightHeld, PlannedHeld, Held
  <2>9. \/ pass.mode = "batch" /\ StartPass(failures, "batch", pass.n + 1)
        \/ pass.mode = "batch" /\ failures = {} /\ pc' = "recover"
        \/ pass.mode = "batch" /\ pass' = pass /\ failures' = failures /\ pc' = "fail"
        \/ /\ pass.mode # "batch" /\ pass' = pass /\ pc' = "fail"
           /\ ladder' = (ladder \ pass.rows) \union (failures \ failures')
    BY <1>5 DEF EndPass
  <2> QED
    BY <2>5, <2>6, <2>7, <2>8, <2>9
<1>6. CASE LoseOnSingle
  <2>1. /\ rows' = rows /\ pc' = "fail" /\ pass' = pass /\ pass.mode = "isolate"
        /\ failures' = pass.rows /\ ladder' = ladder \ pass.rows
    BY <1>6 DEF LoseOnSingle
  <2>2. NoneLeft'
    BY <1>4, <2>1 DEF NoneLeft
  <2> QED
    BY <1>2, <1>3, <1>4, <2>1, <2>2 DEF InflightHeld, PlannedHeld, Held
<1> QED
  BY <1>5, <1>6

\* permanentFail, and the ends of a session.
LEMMA FailLeavesNone ==
  ASSUME WInv, SInv', RecordFailed \/ MarkFailed
  PROVE  (NoneLeft /\ InflightHeld /\ PlannedHeld)'
<1> USE DEF dbVars, passVars, sessVars, memVars
<1>0. TypeOK
  BY DEF WInv, SInv, TypeInv
<1>1. pc = "fail" /\ pc' = "fail" /\ UNCHANGED <<pass, ladder>>
  BY DEF RecordFailed, MarkFailed
<1>2. CASE RecordFailed
  BY <1>1, <1>2 DEF RecordFailed, WInv, NoneLeft, InflightHeld, PlannedHeld, Held, Late
<1>3. CASE MarkFailed
  <2>1. failing \in Uid /\ failures' = failures \ {failing}
    BY <1>0, <1>3 DEF MarkFailed, TypeOK
  <2>2. \A u \in Uid : /\ rows[u].st # "none"
                       /\ rows'[u].st = IF u = failing THEN "failed" ELSE rows[u].st
    BY <1>0, <1>1, <1>3, <2>1, MarkStateStates DEF MarkFailed, WInv, NoneLeft, Late
  <2> QED
    BY <1>1, <2>1, <2>2 DEF WInv, NoneLeft, InflightHeld, PlannedHeld, Held, Late
<1> QED
  BY <1>2, <1>3

\* Between sessions nothing is asked.
LEMMA IdleLeavesNone ==
  ASSUME pc' = "idle"
  PROVE  (NoneLeft /\ InflightHeld /\ PlannedHeld)'
BY DEF NoneLeft, InflightHeld, PlannedHeld, Late

\* The others leave the rows of a running session alone.
LEMMA OthersLeaveNone ==
  ASSUME WInv, Offline, pc # "idle",
         \/ ServerLate \/ ChurnSource \/ ChurnDestination \/ RetryFailed
         \/ MarkPending \/ Replan \/ CommandEnds \/ IgnoreFailed \/ Compact
  PROVE  (NoneLeft /\ InflightHeld /\ PlannedHeld)'
<1> USE DEF dbVars, passVars, sessVars, memVars
<1>1. ~Replan /\ ~Compact
  <2>1. CASE OnlineRequeue
    <3>1. command.stage = "none" /\ budget.compact \in Nat
      BY <2>1 DEF WInv, Offline, QuietCommand, NoCommand, SInv, TypeInv, TypeOK
    <3> QED
      BY <2>1, <3>1 DEF Offline, Replan, Compact
  <2>2. CASE ~OnlineRequeue
    BY <2>2 DEF Replan, Compact
  <2> QED
    BY <2>1, <2>2
<1>2. UNCHANGED <<rows, pc, ladder, passVars>>
  BY <1>1 DEF ServerLate, ChurnSource, ChurnDestination, RetryFailed, MarkPending,
              CommandEnds, IgnoreFailed
<1>3. Pending' = Pending /\ Srcs(batch)' = Srcs(batch)
  BY <1>2 DEF Pending, Srcs
<1> QED
  BY <1>2, <1>3 DEF WInv, NoneLeft, InflightHeld, PlannedHeld, Held

LEMMA WInvInit == Init => WInv
<1> SUFFICES ASSUME Init PROVE WInv
  OBVIOUS
<1>1. pc = "idle" /\ command = NoCommand
  BY DEF Init
<1> QED
  BY <1>1, SInvInit DEF WInv, QuietCommand, NoneLeft, InflightHeld, PlannedHeld, Late

LEMMA WInvStep ==
  ASSUME Offline
  PROVE  WInv /\ [Next]_vars => WInv'
<1> SUFFICES ASSUME WInv, [Next]_vars PROVE WInv'
  OBVIOUS
<1>1. SInv' /\ QuietCommand'
  BY SInvStep, QuietCommandStep DEF WInv, SInv, TypeInv
<1>2. (NoneLeft /\ InflightHeld /\ PlannedHeld)'
  <2>1. CASE UNCHANGED vars
    <3>1. UNCHANGED <<rows, pc, ladder, passVars>>
      BY <2>1 DEF vars, dbVars, memVars
    <3>2. Pending' = Pending /\ Srcs(batch)' = Srcs(batch)
      BY <3>1 DEF passVars, Pending, Srcs
    <3> QED
      BY <3>1, <3>2 DEF passVars, WInv, NoneLeft, InflightHeld, PlannedHeld, Held
  <2>2. CASE \/ OpenFolder \/ StatusDst \/ ReconcileScan \/ ReconcileAdopt
             \/ ReconcileReplan \/ ScanSource \/ InsertChunk \/ RecordSource \/ AdoptScan
             \/ AdoptConfirm \/ RecordDst \/ RecordBracket
    BY <1>1, <2>2, SelectLeavesNone
  <2>3. CASE \/ StartIsolation \/ LeaveIsolation \/ TakeHint \/ StartBatch
             \/ AfterFailures \/ MarkRecoveries
    BY <1>1, <2>3, LadderLeavesNone
  <2>4. CASE \/ MarkIntent \/ Stream \/ StreamKicked \/ Settle \/ TimedFlush
             \/ ServerAppend \/ ServerRefuse \/ Kick
    BY <1>1, <2>4, InsideLeavesNone
  <2>5. CASE EndPass \/ LoseOnSingle
    BY <1>1, <2>5, EndPassLeavesNone
  <2>6. CASE RecordFailed \/ MarkFailed
    BY <1>1, <2>6, FailLeavesNone
  <2>7. CASE \/ Finalize \/ LoseConnection \/ RefuseLiteral \/ Hangup \/ Unwind
             \/ Stop \/ Crash
    <3>1. pc' = "idle"
      BY <2>7 DEF Finalize, LoseConnection, RefuseLiteral, Hangup, Unwind, Stop, Crash,
                  EndSession
    <3> QED
      BY <3>1, IdleLeavesNone
  <2>8. CASE \/ ServerLate \/ ChurnSource \/ ChurnDestination \/ RetryFailed
             \/ MarkPending \/ Replan \/ CommandEnds \/ IgnoreFailed \/ Compact
    <3>1. CASE pc = "idle"
      <4>1. pc' = "idle"
        BY <2>8, <3>1 DEF ServerLate, ChurnSource, ChurnDestination, RetryFailed,
                          MarkPending, Replan, CommandEnds, IgnoreFailed, Compact
      <4> QED
        BY <4>1, IdleLeavesNone
    <3>2. CASE pc # "idle"
      BY <2>8, <3>2, OthersLeaveNone
    <3> QED
      BY <3>1, <3>2
  <2> QED
    BY <2>1, <2>2, <2>3, <2>4, <2>5, <2>6, <2>7, <2>8 DEF Next, Step, Server
<1> QED
  BY <1>1, <1>2 DEF WInv

\* A folder is only recorded DONE when every source message is confirmed, as long as
\* the operator does not queue messages again or delete rows while it is running.
THEOREM DoneFolderHasEverything ==
  ASSUME Offline
  PROVE  Spec => DoneFolderIsComplete
<1> DEFINE A == Finished /\ folder'.status = "DONE" => \A u \in Uid : rows[u].st = "done"
<1>1. WInv /\ [Next]_vars => A
  <2> SUFFICES ASSUME WInv, [Next]_vars, Finished, folder'.status = "DONE", NEW u \in Uid
               PROVE  rows[u].st = "done"
    OBVIOUS
  <2>1. TypeOK /\ pc = "finalize" /\ pc' = "idle" /\ budget' = budget
    BY DEF WInv, SInv, TypeInv, Finished
  <2>2. Finalize
    <3>1. budget.cut \in Nat /\ budget' # [budget EXCEPT !.cut = @ + 1]
      BY <2>1 DEF TypeOK
    <3> QED
      BY <2>1, <3>1 DEF Next, Step, Server, vars, dbVars, passVars, sessVars, memVars, OpenFolder,
         StatusDst, ReconcileScan,
         ReconcileAdopt, ReconcileReplan, ScanSource, InsertChunk, RecordSource, AdoptScan,
         AdoptConfirm, RecordDst, RecordBracket, StartIsolation, LeaveIsolation, TakeHint,
         StartBatch, MarkIntent, Stream, StreamKicked, Settle, EndPass, RecordFailed,
         MarkFailed, AfterFailures, MarkRecoveries, Hangup, Unwind, ServerAppend,
         ServerRefuse, ServerLate, TimedFlush, LoseConnection, RefuseLiteral, LoseOnSingle,
         Kick, Stop, Crash, ChurnSource, ChurnDestination, RetryFailed, MarkPending, Replan,
         CommandEnds, IgnoreFailed, Compact
  <2>3. Cardinality(With("failed")) = 0
    BY <2>1, <2>2 DEF Finalize, FinalStatus, Count, TypeOK, Folder
  <2>4. With("failed") = {}
    <3>1. IsFiniteSet(With("failed"))
      BY FS_Subset DEF With
    <3> QED
      BY <2>3, <3>1, FS_EmptySet
  <2>5. rows[u].st \notin {"none", "planned", "inflight"}
    BY <2>1 DEF WInv, NoneLeft, InflightHeld, PlannedHeld, Held, Late
  <2> QED
    BY <2>1, <2>4, <2>5 DEF With, TypeOK, Row
<1> HIDE DEF A
<1>2. Spec => []WInv
  BY WInvInit, WInvStep, PTL DEF Spec
<1>3. Spec => [][A]_vars
  BY <1>1, <1>2, PTL DEF Spec
<1> QED
  BY <1>3 DEF DoneFolderIsComplete, A

-------------------------------------------------------------------------------
(* Two messages are not confirmed by one *)

\* No two messages of the source folder have the same fingerprint.
SourceApart == \A u, v \in Uid : FP[SrcBody[u]] = FP[SrcBody[v]] => u = v

\* ... also when it has been renumbered.
BodiesApart == \A u, v \in Uid : FP[src.body[u]] = FP[src.body[v]] => u = v

\* A UID of the destination names one message.
UidsUnique == \A e, f \in dst.mail : e.uid = f.uid => e = f

\* A renumbered folder has the same messages under other UIDs.
LEMMA RenumberedApart ==
  ASSUME TypeOK, BodiesApart, NEW body \in [Uid -> Body],
         {body[u] : u \in Uid} = {src.body[u] : u \in Uid}
  PROVE  \A u, v \in Uid : FP[body[u]] = FP[body[v]] => u = v
<1> DEFINE S == {src.body[u] : u \in Uid}
<1>1. src.body \in [Uid -> Body]
  BY DEF TypeOK
<1>2. src.body \in Surjection(Uid, S)
  <2>1. src.body \in [Uid -> S] /\ \A b \in S : \E u \in Uid : src.body[u] = b
    BY <1>1
  <2> HIDE DEF S
  <2> QED
    BY <2>1, Fun_IsSurj
<1>3. src.body \in Injection(Uid, S)
  <2>1. src.body \in [Uid -> S] /\ \A u, v \in Uid : src.body[u] = src.body[v] => u = v
    BY <1>1 DEF BodiesApart
  <2> HIDE DEF S
  <2> QED
    BY <2>1, Fun_IsInj
<1>4. IsFiniteSet(S) /\ Cardinality(S) = Cardinality(Uid)
  <2> HIDE DEF S
  <2> QED
    BY <1>2, <1>3, FS_Surjection
<1>5. body \in Surjection(Uid, S)
  <2>1. body \in [Uid -> S] /\ \A b \in S : \E u \in Uid : body[u] = b
    OBVIOUS
  <2> HIDE DEF S
  <2> QED
    BY <2>1, Fun_IsSurj
<1>6. body \in Injection(Uid, S)
  <2> HIDE DEF S
  <2> QED
    BY <1>4, <1>5, FS_SurjSameCardinalityImpliesInj
<1>7. \A u, v \in Uid : body[u] = body[v] => u = v
  BY <1>6 DEF Injection, IsInjective
<1> SUFFICES ASSUME NEW u \in Uid, NEW v \in Uid, FP[body[u]] = FP[body[v]]
             PROVE  u = v
  OBVIOUS
<1>8. PICK a \in Uid : body[u] = src.body[a]
  OBVIOUS
<1>9. PICK b \in Uid : body[v] = src.body[b]
  OBVIOUS
<1>10. a = b
  BY <1>8, <1>9 DEF BodiesApart
<1> QED
  BY <1>7, <1>8, <1>9, <1>10

\* Who changes the folders.
LEMMA WhoDelivers ==
  ASSUME [Next]_vars
  PROVE  /\ src' = src \/ ChurnSource
         /\ dst' = dst \/ ServerAppend \/ ServerLate \/ ChurnDestination
<1> USE DEF dbVars, passVars, sessVars, memVars
<1>1. src' = src \/ ChurnSource
  BY DEF Next, Step, Server, vars, OpenFolder, StatusDst, ReconcileScan, ReconcileAdopt,
     ReconcileReplan, ScanSource, InsertChunk, RecordSource, AdoptScan, AdoptConfirm,
     RecordDst, RecordBracket, StartIsolation, LeaveIsolation, TakeHint, StartBatch,
     MarkIntent, Stream, StreamKicked, Settle, EndPass, RecordFailed, MarkFailed,
     AfterFailures, MarkRecoveries, Finalize, Hangup, Unwind, ServerAppend, ServerRefuse,
     ServerLate, TimedFlush, LoseConnection, RefuseLiteral, LoseOnSingle, Kick, Stop, Crash,
     ChurnDestination, RetryFailed, MarkPending, Replan, CommandEnds, IgnoreFailed, Compact
<1>2. dst' = dst \/ ServerAppend \/ ServerLate \/ ChurnDestination
  BY DEF Next, Step, Server, vars, OpenFolder, StatusDst, ReconcileScan, ReconcileAdopt,
     ReconcileReplan, ScanSource, InsertChunk, RecordSource, AdoptScan, AdoptConfirm,
     RecordDst, RecordBracket, StartIsolation, LeaveIsolation, TakeHint, StartBatch,
     MarkIntent, Stream, StreamKicked, Settle, EndPass, RecordFailed, MarkFailed,
     AfterFailures, MarkRecoveries, Finalize, Hangup, Unwind, ServerRefuse,
     TimedFlush, LoseConnection, RefuseLiteral, LoseOnSingle, Kick, Stop, Crash,
     ChurnSource, RetryFailed, MarkPending, Replan, CommandEnds, IgnoreFailed, Compact
<1> QED
  BY <1>1, <1>2

\* What the destination executes of an APPEND on the wire.
LEMMA AppendDelivers ==
  ASSUME TypeInv, ServerAppend
  PROVE  \E u \in Unanswered :
           /\ u = Least(Unanswered) /\ u \in Uid /\ src.body[u] \in Body
           /\ dst' = Deliver(src.body[u])
           /\ wire' = [wire EXCEPT ![u] = [ack |-> "ok",
                                           dst |-> IF UidPlus THEN dst.next ELSE 0]]
<1>1. Unanswered # {} /\ Unanswered \in SUBSET Uid
  BY DEF ServerAppend, Unanswered
<1>2. Least(Unanswered) \in Unanswered
  BY <1>1, LeastIsElement
<1> QED
  BY <1>1, <1>2 DEF ServerAppend, TypeInv, TypeOK

\* One more message leaves the UIDs of the others alone.
LEMMA DeliverKeepsUnique ==
  ASSUME TypeInv, UidsUnique, NEW b \in Body, dst' = Deliver(b)
  PROVE  UidsUnique'
<1> DEFINE new == [uid |-> dst.next, body |-> b]
<1>1. dst'.mail = dst.mail \union {new} /\ new.uid = dst.next
  BY DeliverType
<1> HIDE DEF new
<1>2. \A e \in dst.mail : e.uid # dst.next
  BY DEF TypeInv, TypeOK, UidsBelowNext, Mail
<1> QED
  BY <1>1, <1>2 DEF UidsUnique

\* A renumbering takes different UIDs to different ones.
LEMMA RenumberedUnique ==
  ASSUME TypeInv, UidsUnique, ChurnDestination
  PROVE  /\ UidsUnique'
         /\ dst'.next = dst.next
         /\ \A e \in dst'.mail : \E f \in dst.mail : f.body = e.body /\ e.uid = dst.next - f.uid
<1>1. PICK mail \in {{}, {[e EXCEPT !.uid = dst.next - @] : e \in dst.mail}} :
        dst' = [dst EXCEPT !.uv = @ + 1, !.mail = mail]
  BY DEF ChurnDestination
<1>2. dst'.mail = mail /\ dst'.next = dst.next
  BY <1>1 DEF TypeInv, TypeOK
<1>3. \A e \in mail : \E f \in dst.mail : e = [f EXCEPT !.uid = dst.next - f.uid]
  BY DEF TypeInv
<1>4. \A f \in dst.mail : /\ f.uid \in Nat /\ f.uid < dst.next
                          /\ [f EXCEPT !.uid = dst.next - f.uid].uid = dst.next - f.uid
                          /\ [f EXCEPT !.uid = dst.next - f.uid].body = f.body
  BY DEF TypeInv, TypeOK, UidsBelowNext, Mail
<1>5. dst.next \in Nat
  BY DEF TypeInv, TypeOK
<1>6. UidsUnique'
  <2> SUFFICES ASSUME NEW e \in mail, NEW f \in mail, e.uid = f.uid PROVE e = f
    BY <1>2 DEF UidsUnique
  <2>1. PICK a \in dst.mail : e = [a EXCEPT !.uid = dst.next - a.uid]
    BY <1>3
  <2>2. PICK b \in dst.mail : f = [b EXCEPT !.uid = dst.next - b.uid]
    BY <1>3
  <2>3. dst.next - a.uid = dst.next - b.uid
    BY <1>4, <2>1, <2>2
  <2>4. a.uid \in Nat /\ b.uid \in Nat
    BY <1>4
  <2>5. a.uid = b.uid
    BY <1>5, <2>3, <2>4
  <2> QED
    BY <2>1, <2>2, <2>5 DEF UidsUnique
<1>7. \A e \in mail : \E f \in dst.mail : f.body = e.body /\ e.uid = dst.next - f.uid
  <2> TAKE e \in mail
  <2>1. PICK f \in dst.mail : e = [f EXCEPT !.uid = dst.next - f.uid]
    BY <1>3
  <2>2. f.body = e.body /\ e.uid = dst.next - f.uid
    BY <1>4, <2>1
  <2> QED
    BY <2>2
<1> QED
  BY <1>2, <1>6, <1>7

\* What is needed of the folders themselves.
FoldersApart == BodiesApart /\ UidsUnique

LEMMA ApartInit ==
  ASSUME SourceApart
  PROVE  Init => FoldersApart
<1> SUFFICES ASSUME Init PROVE FoldersApart
  OBVIOUS
<1>1. BodiesApart
  BY DEF Init, BodiesApart, SourceApart
<1>2. PICK number \in [Preloaded -> 1..Cardinality(Preloaded)] :
        /\ \A a, b \in Preloaded : number[a] = number[b] => a = b
        /\ dst = [uv |-> 1, next |-> Cardinality(Preloaded) + 1,
                  mail |-> {[uid |-> number[b], body |-> b] : b \in Preloaded}]
  BY DEF Init
<1>3. UidsUnique
  <2> SUFFICES ASSUME NEW e \in dst.mail, NEW f \in dst.mail, e.uid = f.uid PROVE e = f
    BY DEF UidsUnique
  <2>1. dst.mail = {[uid |-> number[b], body |-> b] : b \in Preloaded}
    BY <1>2
  <2>2. PICK a \in Preloaded : e = [uid |-> number[a], body |-> a]
    BY <2>1
  <2>3. PICK b \in Preloaded : f = [uid |-> number[b], body |-> b]
    BY <2>1
  <2>4. number[a] = number[b]
    BY <2>2, <2>3
  <2> QED
    BY <1>2, <2>2, <2>3, <2>4
<1> QED
  BY <1>1, <1>3 DEF FoldersApart

LEMMA ApartStep == TypeInv /\ FoldersApart /\ [Next]_vars => FoldersApart'
<1> SUFFICES ASSUME TypeInv, FoldersApart, [Next]_vars PROVE FoldersApart'
  OBVIOUS
<1>1. BodiesApart'
  <2>1. CASE src' = src
    BY <2>1 DEF FoldersApart, BodiesApart
  <2>2. CASE ChurnSource
    <3>1. PICK body \in [Uid -> Body] :
            /\ {body[u] : u \in Uid} = {src.body[u] : u \in Uid}
            /\ src' = [uv |-> src.uv + 1, body |-> body]
      BY <2>2 DEF ChurnSource
    <3>2. \A u, v \in Uid : FP[body[u]] = FP[body[v]] => u = v
      BY <3>1, RenumberedApart DEF FoldersApart, TypeInv
    <3>3. src'.body = body
      BY <3>1
    <3> QED
      BY <3>2, <3>3 DEF BodiesApart
  <2> QED
    BY <2>1, <2>2, WhoDelivers
<1>2. UidsUnique'
  <2>1. CASE dst' = dst
    BY <2>1 DEF FoldersApart, UidsUnique
  <2>2. CASE ServerAppend
    BY <2>2, AppendDelivers, DeliverKeepsUnique DEF FoldersApart
  <2>3. CASE ServerLate
    <3>1. PICK b \in limbo : dst' = Deliver(b)
      BY <2>3 DEF ServerLate
    <3> QED
      BY <3>1, DeliverKeepsUnique DEF FoldersApart, TypeInv, TypeOK
  <2>4. CASE ChurnDestination
    BY <2>4, RenumberedUnique DEF FoldersApart
  <2> QED
    BY <2>1, <2>2, <2>3, <2>4, WhoDelivers
<1> QED
  BY <1>1, <1>2 DEF FoldersApart

\* Two source messages are never confirmed by one destination message, with retries,
\* compaction and late APPENDs, as long as fingerprints tell the source messages apart
\* and no UIDVALIDITY changes before it was recorded.
THEOREM ConfirmedApart ==
  ASSUME ~EarlyChurn, SourceApart
  PROVE  Spec => []DoneIsInjective
<1>1. IInv /\ FoldersApart => DoneIsInjective
  <2> SUFFICES ASSUME IInv, FoldersApart, SameEpoch,
                      NEW u \in With("done"), NEW v \in With("done"),
                      rows[u].dst = rows[v].dst, rows[u].dst # 0
               PROVE  u = v
    BY DEF DoneIsInjective
  <2>1. Carries(rows[u].dst, u) /\ Carries(rows[v].dst, v)
    BY DEF IInv, DoneIsDelivered
  <2>2. PICK e \in dst.mail : e.uid = rows[u].dst /\ FP[e.body] = FP[src.body[u]]
    BY <2>1 DEF Carries
  <2>3. PICK f \in dst.mail : f.uid = rows[u].dst /\ FP[f.body] = FP[src.body[v]]
    BY <2>1 DEF Carries
  <2>4. e = f
    BY <2>2, <2>3 DEF FoldersApart, UidsUnique
  <2> QED
    BY <2>2, <2>3, <2>4 DEF FoldersApart, BodiesApart, With
<1>2. Init => IInv /\ FoldersApart
  BY IInvInit, ApartInit
<1>3. IInv /\ FoldersApart /\ [Next]_vars => (IInv /\ FoldersApart)'
  BY IInvStep, ApartStep DEF IInv
<1> QED
  BY <1>1, <1>2, <1>3, PTL DEF Spec

-------------------------------------------------------------------------------
(* Nothing is delivered twice *)

\* The environment these results are about: the destination does not execute an
\* APPEND after the client has reconnected, no UIDVALIDITY changes before it was
\* recorded, the dedup scan is on, and the operator neither queues messages again nor
\* deletes rows.
Undisturbed ==
  ~LateCommit /\ ~EarlyChurn /\ ~NoDedupScan /\ MaxRequeue = 0 /\ MaxCompact = 0

\* Message u has reached the destination, or may still do so without a connection.
Delivered(u) == \E e \in dst.mail : e.body = src.body[u]

Away(u) == src.body[u] \in limbo

\* The session is through with row u.
Settled(u) == rows[u].st \in {"done", "failed"}

\* An APPEND that is under way, on a connection or without one, is the first of
\* its message.
LimboFresh == \A b \in limbo : \A e \in dst.mail : e.body # b

SentFresh == \A u \in Unanswered : link = "up" /\ ~Delivered(u)

\* A session starts on a new connection, after the destination has dropped what the
\* old one left behind, and only its later part goes on without one.
LinkUp ==
  /\ link = "up" => limbo = {}
  /\ pc \notin Late \union {"idle"} => link = "up"
  /\ pc = "idle" => link = "lost"

\* The next session is through with row u, or looks for its message: it is in flight
\* with its copies above the bracket, or adoption is still to come.
SoughtAfter(u) ==
  \/ Settled(u)
  \/ /\ rows[u].st = "inflight"
     /\ \A e \in dst.mail : e.body = src.body[u] => e.uid >= folder.bracket
  \/ ~folder.adopt

\* That is so of a message that has reached the destination, or may still do so.
Covered ==
  SameEpoch => \A u \in Uid : Delivered(u) \/ Away(u) => SoughtAfter(u)

\* The brackets on record and in memory are a UIDNEXT of the past.
BracketPast == folder.bracket <= dst.next /\ sess.next <= dst.next

Middle == {"reconcile", "readopt", "replan", "scan", "insert", "adopt", "confirm", "record",
           "bracket"}

\* What the session has read when it started is still so, until it records it.
SessionSees ==
  /\ pc = "status" => sess.adoptDone = folder.adopt /\ sess.bracket = folder.bracket
  /\ pc \in Middle => /\ sess.occupied = (dst.mail # {})
                      /\ sess.next = dst.next
                      /\ sess.bracket <= folder.bracket
  /\ pc \in Middle \ {"bracket"} => sess.adoptDone = folder.adopt
  /\ pc \in {"insert", "adopt", "confirm", "record"} =>
       sess.adopt \/ dst.mail = {} \/ folder.adopt
  /\ pc \in {"adopt", "confirm"} => sess.adopt

\* The probes find every row whose message is there.
Found ==
  /\ pc = "readopt" =>
       \A u \in Uid : rows[u].st = "inflight" /\ Delivered(u) /\ folder.adopt
                        => u \in Srcs(plan)
  /\ pc = "replan" =>
       \A u \in Uid : rows[u].st = "inflight" /\ Delivered(u) => ~folder.adopt
  /\ pc = "confirm" =>
       \A u \in Uid : rows[u].st = "planned" /\ Delivered(u) => u \in Srcs(plan)

\* From then on, while the connection lasts, a message that is on the destination is
\* settled or acknowledged: what the passes send has not been delivered before.
Untried ==
  pc \in Late \union {"record", "bracket"} /\ link = "up" =>
    \A u \in Uid :
      Delivered(u) => Settled(u) \/ wire[u].ack = "ok" \/ u \in Srcs(batch)

DInv ==
  /\ WInv
  /\ IInv
  /\ FoldersApart
  /\ NoDuplicates
  /\ LimboFresh
  /\ SentFresh
  /\ LinkUp
  /\ Covered
  /\ BracketPast
  /\ SessionSees
  /\ Found
  /\ Untried

-------------------------------------------------------------------------------
(* Who changes what *)

\* No command touches the rows or the registry.
LEMMA NoCommands ==
  ASSUME Undisturbed, WInv
  PROVE  ~RetryFailed /\ ~MarkPending /\ ~Replan /\ ~IgnoreFailed /\ ~Compact
<1>1. budget.requeue \in Nat /\ budget.compact \in Nat /\ command.stage = "none"
  BY DEF Undisturbed, WInv, SInv, TypeInv, TypeOK, QuietCommand, NoCommand
<1> QED
  BY <1>1 DEF Undisturbed, RetryFailed, MarkPending, Replan, IgnoreFailed, Compact

\* A row only moves on: what is settled stays settled, what is open is confirmed or
\* given up, until a changed UIDVALIDITY takes it all back.
LEMMA RowsMove ==
  ASSUME Undisturbed, WInv, [Next]_vars, NEW u \in Uid
  PROVE  \/ rows'[u].st = rows[u].st
         \/ Open(u) /\ rows'[u].st \in {"done", "failed"}
         \/ OpenFolder /\ SrcChurned
         \/ StatusDst /\ DstChurned
         \/ ReconcileReplan /\ rows[u].st = "inflight" /\ rows'[u].st = "planned"
         \/ InsertChunk /\ rows[u].st = "none" /\ rows'[u].st = "planned"
         \/ MarkIntent /\ Open(u) /\ rows'[u].st = "inflight"
<1> USE DEF dbVars, passVars, sessVars, memVars
<1>0. TypeOK /\ SInv
  BY DEF WInv, SInv, TypeInv
<1>1. CASE OpenFolder
  BY <1>1 DEF OpenFolder
<1>2. CASE StatusDst
  <2>1. CASE ~DstChurned
    BY <1>0, <1>2, <2>1 DEF StatusDst, TypeOK
  <2> QED
    BY <1>2, <2>1
<1>3. CASE rows' = rows
  BY <1>3
<1>4. CASE rows' = MarkDone(plan) \/ rows' = MarkDone(batch)
  <2>1. plan \in SUBSET Triple /\ batch \in SUBSET Triple
    BY <1>0 DEF TypeOK
  <2>2. \A t \in plan : Open(t.src)
    BY <1>0 DEF SInv, PlanRows
  <2>3. u \in Srcs(batch) => Open(u)
    <3>1. pc # "pass" => batch = {}
      BY <1>0 DEF SInv, NothingPending
    <3>2. pc = "pass" /\ u \in Srcs(batch) => rows[u].st = "inflight"
      BY <1>0 DEF SInv, PassRows
    <3> QED
      BY <3>1, <3>2 DEF Srcs, Open
  <2> QED
    BY <1>0, <1>4, <2>1, <2>2, <2>3, MarkDoneStates DEF Srcs
<1>5. CASE \E us \in SUBSET Uid : rows' = FillFp(us)
  BY <1>0, <1>5, FillFpType
<1>6. CASE ReconcileReplan
  <2>1. With("inflight") \in SUBSET Uid
    BY DEF With
  <2> QED
    BY <1>0, <1>6, <2>1, MarkStateStates DEF ReconcileReplan, With
<1>7. CASE InsertChunk
  BY <1>7 DEF InsertChunk, InsertPlanned
<1>8. CASE MarkIntent
  <2>1. fresh \in SUBSET Uid /\ (u \in fresh => Open(u))
    BY <1>0, <1>8 DEF MarkIntent, SInv, PassRows, TypeOK
  <2> QED
    BY <1>0, <1>8, <2>1, MarkStateStates DEF MarkIntent
<1>9. CASE MarkFailed
  <2>1. failing \in Uid /\ Open(failing)
    BY <1>0, <1>9 DEF MarkFailed, SInv, FailRows, TypeOK
  <2>2. rows'[u].st = IF u \in {failing} /\ rows[u].st # "none" THEN "failed" ELSE rows[u].st
    BY <1>0, <1>9, <2>1, MarkStateStates DEF MarkFailed
  <2> QED
    BY <2>1, <2>2
<1>10. ReconcileScan \/ AdoptScan => \E us \in SUBSET Uid : rows' = FillFp(us)
  <2>1. With("planned") \in SUBSET Uid /\ With("inflight") \in SUBSET Uid
    BY DEF With
  <2> QED
    BY <2>1 DEF ReconcileScan, AdoptScan
<1>11. ReconcileAdopt \/ AdoptConfirm \/ TimedFlush \/ EndPass \/ LoseConnection
       \/ RefuseLiteral \/ Unwind \/ Stop =>
         rows' = MarkDone(plan) \/ rows' = MarkDone(batch)
  BY DEF ReconcileAdopt, AdoptConfirm, TimedFlush, EndPass, LoseConnection, RefuseLiteral,
         Unwind, Stop
<1>12. \/ ScanSource \/ RecordSource \/ RecordDst \/ RecordBracket \/ StartIsolation
       \/ LeaveIsolation \/ TakeHint \/ StartBatch \/ Stream \/ StreamKicked \/ Settle
       \/ RecordFailed \/ AfterFailures \/ MarkRecoveries \/ Finalize \/ Hangup
       => rows' = rows
  BY DEF ScanSource, RecordSource, RecordDst, RecordBracket, StartIsolation, LeaveIsolation,
         TakeHint, StartBatch, Stream, StreamKicked, Settle, RecordFailed, AfterFailures,
         MarkRecoveries, Finalize, Hangup
<1>13. \/ ServerAppend \/ ServerRefuse \/ ServerLate \/ LoseOnSingle \/ Kick \/ Crash
       \/ ChurnSource \/ ChurnDestination \/ CommandEnds \/ UNCHANGED vars
       => rows' = rows
  BY DEF ServerAppend, ServerRefuse, ServerLate, LoseOnSingle, Kick, Crash, ChurnSource,
         ChurnDestination, CommandEnds, vars
<1> QED
  BY <1>1, <1>2, <1>3, <1>4, <1>5, <1>6, <1>7, <1>8, <1>9, <1>10, <1>11, <1>12, <1>13,
     NoCommands DEF Next, Step, Server

\* Only permanentFail gives a message up.
LEMMA OnlyMarkFailed ==
  ASSUME Undisturbed, WInv, [Next]_vars
  PROVE  MarkFailed \/ \A u \in Uid : rows'[u].st = "failed" => rows[u].st = "failed"
<1> USE DEF dbVars, passVars, sessVars, memVars
<1> SUFFICES ASSUME ~MarkFailed, NEW u \in Uid, rows'[u].st = "failed"
             PROVE  rows[u].st = "failed"
  OBVIOUS
<1>0. TypeOK
  BY DEF WInv, SInv, TypeInv
<1>1. CASE OpenFolder
  BY <1>1 DEF OpenFolder, NoRow
<1>2. CASE StatusDst
  <2>1. ResetRow(rows[u]).st \in {rows[u].st, "planned"}
    BY <1>0 DEF ResetRow, TypeOK, Row
  <2>2. rows'[u] = IF DstChurned THEN ResetRow(rows[u]) ELSE rows[u]
    BY <1>2 DEF StatusDst
  <2> QED
    BY <2>1, <2>2
<1>3. CASE Open(u) /\ rows[u].st # "failed"
  <2>1. CASE \/ ReconcileAdopt \/ AdoptConfirm \/ TimedFlush \/ EndPass \/ LoseConnection
             \/ RefuseLiteral \/ Unwind \/ Stop
    <3>1. rows' = MarkDone(plan) \/ rows' = MarkDone(batch)
      BY <2>1 DEF ReconcileAdopt, AdoptConfirm, TimedFlush, EndPass, LoseConnection,
         RefuseLiteral, Unwind, Stop
    <3>2. plan \in SUBSET Triple /\ batch \in SUBSET Triple
      BY <1>0 DEF TypeOK
    <3> QED
      BY <1>0, <1>3, <3>1, <3>2, MarkDoneStates
  <2>2. CASE ReconcileScan \/ AdoptScan
    <3>1. PICK us \in SUBSET Uid : rows' = FillFp(us)
      <4>1. With("planned") \in SUBSET Uid /\ With("inflight") \in SUBSET Uid
        BY DEF With
      <4> QED
        BY <2>2, <4>1 DEF ReconcileScan, AdoptScan
    <3> QED
      BY <1>0, <1>3, <3>1, FillFpType
  <2>3. CASE ReconcileReplan \/ MarkIntent
    <3>1. With("inflight") \in SUBSET Uid /\ fresh \in SUBSET Uid
      BY <1>0 DEF With, TypeOK
    <3>2. \/ rows' = MarkState(With("inflight"), "planned")
          \/ rows' = MarkState(fresh, "inflight")
      BY <2>3 DEF ReconcileReplan, MarkIntent
    <3> QED
      BY <1>0, <1>3, <3>1, <3>2, MarkStateStates
  <2>4. CASE InsertChunk
    BY <1>3, <2>4 DEF InsertChunk, InsertPlanned, Open
  <2>5. \/ ScanSource \/ RecordSource \/ RecordDst \/ RecordBracket \/ StartIsolation
        \/ LeaveIsolation \/ TakeHint \/ StartBatch \/ Stream \/ StreamKicked \/ Settle
        \/ RecordFailed \/ AfterFailures \/ MarkRecoveries \/ Finalize \/ Hangup
        => rows' = rows
    BY DEF ScanSource, RecordSource, RecordDst, RecordBracket, StartIsolation, LeaveIsolation,
           TakeHint, StartBatch, Stream, StreamKicked, Settle, RecordFailed, AfterFailures,
           MarkRecoveries, Finalize, Hangup
  <2>6. \/ ServerAppend \/ ServerRefuse \/ ServerLate \/ LoseOnSingle \/ Kick \/ Crash
        \/ ChurnSource \/ ChurnDestination \/ CommandEnds \/ UNCHANGED vars
        => rows' = rows
    BY DEF ServerAppend, ServerRefuse, ServerLate, LoseOnSingle, Kick, Crash, ChurnSource,
           ChurnDestination, CommandEnds, vars
  <2> QED
    BY <1>1, <1>2, <1>3, <2>1, <2>2, <2>3, <2>4, <2>5, <2>6, NoCommands
       DEF Next, Step, Server
<1> QED
  BY <1>1, <1>2, <1>3, RowsMove DEF Open

\* The connection comes up with a session, and goes with it or before it.
LEMMA LinkMoves ==
  ASSUME [Next]_vars
  PROVE  /\ link' = "up" => OpenFolder \/ (link = "up" /\ (limbo' = limbo \/ ServerLate))
         /\ pc' \notin Late \union {"idle"} =>
              OpenFolder \/ (link' = link /\ pc \notin Late \union {"idle"})
         /\ pc' = "idle" => link' = "lost" \/ (pc = "idle" /\ link' = link)
<1> USE DEF dbVars, passVars, sessVars, memVars, vars, Late, EndSession, StartPass
<1>0. CASE OpenFolder
  BY <1>0 DEF OpenFolder
<1>1. CASE \/ StatusDst \/ ReconcileScan \/ ReconcileAdopt \/ ReconcileReplan \/ ScanSource
           \/ InsertChunk \/ RecordSource \/ AdoptScan \/ AdoptConfirm \/ RecordDst
           \/ RecordBracket
  BY <1>1 DEF StatusDst, ReconcileScan, ReconcileAdopt, ReconcileReplan, ScanSource,
     InsertChunk, RecordSource, AdoptScan, AdoptConfirm, RecordDst, RecordBracket
<1>2. CASE \/ StartIsolation \/ LeaveIsolation \/ TakeHint \/ StartBatch \/ MarkIntent
           \/ Stream \/ StreamKicked \/ Settle \/ TimedFlush \/ EndPass \/ RecordFailed
           \/ MarkFailed \/ AfterFailures \/ MarkRecoveries
  BY <1>2 DEF StartIsolation, LeaveIsolation, TakeHint, StartBatch, MarkIntent, Stream,
     StreamKicked, Settle, TimedFlush, EndPass, RecordFailed, MarkFailed, AfterFailures,
     MarkRecoveries
<1>3. CASE \/ Finalize \/ Hangup \/ Unwind \/ LoseConnection \/ RefuseLiteral \/ LoseOnSingle
           \/ Kick \/ Stop \/ Crash
  BY <1>3 DEF Finalize, Hangup, Unwind, LoseConnection, RefuseLiteral, LoseOnSingle, Kick,
     Stop, Crash
<1>4. CASE \/ ServerAppend \/ ServerRefuse \/ ServerLate \/ ChurnSource \/ ChurnDestination
           \/ RetryFailed \/ MarkPending \/ Replan \/ CommandEnds \/ IgnoreFailed \/ Compact
           \/ UNCHANGED vars
  BY <1>4 DEF ServerAppend, ServerRefuse, ServerLate, ChurnSource, ChurnDestination,
     RetryFailed, MarkPending, Replan, CommandEnds, IgnoreFailed, Compact
<1> QED
  BY <1>0, <1>1, <1>2, <1>3, <1>4 DEF Next, Step, Server

\* What is on the wire when a connection goes is away.
LEMMA LimboMoves ==
  ASSUME [Next]_vars
  PROVE  \/ limbo' = limbo
         \/ OpenFolder \/ ServerLate
         \/ /\ limbo' = limbo \union {src.body[u] : u \in Unanswered}
            /\ UNCHANGED <<src, dst>>
<1> USE DEF dbVars, passVars, sessVars, memVars, vars, EndSession
<1>1. CASE \/ StatusDst \/ ReconcileScan \/ ReconcileAdopt \/ ReconcileReplan \/ ScanSource
           \/ InsertChunk \/ RecordSource \/ AdoptScan \/ AdoptConfirm \/ RecordDst
           \/ RecordBracket
  BY <1>1 DEF StatusDst, ReconcileScan, ReconcileAdopt, ReconcileReplan, ScanSource,
     InsertChunk, RecordSource, AdoptScan, AdoptConfirm, RecordDst, RecordBracket
<1>2. CASE \/ StartIsolation \/ LeaveIsolation \/ TakeHint \/ StartBatch \/ MarkIntent
           \/ Stream \/ StreamKicked \/ Settle \/ TimedFlush \/ EndPass \/ RecordFailed
           \/ MarkFailed \/ AfterFailures \/ MarkRecoveries
  BY <1>2 DEF StartIsolation, LeaveIsolation, TakeHint, StartBatch, MarkIntent, Stream,
     StreamKicked, Settle, TimedFlush, EndPass, RecordFailed, MarkFailed, AfterFailures,
     MarkRecoveries
<1>3. CASE \/ Finalize \/ Hangup \/ Unwind \/ LoseConnection \/ RefuseLiteral \/ LoseOnSingle
           \/ Kick \/ Stop \/ Crash
  BY <1>3 DEF Finalize, Hangup, Unwind, LoseConnection, RefuseLiteral, LoseOnSingle, Kick,
     Stop, Crash
<1>4. CASE \/ ServerAppend \/ ServerRefuse \/ ServerLate \/ ChurnSource \/ ChurnDestination
           \/ RetryFailed \/ MarkPending \/ Replan \/ CommandEnds \/ IgnoreFailed \/ Compact
           \/ UNCHANGED vars
  BY <1>4 DEF ServerAppend, ServerRefuse, ServerLate, ChurnSource, ChurnDestination,
     RetryFailed, MarkPending, Replan, CommandEnds, IgnoreFailed, Compact
<1> QED
  BY <1>1, <1>2, <1>3, <1>4 DEF Next, Step, Server

\* An APPEND waits for its answer on the connection it was sent on.
LEMMA SentMoves ==
  ASSUME SInv, [Next]_vars, NEW u \in Uid, wire'[u].ack = "sent"
  PROVE  \/ /\ wire[u].ack = "sent" /\ link' = link
            /\ dst' = dst \/ ServerLate \/ (ServerAppend /\ u # Least(Unanswered))
         \/ Stream /\ u = Least(win)
<1> USE DEF dbVars, passVars, sessVars, memVars, vars
<1>0. TypeOK
  BY DEF SInv, TypeInv
<1>1. wire[u].ack = "sent" => pc = "pass"
  BY NothingOutside DEF SInv, Unanswered
<1>2. CASE \/ OpenFolder \/ StatusDst \/ ReconcileScan \/ ReconcileAdopt \/ ReconcileReplan
           \/ ScanSource \/ InsertChunk \/ RecordSource \/ AdoptScan \/ AdoptConfirm
           \/ RecordDst \/ RecordBracket
  BY <1>1, <1>2 DEF OpenFolder, StatusDst, ReconcileScan, ReconcileAdopt, ReconcileReplan,
     ScanSource, InsertChunk, RecordSource, AdoptScan, AdoptConfirm, RecordDst, RecordBracket
<1>3. CASE \/ StartIsolation \/ LeaveIsolation \/ TakeHint \/ StartBatch \/ MarkIntent
           \/ StreamKicked \/ TimedFlush \/ EndPass \/ RecordFailed
           \/ MarkFailed \/ AfterFailures \/ MarkRecoveries
  BY <1>3 DEF StartIsolation, LeaveIsolation, TakeHint, StartBatch, MarkIntent,
     StreamKicked, TimedFlush, EndPass, RecordFailed, MarkFailed, AfterFailures,
     MarkRecoveries
<1>4. CASE Stream
  BY <1>0, <1>4 DEF Stream, TypeOK
<1>5. CASE Settle
  BY <1>0, <1>5 DEF Settle, Off, TypeOK
<1>6. CASE ServerAppend
  BY <1>0, <1>6, AppendDelivers DEF ServerAppend, SInv, TypeOK
<1>7. CASE ServerRefuse
  <2>1. Least(Unanswered) \in Uid
    <3>1. Unanswered # {} /\ Unanswered \in SUBSET Uid
      BY <1>7 DEF ServerRefuse, Unanswered
    <3> QED
      BY <3>1, LeastIsElement
  <2> QED
    BY <1>0, <1>7, <2>1 DEF ServerRefuse, TypeOK, Ack
<1>8. CASE Kick
  BY <1>8 DEF Kick, Unanswered
<1>9. CASE \/ Finalize \/ Hangup \/ Unwind \/ LoseConnection \/ RefuseLiteral \/ LoseOnSingle
           \/ Stop \/ Crash
  <2>1. wire' = Idle
    BY <1>9 DEF Finalize, Hangup, Unwind, LoseConnection, RefuseLiteral, LoseOnSingle,
                Stop, Crash, EndSession
  <2> QED
    BY <2>1 DEF Idle, Off
<1>10. CASE ChurnSource \/ ChurnDestination
  BY <1>1, <1>10 DEF ChurnSource, ChurnDestination
<1>11. CASE \/ ServerLate \/ RetryFailed \/ MarkPending \/ Replan \/ CommandEnds
            \/ IgnoreFailed \/ Compact \/ UNCHANGED vars
  BY <1>11 DEF ServerLate, RetryFailed, MarkPending, Replan, CommandEnds, IgnoreFailed,
               Compact
<1> QED
  BY <1>2, <1>3, <1>4, <1>5, <1>6, <1>7, <1>8, <1>9, <1>10, <1>11 DEF Next, Step, Server

\* The brackets move to a UIDNEXT that has been read.
LEMMA BracketMoves ==
  ASSUME TypeOK, [Next]_vars
  PROVE  /\ folder'.bracket \in {folder.bracket, sess.next}
         /\ sess'.next \in {sess.next, dst.next, 0}
<1> USE DEF dbVars, passVars, sessVars, memVars, vars, EndSession, NoSession
<1>0. folder \in Folder /\ sess \in Session
  BY DEF TypeOK
<1>1. CASE OpenFolder
  BY <1>0, <1>1 DEF OpenFolder, Folder
<1>2. CASE StatusDst
  <2>1. folder'.bracket = folder.bracket
    BY <1>0, <1>2 DEF StatusDst, NoteStatus, Folder
  <2>2. sess'.next = dst.next
    BY <1>0, <1>2 DEF StatusDst, Session
  <2> QED
    BY <2>1, <2>2
<1>3. CASE ScanSource
  BY <1>0, <1>3 DEF ScanSource, Session
<1>4. CASE RecordSource \/ RecordDst \/ RecordBracket
  BY <1>0, <1>4 DEF RecordSource, RecordDst, RecordBracket, Folder, Session
<1>5. CASE Finalize
  BY <1>0, <1>5 DEF Finalize, Folder
<1>6. CASE UNCHANGED <<folder, sess>>
  BY <1>6
<1>7. CASE folder' = folder /\ sess' = NoSession
  BY <1>7
<1>8. \/ ReconcileScan \/ ReconcileAdopt \/ ReconcileReplan
      \/ InsertChunk \/ AdoptScan \/ AdoptConfirm \/ StartIsolation \/ LeaveIsolation \/ TakeHint
      \/ StartBatch \/ MarkIntent \/ Stream \/ StreamKicked \/ Settle \/ TimedFlush \/ EndPass
      \/ RecordFailed \/ MarkFailed \/ AfterFailures \/ MarkRecoveries
      => UNCHANGED <<folder, sess>>
  BY DEF ReconcileScan, ReconcileAdopt, ReconcileReplan, InsertChunk, AdoptScan, AdoptConfirm,
     StartIsolation, LeaveIsolation, TakeHint, StartBatch, MarkIntent, Stream, StreamKicked,
     Settle, TimedFlush, EndPass, RecordFailed, MarkFailed, AfterFailures, MarkRecoveries
<1>9. Hangup \/ Unwind \/ LoseConnection \/ RefuseLiteral \/ Stop \/ Crash
      => folder' = folder /\ sess' = NoSession
  BY DEF Hangup, Unwind, LoseConnection, RefuseLiteral, Stop, Crash
<1>10. \/ LoseOnSingle \/ Kick \/ ServerAppend \/ ServerRefuse \/ ServerLate \/ ChurnSource
       \/ ChurnDestination \/ RetryFailed \/ MarkPending \/ Replan \/ CommandEnds
       \/ IgnoreFailed \/ Compact \/ UNCHANGED vars
       => UNCHANGED <<folder, sess>>
  BY DEF LoseOnSingle, Kick, ServerAppend, ServerRefuse, ServerLate, ChurnSource,
     ChurnDestination, RetryFailed, MarkPending, Replan, CommandEnds, IgnoreFailed, Compact
<1> QED
  BY <1>1, <1>2, <1>3, <1>4, <1>5, <1>6, <1>7, <1>8, <1>9, <1>10 DEF Next, Step, Server

-------------------------------------------------------------------------------
(* One message, one copy *)

LEMMA LinkUpStep ==
  ASSUME Undisturbed, DInv, [Next]_vars
  PROVE  LinkUp'
<1>1. LinkUp
  BY DEF DInv
<1>2. OpenFolder => limbo' = {} /\ link' = "up" /\ pc' = "status"
  BY DEF OpenFolder, Undisturbed
<1>3. link' = "up" => limbo' = {}
  BY <1>1, <1>2, LinkMoves DEF LinkUp, ServerLate
<1>4. pc' \notin Late \union {"idle"} => link' = "up"
  BY <1>1, <1>2, LinkMoves DEF LinkUp
<1>5. pc' = "idle" => link' = "lost"
  BY <1>1, LinkMoves DEF LinkUp
<1> QED
  BY <1>3, <1>4, <1>5 DEF LinkUp

\* The bodies the destination holds after a step.
LEMMA MailMoves ==
  ASSUME TypeInv, UidsUnique, [Next]_vars
  PROVE  \/ dst'.mail = dst.mail
         \/ /\ ServerAppend /\ Unanswered # {}
            /\ Least(Unanswered) \in Unanswered
            /\ dst'.mail = dst.mail \union
                             {[uid |-> dst.next, body |-> src.body[Least(Unanswered)]]}
         \/ /\ ServerLate
            /\ \E b \in limbo : /\ dst'.mail = dst.mail \union {[uid |-> dst.next, body |-> b]}
                                /\ limbo' = limbo \ {b}
         \/ /\ ChurnDestination
            /\ \A e \in dst'.mail :
                 \E f \in dst.mail : f.body = e.body /\ e.uid = dst.next - f.uid
<1>1. CASE ServerAppend
  BY <1>1, AppendDelivers, DeliverType
<1>2. CASE ServerLate
  <2>1. PICK b \in limbo : dst' = Deliver(b) /\ limbo' = limbo \ {b}
    BY <1>2 DEF ServerLate
  <2>2. b \in Body
    BY <2>1 DEF TypeInv, TypeOK
  <2> QED
    BY <1>2, <2>1, <2>2, DeliverType
<1>3. CASE ChurnDestination
  BY <1>3, RenumberedUnique
<1> QED
  BY <1>1, <1>2, <1>3, WhoDelivers

LEMMA NoDuplicatesStep ==
  ASSUME DInv, [Next]_vars
  PROVE  NoDuplicates'
<1>0. TypeInv /\ UidsUnique /\ NoDuplicates
  BY DEF DInv, WInv, SInv, FoldersApart
<1>1. CASE dst'.mail = dst.mail
  BY <1>0, <1>1 DEF NoDuplicates
<1>2. CASE \E b : /\ \A e \in dst.mail : e.body # b
                  /\ dst'.mail = dst.mail \union {[uid |-> dst.next, body |-> b]}
  <2>1. PICK b : /\ \A e \in dst.mail : e.body # b
                 /\ dst'.mail = dst.mail \union {[uid |-> dst.next, body |-> b]}
    BY <1>2
  <2> DEFINE new == [uid |-> dst.next, body |-> b]
  <2>2. new.body = b /\ dst'.mail = dst.mail \union {new}
    BY <2>1
  <2> HIDE DEF new
  <2> QED
    BY <1>0, <2>1, <2>2 DEF NoDuplicates
<1>3. CASE /\ ChurnDestination
           /\ \A e \in dst'.mail :
                \E f \in dst.mail : f.body = e.body /\ e.uid = dst.next - f.uid
  BY <1>0, <1>3 DEF NoDuplicates
<1>4. \A u \in Unanswered : \A e \in dst.mail : e.body # src.body[u]
  BY DEF DInv, SentFresh, Delivered
<1>5. \A b \in limbo : \A e \in dst.mail : e.body # b
  BY DEF DInv, LimboFresh
<1> QED
  BY <1>0, <1>1, <1>2, <1>3, <1>4, <1>5, MailMoves

LEMMA LimboFreshStep ==
  ASSUME Undisturbed, DInv, [Next]_vars
  PROVE  LimboFresh'
<1>0. TypeInv /\ UidsUnique /\ LimboFresh /\ SentFresh
  BY DEF DInv, WInv, SInv, FoldersApart
<1>1. CASE ServerAppend
  <2>1. link = "up" /\ limbo' = limbo
    BY <1>1 DEF ServerAppend
  <2>2. limbo' = {}
    BY <2>1 DEF DInv, LinkUp
  <2> QED
    BY <2>2 DEF LimboFresh
<1>2. CASE ServerLate
  <2>1. PICK b \in limbo : /\ dst'.mail = dst.mail \union {[uid |-> dst.next, body |-> b]}
                           /\ limbo' = limbo \ {b}
    <3>1. PICK b \in limbo : dst' = Deliver(b) /\ limbo' = limbo \ {b}
      BY <1>2 DEF ServerLate
    <3>2. b \in Body
      BY <1>0, <3>1 DEF TypeInv, TypeOK
    <3> QED
      BY <1>0, <3>1, <3>2, DeliverType
  <2> QED
    BY <1>0, <2>1 DEF LimboFresh
<1>3. CASE ChurnDestination
  <2>1. limbo' = limbo
    BY <1>3 DEF ChurnDestination
  <2>2. \A e \in dst'.mail : \E f \in dst.mail : f.body = e.body
    BY <1>0, <1>3, RenumberedUnique
  <2> QED
    BY <1>0, <2>1, <2>2 DEF LimboFresh
<1>4. CASE OpenFolder
  <2>1. limbo' = {}
    BY <1>4 DEF OpenFolder, Undisturbed
  <2> QED
    BY <2>1 DEF LimboFresh
<1>5. CASE dst' = dst /\ limbo' = limbo
  BY <1>0, <1>5 DEF LimboFresh
<1>6. CASE dst' = dst /\ limbo' = limbo \union {src.body[u] : u \in Unanswered}
  BY <1>0, <1>6 DEF LimboFresh, SentFresh, Delivered
<1> QED
  BY <1>1, <1>2, <1>3, <1>4, <1>5, <1>6, WhoDelivers, LimboMoves

LEMMA BracketPastStep ==
  ASSUME DInv, [Next]_vars
  PROVE  BracketPast'
<1>0. TypeInv /\ TypeOK /\ BracketPast
  BY DEF DInv, WInv, SInv, TypeInv
<1>1. /\ dst.next \in Nat /\ folder.bracket \in Nat /\ sess.next \in Nat
      /\ folder.bracket <= dst.next /\ sess.next <= dst.next
  BY <1>0 DEF TypeOK, Folder, Session, BracketPast
<1>2. dst'.next \in {dst.next, dst.next + 1}
  <2>1. \A b : Deliver(b).next = dst.next + 1
    BY <1>0 DEF Deliver, TypeOK
  <2>2. ChurnDestination => dst'.next = dst.next
    BY <1>0 DEF ChurnDestination, TypeOK
  <2> QED
    BY <1>0, <2>1, <2>2, WhoDelivers DEF ServerAppend, ServerLate
<1>3. folder'.bracket <= dst.next /\ sess'.next <= dst.next
      /\ folder'.bracket \in Nat /\ sess'.next \in Nat
  BY <1>0, <1>1, BracketMoves
<1> QED
  BY <1>1, <1>2, <1>3 DEF BracketPast

\* What is sent has not been delivered before, and nobody else delivers it.
LEMMA SentFreshStep ==
  ASSUME DInv, [Next]_vars
  PROVE  SentFresh'
<1>0. /\ TypeInv /\ SInv /\ UidsUnique /\ BodiesApart /\ LinkUp
      /\ (\A v \in Uid : wire[v].ack = "sent" => link = "up" /\ ~Delivered(v))
  BY DEF DInv, WInv, SInv, FoldersApart, SentFresh, Unanswered
<1> SUFFICES ASSUME NEW u \in Uid, wire'[u].ack = "sent"
             PROVE  link' = "up" /\ ~Delivered(u)'
  BY DEF SentFresh, Unanswered
<1>1. CASE /\ wire[u].ack = "sent" /\ link' = link
           /\ dst' = dst \/ ServerLate \/ (ServerAppend /\ u # Least(Unanswered))
  <2>1. link = "up" /\ ~Delivered(u) /\ limbo = {}
    BY <1>0, <1>1 DEF LinkUp
  <2>2. src' = src
    <3>1. pc = "pass"
      BY <1>0, <1>1, NothingOutside DEF SInv
    <3> QED
      BY <3>1, WhoDelivers DEF ChurnSource
  <2>3. CASE dst' = dst
    BY <1>1, <2>1, <2>2, <2>3 DEF Delivered
  <2>4. CASE ServerAppend /\ u # Least(Unanswered)
    <3>1. PICK v \in Unanswered : /\ v = Least(Unanswered) /\ v \in Uid /\ src.body[v] \in Body
                                  /\ dst' = Deliver(src.body[v])
      BY <1>0, <2>4, AppendDelivers
    <3>2. dst'.mail = dst.mail \union {[uid |-> dst.next, body |-> src.body[v]]}
      BY <1>0, <3>1, DeliverType
    <3>3. src.body[v] # src.body[u]
      BY <1>0, <2>4, <3>1 DEF BodiesApart
    <3> QED
      BY <1>1, <2>1, <2>2, <3>2, <3>3 DEF Delivered
  <2>5. CASE ServerLate
    BY <2>1, <2>5 DEF ServerLate
  <2> QED
    BY <1>1, <2>3, <2>4, <2>5
<1>2. CASE Stream /\ u = Least(win)
  <2>1. /\ pc = "pass" /\ link = "up" /\ fresh = {} /\ win # {} /\ win \in SUBSET Uid
        /\ src' = src /\ dst' = dst /\ link' = link
    BY <1>0, <1>2 DEF Stream, IntentsRecorded, TypeInv, TypeOK
  <2>2. u \in win
    BY <1>2, <2>1, LeastIsElement
  <2>3. rows[u].st = "inflight"
    BY <1>0, <2>1, <2>2 DEF SInv, PassRows
  <2>4. wire[u].ack = "off" /\ u \notin Srcs(batch)
    BY <1>0, <2>1, <2>2 DEF SInv, Parted, Pending
  <2>5. ~Delivered(u)
    BY <2>1, <2>3, <2>4 DEF DInv, Untried, Late, Settled
  <2> QED
    BY <2>1, <2>5 DEF Delivered
<1> QED
  BY <1>0, <1>1, <1>2, SentMoves

\* Who changes the folder's row.
LEMMA FolderMoves ==
  ASSUME [Next]_vars
  PROVE  \/ folder' = folder
         \/ RecordSource
         \/ OpenFolder /\ SrcChurned
         \/ StatusDst /\ DstChurned
         \/ RecordDst \/ RecordBracket \/ Finalize
<1> USE DEF dbVars, passVars, sessVars, memVars, vars
<1>1. CASE \/ OpenFolder \/ StatusDst \/ ReconcileScan \/ ReconcileAdopt \/ ReconcileReplan
           \/ ScanSource \/ InsertChunk \/ RecordSource \/ AdoptScan \/ AdoptConfirm
           \/ RecordDst \/ RecordBracket
  BY <1>1 DEF OpenFolder, StatusDst, NoteStatus, ReconcileScan, ReconcileAdopt,
     ReconcileReplan, ScanSource, InsertChunk, AdoptScan, AdoptConfirm
<1>2. CASE \/ StartIsolation \/ LeaveIsolation \/ TakeHint \/ StartBatch \/ MarkIntent
           \/ Stream \/ StreamKicked \/ Settle \/ TimedFlush \/ EndPass \/ RecordFailed
           \/ MarkFailed \/ AfterFailures \/ MarkRecoveries
  BY <1>2 DEF StartIsolation, LeaveIsolation, TakeHint, StartBatch, MarkIntent, Stream,
     StreamKicked, Settle, TimedFlush, EndPass, RecordFailed, MarkFailed, AfterFailures,
     MarkRecoveries
<1>3. CASE \/ Finalize \/ Hangup \/ Unwind \/ LoseConnection \/ RefuseLiteral \/ LoseOnSingle
           \/ Kick \/ Stop \/ Crash
  BY <1>3 DEF Hangup, Unwind, LoseConnection, RefuseLiteral, LoseOnSingle, Kick, Stop, Crash
<1>4. CASE \/ ServerAppend \/ ServerRefuse \/ ServerLate \/ ChurnSource \/ ChurnDestination
           \/ RetryFailed \/ MarkPending \/ Replan \/ CommandEnds \/ IgnoreFailed \/ Compact
           \/ UNCHANGED vars
  BY <1>4 DEF ServerAppend, ServerRefuse, ServerLate, ChurnSource, ChurnDestination,
     RetryFailed, MarkPending, Replan, CommandEnds, IgnoreFailed, Compact
<1> QED
  BY <1>1, <1>2, <1>3, <1>4 DEF Next, Step, Server

\* When the session records what it has done, every message that is there is settled.
LEMMA RecordedIsSettled ==
  ASSUME DInv, pc \in {"record", "bracket"}, NEW u \in Uid
  PROVE  ~Away(u) /\ (Delivered(u) => Settled(u))
<1>1. link = "up" /\ limbo = {}
  BY DEF DInv, LinkUp, Late
<1>2. wire[u].ack = "off" /\ batch = {}
  BY NothingOutside DEF DInv, WInv, SInv, NothingPending
<1> QED
  BY <1>1, <1>2 DEF DInv, Untried, Away, Srcs

\* When it is through, every row is settled.
LEMMA FinishedIsSettled ==
  ASSUME WInv, pc = "finalize", NEW u \in Uid
  PROVE  Settled(u)
<1>1. rows[u].st \notin {"none", "planned", "inflight"}
  BY DEF WInv, NoneLeft, InflightHeld, PlannedHeld, Held, Late
<1> QED
  BY <1>1 DEF Settled, WInv, SInv, TypeInv, TypeOK, Row

\* Unanswered messages are in flight.
LEMMA UnansweredInflight ==
  ASSUME SInv, NEW u \in Unanswered
  PROVE  u \in Uid /\ rows[u].st = "inflight" /\ pc = "pass"
<1>1. u \in Uid /\ wire[u].ack = "sent" /\ u \in Pending
  BY DEF Unanswered, Pending
<1>2. pc = "pass"
  BY <1>1, NothingOutside DEF SInv
<1> QED
  BY <1>1, <1>2 DEF SInv, PassRows

LEMMA CoveredStep ==
  ASSUME Undisturbed, DInv, [Next]_vars
  PROVE  Covered'
<1>0. /\ TypeInv /\ TypeOK /\ WInv /\ SInv /\ IInv /\ BodiesApart /\ UidsUnique
      /\ LimboFresh /\ SentFresh /\ LinkUp /\ BracketPast
      /\ RecordedIsPast /\ SessionIsCurrent
  BY DEF DInv, WInv, SInv, IInv, TypeInv, FoldersApart
<1>a. folder \in Folder
  BY <1>0 DEF TypeOK
<1> SUFFICES ASSUME SameEpoch', NEW u \in Uid, (Delivered(u) \/ Away(u))'
             PROVE  SoughtAfter(u)'
  BY DEF Covered
<1>1. CASE OpenFolder /\ SrcChurned
  BY <1>a, <1>1 DEF OpenFolder, SoughtAfter, Folder
<1>2. CASE StatusDst /\ DstChurned
  BY <1>a, <1>2 DEF StatusDst, NoteStatus, SoughtAfter, Folder
<1>3. CASE RecordDst \/ RecordBracket
  <2>1. pc \in {"record", "bracket"} /\ src' = src /\ dst' = dst /\ limbo' = limbo /\ rows' = rows
    BY <1>3 DEF RecordDst, RecordBracket
  <2>2. ~Away(u) /\ (Delivered(u) => Settled(u))
    BY <2>1, RecordedIsSettled
  <2> QED
    BY <2>1, <2>2 DEF Delivered, Away, Settled, SoughtAfter
<1>4. CASE Finalize
  <2>1. Settled(u) /\ rows' = rows
    BY <1>0, <1>4, FinishedIsSettled DEF Finalize
  <2> QED
    BY <2>1 DEF Settled, SoughtAfter
<1>5. CASE ChurnSource \/ ChurnDestination
  <2>1. src.uv \in Nat /\ dst.uv \in Nat /\ folder.uvSrc \in Nat /\ folder.uvDst \in Nat
        /\ folder.uvSrc <= src.uv /\ folder.uvDst <= dst.uv
    BY <1>0, <1>a DEF TypeOK, Folder, RecordedIsPast
  <2>2. CASE ChurnSource
    <3>1. src'.uv = src.uv + 1 /\ folder' = folder /\ folder.uvSrc # 0
      BY <2>2 DEF ChurnSource, Undisturbed, dbVars
    <3> QED
      BY <2>1, <3>1 DEF SameEpoch
  <2>3. CASE ChurnDestination
    <3>1. dst'.uv = dst.uv + 1 /\ folder' = folder /\ folder.uvDst # 0
      BY <1>0, <2>3 DEF ChurnDestination, Undisturbed, dbVars, TypeOK
    <3> QED
      BY <2>1, <3>1 DEF SameEpoch
  <2> QED
    BY <1>5, <2>2, <2>3
<1>6. CASE ServerAppend \/ ServerLate
  <2>1. src' = src /\ folder' = folder /\ rows' = rows
    BY <1>6 DEF ServerAppend, ServerLate, dbVars
  <2>2. PICK b : /\ dst' = Deliver(b) /\ b \in Body
                 /\ \A e \in dst.mail : e.body # b
                 /\ b = src.body[u] =>
                      Settled(u) \/ rows[u].st = "inflight" \/ (SameEpoch => ~folder.adopt)
                 /\ limbo' \subseteq limbo
    <3>1. CASE ServerAppend
      <4>1. PICK v \in Unanswered : v \in Uid /\ src.body[v] \in Body
                                    /\ dst' = Deliver(src.body[v])
        BY <1>0, <3>1, AppendDelivers
      <4>2. rows[v].st = "inflight" /\ \A e \in dst.mail : e.body # src.body[v]
        BY <1>0, <4>1, UnansweredInflight DEF SentFresh, Delivered
      <4>3. src.body[v] = src.body[u] => v = u
        BY <1>0, <4>1 DEF BodiesApart
      <4>4. limbo' = limbo
        BY <3>1 DEF ServerAppend
      <4> QED
        BY <4>1, <4>2, <4>3, <4>4
    <3>2. CASE ServerLate
      <4>1. PICK b \in limbo : dst' = Deliver(b) /\ limbo' = limbo \ {b}
        BY <3>2 DEF ServerLate
      <4>2. b \in Body /\ \A e \in dst.mail : e.body # b
        BY <1>0, <4>1 DEF TypeOK, LimboFresh
      <4>3. b = src.body[u] /\ SameEpoch => SoughtAfter(u)
        BY <4>1 DEF DInv, Covered, Away
      <4> QED
        BY <4>1, <4>2, <4>3 DEF SoughtAfter
    <3> QED
      BY <1>6, <3>1, <3>2
  <2> DEFINE new == [uid |-> dst.next, body |-> b]
  <2>3. dst'.mail = dst.mail \union {new} /\ dst'.uv = dst.uv /\ new.uid = dst.next /\ new.body = b
    BY <1>0, <2>2, DeliverType
  <2>4. dst.next >= folder.bracket
    BY <1>0, <1>a DEF BracketPast, TypeOK, Folder
  <2>5. SameEpoch
    BY <2>1, <2>3 DEF SameEpoch
  <2> HIDE DEF new
  <2>6. CASE b = src.body[u]
    BY <2>1, <2>2, <2>3, <2>4, <2>5, <2>6 DEF SoughtAfter, Settled
  <2>7. CASE b # src.body[u]
    <3>1. Delivered(u) \/ Away(u)
      BY <2>1, <2>2, <2>3, <2>7 DEF Delivered, Away
    <3>2. SoughtAfter(u)
      BY <2>5, <3>1 DEF DInv, Covered
    <3> QED
      BY <2>1, <2>3, <2>7, <3>2 DEF SoughtAfter, Settled
  <2> QED
    BY <2>6, <2>7
<1>7. CASE /\ src' = src /\ dst' = dst
           /\ folder' = folder \/ RecordSource
           /\ ~(OpenFolder /\ SrcChurned) /\ ~(StatusDst /\ DstChurned) /\ ~ServerLate
  <2>1. folder'.bracket = folder.bracket /\ folder'.adopt = folder.adopt /\ SameEpoch
    <3>1. CASE folder' = folder
      BY <1>7, <3>1 DEF SameEpoch
    <3>2. CASE RecordSource
      BY <1>0, <1>a, <1>7, <3>2 DEF RecordSource, SameEpoch, SessionIsCurrent, Folder
    <3> QED
      BY <1>7, <3>1, <3>2
  <2>2. Delivered(u)' <=> Delivered(u)
    BY <1>7 DEF Delivered
  <2>3. CASE Delivered(u) \/ Away(u)
    <3>1. SoughtAfter(u)
      BY <2>1, <2>3 DEF DInv, Covered
    <3>2. CASE ~folder.adopt
      BY <2>1, <3>2 DEF SoughtAfter
    <3>3. CASE Settled(u)
      BY <1>0, <1>7, <3>3, RowsMove DEF Settled, Open, SoughtAfter
    <3>4. CASE /\ rows[u].st = "inflight" /\ folder.adopt
               /\ \A e \in dst.mail : e.body = src.body[u] => e.uid >= folder.bracket
      <4>1. ~ReconcileReplan
        <5> SUFFICES ASSUME ReconcileReplan PROVE FALSE
          OBVIOUS
        <5>1. pc = "replan"
          BY DEF ReconcileReplan
        <5>2. limbo = {}
          BY <1>0, <5>1 DEF LinkUp, Late
        <5>3. Delivered(u)
          BY <2>3, <5>2 DEF Away
        <5> QED
          BY <3>4, <5>1, <5>3 DEF DInv, Found
      <4>2. rows'[u].st \in {"inflight", "done", "failed"}
        BY <1>0, <1>7, <3>4, <4>1, RowsMove
      <4> QED
        BY <1>7, <2>1, <3>4, <4>2 DEF SoughtAfter, Settled
    <3> QED
      BY <3>1, <3>2, <3>3, <3>4 DEF SoughtAfter
  <2>4. CASE ~(Delivered(u) \/ Away(u))
    <3>1. src.body[u] \in limbo' /\ src.body[u] \notin limbo
      BY <1>7, <2>2, <2>4 DEF Away
    <3>2. u \in Unanswered
      <4>1. ~OpenFolder
        BY <3>1 DEF OpenFolder
      <4>2. PICK v \in Unanswered : src.body[v] = src.body[u]
        BY <1>7, <3>1, <4>1, LimboMoves
      <4> QED
        BY <1>0, <4>2 DEF BodiesApart, Unanswered
    <3>3. rows[u].st = "inflight" /\ pc = "pass"
      BY <1>0, <3>2, UnansweredInflight
    <3>4. ~ReconcileReplan /\ ~InsertChunk
      BY <3>3 DEF ReconcileReplan, InsertChunk
    <3>5. rows'[u].st \in {"inflight", "done", "failed"}
      BY <1>0, <1>7, <3>3, <3>4, RowsMove
    <3> QED
      BY <1>7, <2>2, <2>4, <3>5 DEF SoughtAfter, Settled, Delivered
  <2> QED
    BY <2>3, <2>4
<1> QED
  <2>1. RecordSource \/ (OpenFolder /\ SrcChurned) \/ (StatusDst /\ DstChurned)
        => src' = src /\ dst' = dst
    BY DEF RecordSource, OpenFolder, StatusDst
  <2> QED
    BY <1>1, <1>2, <1>3, <1>4, <1>5, <1>6, <1>7, FolderMoves, WhoDelivers

-------------------------------------------------------------------------------
(* The probes *)

\* A probe finds every message it is shown.
LEMMA MatchIsComplete ==
  ASSUME IInv, BodiesApart, pc # "idle", NEW us \in SUBSET Uid,
         NEW mail \in SUBSET dst.mail, NEW u \in us, NEW e \in mail,
         e.body = src.body[u]
  PROVE  u \in Srcs(Match(us, FillFp(us), mail))
<1> DEFINE r == FillFp(us)
<1>1. TypeOK /\ mail \subseteq Mail
  BY DEF IInv, TypeInv, TypeOK
<1>2. \A v \in us : r[v].fp = FP[src.body[v]]
  <2> TAKE v \in us
  <2>1. rows[v].fp \in {NoFp, FP[src.body[v]]}
    BY DEF IInv, FingerprintIsCurrent, SessionIsCurrent
  <2> QED
    BY <1>1, <2>1 DEF FillFp, TypeOK, Row
<1> HIDE DEF r
<1> DEFINE twins == {m \in mail : FP[m.body] = FP[src.body[u]]}
           uids  == {m.uid : m \in twins}
<1>3. PICK d \in uids : \A c \in uids : d <= c
  <2>1. e.uid \in uids /\ uids \in SUBSET Nat
    BY <1>1 DEF Mail
  <2> HIDE DEF uids
  <2> QED
    BY <2>1, LeastOfNumbers
<1>4. PICK f \in twins : f.uid = d
  OBVIOUS
<1>5. {v \in us : v < u /\ r[v].fp = r[u].fp} = {}
  <2> SUFFICES ASSUME NEW v \in us, v < u, r[v].fp = r[u].fp PROVE FALSE
    OBVIOUS
  <2>1. u \in Uid /\ v \in Uid /\ u \in Nat
    OBVIOUS
  <2>2. r[u].fp = FP[src.body[u]] /\ r[v].fp = FP[src.body[v]]
    BY <1>2
  <2>3. FP[src.body[u]] = FP[src.body[v]]
    BY <2>2
  <2>4. v = u
    BY <2>1, <2>3 DEF BodiesApart
  <2> QED
    BY <2>1, <2>4
<1>6. {m \in mail : m.uid < d /\ FP[m.body] = FP[f.body]} = {}
  <2> SUFFICES ASSUME NEW m \in mail, m.uid < d, FP[m.body] = FP[f.body] PROVE FALSE
    OBVIOUS
  <2>1. m.uid \in uids /\ m.uid \in Nat /\ d \in Nat
    BY <1>1, <1>4 DEF Mail
  <2>2. d <= m.uid
    BY <1>3, <2>1
  <2> QED
    BY <2>1, <2>2
<1> DEFINE t == [src |-> u, dst |-> d]
<1>7. t \in [src : us, dst : {m.uid : m \in mail}] /\ t.src = u /\ t.dst = d
  BY <1>4
<1>8. f \in mail /\ f.uid = t.dst /\ FP[f.body] = r[t.src].fp
  BY <1>2, <1>4, <1>7
<1> HIDE DEF t, twins, uids
<1>9. t \in Match(us, r, mail)
  BY <1>5, <1>6, <1>7, <1>8 DEF Match
<1> QED
  BY <1>7, <1>9 DEF Srcs, r

\* Before the first pass nothing happens but the session's own steps.
LEMMA MiddleMoves ==
  ASSUME Undisturbed, DInv, [Next]_vars, pc' \in Middle \union {"status"}
  PROVE  \/ OpenFolder \/ StatusDst \/ ReconcileScan \/ ReconcileAdopt \/ ReconcileReplan
         \/ ScanSource \/ InsertChunk \/ RecordSource \/ AdoptScan \/ AdoptConfirm
         \/ RecordDst
         \/ UNCHANGED <<src, dst, rows, folder, pc, link, sess, plan>>
<1> USE DEF dbVars, passVars, sessVars, memVars, vars, Middle
<1>1. CASE \/ OpenFolder \/ StatusDst \/ ReconcileScan \/ ReconcileAdopt \/ ReconcileReplan
           \/ ScanSource \/ InsertChunk \/ RecordSource \/ AdoptScan \/ AdoptConfirm
           \/ RecordDst
  BY <1>1
<1>2. CASE \/ RecordBracket \/ StartIsolation \/ LeaveIsolation \/ TakeHint \/ StartBatch
           \/ MarkIntent \/ Stream \/ StreamKicked \/ Settle \/ TimedFlush \/ EndPass
           \/ RecordFailed \/ MarkFailed \/ AfterFailures \/ MarkRecoveries
  BY <1>2 DEF RecordBracket, StartIsolation, LeaveIsolation, TakeHint, StartBatch, MarkIntent,
     Stream, StreamKicked, Settle, TimedFlush, EndPass, RecordFailed, MarkFailed,
     AfterFailures, MarkRecoveries, StartPass
<1>3. CASE \/ Finalize \/ Hangup \/ Unwind \/ LoseConnection \/ RefuseLiteral \/ LoseOnSingle
           \/ Kick \/ Stop \/ Crash
  BY <1>3 DEF Finalize, Hangup, Unwind, LoseConnection, RefuseLiteral, LoseOnSingle, Kick,
     Stop, Crash, EndSession
<1>4. CASE ServerAppend \/ ServerRefuse \/ ServerLate
  <2>1. pc' = pc
    BY <1>4 DEF ServerAppend, ServerRefuse, ServerLate
  <2>2. Unanswered = {} /\ limbo = {}
    BY <2>1, NothingOutside DEF DInv, WInv, SInv, LinkUp, Late
  <2> QED
    BY <1>4, <2>2 DEF ServerAppend, ServerRefuse, ServerLate
<1>5. CASE ChurnSource \/ ChurnDestination \/ CommandEnds \/ UNCHANGED vars
  BY <1>5 DEF ChurnSource, ChurnDestination, CommandEnds
<1> QED
  BY <1>1, <1>2, <1>3, <1>4, <1>5, NoCommands DEF Next, Step, Server, DInv

LEMMA SessionSeesStep ==
  ASSUME Undisturbed, DInv, [Next]_vars
  PROVE  SessionSees'
<1> USE DEF Middle, dbVars, passVars, sessVars, memVars
<1>0. TypeOK /\ SessionSees /\ folder \in Folder /\ sess \in Session /\ dst.next \in Nat
  BY DEF DInv, WInv, SInv, TypeInv, TypeOK
<1>1. CASE pc' \notin Middle \union {"status"}
  BY <1>1 DEF SessionSees
<1>2. CASE OpenFolder
  BY <1>0, <1>2 DEF OpenFolder, SessionSees, Folder, NoSession
<1>3. CASE StatusDst
  <2>1. pc = "status" /\ sess.adoptDone = folder.adopt /\ sess.bracket = folder.bracket
    BY <1>0, <1>3 DEF StatusDst, SessionSees
  <2>2. /\ sess'.occupied = (dst.mail # {}) /\ sess'.next = dst.next /\ dst' = dst
        /\ sess'.adoptDone = (sess.adoptDone /\ ~DstChurned)
        /\ sess'.bracket = (IF DstChurned THEN 0 ELSE sess.bracket)
        /\ pc' \in {"reconcile", "scan"}
    BY <1>0, <1>3 DEF StatusDst, Session
  <2>3. /\ folder'.adopt = (folder.adopt /\ ~DstChurned)
        /\ folder'.bracket = folder.bracket /\ folder.bracket \in Nat
    BY <1>0, <1>3 DEF StatusDst, NoteStatus, Folder
  <2> QED
    BY <2>1, <2>2, <2>3 DEF SessionSees
<1>4. CASE ScanSource
  <2>1. /\ sess'.occupied = sess.occupied /\ sess'.next = sess.next
        /\ sess'.bracket = sess.bracket /\ sess'.adoptDone = sess.adoptDone
        /\ sess'.adopt = (sess.occupied /\ ~NoDedupScan /\ (~sess.adoptDone \/ RescanDest))
        /\ pc = "scan" /\ pc' = "insert" /\ dst' = dst /\ folder' = folder
    BY <1>0, <1>4 DEF ScanSource, Session
  <2> QED
    BY <1>0, <2>1 DEF SessionSees, Undisturbed
<1>5. CASE RecordSource \/ RecordDst
  <2>1. /\ dst' = dst /\ sess' = sess /\ folder'.bracket = folder.bracket
        /\ RecordSource => pc = "insert" /\ folder'.adopt = folder.adopt
                           /\ pc' = IF sess.adopt THEN "adopt" ELSE "record"
        /\ RecordDst => pc = "record" /\ pc' = "bracket"
    BY <1>0, <1>5 DEF RecordSource, RecordDst, Folder
  <2> QED
    BY <1>0, <1>5, <2>1 DEF SessionSees
<1>6. CASE \/ ReconcileScan \/ ReconcileAdopt \/ ReconcileReplan
           \/ InsertChunk \/ AdoptScan \/ AdoptConfirm
  <2>1. dst' = dst /\ sess' = sess /\ folder' = folder
    BY <1>6 DEF ReconcileScan, ReconcileAdopt, ReconcileReplan, InsertChunk, AdoptScan,
                AdoptConfirm
  <2>2. \/ pc \in {"reconcile", "readopt", "replan"} /\ pc' \in {"readopt", "replan", "scan"}
        \/ pc \in {"insert", "adopt", "confirm"} /\ pc' = pc
        \/ pc = "adopt" /\ pc' = "confirm"
        \/ pc = "confirm" /\ pc' = "record"
    BY <1>6 DEF ReconcileScan, ReconcileAdopt, ReconcileReplan, InsertChunk, AdoptScan,
                AdoptConfirm
  <2> QED
    BY <1>0, <2>1, <2>2 DEF SessionSees
<1>7. CASE UNCHANGED <<src, dst, rows, folder, pc, link, sess, plan>>
  BY <1>0, <1>7 DEF SessionSees
<1> QED
  BY <1>1, <1>2, <1>3, <1>4, <1>5, <1>6, <1>7, MiddleMoves

LEMMA FoundStep ==
  ASSUME Undisturbed, DInv, [Next]_vars
  PROVE  Found'
<1> USE DEF dbVars, passVars, sessVars, memVars
<1>0. /\ TypeOK /\ SessionSees /\ Found /\ IInv /\ WInv /\ BodiesApart
      /\ With("inflight") \in SUBSET Uid /\ With("planned") \in SUBSET Uid
      /\ folder \in Folder /\ sess \in Session /\ dst.mail \in SUBSET Mail
  BY DEF DInv, WInv, SInv, TypeInv, TypeOK, FoldersApart, With
<1>1. CASE pc' \notin {"readopt", "replan", "confirm"}
  BY <1>1 DEF Found
<1>2. CASE ReconcileScan
  <2>1. /\ pc = "reconcile" /\ pc' = "readopt" /\ src' = src /\ dst' = dst /\ folder' = folder
        /\ rows' = FillFp(With("inflight"))
        /\ plan' = Match(With("inflight"), FillFp(With("inflight")), Tail)
    BY <1>2 DEF ReconcileScan
  <2> SUFFICES ASSUME NEW u \in Uid, rows'[u].st = "inflight", Delivered(u)', folder'.adopt
               PROVE  u \in Srcs(plan)'
    BY <2>1 DEF Found
  <2>2. rows[u].st = "inflight" /\ u \in With("inflight")
    BY <1>0, <2>1, FillFpType DEF With
  <2>3. PICK e \in dst.mail : e.body = src.body[u]
    BY <2>1 DEF Delivered
  <2>4. SameEpoch
    BY <1>0, <2>1 DEF IInv, SessionIsCurrent, SameEpoch
  <2>5. e.uid >= folder.bracket
    <3>1. SoughtAfter(u)
      BY <2>3, <2>4 DEF DInv, Covered, Delivered
    <3> QED
      BY <2>1, <2>2, <2>3, <3>1 DEF SoughtAfter, Settled
  <2>6. e \in Tail /\ Tail \in SUBSET dst.mail
    <3>1. sess.bracket <= folder.bracket
      BY <1>0, <2>1 DEF SessionSees, Middle
    <3>2. sess.bracket \in Nat /\ folder.bracket \in Nat /\ e.uid \in Nat
      BY <1>0 DEF Folder, Session, Mail
    <3> QED
      BY <2>5, <3>1, <3>2 DEF Tail
  <2>7. u \in Srcs(Match(With("inflight"), FillFp(With("inflight")), Tail))
    BY <1>0, <2>1, <2>2, <2>3, <2>6, MatchIsComplete
  <2> QED
    BY <2>1, <2>7 DEF Srcs
<1>3. CASE ReconcileAdopt
  <2>1. /\ pc = "readopt" /\ pc' = "replan" /\ src' = src /\ dst' = dst /\ folder' = folder
        /\ rows' = MarkDone(plan) /\ plan \in SUBSET Triple
    BY <1>0, <1>3 DEF ReconcileAdopt, TypeOK
  <2> SUFFICES ASSUME NEW u \in Uid, rows'[u].st = "inflight", Delivered(u)
               PROVE  ~folder.adopt
    BY <2>1 DEF Found, Delivered
  <2>2. rows[u].st = "inflight" /\ u \notin Srcs(plan)
    BY <1>0, <2>1, MarkDoneStates
  <2> QED
    BY <1>0, <2>1, <2>2 DEF Found
<1>4. CASE AdoptScan
  <2>1. /\ pc = "adopt" /\ pc' = "confirm" /\ src' = src /\ dst' = dst
        /\ rows' = FillFp(With("planned"))
        /\ plan' = Match(With("planned"), FillFp(With("planned")), dst.mail)
    BY <1>4 DEF AdoptScan
  <2> SUFFICES ASSUME NEW u \in Uid, rows'[u].st = "planned", Delivered(u)'
               PROVE  u \in Srcs(plan)'
    BY <2>1 DEF Found
  <2>2. rows[u].st = "planned" /\ u \in With("planned")
    BY <1>0, <2>1, FillFpType DEF With
  <2>3. PICK e \in dst.mail : e.body = src.body[u]
    BY <2>1 DEF Delivered
  <2>4. u \in Srcs(Match(With("planned"), FillFp(With("planned")), dst.mail))
    BY <1>0, <2>1, <2>2, <2>3, MatchIsComplete
  <2> QED
    BY <2>1, <2>4 DEF Srcs
<1>5. CASE UNCHANGED <<src, dst, rows, folder, pc, link, sess, plan>>
  BY <1>0, <1>5 DEF Found, Delivered, Srcs
<1>6. \/ OpenFolder \/ StatusDst \/ ReconcileReplan \/ ScanSource \/ InsertChunk
      \/ RecordSource \/ AdoptConfirm \/ RecordDst
      => pc' \notin {"readopt", "replan", "confirm"}
  BY DEF OpenFolder, StatusDst, ReconcileReplan, ScanSource, InsertChunk, RecordSource,
     AdoptConfirm, RecordDst
<1> QED
  BY <1>1, <1>2, <1>3, <1>4, <1>5, <1>6, MiddleMoves DEF Middle

-------------------------------------------------------------------------------
(* What the passes send has not been delivered *)

\* A pass is preceded by a pass, or by what the session records before the first.
LEMMA LateMoves ==
  ASSUME [Next]_vars, pc' \in Late
  PROVE  pc \in Late \union {"bracket"}
<1> USE DEF dbVars, passVars, sessVars, memVars, vars, Late
<1>1. CASE \/ OpenFolder \/ StatusDst \/ ReconcileScan \/ ReconcileAdopt \/ ReconcileReplan
           \/ ScanSource \/ InsertChunk \/ RecordSource \/ AdoptScan \/ AdoptConfirm
           \/ RecordDst \/ RecordBracket
  BY <1>1 DEF OpenFolder, StatusDst, ReconcileScan, ReconcileAdopt, ReconcileReplan,
     ScanSource, InsertChunk, RecordSource, AdoptScan, AdoptConfirm, RecordDst, RecordBracket
<1>2. CASE \/ StartIsolation \/ LeaveIsolation \/ TakeHint \/ StartBatch \/ MarkIntent
           \/ Stream \/ StreamKicked \/ Settle \/ TimedFlush \/ EndPass \/ RecordFailed
           \/ MarkFailed \/ AfterFailures \/ MarkRecoveries
  BY <1>2 DEF StartIsolation, LeaveIsolation, TakeHint, StartBatch, MarkIntent, Stream,
     StreamKicked, Settle, TimedFlush, EndPass, RecordFailed, MarkFailed, AfterFailures,
     MarkRecoveries
<1>3. CASE \/ Finalize \/ Hangup \/ Unwind \/ LoseConnection \/ RefuseLiteral \/ LoseOnSingle
           \/ Kick \/ Stop \/ Crash
  BY <1>3 DEF Finalize, Hangup, Unwind, LoseConnection, RefuseLiteral, LoseOnSingle, Kick,
     Stop, Crash, EndSession
<1>4. CASE \/ ServerAppend \/ ServerRefuse \/ ServerLate \/ ChurnSource \/ ChurnDestination
           \/ RetryFailed \/ MarkPending \/ Replan \/ CommandEnds \/ IgnoreFailed \/ Compact
           \/ UNCHANGED vars
  BY <1>4 DEF ServerAppend, ServerRefuse, ServerLate, ChurnSource, ChurnDestination,
     RetryFailed, MarkPending, Replan, CommandEnds, IgnoreFailed, Compact
<1> QED
  BY <1>1, <1>2, <1>3, <1>4 DEF Next, Step, Server

\* An acknowledgement is taken up, flushed, or lost with the connection.
LEMMA AnswersMove ==
  ASSUME Undisturbed, WInv, [Next]_vars, NEW u \in Uid,
         wire[u].ack = "ok" \/ u \in Srcs(batch)
  PROVE  \/ wire'[u].ack = "ok" \/ u \in Srcs(batch)'
         \/ rows'[u].st = "done"
         \/ link' # "up"
<1> USE DEF dbVars, passVars, sessVars, memVars, vars
<1>0. SInv /\ TypeOK /\ batch \in SUBSET Triple
  BY DEF WInv, SInv, TypeInv, TypeOK
<1>1. pc = "pass" /\ (u \in Srcs(batch) => rows[u].st = "inflight")
  <2>1. pc = "pass"
    BY <1>0, NothingOutside DEF SInv, NothingPending, Srcs
  <2> QED
    BY <1>0, <2>1 DEF SInv, PassRows
<1>2. CASE wire' = wire /\ batch' = batch
  BY <1>2 DEF Srcs
<1>3. CASE rows' = MarkDone(batch) /\ wire' = wire
  BY <1>0, <1>1, <1>3, MarkDoneStates
<1>4. CASE Settle
  <2> DEFINE v == Least(Pending)
  <2>1. v \in Uid
    <3>1. Pending # {} /\ Pending \in SUBSET Uid
      BY <1>4 DEF Settle, Pending
    <3> QED
      BY <3>1, LeastIsElement
  <2>2. /\ wire' = [wire EXCEPT ![v] = Off]
        /\ IF Acknowledged(wire[v])
           THEN batch' = batch \union {[src |-> v, dst |-> wire[v].dst]}
           ELSE batch' = batch
    BY <1>4 DEF Settle
  <2> HIDE DEF v
  <2>3. Srcs(batch)' = IF wire[v].ack = "ok" THEN Srcs(batch) \union {v} ELSE Srcs(batch)
    <3>1. CASE wire[v].ack = "ok"
      <4>1. Srcs(batch \union {[src |-> v, dst |-> wire[v].dst]}) = Srcs(batch) \union {v}
        BY SrcsOfOneMore
      <4> QED
        BY <2>2, <3>1, <4>1 DEF Acknowledged, Srcs
    <3>2. CASE wire[v].ack # "ok"
      BY <2>2, <3>2 DEF Acknowledged, Srcs
    <3> QED
      BY <3>1, <3>2
  <2> QED
    BY <1>0, <2>1, <2>2, <2>3 DEF TypeOK
<1>5. CASE Stream
  <2>1. Least(win) \in win /\ win # {} /\ win \subseteq Uid
    <3>1. win # {} /\ win \in SUBSET Uid
      BY <1>0, <1>5 DEF Stream, TypeOK
    <3> QED
      BY <3>1, LeastIsElement
  <2>2. Least(win) = u => u \in Srcs(batch)
    BY <1>0, <1>1, <2>1 DEF SInv, Parted, Pending
  <2> QED
    BY <1>0, <1>5, <2>2 DEF Stream, TypeOK, Srcs
<1>6. CASE ServerAppend \/ ServerRefuse
  <2>1. Least(Unanswered) \in Unanswered
    <3>1. Unanswered # {} /\ Unanswered \in SUBSET Uid
      BY <1>6 DEF ServerAppend, ServerRefuse, Unanswered
    <3> QED
      BY <3>1, LeastIsElement
  <2> QED
    BY <1>0, <1>6, <2>1 DEF ServerAppend, ServerRefuse, Unanswered, TypeOK, Srcs
<1>7. \/ LoseConnection \/ RefuseLiteral \/ LoseOnSingle \/ Kick \/ Unwind \/ Stop \/ Crash
      \/ Finalize \/ Hangup
      => link' # "up"
  BY DEF LoseConnection, RefuseLiteral, LoseOnSingle, Kick, Unwind, Stop, Crash, Finalize,
         Hangup, EndSession
<1>8. TimedFlush \/ EndPass => rows' = MarkDone(batch) /\ wire' = wire
  BY DEF TimedFlush, EndPass
<1>9. \/ StartIsolation \/ LeaveIsolation \/ TakeHint \/ StartBatch \/ MarkIntent
      \/ StreamKicked \/ RecordFailed \/ MarkFailed \/ AfterFailures \/ MarkRecoveries
      => wire' = wire /\ batch' = batch
  BY DEF StartIsolation, LeaveIsolation, TakeHint, StartBatch, MarkIntent, StreamKicked,
     RecordFailed, MarkFailed, AfterFailures, MarkRecoveries
<1>10. \/ ServerLate \/ ChurnSource \/ ChurnDestination \/ CommandEnds \/ UNCHANGED vars
       => wire' = wire /\ batch' = batch
  BY DEF ServerLate, ChurnSource, ChurnDestination, CommandEnds
<1>11. ~( \/ OpenFolder \/ StatusDst \/ ReconcileScan \/ ReconcileAdopt \/ ReconcileReplan
          \/ ScanSource \/ InsertChunk \/ RecordSource \/ AdoptScan \/ AdoptConfirm
          \/ RecordDst \/ RecordBracket )
  BY <1>1 DEF OpenFolder, StatusDst, ReconcileScan, ReconcileAdopt, ReconcileReplan,
     ScanSource, InsertChunk, RecordSource, AdoptScan, AdoptConfirm, RecordDst, RecordBracket
<1> QED
  BY <1>2, <1>3, <1>4, <1>5, <1>6, <1>7, <1>8, <1>9, <1>10, <1>11, NoCommands
     DEF Next, Step, Server

LEMMA UntriedStep ==
  ASSUME Undisturbed, DInv, [Next]_vars
  PROVE  Untried'
<1>0. /\ WInv /\ SInv /\ IInv /\ TypeInv /\ TypeOK /\ BodiesApart /\ UidsUnique
      /\ SessionSees /\ Found /\ LinkUp /\ Untried
  BY DEF DInv, WInv, SInv, TypeInv, FoldersApart
<1> SUFFICES ASSUME pc' \in Late \union {"record", "bracket"}, link' = "up",
                    NEW u \in Uid, Delivered(u)'
             PROVE  Settled(u)' \/ wire'[u].ack = "ok" \/ u \in Srcs(batch)'
  BY DEF Untried
<1>1. CASE RecordSource
  <2>1. /\ pc = "insert" /\ ~sess.adopt /\ src' = src /\ dst' = dst /\ rows' = rows
    BY <1>1 DEF RecordSource, Late
  <2>2. Delivered(u) /\ dst.mail # {}
    BY <2>1 DEF Delivered
  <2>3. folder.adopt
    BY <1>0, <2>1, <2>2 DEF SessionSees
  <2>4. SameEpoch
    BY <1>0, <2>1 DEF IInv, SessionIsCurrent, SameEpoch
  <2>5. SoughtAfter(u)
    BY <2>2, <2>4 DEF DInv, Covered
  <2>6. rows[u].st # "inflight"
    BY <1>0, <2>1 DEF WInv, InflightHeld, Held
  <2> QED
    BY <2>1, <2>3, <2>5, <2>6 DEF SoughtAfter, Settled
<1>2. CASE AdoptConfirm
  <2>1. /\ pc = "confirm" /\ src' = src /\ dst' = dst /\ rows' = MarkDone(plan)
        /\ plan \in SUBSET Triple
    BY <1>0, <1>2 DEF AdoptConfirm, TypeOK
  <2>2. Delivered(u)
    BY <2>1 DEF Delivered
  <2>3. rows[u].st \notin {"none", "inflight"}
    BY <1>0, <2>1 DEF WInv, NoneLeft, InflightHeld, Held
  <2>4. rows[u].st = "planned" => u \in Srcs(plan)
    BY <1>0, <2>1, <2>2 DEF Found
  <2> QED
    BY <1>0, <2>1, <2>3, <2>4, MarkDoneStates DEF Settled, TypeOK, Row
<1>3. CASE pc \in Late \union {"record", "bracket"} /\ link = "up"
  <2>1. limbo = {} /\ pc # "idle"
    BY <1>0, <1>3 DEF LinkUp, Late
  <2>2. src' = src
    BY <2>1, WhoDelivers DEF ChurnSource
  <2>3. CASE Delivered(u)
    <3>1. CASE Settled(u)
      <4>1. rows'[u].st \in {"done", "failed"}
        BY <1>0, <1>3, <3>1, RowsMove DEF Settled, Open, OpenFolder, StatusDst, Late
      <4> QED
        BY <4>1 DEF Settled
    <3>2. CASE wire[u].ack = "ok" \/ u \in Srcs(batch)
      BY <1>0, <3>2, AnswersMove DEF Settled
    <3> QED
      BY <1>0, <1>3, <2>3, <3>1, <3>2 DEF Untried
  <2>4. CASE ~Delivered(u)
    <3>1. ServerAppend
      <4>1. dst'.mail # dst.mail /\ ~ServerLate /\ ~ChurnDestination
        BY <2>1, <2>2, <2>4 DEF Delivered, ServerLate, ChurnDestination
      <4> QED
        BY <1>0, <4>1, MailMoves
    <3>2. PICK v \in Unanswered : /\ v \in Uid /\ src.body[v] \in Body
                                  /\ dst' = Deliver(src.body[v])
                                  /\ wire' = [wire EXCEPT ![v] =
                                        [ack |-> "ok", dst |-> IF UidPlus THEN dst.next ELSE 0]]
      BY <1>0, <3>1, AppendDelivers
    <3>3. dst'.mail = dst.mail \union {[uid |-> dst.next, body |-> src.body[v]]}
      BY <1>0, <3>2, DeliverType
    <3>4. src.body[v] = src.body[u]
      BY <2>2, <2>4, <3>3 DEF Delivered
    <3>5. v = u
      BY <1>0, <3>2, <3>4 DEF BodiesApart
    <3> QED
      BY <1>0, <3>2, <3>5 DEF TypeOK
  <2> QED
    BY <2>3, <2>4
<1>4. RecordSource \/ AdoptConfirm \/ pc \in Late \union {"record", "bracket"}
  <2>1. CASE pc' \in Late
    BY <2>1, LateMoves
  <2>2. CASE pc' \in {"record", "bracket"}
    <3>1. \/ RecordSource \/ AdoptConfirm \/ RecordDst
          \/ UNCHANGED <<src, dst, rows, folder, pc, link, sess, plan>>
      <4>1. \/ OpenFolder \/ StatusDst \/ ReconcileScan \/ ReconcileAdopt \/ ReconcileReplan
            \/ ScanSource \/ InsertChunk \/ AdoptScan
            => pc' \notin {"record", "bracket"}
        BY DEF OpenFolder, StatusDst, ReconcileScan, ReconcileAdopt, ReconcileReplan,
               ScanSource, InsertChunk, AdoptScan
      <4> QED
        BY <2>2, <4>1, MiddleMoves DEF Middle
    <3> QED
      BY <2>2, <3>1 DEF RecordDst
  <2> QED
    BY <2>1, <2>2
<1>5. link = "up" \/ pc = "idle"
  <2>1. link = "up" \/ OpenFolder
    BY LinkMoves
  <2> QED
    BY <2>1 DEF OpenFolder
<1> QED
  BY <1>1, <1>2, <1>3, <1>4, <1>5 DEF Late

-------------------------------------------------------------------------------
(* The results *)

LEMMA DInvInit ==
  ASSUME SourceApart
  PROVE  Init => DInv
<1> SUFFICES ASSUME Init PROVE DInv
  OBVIOUS
<1>1. /\ pc = "idle" /\ link = "lost" /\ limbo = {} /\ wire = Idle
      /\ folder.adopt = FALSE /\ folder.bracket = 0 /\ sess.next = 0
  BY DEF Init, NoSession
<1>2. WInv /\ IInv /\ FoldersApart
  BY WInvInit, IInvInit, ApartInit
<1>3. NoDuplicates
  <2>1. PICK number \in [Preloaded -> 1..Cardinality(Preloaded)] :
          dst = [uv |-> 1, next |-> Cardinality(Preloaded) + 1,
                 mail |-> {[uid |-> number[b], body |-> b] : b \in Preloaded}]
    BY DEF Init
  <2>2. \A e \in dst.mail : e.uid = number[e.body]
    BY <2>1
  <2> QED
    BY <2>2 DEF NoDuplicates
<1>4. LimboFresh /\ LinkUp
  BY <1>1 DEF LimboFresh, LinkUp
<1>5. SentFresh
  BY <1>1 DEF SentFresh, Unanswered, Idle, Off
<1>6. Covered
  BY <1>1 DEF Covered, SoughtAfter
<1>7. BracketPast
  BY <1>1, <1>2 DEF BracketPast, IInv, TypeInv, TypeOK
<1>8. SessionSees /\ Found /\ Untried
  BY <1>1 DEF SessionSees, Found, Untried, Middle, Late
<1> QED
  BY <1>2, <1>3, <1>4, <1>5, <1>6, <1>7, <1>8 DEF DInv

LEMMA DInvStep ==
  ASSUME Undisturbed
  PROVE  DInv /\ [Next]_vars => DInv'
<1> SUFFICES ASSUME DInv, [Next]_vars PROVE DInv'
  OBVIOUS
<1>1. WInv'
  BY WInvStep DEF DInv, Undisturbed, Offline
<1>2. IInv'
  BY IInvStep DEF DInv, Undisturbed
<1>3. FoldersApart'
  BY ApartStep DEF DInv, IInv
<1>4. NoDuplicates' /\ LimboFresh' /\ SentFresh' /\ LinkUp'
  BY NoDuplicatesStep, LimboFreshStep, SentFreshStep, LinkUpStep
<1>5. Covered' /\ BracketPast' /\ SessionSees' /\ Found' /\ Untried'
  BY CoveredStep, BracketPastStep, SessionSeesStep, FoundStep, UntriedStep
<1> QED
  BY <1>1, <1>2, <1>3, <1>4, <1>5 DEF DInv

LEMMA DeliveryInvariant ==
  ASSUME Undisturbed, SourceApart
  PROVE  Spec => []DInv
<1>1. Init => DInv
  BY DInvInit
<1>2. DInv /\ [Next]_vars => DInv'
  BY DInvStep
<1> QED
  BY <1>1, <1>2, PTL DEF Spec

\* No content is on the destination twice, however often the sessions are cut short,
\* answers are lost and folders are renumbered.
THEOREM MessagesOnce ==
  ASSUME Undisturbed, SourceApart
  PROVE  Spec => []NoDuplicates
<1>1. DInv => NoDuplicates
  BY DEF DInv
<1> QED
  BY <1>1, DeliveryInvariant, PTL

\* Between sessions, a message that reached the destination without being confirmed is
\* one the next session looks for.
THEOREM DeliveredIsSought ==
  ASSUME Undisturbed, SourceApart
  PROVE  Spec => []DeliveredIsCovered
<1>1. DInv => DeliveredIsCovered
  BY DEF DInv, Covered, Delivered, SoughtAfter, Settled, DeliveredIsCovered
<1> QED
  BY <1>1, DeliveryInvariant, PTL

-------------------------------------------------------------------------------
(* The migration of a folder implements Delivery *)

\* A fingerprint tells contents apart, also those the destination had before.
FpTellsApart == \A b, c \in Body : FP[b] = FP[c] => b = c

\* No folder is renumbered.
Steady == MaxSrcChurn = 0 /\ MaxDstChurn = 0

RInv == DInv /\ SameEpoch

LEMMA NoChurn ==
  ASSUME Steady, TypeOK
  PROVE  ~ChurnSource /\ ~ChurnDestination
BY DEF Steady, TypeOK, ChurnSource, ChurnDestination

LEMMA RInvStep ==
  ASSUME Undisturbed, Steady, RInv, [Next]_vars
  PROVE  RInv' /\ src' = src /\ ~SrcChurned /\ ~DstChurned
<1>0. /\ DInv /\ SameEpoch /\ TypeOK /\ TypeInv /\ folder \in Folder
  BY DEF RInv, DInv, IInv, TypeInv, TypeOK
<1>1. DInv'
  BY <1>0, DInvStep
<1>2. ~SrcChurned /\ ~DstChurned
  BY <1>0 DEF SameEpoch, SrcChurned, DstChurned
<1>3. src' = src /\ dst'.uv = dst.uv
  <2>1. \A b \in Body : Deliver(b).uv = dst.uv
    BY <1>0 DEF Deliver, TypeOK
  <2>2. ServerAppend => dst'.uv = dst.uv
    BY <1>0, <2>1, AppendDelivers
  <2>3. ServerLate => dst'.uv = dst.uv
    BY <1>0, <2>1 DEF ServerLate, TypeOK
  <2> QED
    BY <1>0, <2>2, <2>3, WhoDelivers, NoChurn
<1>4. /\ folder'.uvSrc \in {folder.uvSrc, src.uv}
      /\ folder'.uvDst \in {folder.uvDst, dst.uv}
  BY <1>0, <1>2, FolderMoves DEF RecordSource, RecordDst, RecordBracket, Finalize, Folder
<1>5. SameEpoch'
  BY <1>0, <1>3, <1>4 DEF SameEpoch
<1> QED
  BY <1>1, <1>2, <1>3, <1>5 DEF RInv

\* A message has one copy, or none, and one if its row is confirmed.
Shown ==
  /\ \A u \in Uid : Copies[u] = IF Delivered(u) THEN 1 ELSE 0
  /\ \A u \in Uid : rows[u].st = "done" => Delivered(u)

LEMMA CopiesAreFew ==
  ASSUME DInv, NEW u \in Uid
  PROVE  Copies[u] = IF Delivered(u) THEN 1 ELSE 0
<1> DEFINE S == {e \in dst.mail : e.body = src.body[u]}
<1>1. Copies[u] = Cardinality(S)
  BY DEF Copies
<1>2. CASE Delivered(u)
  <2>1. PICK e \in S : TRUE
    BY <1>2 DEF Delivered
  <2>2. \A f \in S : f = e
    BY <2>1 DEF DInv, NoDuplicates, FoldersApart, UidsUnique
  <2>3. S = {e}
    BY <2>2
  <2> QED
    BY <1>1, <1>2, <2>3, FS_Singleton
<1>3. CASE ~Delivered(u)
  <2>1. S = {}
    BY <1>3 DEF Delivered
  <2> QED
    BY <1>1, <1>3, <2>1, FS_EmptySet
<1> QED
  BY <1>2, <1>3

\* What a confirmed row says is true to the content.
LEMMA ConfirmedIsThere ==
  ASSUME RInv, FpTellsApart, NEW u \in Uid, rows[u].st = "done"
  PROVE  Delivered(u)
<1>1. TypeOK /\ SameEpoch /\ DoneIsDelivered
  BY DEF RInv, DInv, IInv, TypeInv
<1>2. PICK e \in dst.mail : FP[e.body] = FP[src.body[u]]
  BY <1>1 DEF DoneIsDelivered, Carries, With
<1>3. e.body \in Body /\ src.body[u] \in Body
  BY <1>1 DEF TypeOK, Mail
<1> QED
  BY <1>2, <1>3 DEF FpTellsApart, Delivered

\* A destination that executes an APPEND delivers one message, or one that is not
\* of this folder.
LEMMA AppendImplements ==
  ASSUME Undisturbed, Steady, RInv, Shown, Shown', [Next]_vars,
         ServerAppend \/ ServerLate
  PROVE  [Promise!Next]_(Promise!vars)
<1>0. /\ DInv /\ DInv' /\ src' = src /\ TypeInv /\ TypeOK /\ UidsUnique /\ BodiesApart
      /\ LimboFresh /\ SentFresh
  BY RInvStep DEF RInv, DInv, IInv, TypeInv, FoldersApart
<1>1. rows' = rows /\ Verdict' = Verdict
  BY DEF ServerAppend, ServerLate, dbVars, Verdict
<1>2. PICK b : /\ \A e \in dst.mail : e.body # b
               /\ dst'.mail = dst.mail \union {[uid |-> dst.next, body |-> b]}
  <2>1. CASE ServerAppend
    <3>1. PICK v \in Unanswered : /\ v \in Uid /\ src.body[v] \in Body
                                  /\ dst' = Deliver(src.body[v])
      BY <1>0, <2>1, AppendDelivers
    <3>2. \A e \in dst.mail : e.body # src.body[v]
      BY <1>0, <3>1 DEF SentFresh, Delivered
    <3> QED
      BY <1>0, <3>1, <3>2, DeliverType
  <2>2. CASE ServerLate
    <3>1. PICK b \in limbo : dst' = Deliver(b) /\ b \in Body
      BY <1>0, <2>2 DEF ServerLate, TypeOK
    <3>2. \A e \in dst.mail : e.body # b
      BY <1>0, <3>1 DEF LimboFresh
    <3> QED
      BY <1>0, <3>1, <3>2, DeliverType
  <2> QED
    BY <2>1, <2>2
<1>3. \A v \in Uid : Delivered(v)' <=> Delivered(v) \/ src.body[v] = b
  <2> DEFINE new == [uid |-> dst.next, body |-> b]
  <2>1. dst'.mail = dst.mail \union {new} /\ new.body = b
    BY <1>2
  <2> HIDE DEF new
  <2> QED
    BY <1>0, <2>1 DEF Delivered
<1>4. \A v \in Uid : /\ Copies[v] = IF Delivered(v) THEN 1 ELSE 0
                     /\ Copies'[v] = IF Delivered(v)' THEN 1 ELSE 0
  BY DEF Shown
<1>5. Copies = [v \in Uid |-> Copies[v]] /\ Copies' = [v \in Uid |-> Copies'[v]]
  BY DEF Copies
<1>6. CASE \E u \in Uid : src.body[u] = b
  <2>1. PICK u \in Uid : src.body[u] = b
    BY <1>6
  <2>2. ~Delivered(u) /\ \A v \in Uid : src.body[v] = b => v = u
    BY <1>0, <1>2, <2>1 DEF Delivered, BodiesApart
  <2>3. Copies[u] = 0 /\ Copies' = [Copies EXCEPT ![u] = 1]
    BY <1>3, <1>4, <1>5, <2>1, <2>2
  <2> QED
    BY <1>1, <2>1, <2>3 DEF Promise!Next, Promise!Deliver
<1>7. CASE ~ \E u \in Uid : src.body[u] = b
  BY <1>1, <1>3, <1>4, <1>5, <1>7 DEF Promise!vars
<1> QED
  BY <1>6, <1>7

\* Every other step confirms messages that are there, gives one up, or changes nothing
\* that shows.
LEMMA OthersImplement ==
  ASSUME Undisturbed, Steady, RInv, Shown, Shown', [Next]_vars,
         ~ServerAppend, ~ServerLate
  PROVE  [Promise!Next]_(Promise!vars)
<1>0. /\ RInv' /\ DInv /\ WInv /\ SInv /\ TypeOK /\ src' = src
      /\ ~SrcChurned /\ ~DstChurned
  BY RInvStep DEF RInv, DInv, WInv, IInv, TypeInv
<1>1. dst' = dst
  BY <1>0, WhoDelivers, NoChurn
<1>2. Copies' = Copies
  BY <1>0, <1>1 DEF Copies
<1>3. \A u \in Uid : \/ rows'[u].st = rows[u].st
                     \/ Open(u) /\ rows'[u].st \in {"done", "failed"}
                     \/ /\ rows[u].st \in {"none", "planned", "inflight"}
                        /\ rows'[u].st \in {"planned", "inflight"}
  BY <1>0, RowsMove DEF Open
<1>4. \A u \in Uid : /\ rows[u].st \in {"none", "planned", "inflight", "done", "failed"}
                     /\ rows'[u].st \in {"none", "planned", "inflight", "done", "failed"}
  BY <1>0 DEF RInv, DInv, IInv, TypeInv, TypeOK, Row
<1>5. /\ Verdict = [u \in Uid |-> Verdict[u]] /\ Verdict' = [u \in Uid |-> Verdict'[u]]
      /\ \A u \in Uid :
           /\ Verdict[u] = IF rows[u].st = "done" THEN "confirmed"
                           ELSE IF rows[u].st = "failed" THEN "given up" ELSE "open"
           /\ Verdict'[u] = IF rows'[u].st = "done" THEN "confirmed"
                            ELSE IF rows'[u].st = "failed" THEN "given up" ELSE "open"
  <2>1. \A u \in Uid :
          Verdict[u] = IF rows[u].st = "done" THEN "confirmed"
                       ELSE IF rows[u].st = "failed" THEN "given up" ELSE "open"
    BY DEF Verdict
  <2>2. \A u \in Uid :
          Verdict'[u] = IF rows'[u].st = "done" THEN "confirmed"
                        ELSE IF rows'[u].st = "failed" THEN "given up" ELSE "open"
    BY DEF Verdict
  <2>3. Verdict = [u \in Uid |-> Verdict[u]] /\ Verdict' = [u \in Uid |-> Verdict'[u]]
    BY DEF Verdict
  <2> QED
    BY <2>1, <2>2, <2>3
<1>6. CASE MarkFailed
  <2>1. failing \in Uid /\ Open(failing)
    BY <1>0, <1>6 DEF MarkFailed, SInv, FailRows, TypeOK
  <2>2. \A u \in Uid : rows'[u].st = IF u = failing THEN "failed" ELSE rows[u].st
    <3>1. rows' = MarkState({failing}, "failed")
      BY <1>6 DEF MarkFailed
    <3>2. {failing} \in SUBSET Uid /\ rows[failing].st # "none"
      BY <2>1 DEF Open
    <3>3. \A u \in Uid : MarkState({failing}, "failed")[u].st =
                         IF u \in {failing} /\ rows[u].st # "none" THEN "failed"
                         ELSE rows[u].st
      BY <1>0, <3>2, MarkStateStates
    <3> QED
      BY <3>1, <3>2, <3>3
  <2>3. Verdict[failing] = "open" /\ Verdict' = [Verdict EXCEPT ![failing] = "given up"]
    <3>1. rows[failing].st \in {"planned", "inflight"}
      BY <2>1 DEF Open
    <3>2. Verdict[failing] = "open"
      BY <1>5, <2>1, <3>1
    <3>3. \A u \in Uid : Verdict'[u] = IF u = failing THEN "given up" ELSE Verdict[u]
      BY <1>5, <2>1, <2>2
    <3> QED
      BY <1>5, <3>2, <3>3
  <2> QED
    BY <1>2, <2>1, <2>3 DEF Promise!Next, Promise!GiveUp
<1>7. CASE \A u \in Uid : rows'[u].st = "failed" => rows[u].st = "failed"
  <2> DEFINE ms == {u \in Uid : Verdict'[u] = "confirmed" /\ Verdict[u] # "confirmed"}
  <2>1. \A u \in Uid : /\ u \in ms => Verdict[u] = "open"
                       /\ Verdict'[u] = IF u \in ms THEN "confirmed" ELSE Verdict[u]
    BY <1>3, <1>5, <1>7 DEF Open
  <2>2. \A u \in ms : Copies[u] = 1
    <3> SUFFICES ASSUME NEW u \in ms PROVE Copies[u] = 1
      OBVIOUS
    <3>1. rows'[u].st = "done"
      BY <1>5
    <3>2. Delivered(u)
      BY <1>0, <1>1, <3>1 DEF Delivered, Shown
    <3> QED
      BY <3>2 DEF Shown
  <2>3. Verdict' = [u \in Uid |-> IF u \in ms THEN "confirmed" ELSE Verdict[u]]
    BY <1>5, <2>1
  <2>4. ms \in SUBSET Uid
    OBVIOUS
  <2> HIDE DEF ms
  <2>5. CASE ms = {}
    BY <1>2, <1>5, <2>3, <2>5 DEF Promise!vars
  <2>6. CASE ms # {}
    BY <1>2, <2>1, <2>2, <2>3, <2>4, <2>6 DEF Promise!Next, Promise!Confirm
  <2> QED
    BY <2>5, <2>6
<1>8. MarkFailed \/ \A u \in Uid : rows'[u].st = "failed" => rows[u].st = "failed"
  BY <1>0, OnlyMarkFailed
<1> QED
  BY <1>6, <1>7, <1>8

\* As long as the dedup scan is on, fingerprints tell contents apart, no folder is
\* renumbered and the operator leaves the rows alone, what the sessions of a folder do
\* looks like Delivery, wherever they are cut short.
THEOREM MigrationDelivers ==
  ASSUME Undisturbed, SourceApart, FpTellsApart, Steady
  PROVE  Spec => ImplementsDelivery
<1>1. Init => RInv
  <2> SUFFICES ASSUME Init PROVE RInv
    OBVIOUS
  <2>1. folder.uvSrc = 0 /\ folder.uvDst = 0
    BY DEF Init
  <2>2. SameEpoch
    BY <2>1 DEF SameEpoch
  <2> QED
    BY <2>2, DInvInit DEF RInv
<1>2. RInv /\ [Next]_vars => RInv'
  BY RInvStep
<1>3. Init => Promise!Init
  <2> SUFFICES ASSUME Init PROVE Promise!Init
    OBVIOUS
  <2>1. \A u \in Uid : Copies[u] \in {0, 1}
    BY DInvInit, CopiesAreFew
  <2>2. Copies \in [Uid -> {0, 1}]
    BY <2>1 DEF Copies
  <2>3. Verdict = [u \in Uid |-> "open"]
    BY DEF Init, NoRow, Verdict
  <2> QED
    BY <2>2, <2>3 DEF Promise!Init
<1>4. RInv => Shown
  BY CopiesAreFew, ConfirmedIsThere DEF RInv, Shown
<1>5. RInv /\ Shown /\ Shown' /\ [Next]_vars => [Promise!Next]_(Promise!vars)
  BY AppendImplements, OthersImplement
<1> QED
  BY <1>1, <1>2, <1>3, <1>4, <1>5, PTL DEF Spec, ImplementsDelivery, Promise!Spec

=============================================================================
