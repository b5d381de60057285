----------------------------- MODULE DedupProofs -----------------------------
(***************************************************************************)
(* What holds of Dedup for any folders and messages, any number of         *)
(* processes, breaks and migrations.                                       *)
(***************************************************************************)
EXTENDS Dedup, WellFoundedInduction, FiniteSetTheorems, TLAPS

USE FoldersAssumption, BoundsAssumption

-----------------------------------------------------------------------------
(* Messages and their order *)

LEMMA MessageFields ==
  ASSUME NEW m \in Message
  PROVE  m[1] \in Folder /\ m[2] \in Nat /\ SizeOf(m) \in Nat /\ m = <<m[1], m[2]>>
<1>1. PICK f \in Folder : m \in {f} \X DOMAIN Mail[f]
  BY DEF Message
<1> DEFINE Entry == [mid : {Mail[f][i].mid : i \in DOMAIN Mail[f]}, size : Nat,
                     body : {Mail[f][i].body : i \in DOMAIN Mail[f]}]
<1>2. Mail[f] \in Seq(Entry)
  BY MailAssumption
<1>3. m[2] \in DOMAIN Mail[f] /\ m[1] = f /\ m = <<m[1], m[2]>>
  BY <1>1
<1>4. m[2] \in Nat /\ Mail[f][m[2]] \in Entry
  <2> HIDE DEF Entry
  <2> QED
    BY <1>2, <1>3
<1>5. Mail[f][m[2]].size \in Nat
  BY <1>4
<1> QED
  BY <1>3, <1>4, <1>5 DEF SizeOf

LEMMA LeastNatural ==
  ASSUME NEW T \in SUBSET Nat, T # {}
  PROVE  \E x \in T : \A y \in T : x <= y
<1> DEFINE R == OpToRel(<, Nat)
<1>1. \A x, y \in Nat : <<y, x>> \notin R => x <= y
  BY DEF OpToRel
<1>2. IsWellFoundedOn(R, Nat)
  BY NatLessThanWellFounded
<1> HIDE DEF R
<1>3. \E x \in T : \A y \in T : <<y, x>> \notin R
  BY <1>2, WFMin
<1> QED
  BY <1>1, <1>3

\* There is a first message in the order of the report.
LEMMA FirstExists ==
  ASSUME NEW S \in SUBSET Message, S # {}
  PROVE  \E m \in S : \A n \in S : Before(m, n)
<1> DEFINE Sizes == {SizeOf(m) : m \in S}
<1>a. Sizes \in SUBSET Nat /\ Sizes # {}
  BY MessageFields
<1>1. PICK s \in Sizes : \A t \in Sizes : s <= t
  <2> HIDE DEF Sizes
  <2> QED
    BY <1>a, LeastNatural
<1> DEFINE Uids == {m[2] : m \in {n \in S : SizeOf(n) = s}}
<1>2. Uids \in SUBSET Nat /\ Uids # {}
  BY <1>1, MessageFields
<1>3. PICK u \in Uids : \A v \in Uids : u <= v
  <2> HIDE DEF Uids
  <2> QED
    BY <1>2, LeastNatural
<1>4. PICK m \in S : SizeOf(m) = s /\ m[2] = u
  BY <1>3
<1>5. ASSUME NEW n \in S
      PROVE  Before(m, n)
  <2>1. s <= SizeOf(n) /\ s \in Nat /\ SizeOf(n) \in Nat
    BY <1>1, MessageFields
  <2>2. SizeOf(n) = s => u <= n[2]
    BY <1>3
  <2> QED
    BY <1>4, <2>1, <2>2 DEF Before
<1> QED
  BY <1>5

\* The message a process is at is one of those it has still to take.
LEMMA ThisIsPlanned ==
  ASSUME NEW p \in Proc, todo[p] \in SUBSET Message, todo[p] # {}
  PROVE  This(p) \in todo[p]
BY FirstExists DEF This

-----------------------------------------------------------------------------
(* Types *)

Idle(p) == pc[p] \in {"off", "scan"}

\* A process has a plan, and a folder, as long as it is at work on one.
AtWork ==
  \A p \in Proc : IF Idle(p) THEN todo[p] = {}
                  ELSE todo[p] # {} /\ at[p] <= Len(Folders)

Typed == TypeOK /\ AtWork

LEMMA TypeInit == Init => Typed
<1>1. Len(Folders) \in Nat
  OBVIOUS
<1> QED
  BY <1>1 DEF Init, Typed, TypeOK, AtWork, Idle

LEMMA StopType ==
  ASSUME Typed, NEW p \in Proc, Stop(p)
  PROVE  /\ pc' \in [Proc -> {"off", "scan", "select", "item", "move", "copy", "flag", "record"}]
         /\ at' \in [Proc -> 1 .. Len(Folders) + 1]
         /\ todo' \in [Proc -> SUBSET Message] /\ made' \in [Proc -> BOOLEAN]
         /\ link' \in [Proc -> BOOLEAN] /\ listed' \in [Proc -> SUBSET Message]
         /\ AtWork'
<1>1. Len(Folders) \in Nat
  OBVIOUS
<1> QED
  BY <1>1 DEF Typed, TypeOK, AtWork, Idle, Stop

LEMMA AdvanceType ==
  ASSUME Typed, NEW p \in Proc, at[p] <= Len(Folders), Advance(p)
  PROVE  /\ pc' \in [Proc -> {"off", "scan", "select", "item", "move", "copy", "flag", "record"}]
         /\ at' \in [Proc -> 1 .. Len(Folders) + 1]
         /\ todo' \in [Proc -> SUBSET Message] /\ made' \in [Proc -> BOOLEAN]
         /\ AtWork'
<1>1. Len(Folders) \in Nat
  OBVIOUS
<1> QED
  BY <1>1 DEF Typed, TypeOK, AtWork, Idle, Advance, Goto

LEMMA NextItemType ==
  ASSUME Typed, NEW p \in Proc, ~Idle(p), NextItem(p)
  PROVE  /\ pc' \in [Proc -> {"off", "scan", "select", "item", "move", "copy", "flag", "record"}]
         /\ at' \in [Proc -> 1 .. Len(Folders) + 1]
         /\ todo' \in [Proc -> SUBSET Message] /\ made' \in [Proc -> BOOLEAN]
         /\ AtWork'
<1>1. CASE todo[p] # {This(p)}
  <2>1. at' = at /\ made' = made /\ pc' = [pc EXCEPT ![p] = "item"]
        /\ todo' = [todo EXCEPT ![p] = @ \ {This(p)}]
    BY <1>1 DEF NextItem, Goto
  <2>2. todo[p] \ {This(p)} # {}
    BY <1>1 DEF Typed, AtWork
  <2> QED
    BY <2>1, <2>2 DEF Typed, TypeOK, AtWork, Idle
<1>2. CASE todo[p] = {This(p)}
  BY <1>2, AdvanceType DEF NextItem, Typed, AtWork
<1> QED
  BY <1>1, <1>2

LEMMA TypeStep == Typed /\ [Next]_vars => Typed'
<1> SUFFICES ASSUME Typed, [Next]_vars
             PROVE  Typed'
  OBVIOUS
<1>0. Len(Folders) \in Nat
  OBVIOUS
<1>1. ASSUME NEW p \in Proc, Start(p)
      PROVE  Typed'
  BY <1>1 DEF Start, Typed, TypeOK, AtWork, Idle, Goto, mailbox, bounds
<1>2. ASSUME NEW p \in Proc, Analyse(p)
      PROVE  Typed'
  <2>1. Duplicates(Here(p)) \in SUBSET Message
    BY DEF Duplicates
  <2>2. CASE link[p] /\ Duplicates(Here(p)) # {}
    <3> DEFINE dups == Duplicates(Here(p))
    <3>1. /\ pc' = [pc EXCEPT ![p] = "select"] /\ todo' = [todo EXCEPT ![p] = dups]
          /\ listed' = [listed EXCEPT ![p] = @ \union dups] /\ at[p] <= Len(Folders)
          /\ UNCHANGED <<at, made, mailbox, rows, lease, link, bounds>>
      BY <1>2, <2>2 DEF Analyse, Goto
    <3>2. dups \in SUBSET Message /\ dups # {}
      BY <2>1, <2>2
    <3> HIDE DEF dups
    <3>3. AtWork'
      BY <3>1, <3>2 DEF Typed, TypeOK, AtWork, Idle
    <3>4. TypeOK'
      BY <3>1, <3>2 DEF Typed, TypeOK, mailbox, bounds
    <3> QED
      BY <3>3, <3>4 DEF Typed
  <2>3. CASE ~(link[p] /\ Duplicates(Here(p)) # {})
    <3>1. Advance(p) /\ listed' = listed /\ at[p] <= Len(Folders)
      BY <1>2, <2>3 DEF Analyse
    <3> QED
      BY <1>2, <3>1, AdvanceType DEF Analyse, Typed, TypeOK, mailbox, bounds
  <2> QED
    BY <2>2, <2>3
<1>3. ASSUME NEW p \in Proc, Select(p)
      PROVE  Typed'
  <2>1. CASE link[p]
    BY <1>3, <2>1 DEF Select, Typed, TypeOK, AtWork, Idle, Goto, mailbox, bounds
  <2>2. CASE ~link[p]
    BY <1>3, <2>2, StopType DEF Select, Typed, TypeOK, mailbox, bounds
  <2> QED
    BY <2>1, <2>2
<1>4. ASSUME NEW p \in Proc, SkipDone(p)
      PROVE  Typed'
  <2>1. NextItem(p) /\ ~Idle(p)
    BY <1>4 DEF SkipDone, Idle
  <2> QED
    BY <1>4, <2>1, NextItemType DEF SkipDone, Typed, TypeOK, mailbox, bounds
<1>5. ASSUME NEW p \in Proc, Plan(p)
      PROVE  Typed'
  <2>1. CASE made[p] \/ link[p]
    <3>1. PICK next \in {"move", "copy"} : pc' = [pc EXCEPT ![p] = next]
      BY <1>5, <2>1 DEF Plan, Goto
    <3>2. /\ rows' \in [Message -> {"absent", "planned", "done"}]
          /\ made' \in [Proc -> BOOLEAN]
      <4> DEFINE m == This(p)
      <4>1. /\ rows' = [rows EXCEPT ![m] = IF @ = "absent" THEN "planned" ELSE @]
            /\ made' = [made EXCEPT ![p] = TRUE]
        BY <1>5, <2>1 DEF Plan
      <4> HIDE DEF m
      <4> QED
        BY <4>1 DEF Typed, TypeOK
    <3>3. ~Idle(p) /\ UNCHANGED <<at, todo, link, listed, mailbox, lease, bounds>>
      BY <1>5, <2>1 DEF Plan, Idle
    <3> QED
      BY <3>1, <3>2, <3>3 DEF Typed, TypeOK, AtWork, Idle, mailbox, bounds
  <2>2. CASE ~(made[p] \/ link[p])
    BY <1>5, <2>2, StopType DEF Plan, Typed, TypeOK, mailbox, bounds
  <2> QED
    BY <2>1, <2>2
<1>6. ASSUME NEW p \in Proc, UIDMove(p) \/ UIDCopy(p) \/ UIDStore(p)
      PROVE  Typed'
  <2>1. /\ box' \in [Message -> {"absent", "live", "flagged", "gone"}]
        /\ copies' \in [Message -> Nat] /\ taken' \subseteq Message
    <3>1. pc[p] \in {"move", "copy", "flag"} /\ (MoveAway(p) \/ CopyAway(p) \/ FlagDeleted(p))
      BY <1>6 DEF UIDMove, UIDCopy, UIDStore
    <3>2. This(p) \in Message
      BY <3>1, ThisIsPlanned DEF Typed, TypeOK, AtWork, Idle
    <3>3. CASE MoveAway(p)
      <4>1. copies[This(p)] + 1 \in Nat
        BY <3>2 DEF Typed, TypeOK
      <4> QED
        BY <3>2, <3>3, <4>1 DEF MoveAway, Typed, TypeOK, mailbox
    <3>4. CASE CopyAway(p)
      BY <3>2, <3>4 DEF CopyAway, Typed, TypeOK
    <3>5. CASE FlagDeleted(p)
      BY <3>2, <3>5 DEF FlagDeleted, Typed, TypeOK, mailbox
    <3> QED
      BY <3>1, <3>3, <3>4, <3>5
  <2>2. \E next \in {"record", "flag"} : Answer(p, next)
    BY <1>6 DEF UIDMove, UIDCopy, UIDStore
  <2>3. ~Idle(p) /\ UNCHANGED <<rows, lease, cancels, migrations, hasMove>>
    BY <1>6 DEF UIDMove, UIDCopy, UIDStore, Idle
  <2>4. ASSUME NEW next \in {"record", "flag"}, Goto(p, next),
               UNCHANGED <<at, todo, made, link, listed, cuts>>
        PROVE  Typed'
    BY <2>1, <2>2, <2>3, <2>4 DEF Typed, TypeOK, AtWork, Idle, Goto
  <2>5. ASSUME Stop(p), cuts' \in 0 .. MaxCut
        PROVE  Typed'
    BY <2>1, <2>3, <2>5, StopType DEF Typed, TypeOK
  <2>6. ASSUME NEW next \in {"record", "flag"}, Answer(p, next)
        PROVE  Typed'
    <3>1. CASE link[p] /\ Goto(p, next) /\ UNCHANGED <<at, todo, made, link, listed, cuts>>
      BY <2>4, <3>1
    <3>2. CASE link[p] /\ cuts < MaxCut /\ cuts' = cuts + 1 /\ Stop(p)
      <4>1. cuts' \in 0 .. MaxCut
        BY <3>2 DEF Typed, TypeOK
      <4> QED
        BY <2>5, <3>2, <4>1
    <3>3. CASE ~link[p] /\ Stop(p) /\ UNCHANGED cuts
      <4>1. cuts' \in 0 .. MaxCut
        BY <3>3 DEF Typed, TypeOK
      <4> QED
        BY <2>5, <3>3, <4>1
    <3> QED
      BY <2>6, <3>1, <3>2, <3>3 DEF Answer
  <2> QED
    BY <2>2, <2>6
<1>7. ASSUME NEW p \in Proc, Record(p)
      PROVE  Typed'
  <2>1. NextItem(p) /\ ~Idle(p)
    BY <1>7 DEF Record, Idle
  <2> QED
    BY <1>7, <2>1, NextItemType DEF Record, Typed, TypeOK, mailbox, bounds
<1>8. ASSUME NEW p \in Proc, Finish(p) \/ Cancel(p) \/ Crash(p)
      PROVE  Typed'
  BY <1>8, StopType DEF Finish, Cancel, Crash, Typed, TypeOK, mailbox, bounds
<1>9. ASSUME NEW p \in Proc, Cut(p)
      PROVE  Typed'
  BY <1>9 DEF Cut, Typed, TypeOK, AtWork, Idle, mailbox
<1>10. ASSUME MigrationStarts \/ MigrationEnds
       PROVE  Typed'
  BY <1>10 DEF MigrationStarts, MigrationEnds, Typed, TypeOK, AtWork, Idle, mailbox, bounds
<1>11. ASSUME NEW m \in Message, Arrive(m) \/ Owner(m)
       PROVE  Typed'
  BY <1>11 DEF Arrive, Owner, Typed, TypeOK, AtWork, Idle, bounds
<1>12. ASSUME UNCHANGED vars
       PROVE  Typed'
  BY <1>12 DEF vars, Typed, TypeOK, AtWork, Idle
<1> QED
  BY <1>1, <1>2, <1>3, <1>4, <1>5, <1>6, <1>7, <1>8, <1>9, <1>10, <1>11, <1>12
  DEF Next, Step

\* Every variable keeps its type, for any folders, processes and bounds.
THEOREM DedupTypes == Spec => []TypeOK
BY TypeInit, TypeStep, PTL DEF Spec, Typed

-----------------------------------------------------------------------------
(* A copy stays *)

\* What the grouping takes for granted: mails of one Message-ID and one size are
\* the same mail.
KeysTellBodies ==
  \A m, n \in Message : MidOf(m) # NoMid /\ SameKey(m, n) => BodyOf(m) = BodyOf(n)

\* A copy of m that no run lists as long as it is the lowest.
Keeper(v, m) ==
  v[1] = m[1] /\ v[2] < m[2] /\ box[v] = "live" /\ SameKey(v, m)

\* Whatever is still to be taken away has a keeper below it.
HasKeeper ==
  \A p \in Proc : \A m \in todo[p] :
    MidOf(m) # NoMid /\ \E v \in Message : Keeper(v, m)

KeepInv == Typed /\ HasKeeper /\ KeepsOne

\* The three kinds of steps, by what they do to the messages: the plan of some
\* process changes; mail arrives or is put back; a planned message is taken away.
Plans == /\ UNCHANGED mailbox
         /\ \A p \in Proc : todo'[p] \subseteq todo[p] \/ todo'[p] \subseteq Duplicates(Here(p))

Restores == /\ UNCHANGED <<todo, taken>>
            /\ \A v \in Message : box[v] = "live" => box'[v] = "live"

Takes(p) == /\ This(p) \in todo[p]
            /\ \A v \in Message : v # This(p) => box'[v] = box[v]
            /\ taken' \subseteq taken \union {This(p)}
            /\ \A q \in Proc : todo'[q] \subseteq todo[q]

LEMMA StopPlans ==
  ASSUME Typed, NEW p \in Proc, Stop(p)
  PROVE  \A q \in Proc : todo'[q] \subseteq todo[q]
BY DEF Typed, TypeOK, Stop

LEMMA NextItemPlans ==
  ASSUME Typed, NEW p \in Proc, NextItem(p)
  PROVE  \A q \in Proc : todo'[q] \subseteq todo[q]
BY DEF Typed, TypeOK, NextItem, Advance

LEMMA KindsOfSteps ==
  ASSUME Typed, [Next]_vars, "delete" \notin Client
  PROVE  Plans \/ Restores \/ \E p \in Proc : Takes(p)
<1>1. ASSUME NEW p \in Proc, Start(p) \/ Cut(p)
      PROVE  Plans
  BY <1>1 DEF Start, Cut, Plans
<1>2. ASSUME NEW p \in Proc, Analyse(p)
      PROVE  Plans
  <2>1. mailbox' = mailbox
    BY <1>2 DEF Analyse
  <2> DEFINE dups == Duplicates(Here(p))
  <2>2. todo' = [todo EXCEPT ![p] = dups] \/ todo' = [todo EXCEPT ![p] = {}]
    BY <1>2 DEF Analyse, Advance
  <2>3. \A q \in Proc : todo'[q] \subseteq todo[q] \/ (q = p /\ todo'[q] \subseteq dups)
    <3> HIDE DEF dups
    <3> QED
      BY <2>2 DEF Typed, TypeOK
  <2> QED
    BY <2>1, <2>3 DEF Plans
<1>3. ASSUME NEW p \in Proc, Select(p) \/ Plan(p)
      PROVE  Plans
  BY <1>3, StopPlans DEF Select, Plan, Plans
<1>4. ASSUME NEW p \in Proc, SkipDone(p) \/ Record(p)
      PROVE  Plans
  BY <1>4, NextItemPlans DEF SkipDone, Record, Plans
<1>5. ASSUME NEW p \in Proc, Finish(p) \/ Cancel(p) \/ Crash(p)
      PROVE  Plans
  BY <1>5, StopPlans DEF Finish, Cancel, Crash, Plans
<1>6. ASSUME NEW p \in Proc, UIDMove(p) \/ UIDCopy(p) \/ UIDStore(p)
      PROVE  Takes(p)
  <2>1. This(p) \in todo[p]
    BY <1>6, ThisIsPlanned DEF UIDMove, UIDCopy, UIDStore, Typed, TypeOK, AtWork, Idle
  <2>2. MoveAway(p) \/ CopyAway(p) \/ FlagDeleted(p)
    BY <1>6 DEF UIDMove, UIDCopy, UIDStore
  <2>3. /\ \A v \in Message : v # This(p) => box'[v] = box[v]
        /\ taken' \subseteq taken \union {This(p)}
    <3> DEFINE d == This(p)
    <3>1. \/ box' = [box EXCEPT ![d] = "gone"] /\ taken' = taken \union {d}
          \/ box' = [box EXCEPT ![d] = "flagged"] /\ taken' = taken \union {d}
          \/ box' = box /\ taken' = taken
      BY <2>2 DEF MoveAway, CopyAway, FlagDeleted, mailbox
    <3> HIDE DEF d
    <3>2. /\ \A v \in Message : v # d => box'[v] = box[v]
          /\ taken' \subseteq taken \union {d}
      BY <3>1 DEF Typed, TypeOK
    <3> QED
      BY <3>2 DEF d
  <2>4. \A q \in Proc : todo'[q] \subseteq todo[q]
    BY <1>6, StopPlans DEF UIDMove, UIDCopy, UIDStore, Answer
  <2> QED
    BY <2>1, <2>3, <2>4 DEF Takes
<1>7. ASSUME MigrationStarts \/ MigrationEnds
      PROVE  Plans
  BY <1>7 DEF MigrationStarts, MigrationEnds, Plans
<1>8. ASSUME NEW m \in Message, Arrive(m) \/ Owner(m)
      PROVE  Restores
  BY <1>8 DEF Arrive, Owner, Restores, Typed, TypeOK
<1>9. ASSUME UNCHANGED vars
      PROVE  Plans
  BY <1>9 DEF vars, Plans, mailbox
<1> QED
  BY <1>1, <1>2, <1>3, <1>4, <1>5, <1>6, <1>7, <1>8, <1>9 DEF Next, Step

LEMMA KeepInit == Init => KeepInv
BY TypeInit DEF Init, KeepInv, HasKeeper, KeepsOne

LEMMA KeepStep ==
  ASSUME KeepInv, [Next]_vars, "delete" \notin Client, KeysTellBodies
  PROVE  KeepInv'
<1>1. Typed /\ Typed'
  BY TypeStep DEF KeepInv
<1>2. \A p \in Proc : todo[p] \subseteq Message
  BY <1>1 DEF Typed, TypeOK
<1>3. CASE Plans
  <2>1. box' = box /\ taken' = taken
    BY <1>3 DEF Plans, mailbox
  <2>2. ASSUME NEW p \in Proc, NEW m \in todo'[p]
        PROVE  MidOf(m) # NoMid /\ \E v \in Message : Keeper(v, m)
    <3>1. CASE m \in todo[p]
      BY <3>1 DEF KeepInv, HasKeeper
    <3>2. CASE m \in Duplicates(Here(p))
      <4>1. PICK n \in Group(m) : n[2] < m[2]
        BY <3>2 DEF Duplicates
      <4> QED
        BY <3>2, <4>1 DEF Duplicates, Group, Eligible, Keeper, SameKey
    <3> QED
      BY <1>3, <3>1, <3>2 DEF Plans
  <2>3. HasKeeper'
    BY <2>1, <2>2 DEF HasKeeper, Keeper
  <2>4. KeepsOne'
    BY <2>1 DEF KeepInv, KeepsOne
  <2> QED
    BY <1>1, <2>3, <2>4 DEF KeepInv
<1>4. CASE Restores
  <2>1. HasKeeper'
    BY <1>4 DEF Restores, KeepInv, HasKeeper, Keeper
  <2>2. KeepsOne'
    BY <1>4 DEF Restores, KeepInv, KeepsOne
  <2> QED
    BY <1>1, <2>1, <2>2 DEF KeepInv
<1>5. ASSUME NEW p \in Proc, Takes(p)
      PROVE  KeepInv'
  <2> DEFINE d == This(p)
  <2>1. d \in todo[p] /\ d \in Message /\ MidOf(d) # NoMid
    BY <1>2, <1>5 DEF Takes, KeepInv, HasKeeper
  <2>2. PICK w \in Message : Keeper(w, d)
    BY <1>5 DEF Takes, KeepInv, HasKeeper
  <2>3. /\ \A v \in Message : v # d => box'[v] = box[v]
        /\ taken' \subseteq taken \union {d}
        /\ \A q \in Proc : todo'[q] \subseteq todo[q]
    BY <1>5 DEF Takes
  <2> HIDE DEF d
  <2>4. d[2] \in Nat /\ w[2] \in Nat
    BY <2>1, MessageFields
  <2>5. w # d /\ box'[w] = "live" /\ BodyOf(w) = BodyOf(d) /\ w[1] = d[1]
    BY <2>1, <2>2, <2>3, <2>4 DEF Keeper, KeysTellBodies, SameKey
  <2>6. ASSUME NEW q \in Proc, NEW m \in todo'[q]
        PROVE  MidOf(m) # NoMid /\ \E v \in Message : Keeper(v, m)'
    <3>1. m \in todo[q] /\ m \in Message /\ m[2] \in Nat /\ MidOf(m) # NoMid
      BY <1>2, <2>3, MessageFields DEF KeepInv, HasKeeper
    <3>2. PICK v \in Message : Keeper(v, m)
      BY <3>1 DEF KeepInv, HasKeeper
    <3>3. CASE v # d
      BY <2>3, <3>1, <3>2, <3>3 DEF Keeper
    <3>4. CASE v = d
      <4>1. w[1] = m[1] /\ w[2] < m[2] /\ SameKey(w, m)
        BY <2>2, <2>4, <3>1, <3>2, <3>4 DEF Keeper, SameKey
      <4> QED
        BY <2>5, <3>1, <4>1 DEF Keeper
    <3> QED
      BY <3>3, <3>4
  <2>7. ASSUME NEW m \in taken'
        PROVE  \E n \in Message : n[1] = m[1] /\ box'[n] = "live" /\ BodyOf(n) = BodyOf(m)
    <3>1. CASE m = d
      BY <2>5, <3>1
    <3>2. CASE m # d
      <4>1. m \in taken
        BY <2>3, <3>2
      <4>2. PICK n \in Message : n[1] = m[1] /\ box[n] = "live" /\ BodyOf(n) = BodyOf(m)
        BY <4>1 DEF KeepInv, KeepsOne
      <4> QED
        BY <2>3, <2>5, <4>2
    <3> QED
      BY <3>1, <3>2
  <2> QED
    BY <1>1, <2>6, <2>7 DEF KeepInv, HasKeeper, KeepsOne
<1> QED
  BY <1>1, <1>3, <1>4, <1>5, KindsOfSteps

\* Of every message that some run has taken away the folder still shows a copy
\* (dedup.go:338): for any number of processes that overlap, of breaks and of
\* restarts, if Message-ID and size tell mails apart and no other client deletes.
THEOREM OneCopyStays ==
  ASSUME KeysTellBodies, "delete" \notin Client
  PROVE  Spec => []KeepsOne
<1>1. KeepInv /\ [Next]_vars => KeepInv'
  BY KeepStep
<1>2. KeepInv => KeepsOne
  BY DEF KeepInv
<1> QED
  BY KeepInit, <1>1, <1>2, PTL DEF Spec

-----------------------------------------------------------------------------
(* A folder that is left is clean *)

\* A planned message is still there unless some run has taken it away.
LiveOrTaken == \A p \in Proc : \A m \in todo[p] : box[m] = "live" \/ m \in taken

\* What a run has listed it has still to do, or some run has done it.
ListedIsPlanned == \A p \in Proc : listed[p] \subseteq taken \union todo[p]

DoneIsTaken == \A m \in Message : rows[m] = "done" => m \in taken

RecordIsTaken == \A p \in Proc : pc[p] = "record" => This(p) \in taken

CleanInv == Typed /\ LiveOrTaken /\ ListedIsPlanned /\ DoneIsTaken /\ RecordIsTaken

LEMMA ThisStays ==
  ASSUME NEW p \in Proc, todo'[p] = todo[p]
  PROVE  This(p)' = This(p)
BY DEF This

\* A process stops: it forgets what it had listed.
LEMMA StopClean ==
  ASSUME CleanInv, NEW p \in Proc, Stop(p), taken \subseteq taken',
         \A m \in Message : box[m] = "live" => box'[m] = "live" \/ m \in taken',
         rows' = rows
  PROVE  LiveOrTaken' /\ ListedIsPlanned' /\ DoneIsTaken' /\ RecordIsTaken'
<1>1. \A q \in Proc : IF q = p THEN todo'[q] = {} /\ listed'[q] = {} /\ pc'[q] = "off"
                      ELSE todo'[q] = todo[q] /\ listed'[q] = listed[q] /\ pc'[q] = pc[q]
  BY DEF CleanInv, Typed, TypeOK, Stop
<1>2. \A q \in Proc : todo[q] \subseteq Message
  BY DEF CleanInv, Typed, TypeOK
<1>3. LiveOrTaken' /\ ListedIsPlanned'
  BY <1>1, <1>2 DEF CleanInv, LiveOrTaken, ListedIsPlanned
<1>4. DoneIsTaken'
  BY DEF CleanInv, DoneIsTaken
<1>5. RecordIsTaken'
  BY <1>1, ThisStays DEF CleanInv, RecordIsTaken
<1> QED
  BY <1>3, <1>4, <1>5

\* A message is dealt with: it is taken away, now or before.
LEMMA NextItemClean ==
  ASSUME CleanInv, NEW p \in Proc, ~Idle(p), NextItem(p), This(p) \in taken,
         UNCHANGED <<mailbox, listed>>
  PROVE  LiveOrTaken' /\ ListedIsPlanned' /\ RecordIsTaken'
<1> DEFINE d == This(p)
<1>1. \A q \in Proc : IF q = p THEN todo'[q] = todo[q] \ {d} /\ pc'[q] # "record"
                      ELSE todo'[q] = todo[q] /\ pc'[q] = pc[q]
  <2>1. CASE todo[p] # {d}
    <3>1. todo' = [todo EXCEPT ![p] = @ \ {d}] /\ pc' = [pc EXCEPT ![p] = "item"]
      BY <2>1 DEF NextItem, Goto
    <3> HIDE DEF d
    <3> QED
      BY <3>1 DEF CleanInv, Typed, TypeOK
  <2>2. CASE todo[p] = {d}
    <3>1. todo' = [todo EXCEPT ![p] = {}] /\ pc' = [pc EXCEPT ![p] = "scan"]
      BY <2>2 DEF NextItem, Advance, Goto
    <3> HIDE DEF d
    <3> QED
      BY <2>2, <3>1 DEF CleanInv, Typed, TypeOK
  <2> QED
    BY <2>1, <2>2
<1>2. box' = box /\ taken' = taken /\ listed' = listed
  BY DEF mailbox
<1>3. LiveOrTaken'
  BY <1>1, <1>2 DEF CleanInv, LiveOrTaken
<1>4. d \in taken
  OBVIOUS
<1>5. ListedIsPlanned'
  <2> HIDE DEF d
  <2> QED
    BY <1>1, <1>2, <1>4 DEF CleanInv, ListedIsPlanned
<1>6. RecordIsTaken'
  <2>1. \A q \in Proc : q # p => todo'[q] = todo[q] /\ pc'[q] = pc[q]
    BY <1>1
  <2>2. pc'[p] # "record"
    BY <1>1
  <2> QED
    BY <1>2, <2>1, <2>2, ThisStays DEF CleanInv, RecordIsTaken
<1> QED
  BY <1>3, <1>5, <1>6

\* Nothing but places change, and nobody gets to the record.
LEMMA QuietClean ==
  ASSUME CleanInv, UNCHANGED <<taken, listed, todo>>,
         \A m \in Message : box[m] = "live" => box'[m] = "live",
         \A m \in Message : rows'[m] = "done" => rows[m] = "done",
         \A p \in Proc : pc'[p] = "record" => pc[p] = "record"
  PROVE  LiveOrTaken' /\ ListedIsPlanned' /\ DoneIsTaken' /\ RecordIsTaken'
<1>1. \A p \in Proc : todo[p] \subseteq Message
  BY DEF CleanInv, Typed, TypeOK
<1>2. LiveOrTaken' /\ ListedIsPlanned' /\ DoneIsTaken'
  BY <1>1 DEF CleanInv, LiveOrTaken, ListedIsPlanned, DoneIsTaken
<1>3. RecordIsTaken'
  BY ThisStays DEF CleanInv, RecordIsTaken
<1> QED
  BY <1>2, <1>3

LEMMA CleanInit == Init => CleanInv
BY TypeInit DEF Init, CleanInv, LiveOrTaken, ListedIsPlanned, DoneIsTaken, RecordIsTaken

LEMMA CommandClean ==
  ASSUME CleanInv, NEW p \in Proc, UIDMove(p) \/ UIDCopy(p) \/ UIDStore(p)
  PROVE  LiveOrTaken' /\ ListedIsPlanned' /\ DoneIsTaken' /\ RecordIsTaken'
<1> DEFINE d == This(p)
<1>1. d \in todo[p] /\ d \in Message
  BY ThisIsPlanned DEF UIDMove, UIDCopy, UIDStore, CleanInv, Typed, TypeOK, AtWork, Idle
<1>2. /\ taken \subseteq taken'
      /\ \A m \in Message : box[m] = "live" => box'[m] = "live" \/ m \in taken'
  <2>1. \/ box' = [box EXCEPT ![d] = "gone"] /\ taken' = taken \union {d}
        \/ box' = [box EXCEPT ![d] = "flagged"] /\ taken' = taken \union {d}
        \/ box' = box /\ taken' = taken
    BY DEF UIDMove, UIDCopy, UIDStore, MoveAway, CopyAway, FlagDeleted, mailbox
  <2> HIDE DEF d
  <2> QED
    BY <1>1, <2>1 DEF CleanInv, Typed, TypeOK
<1>3. rows' = rows
  BY DEF UIDMove, UIDCopy, UIDStore
<1>4. CASE Stop(p)
  BY <1>2, <1>3, <1>4, StopClean
<1>5. CASE ~Stop(p)
  <2>1. link[p] /\ UNCHANGED <<todo, listed>>
    BY <1>5 DEF UIDMove, UIDCopy, UIDStore, Answer
  <2>2. UIDCopy(p) \/ d \in taken'
    <3>1. CASE Executed(p)
      BY <3>1 DEF UIDMove, UIDCopy, UIDStore, MoveAway, FlagDeleted
    <3>2. CASE ~Executed(p)
      <4>1. box[d] # "live"
        BY <2>1, <3>2 DEF Executed
      <4> QED
        BY <1>1, <1>2, <4>1 DEF CleanInv, LiveOrTaken
    <3> QED
      BY <3>1, <3>2
  <2>3. \/ pc' = [pc EXCEPT ![p] = "record"] /\ d \in taken'
        \/ pc' = [pc EXCEPT ![p] = "flag"]
    BY <1>5, <2>2 DEF UIDMove, UIDCopy, UIDStore, Answer, Goto
  <2>4. RecordIsTaken'
    <3>1. ASSUME NEW q \in Proc, pc'[q] = "record"
          PROVE  This(q) \in taken'
      <4>1. CASE q = p
        <5>1. pc'[p] = "record" => d \in taken'
          <6> HIDE DEF d
          <6> QED
            BY <2>3 DEF CleanInv, Typed, TypeOK
        <5> QED
          BY <3>1, <4>1, <5>1
      <4>2. CASE q # p
        <5>1. pc[q] = "record"
          <6> HIDE DEF d
          <6> QED
            BY <2>3, <3>1, <4>2 DEF CleanInv, Typed, TypeOK
        <5> QED
          BY <1>2, <5>1 DEF CleanInv, RecordIsTaken
      <4> QED
        BY <4>1, <4>2
    <3> QED
      BY <2>1, <3>1, ThisStays DEF RecordIsTaken
  <2>5. LiveOrTaken' /\ ListedIsPlanned' /\ DoneIsTaken'
    <3>1. \A q \in Proc : todo[q] \subseteq Message
      BY DEF CleanInv, Typed, TypeOK
    <3> QED
      BY <1>2, <1>3, <2>1, <3>1 DEF CleanInv, LiveOrTaken, ListedIsPlanned, DoneIsTaken
  <2> QED
    BY <2>4, <2>5
<1> QED
  BY <1>4, <1>5

\* A process groups a folder it is about to clean.
LEMMA AnalyseClean ==
  ASSUME CleanInv, NEW p \in Proc, Analyse(p)
  PROVE  LiveOrTaken' /\ ListedIsPlanned' /\ DoneIsTaken' /\ RecordIsTaken'
<1> DEFINE dups == Duplicates(Here(p))
<1>1. /\ todo[p] = {} /\ pc[p] = "scan" /\ rows' = rows
      /\ box' = box /\ taken' = taken
  BY DEF Analyse, CleanInv, Typed, AtWork, Idle, mailbox
<1>2. CASE link[p] /\ dups # {}
  <2>1. /\ pc' = [pc EXCEPT ![p] = "select"] /\ todo' = [todo EXCEPT ![p] = dups]
        /\ listed' = [listed EXCEPT ![p] = @ \union dups]
    BY <1>2 DEF Analyse, Goto
  <2>2. \A m \in dups : box[m] = "live"
    BY DEF Duplicates, Eligible
  <2> HIDE DEF dups
  <2>3. \A q \in Proc : IF q = p
                        THEN todo'[q] = dups /\ listed'[q] = listed[q] \union dups /\ pc'[q] = "select"
                        ELSE todo'[q] = todo[q] /\ listed'[q] = listed[q] /\ pc'[q] = pc[q]
    BY <2>1 DEF CleanInv, Typed, TypeOK
  <2>4. LiveOrTaken'
    BY <1>1, <2>2, <2>3 DEF CleanInv, LiveOrTaken
  <2>5. ListedIsPlanned'
    BY <1>1, <2>3 DEF CleanInv, ListedIsPlanned
  <2>6. DoneIsTaken'
    BY <1>1 DEF CleanInv, DoneIsTaken
  <2>7. RecordIsTaken'
    BY <1>1, <2>3, ThisStays DEF CleanInv, RecordIsTaken
  <2> QED
    BY <2>4, <2>5, <2>6, <2>7
<1>3. CASE ~(link[p] /\ dups # {})
  <2>1. Advance(p) /\ listed' = listed
    BY <1>3 DEF Analyse
  <2>2. todo' = todo /\ pc' = pc
    BY <1>1, <2>1 DEF Advance, Goto, CleanInv, Typed, TypeOK
  <2> QED
    BY <1>1, <2>1, <2>2, QuietClean
<1> QED
  BY <1>2, <1>3

\* A row is entered, and says no more than that the message is planned.
LEMMA PlanClean ==
  ASSUME CleanInv, NEW p \in Proc, Plan(p)
  PROVE  LiveOrTaken' /\ ListedIsPlanned' /\ DoneIsTaken' /\ RecordIsTaken'
<1>1. box' = box /\ taken' = taken
  BY DEF Plan, mailbox
<1>2. CASE made[p] \/ link[p]
  <2> DEFINE d == This(p)
  <2>1. /\ rows' = [rows EXCEPT ![d] = IF @ = "absent" THEN "planned" ELSE @]
        /\ UNCHANGED <<todo, listed>>
        /\ \E next \in {"move", "copy"} : pc' = [pc EXCEPT ![p] = next]
    BY <1>2 DEF Plan, Goto
  <2> HIDE DEF d
  <2>2. \A m \in Message : rows'[m] = "done" => rows[m] = "done"
    BY <2>1 DEF CleanInv, Typed, TypeOK
  <2>3. \A q \in Proc : pc'[q] = "record" => pc[q] = "record"
    BY <2>1 DEF CleanInv, Typed, TypeOK
  <2> QED
    BY <1>1, <2>1, <2>2, <2>3, QuietClean
<1>3. CASE ~(made[p] \/ link[p])
  BY <1>1, <1>3, StopClean DEF Plan
<1> QED
  BY <1>2, <1>3

\* A duplicate is passed over because its row is done, or its row becomes done.
LEMMA DoneClean ==
  ASSUME CleanInv, NEW p \in Proc, SkipDone(p) \/ Record(p)
  PROVE  LiveOrTaken' /\ ListedIsPlanned' /\ DoneIsTaken' /\ RecordIsTaken'
<1> DEFINE d == This(p)
<1>1. d \in Message /\ ~Idle(p)
  BY ThisIsPlanned DEF SkipDone, Record, CleanInv, Typed, TypeOK, AtWork, Idle
<1>2. d \in taken
  BY <1>1 DEF SkipDone, Record, IsDone, CleanInv, DoneIsTaken, RecordIsTaken
<1>3. LiveOrTaken' /\ ListedIsPlanned' /\ RecordIsTaken'
  <2>1. NextItem(p) /\ UNCHANGED <<mailbox, listed>>
    BY DEF SkipDone, Record
  <2> QED
    BY <1>1, <1>2, <2>1, NextItemClean
<1>4. DoneIsTaken'
  <2>1. taken' = taken /\ (rows' = rows \/ rows' = [rows EXCEPT ![d] = "done"])
    BY DEF SkipDone, Record, mailbox
  <2> HIDE DEF d
  <2> QED
    BY <1>2, <2>1 DEF CleanInv, Typed, TypeOK, DoneIsTaken
<1> QED
  BY <1>3, <1>4

LEMMA CleanStep ==
  ASSUME CleanInv, [Next]_vars, "delete" \notin Client
  PROVE  CleanInv'
<1> DEFINE Clean == LiveOrTaken /\ ListedIsPlanned /\ DoneIsTaken /\ RecordIsTaken
<1>1. Typed'
  BY TypeStep DEF CleanInv
<1>2. ASSUME NEW p \in Proc, Start(p)
      PROVE  Clean'
  <2>1. \A q \in Proc : pc'[q] = "record" => pc[q] = "record"
    BY <1>2 DEF Start, Goto, CleanInv, Typed, TypeOK
  <2> QED
    BY <1>2, <2>1, QuietClean DEF Start, mailbox
<1>3. ASSUME NEW p \in Proc, Analyse(p)
      PROVE  Clean'
  BY <1>3, AnalyseClean
<1>4. ASSUME NEW p \in Proc, Select(p)
      PROVE  Clean'
  <2>1. CASE link[p]
    <3>1. \A q \in Proc : pc'[q] = "record" => pc[q] = "record"
      BY <1>4, <2>1 DEF Select, Goto, CleanInv, Typed, TypeOK
    <3> QED
      BY <1>4, <2>1, <3>1, QuietClean DEF Select, mailbox
  <2>2. CASE ~link[p]
    BY <1>4, <2>2, StopClean DEF Select, mailbox
  <2> QED
    BY <2>1, <2>2
<1>5. ASSUME NEW p \in Proc, SkipDone(p) \/ Record(p)
      PROVE  Clean'
  BY <1>5, DoneClean
<1>6. ASSUME NEW p \in Proc, Plan(p)
      PROVE  Clean'
  BY <1>6, PlanClean
<1>7. ASSUME NEW p \in Proc, UIDMove(p) \/ UIDCopy(p) \/ UIDStore(p)
      PROVE  Clean'
  BY <1>7, CommandClean
<1>8. ASSUME NEW p \in Proc, Finish(p) \/ Cancel(p) \/ Crash(p)
      PROVE  Clean'
  BY <1>8, StopClean DEF Finish, Cancel, Crash, mailbox
<1>9. ASSUME NEW p \in Proc, Cut(p)
      PROVE  Clean'
  BY <1>9, QuietClean DEF Cut, mailbox
<1>10. ASSUME MigrationStarts \/ MigrationEnds
       PROVE  Clean'
  BY <1>10, QuietClean DEF MigrationStarts, MigrationEnds, mailbox
<1>11. ASSUME NEW m \in Message, Arrive(m) \/ Owner(m)
       PROVE  Clean'
  <2>1. \A v \in Message : box[v] = "live" => box'[v] = "live"
    BY <1>11 DEF Arrive, Owner, CleanInv, Typed, TypeOK
  <2> QED
    BY <1>11, <2>1, QuietClean DEF Arrive, Owner
<1>12. ASSUME UNCHANGED vars
       PROVE  Clean'
  BY <1>12, QuietClean DEF vars
<1>13. Clean'
  <2> HIDE DEF Clean
  <2> QED
    BY <1>2, <1>3, <1>4, <1>5, <1>6, <1>7, <1>8, <1>9, <1>10, <1>11, <1>12 DEF Next, Step
<1> QED
  BY <1>1, <1>13 DEF CleanInv

\* When a run leaves a folder without an error, every duplicate it had listed is
\* one some run has really taken away (state/dedup.go:22-24, 35-36): for any
\* number of processes, breaks and restarts, if no other client deletes.
THEOREM FoldersAreClean ==
  ASSUME "delete" \notin Client
  PROVE  Spec => []FolderIsClean
<1>1. CleanInv /\ [Next]_vars => CleanInv'
  BY CleanStep
<1>2. CleanInv => FolderIsClean
  BY DEF CleanInv, Typed, AtWork, Idle, ListedIsPlanned, FolderIsClean
<1> QED
  BY CleanInit, <1>1, <1>2, PTL DEF Spec

-----------------------------------------------------------------------------
(* Each process and each break pays for one copy *)

\* The processes whose next command may still quarantine m, and those that have
\* done so and are about to record it.
Copiers(m) == {p \in Proc : pc[p] \in {"copy", "move"} /\ link[p] /\ This(p) = m}
Copied(m)  == {p \in Proc : pc[p] \in {"flag", "record"} /\ link[p] /\ This(p) = m}

\* Until the row is done each copy is paid for by a break, or by a process that
\* still has to record it; from then on nobody starts a copy any more.
PaidFor(m) ==
  IF rows[m] = "done"
  THEN copies[m] + Cardinality(Copiers(m)) <= Cardinality(Proc) + cuts
  ELSE copies[m] <= cuts + Cardinality(Copied(m))

CopiesInv == Typed /\ \A m \in Message : PaidFor(m)

One(b) == IF b THEN 1 ELSE 0

\* A finite set that gains or loses at most p.
LEMMA OneMore ==
  ASSUME NEW S, NEW T, NEW p, IsFiniteSet(S), IsFiniteSet(T), S \ {p} = T \ {p}
  PROVE  /\ Cardinality(S) \in Nat /\ Cardinality(T) \in Nat
         /\ Cardinality(T) - One(p \in T) = Cardinality(S) - One(p \in S)
<1>1. ASSUME NEW V, IsFiniteSet(V)
      PROVE  Cardinality(V) \in Nat /\ Cardinality(V) - One(p \in V) = Cardinality(V \ {p})
  <2>1. Cardinality(V) \in Nat
    BY <1>1, FS_CardinalityType
  <2>2. Cardinality(V \ {p}) = IF p \in V THEN Cardinality(V) - 1 ELSE Cardinality(V)
    BY <1>1, FS_RemoveElement
  <2> QED
    BY <2>1, <2>2 DEF One
<1> QED
  BY <1>1

LEMMA CopiersFinite ==
  ASSUME NEW m
  PROVE  /\ IsFiniteSet(Copiers(m)) /\ IsFiniteSet(Copied(m))
         /\ Cardinality(Copiers(m)) \in Nat /\ Cardinality(Copied(m)) \in Nat
         /\ Cardinality(Proc) \in Nat
         /\ Cardinality(Copiers(m)) + Cardinality(Copied(m)) <= Cardinality(Proc)
<1>1. /\ Copiers(m) \in SUBSET Proc /\ Copied(m) \in SUBSET Proc
      /\ Copiers(m) \cap Copied(m) = {} /\ Copiers(m) \union Copied(m) \in SUBSET Proc
  BY DEF Copiers, Copied
<1>2. /\ IsFiniteSet(Copiers(m)) /\ IsFiniteSet(Copied(m))
      /\ Cardinality(Copiers(m) \union Copied(m)) <= Cardinality(Proc)
  BY <1>1, FS_Subset, ProcAssumption
<1>3. Cardinality(Copiers(m) \union Copied(m)) = Cardinality(Copiers(m)) + Cardinality(Copied(m))
  <2>1. /\ Cardinality(Copiers(m) \union Copied(m))
             = Cardinality(Copiers(m)) + Cardinality(Copied(m)) - Cardinality(Copiers(m) \cap Copied(m))
        /\ Cardinality(Copiers(m)) \in Nat /\ Cardinality(Copied(m)) \in Nat
    BY <1>2, FS_Union, FS_CardinalityType
  <2>2. Cardinality(Copiers(m) \cap Copied(m)) = 0
    BY <1>1, FS_EmptySet
  <2> QED
    BY <2>1, <2>2
<1> QED
  BY <1>2, <1>3, FS_CardinalityType, ProcAssumption

\* A step of one process leaves the places of the others.
Alone(p) ==
  \A q \in Proc : q # p => pc'[q] = pc[q] /\ link'[q] = link[q] /\ todo'[q] = todo[q]

LEMMA OthersStay ==
  ASSUME NEW p \in Proc, Alone(p), NEW m
  PROVE  /\ Copiers(m)' \ {p} = Copiers(m) \ {p}
         /\ Copied(m)' \ {p} = Copied(m) \ {p}
<1>1. \A q \in Proc : q # p => This(q)' = This(q)
  BY ThisStays DEF Alone
<1> QED
  BY <1>1 DEF Alone, Copiers, Copied

\* What a step of p must keep to: what is copied is covered by a break, or by what
\* becomes of p.
Settles(p, m) ==
  /\ rows[m] = "done" =>
       /\ rows'[m] = "done"
       /\ copies'[m] - copies[m] + One(p \in Copiers(m)') <= cuts' - cuts + One(p \in Copiers(m))
  /\ rows'[m] # "done" =>
       copies'[m] - copies[m] + One(p \in Copied(m)) <= cuts' - cuts + One(p \in Copied(m)')
  /\ rows[m] # "done" /\ rows'[m] = "done" =>
       /\ copies'[m] = copies[m] /\ cuts' = cuts
       /\ p \notin Copiers(m) /\ p \notin Copiers(m)'

LEMMA Account ==
  ASSUME Typed, Typed', NEW p \in Proc, Alone(p), NEW m \in Message,
         PaidFor(m), Settles(p, m)
  PROVE  PaidFor(m)'
<1>1. /\ copies[m] \in Nat /\ copies'[m] \in Nat /\ cuts \in Nat /\ cuts' \in Nat
  BY DEF Typed, TypeOK
<1>2. /\ IsFiniteSet(Copiers(m)) /\ IsFiniteSet(Copied(m))
      /\ IsFiniteSet(Copiers(m)') /\ IsFiniteSet(Copied(m)')
  <2>1. Copiers(m)' \in SUBSET Proc /\ Copied(m)' \in SUBSET Proc
    BY DEF Copiers, Copied
  <2> QED
    BY <2>1, CopiersFinite, FS_Subset, ProcAssumption
<1>3. /\ Cardinality(Copiers(m)') \in Nat /\ Cardinality(Copied(m)') \in Nat
      /\ Cardinality(Copiers(m)') - One(p \in Copiers(m)')
           = Cardinality(Copiers(m)) - One(p \in Copiers(m))
      /\ Cardinality(Copied(m)') - One(p \in Copied(m)')
           = Cardinality(Copied(m)) - One(p \in Copied(m))
  BY <1>2, OthersStay, OneMore
<1>4. /\ Cardinality(Copiers(m)) \in Nat /\ Cardinality(Copied(m)) \in Nat
      /\ Cardinality(Proc) \in Nat
      /\ Cardinality(Copiers(m)) + Cardinality(Copied(m)) <= Cardinality(Proc)
  BY CopiersFinite
<1> DEFINE K  == Cardinality(Copiers(m))
           K1 == Cardinality(Copiers(m)')
           D  == Cardinality(Copied(m))
           D1 == Cardinality(Copied(m)')
           a  == One(p \in Copiers(m))
           a1 == One(p \in Copiers(m)')
           b  == One(p \in Copied(m))
           b1 == One(p \in Copied(m)')
<1>5. /\ K \in Nat /\ K1 \in Nat /\ D \in Nat /\ D1 \in Nat
      /\ a \in 0 .. 1 /\ a1 \in 0 .. 1 /\ b \in 0 .. 1 /\ b1 \in 0 .. 1
      /\ K1 - a1 = K - a /\ D1 - b1 = D - b
      /\ Cardinality(Proc) \in Nat /\ K + D <= Cardinality(Proc)
  BY <1>3, <1>4 DEF One
<1>6. IF rows[m] = "done" THEN copies[m] + K <= Cardinality(Proc) + cuts
                          ELSE copies[m] <= cuts + D
  BY DEF PaidFor
<1>7. /\ rows[m] = "done" => /\ rows'[m] = "done"
                             /\ copies'[m] - copies[m] + a1 <= cuts' - cuts + a
      /\ rows'[m] # "done" => copies'[m] - copies[m] + b <= cuts' - cuts + b1
      /\ rows[m] # "done" /\ rows'[m] = "done" =>
           copies'[m] = copies[m] /\ cuts' = cuts /\ a = 0 /\ a1 = 0
  BY DEF Settles, One
<1> HIDE DEF K, K1, D, D1, a, a1, b, b1
<1>8. IF rows'[m] = "done" THEN copies'[m] + K1 <= Cardinality(Proc) + cuts'
                           ELSE copies'[m] <= cuts' + D1
  <2>0. /\ copies[m] \in Int /\ copies'[m] \in Int /\ cuts \in Int /\ cuts' \in Int
        /\ K \in Int /\ K1 \in Int /\ a \in Int /\ a1 \in Int /\ Cardinality(Proc) \in Int
        /\ D \in Int /\ D1 \in Int /\ b \in Int /\ b1 \in Int
    BY <1>1, <1>5
  <2>1. CASE rows[m] = "done"
    <3>1. PICK x, y, k, l, i, j, n, c, d \in Int :
            /\ x = copies[m] /\ y = copies'[m] /\ c = cuts /\ d = cuts'
            /\ k = K /\ l = K1 /\ i = a /\ j = a1 /\ n = Cardinality(Proc)
      BY <2>0, Zenon
    <3>2. x + k <= n + c /\ y - x + j <= d - c + i /\ l - j = k - i
      BY <1>5, <1>6, <1>7, <2>1, <3>1
    <3>3. y + l <= n + d
      BY <3>2
    <3> QED
      BY <1>7, <2>1, <3>1, <3>3
  <2>2. CASE rows'[m] # "done"
    <3>1. PICK x, y, k, l, i, j, c, d \in Int :
            /\ x = copies[m] /\ y = copies'[m] /\ c = cuts /\ d = cuts'
            /\ k = D /\ l = D1 /\ i = b /\ j = b1
      BY <2>0, Zenon
    <3>2. x <= c + k /\ y - x + i <= d - c + j /\ l - j = k - i
      BY <1>5, <1>6, <1>7, <2>2, <3>1
    <3>3. y <= d + l
      BY <3>2
    <3> QED
      BY <2>2, <3>1, <3>3
  <2>3. CASE rows[m] # "done" /\ rows'[m] = "done"
    BY <1>1, <1>5, <1>6, <1>7, <2>3
  <2> QED
    BY <2>1, <2>2, <2>3
<1> QED
  BY <1>8 DEF PaidFor, K1, D1

\* Who is not at a command is neither copying nor has copied.
Aside(p) == pc[p] \notin {"copy", "move", "flag", "record"} \/ ~link[p]

LEMMA AsideIsOut ==
  ASSUME NEW p \in Proc, NEW m
  PROVE  /\ Aside(p) => p \notin Copiers(m) /\ p \notin Copied(m)
         /\ Aside(p)' => p \notin Copiers(m)' /\ p \notin Copied(m)'
BY DEF Aside, Copiers, Copied

LEMMA StopAside ==
  ASSUME Typed, NEW p \in Proc, Stop(p)
  PROVE  Aside(p)' /\ Alone(p)
BY DEF Typed, TypeOK, Stop, Aside, Alone

LEMMA NextItemAside ==
  ASSUME Typed, NEW p \in Proc, NextItem(p), link' = link
  PROVE  Aside(p)' /\ Alone(p)
<1> DEFINE d == This(p)
<1>1. \E s : /\ pc' = [pc EXCEPT ![p] = "item"] \/ pc' = [pc EXCEPT ![p] = "scan"]
             /\ todo' = [todo EXCEPT ![p] = s]
  <2>1. CASE todo[p] # {d}
    BY <2>1 DEF NextItem, Goto
  <2>2. CASE todo[p] = {d}
    BY <2>2 DEF NextItem, Advance, Goto
  <2> QED
    BY <2>1, <2>2
<1> QED
  BY <1>1 DEF Typed, TypeOK, Aside, Alone

\* A step that copies nothing and after which p is at no command.
LEMMA AsideSettles ==
  ASSUME Typed, NEW p \in Proc, NEW m \in Message, Aside(p)',
         copies' = copies, rows' = rows,
         cuts' = cuts + 1 \/ (cuts' = cuts /\ Aside(p))
  PROVE  Settles(p, m)
<1>1. copies[m] \in Nat /\ cuts \in Nat
  BY DEF Typed, TypeOK
<1>2. copies'[m] - copies[m] = 0
  BY <1>1
<1>3. p \notin Copiers(m)' /\ p \notin Copied(m)'
  BY AsideIsOut
<1>4. CASE cuts' = cuts + 1
  <2>1. cuts' - cuts = 1
    BY <1>1, <1>4
  <2> QED
    BY <1>2, <1>3, <2>1 DEF Settles, One
<1>5. CASE cuts' = cuts /\ Aside(p)
  <2>1. cuts' - cuts = 0
    BY <1>1, <1>5
  <2> QED
    BY <1>2, <1>3, <1>5, <2>1, AsideIsOut DEF Settles, One
<1> QED
  BY <1>4, <1>5

LEMMA CommandSettles ==
  ASSUME Typed, NEW p \in Proc, UIDMove(p) \/ UIDCopy(p) \/ UIDStore(p), NEW m \in Message
  PROVE  Settles(p, m) /\ Alone(p)
<1> DEFINE d == This(p)
<1>1. d \in Message /\ pc[p] \in {"move", "copy", "flag"} /\ rows' = rows
  BY ThisIsPlanned DEF UIDMove, UIDCopy, UIDStore, Typed, TypeOK, AtWork, Idle
<1>2. copies[m] \in Nat /\ cuts \in Nat
  BY DEF Typed, TypeOK
<1>3. IF m = d /\ link[p] /\ pc[p] # "flag"
      THEN copies'[m] = copies[m] \/ copies'[m] = copies[m] + 1
      ELSE copies'[m] = copies[m]
  <2>1. CASE UIDMove(p) \/ UIDCopy(p)
    <3>1. \/ copies' = [copies EXCEPT ![d] = @ + 1] /\ link[p]
          \/ copies' = [copies EXCEPT ![d] = @ + 0]
          \/ copies' = copies
      BY <2>1 DEF UIDMove, UIDCopy, MoveAway, CopyAway, Executed, mailbox
    <3>2. pc[p] # "flag"
      BY <2>1 DEF UIDMove, UIDCopy
    <3> HIDE DEF d
    <3> QED
      BY <1>1, <3>1, <3>2 DEF Typed, TypeOK
  <2>2. CASE UIDStore(p)
    BY <2>2 DEF UIDStore, FlagDeleted, mailbox
  <2> QED
    BY <2>1, <2>2
<1>4. /\ p \in Copiers(m) <=> m = d /\ link[p] /\ pc[p] # "flag"
      /\ p \in Copied(m) <=> m = d /\ link[p] /\ pc[p] = "flag"
  BY <1>1 DEF Copiers, Copied
<1>5. copies'[m] - copies[m] <= One(p \in Copiers(m))
  BY <1>2, <1>3, <1>4 DEF One
<1>6. /\ One(p \in Copiers(m)) \in Int /\ One(p \in Copied(m)) \in Int
      /\ 0 <= One(p \in Copiers(m)) /\ 0 <= One(p \in Copied(m))
      /\ One(p \in Copiers(m)) + One(p \in Copied(m)) <= 1 /\ copies'[m] - copies[m] \in Int
  BY <1>2, <1>3, <1>4 DEF One
<1>7. PICK next \in {"record", "flag"} : Answer(p, next) /\ (next = "record" \/ pc[p] = "copy")
  BY DEF UIDMove, UIDCopy, UIDStore
<1>8. CASE link[p] /\ Goto(p, next) /\ UNCHANGED <<at, todo, made, link, listed, cuts>>
  <2>1. pc' = [pc EXCEPT ![p] = next] /\ todo' = todo /\ link' = link /\ cuts' = cuts
    BY <1>8 DEF Goto
  <2>2. Alone(p) /\ pc'[p] = next
    BY <2>1 DEF Alone, Typed, TypeOK
  <2>3. This(p)' = d
    BY <2>1, ThisStays
  <2>4. p \notin Copiers(m)' /\ (p \in Copied(m)' <=> m = d)
    BY <1>8, <2>1, <2>2, <2>3 DEF Copiers, Copied
  <2>5. One(p \in Copied(m)') = One(p \in Copiers(m)) + One(p \in Copied(m))
    BY <1>4, <1>8, <2>4 DEF One
  <2>6. cuts' - cuts = 0 /\ One(p \in Copiers(m)') = 0
    BY <1>2, <2>1, <2>4 DEF One
  <2>7. /\ copies'[m] - copies[m] + One(p \in Copiers(m)') <= cuts' - cuts + One(p \in Copiers(m))
        /\ copies'[m] - copies[m] + One(p \in Copied(m)) <= cuts' - cuts + One(p \in Copied(m)')
    BY <1>5, <1>6, <2>5, <2>6
  <2> QED
    BY <1>1, <2>2, <2>7 DEF Settles
<1>9. CASE link[p] /\ cuts' = cuts + 1 /\ Stop(p)
  <2>1. p \notin Copiers(m)' /\ p \notin Copied(m)' /\ Alone(p)
    BY <1>9, StopAside, AsideIsOut
  <2>2. cuts' - cuts = 1 /\ One(p \in Copiers(m)') = 0 /\ One(p \in Copied(m)') = 0
    BY <1>2, <1>9, <2>1 DEF One
  <2>3. /\ copies'[m] - copies[m] + One(p \in Copiers(m)') <= cuts' - cuts + One(p \in Copiers(m))
        /\ copies'[m] - copies[m] + One(p \in Copied(m)) <= cuts' - cuts + One(p \in Copied(m)')
    BY <1>5, <1>6, <2>2
  <2> QED
    BY <1>1, <2>1, <2>3 DEF Settles
<1>10. CASE ~link[p] /\ Stop(p) /\ UNCHANGED cuts
  <2>1. copies'[m] - copies[m] = 0 /\ cuts' - cuts = 0
    BY <1>2, <1>3, <1>10
  <2>2. /\ p \notin Copiers(m) /\ p \notin Copied(m)
        /\ p \notin Copiers(m)' /\ p \notin Copied(m)' /\ Alone(p)
    BY <1>10, StopAside, AsideIsOut DEF Aside
  <2> QED
    BY <1>1, <2>1, <2>2 DEF Settles, One
<1> QED
  BY <1>7, <1>8, <1>9, <1>10 DEF Answer

LEMMA PlanSettles ==
  ASSUME Typed, NEW p \in Proc, Plan(p), NEW m \in Message
  PROVE  Settles(p, m) /\ Alone(p)
<1> DEFINE d == This(p)
<1>1. Aside(p) /\ copies' = copies /\ cuts' = cuts
  BY DEF Plan, Aside, mailbox, bounds
<1>2. copies'[m] - copies[m] = 0 /\ cuts' - cuts = 0
  BY <1>1 DEF Typed, TypeOK
<1>3. CASE made[p] \/ link[p]
  <2>1. PICK next \in {"move", "copy"} : pc' = [pc EXCEPT ![p] = next]
    BY <1>3 DEF Plan, Goto
  <2>2. todo' = todo /\ link' = link
    BY <1>3 DEF Plan
  <2>3. This(p)' = d
    BY <2>2, ThisStays
  <2>4. Alone(p) /\ pc'[p] \in {"move", "copy"}
    BY <2>1, <2>2 DEF Alone, Typed, TypeOK
  <2>5. p \notin Copied(m)' /\ (p \in Copiers(m)' => m = d)
    BY <2>3, <2>4 DEF Copiers, Copied
  <2>6. d \in Message /\ rows[d] # "done"
    BY ThisIsPlanned DEF Plan, IsDone, Typed, TypeOK, AtWork, Idle
  <2>7. rows' = [rows EXCEPT ![d] = IF @ = "absent" THEN "planned" ELSE @]
    BY <1>3 DEF Plan
  <2>8. /\ rows'[m] = "done" <=> rows[m] = "done"
        /\ m = d => rows[m] # "done"
    <3> HIDE DEF d
    <3> QED
      BY <2>6, <2>7 DEF Typed, TypeOK
  <2>9. p \notin Copiers(m) /\ p \notin Copied(m)
    BY <1>1, AsideIsOut
  <2> QED
    BY <1>2, <2>4, <2>5, <2>8, <2>9 DEF Settles, One
<1>4. CASE ~(made[p] \/ link[p])
  BY <1>1, <1>4, StopAside, AsideSettles DEF Plan
<1> QED
  BY <1>3, <1>4

LEMMA RecordSettles ==
  ASSUME Typed, NEW p \in Proc, Record(p), NEW m \in Message
  PROVE  Settles(p, m) /\ Alone(p)
<1> DEFINE d == This(p)
<1>1. d \in Message /\ pc[p] = "record" /\ copies' = copies /\ cuts' = cuts
  BY ThisIsPlanned DEF Record, mailbox, bounds, Typed, TypeOK, AtWork, Idle
<1>2. copies'[m] - copies[m] = 0 /\ cuts' - cuts = 0
  BY <1>1 DEF Typed, TypeOK
<1>3. Aside(p)' /\ Alone(p)
  BY NextItemAside DEF Record
<1>4. rows' = [rows EXCEPT ![d] = "done"]
  BY DEF Record
<1>5. rows'[m] = IF m = d THEN "done" ELSE rows[m]
  <2> HIDE DEF d
  <2> QED
    BY <1>1, <1>4 DEF Typed, TypeOK
<1>6. /\ p \notin Copiers(m) /\ p \notin Copiers(m)' /\ p \notin Copied(m)'
      /\ m # d => p \notin Copied(m)
  BY <1>1, <1>3, AsideIsOut DEF Copiers, Copied
<1> QED
  BY <1>1, <1>2, <1>3, <1>5, <1>6 DEF Settles, One

LEMMA CopiesStep ==
  ASSUME CopiesInv, [Next]_vars
  PROVE  CopiesInv'
<1>1. Typed /\ Typed'
  BY TypeStep DEF CopiesInv
<1>2. ASSUME NEW p \in Proc, Alone(p), \A m \in Message : Settles(p, m)
      PROVE  \A m \in Message : PaidFor(m)'
  BY <1>1, <1>2, Account DEF CopiesInv
<1>3. ASSUME UNCHANGED <<pc, link, todo, copies, rows, cuts>>
      PROVE  \A m \in Message : PaidFor(m)'
  <2>1. \A p \in Proc : This(p)' = This(p)
    BY <1>3, ThisStays
  <2>2. ASSUME NEW m \in Message
        PROVE  Copiers(m)' = Copiers(m) /\ Copied(m)' = Copied(m)
    BY <1>3, <2>1 DEF Copiers, Copied
  <2> QED
    BY <1>3, <2>2 DEF CopiesInv, PaidFor
<1>4. ASSUME NEW p \in Proc, Start(p) \/ Analyse(p)
      PROVE  \A m \in Message : PaidFor(m)'
  <2>1. /\ Aside(p) /\ copies' = copies /\ rows' = rows /\ cuts' = cuts /\ link' = link
        /\ \E w \in {"scan", "select"} : pc' = [pc EXCEPT ![p] = w]
        /\ \E s : todo' = [todo EXCEPT ![p] = s]
    <3>1. CASE Start(p)
      <4>1. todo' = [todo EXCEPT ![p] = todo[p]]
        BY <1>1, <3>1 DEF Start, Typed, TypeOK
      <4> QED
        BY <3>1, <4>1 DEF Start, Aside, Goto, mailbox, bounds
    <3>2. CASE Analyse(p)
      BY <3>2 DEF Analyse, Advance, Aside, Goto, mailbox, bounds
    <3> QED
      BY <1>4, <3>1, <3>2
  <2>2. Alone(p) /\ Aside(p)'
    BY <1>1, <2>1 DEF Alone, Aside, Typed, TypeOK
  <2> QED
    BY <1>1, <1>2, <2>1, <2>2, AsideSettles
<1>5. ASSUME NEW p \in Proc, Select(p)
      PROVE  \A m \in Message : PaidFor(m)'
  <2>1. Aside(p) /\ copies' = copies /\ rows' = rows /\ cuts' = cuts
    BY <1>5 DEF Select, Aside, mailbox, bounds
  <2>2. Alone(p) /\ Aside(p)'
    <3>1. CASE link[p]
      BY <1>1, <1>5, <3>1 DEF Select, Goto, Alone, Aside, Typed, TypeOK
    <3>2. CASE ~link[p]
      BY <1>1, <1>5, <3>2, StopAside DEF Select
    <3> QED
      BY <3>1, <3>2
  <2> QED
    BY <1>1, <1>2, <2>1, <2>2, AsideSettles
<1>6. ASSUME NEW p \in Proc, SkipDone(p)
      PROVE  \A m \in Message : PaidFor(m)'
  <2>1. Aside(p) /\ copies' = copies /\ rows' = rows /\ cuts' = cuts /\ link' = link /\ NextItem(p)
    BY <1>6 DEF SkipDone, Aside, mailbox, bounds
  <2>2. Alone(p) /\ Aside(p)'
    BY <1>1, <2>1, NextItemAside
  <2> QED
    BY <1>1, <1>2, <2>1, <2>2, AsideSettles
<1>7. ASSUME NEW p \in Proc, Finish(p) \/ Cancel(p) \/ Crash(p)
      PROVE  \A m \in Message : PaidFor(m)'
  <2>1. /\ copies' = copies /\ rows' = rows /\ Stop(p)
        /\ cuts' = cuts + 1 \/ (cuts' = cuts /\ Aside(p))
    BY <1>7 DEF Finish, Cancel, Crash, Aside, mailbox, bounds
  <2> QED
    BY <1>1, <1>2, <2>1, StopAside, AsideSettles
<1>8. ASSUME NEW p \in Proc, Cut(p)
      PROVE  \A m \in Message : PaidFor(m)'
  <2>1. copies' = copies /\ rows' = rows /\ cuts' = cuts + 1
    BY <1>8 DEF Cut, mailbox
  <2>2. Alone(p) /\ Aside(p)'
    BY <1>1, <1>8 DEF Cut, Alone, Aside, Typed, TypeOK
  <2> QED
    BY <1>1, <1>2, <2>1, <2>2, AsideSettles
<1>9. ASSUME NEW p \in Proc, UIDMove(p) \/ UIDCopy(p) \/ UIDStore(p) \/ Plan(p) \/ Record(p)
      PROVE  \A m \in Message : PaidFor(m)'
  <2>1. \A m \in Message : Settles(p, m) /\ Alone(p)
    BY <1>1, <1>9, CommandSettles, PlanSettles, RecordSettles
  <2>2. CASE Message = {}
    BY <2>2
  <2>3. CASE Message # {}
    BY <1>2, <2>1, <2>3
  <2> QED
    BY <2>2, <2>3
<1>10. MigrationStarts \/ MigrationEnds \/ UNCHANGED vars
         \/ (\E m \in Message : Arrive(m) \/ Owner(m))
         => UNCHANGED <<pc, link, todo, copies, rows, cuts>>
  BY DEF MigrationStarts, MigrationEnds, Arrive, Owner, mailbox, bounds, vars
<1>11. \A m \in Message : PaidFor(m)'
  BY <1>3, <1>4, <1>5, <1>6, <1>7, <1>8, <1>9, <1>10 DEF Next, Step
<1> QED
  BY <1>1, <1>11 DEF CopiesInv

LEMMA CopiesInit == Init => CopiesInv
<1> SUFFICES ASSUME Init, NEW m \in Message
             PROVE  PaidFor(m)
  BY TypeInit DEF CopiesInv
<1>1. copies[m] = 0 /\ cuts = 0 /\ rows[m] = "absent"
  BY DEF Init
<1> QED
  BY <1>1, CopiersFinite DEF PaidFor

\* What was moved is gone, and no process copies where it may move.
MoveInv ==
  /\ Typed
  /\ hasMove =>
       /\ \A p \in Proc : pc[p] \notin {"copy", "flag"}
       /\ \A m \in Message : copies[m] = 0 \/ (copies[m] = 1 /\ box[m] = "gone")

LEMMA MoveStep ==
  ASSUME MoveInv, [Next]_vars
  PROVE  MoveInv'
<1>1. Typed /\ Typed' /\ hasMove' = hasMove
  <2>1. hasMove' = hasMove
    BY DEF Next, Step, Start, Analyse, Select, SkipDone, Plan, UIDMove, UIDCopy, UIDStore,
       Record, Finish, Cancel, Cut, Crash, MigrationStarts, MigrationEnds, Arrive, Owner,
       bounds, vars
  <2> QED
    BY <2>1, TypeStep DEF MoveInv
<1>2. SUFFICES ASSUME hasMove
               PROVE  /\ \A p \in Proc : pc'[p] \notin {"copy", "flag"}
                      /\ \A m \in Message :
                           copies'[m] = 0 \/ (copies'[m] = 1 /\ box'[m] = "gone")
  BY <1>1 DEF MoveInv
<1>3. /\ \A p \in Proc : pc[p] \notin {"copy", "flag"}
      /\ \A m \in Message : copies[m] = 0 \/ (copies[m] = 1 /\ box[m] = "gone")
  BY <1>2 DEF MoveInv
<1> DEFINE Moves(p, w) == pc' = [pc EXCEPT ![p] = w]
           Calm == {"off", "scan", "select", "item", "move", "record"}
           Kept == \A m \in Message :
                     copies'[m] = copies[m] /\ (box[m] = "gone" => box'[m] = "gone")
<1>4. ASSUME NEW p \in Proc, NEW w \in Calm, Moves(p, w)
      PROVE  \A q \in Proc : pc'[q] \notin {"copy", "flag"}
  BY <1>1, <1>3, <1>4 DEF Typed, TypeOK
<1>5. Kept => \A m \in Message : copies'[m] = 0 \/ (copies'[m] = 1 /\ box'[m] = "gone")
  BY <1>3
<1>6. ASSUME NEW p \in Proc,
             \/ Start(p) \/ Analyse(p) \/ Select(p) \/ SkipDone(p) \/ Plan(p)
             \/ Record(p) \/ Finish(p) \/ Cancel(p) \/ Crash(p)
      PROVE  Kept /\ \E w \in Calm : Moves(p, w)
  BY <1>2, <1>6 DEF Start, Analyse, Select, SkipDone, Plan, Record, Finish, Cancel, Crash,
     Stop, Goto, Advance, NextItem, mailbox
<1>7. ASSUME NEW p \in Proc, UIDMove(p)
      PROVE  /\ \A m \in Message : copies'[m] = 0 \/ (copies'[m] = 1 /\ box'[m] = "gone")
             /\ \E w \in Calm : Moves(p, w)
  <2>1. \E w \in Calm : Moves(p, w)
    BY <1>7 DEF UIDMove, Answer, Goto, Stop
  <2>2. CASE Executed(p)
    <3>1. /\ box' = [box EXCEPT ![This(p)] = "gone"]
          /\ copies' = [copies EXCEPT ![This(p)] = @ + 1]
      BY <1>7, <2>2 DEF UIDMove, MoveAway
    <3>2. box[This(p)] # "gone"
      BY <2>2 DEF Executed
    <3>3. ASSUME NEW m \in Message
          PROVE  copies'[m] = 0 \/ (copies'[m] = 1 /\ box'[m] = "gone")
      <4>1. copies \in [Message -> Nat] /\ DOMAIN box = Message
        BY <1>1 DEF Typed, TypeOK
      <4>2. CASE m = This(p)
        BY <1>3, <3>1, <3>2, <4>1, <4>2
      <4>3. CASE m # This(p)
        BY <1>3, <3>1, <4>1, <4>3
      <4> QED
        BY <4>2, <4>3
    <3> QED
      BY <2>1, <3>3
  <2>3. CASE ~Executed(p)
    BY <1>5, <1>7, <2>1, <2>3 DEF UIDMove, MoveAway, mailbox
  <2> QED
    BY <2>2, <2>3
<1>8. ASSUME NEW p \in Proc, UIDCopy(p) \/ UIDStore(p)
      PROVE  FALSE
  BY <1>3, <1>8 DEF UIDCopy, UIDStore
<1>9. ASSUME \/ \E p \in Proc : Cut(p)
             \/ MigrationStarts \/ MigrationEnds \/ UNCHANGED vars
             \/ \E m \in Message : Arrive(m) \/ Owner(m)
      PROVE  Kept /\ pc' = pc
  <2>1. ASSUME NEW m \in Message, NEW b, box[m] # "gone", box' = [box EXCEPT ![m] = b]
        PROVE  \A n \in Message : box[n] = "gone" => box'[n] = "gone"
    BY <1>1, <2>1 DEF Typed, TypeOK
  <2>2. ASSUME NEW m \in Message, Arrive(m) \/ Owner(m)
        PROVE  Kept /\ pc' = pc
    BY <2>1, <2>2 DEF Arrive, Owner
  <2> QED
    BY <1>9, <2>2 DEF Cut, MigrationStarts, MigrationEnds, mailbox, vars
<1> QED
  BY <1>3, <1>4, <1>5, <1>6, <1>7, <1>8, <1>9 DEF Next, Step

LEMMA MoveInit == Init => MoveInv
<1> SUFFICES ASSUME Init
             PROVE  MoveInv
  OBVIOUS
<1>1. (\A p \in Proc : pc[p] = "off") /\ (\A m \in Message : copies[m] = 0)
  BY DEF Init
<1> QED
  BY <1>1, TypeInit DEF MoveInv

\* However the processes overlap, the connections break and the owner puts messages
\* back, MOVE quarantines a message at most once, and COPY once per process and once
\* more per break: for any mailbox and any number of processes.  The processes are not in
\* the bound the code's comments give, which fails (OnlyBreaksCopyAgain).
THEOREM CopiesArePaid == Spec => []OneCopyPerBreak
<1>1. CopiesInv /\ MoveInv => OneCopyPerBreak
  <2> SUFFICES ASSUME CopiesInv, MoveInv, NEW m \in Message
               PROVE  copies[m] <= IF hasMove THEN 1 ELSE Cardinality(Proc) + cuts
    BY DEF OneCopyPerBreak
  <2>1. copies[m] \in Nat /\ cuts \in Nat
    BY DEF CopiesInv, Typed, TypeOK
  <2>2. PaidFor(m)
    BY DEF CopiesInv
  <2>3. hasMove => copies[m] <= 1
    BY DEF MoveInv
  <2>4. copies[m] <= Cardinality(Proc) + cuts
    BY <2>1, <2>2, CopiersFinite DEF PaidFor
  <2> QED
    BY <2>3, <2>4
<1> QED
  BY <1>1, CopiesInit, CopiesStep, MoveInit, MoveStep, PTL DEF Spec
=============================================================================
