--------------------------- MODULE FlagSyncProofs ---------------------------
(***************************************************************************)
(* Theorems about FlagSync: what mailferry run --sync-flags leaves alone.  *)
(***************************************************************************)
EXTENDS FlagSync, FiniteSetTheorems, NaturalsInduction, WellFoundedInduction, TLAPS

-----------------------------------------------------------------------------
(* Lists of flags *)

\* The sequence that SetToSeq makes of a finite set has the elements of the set.
LEMMA SequenceOfSet ==
  ASSUME NEW S, IsFiniteSet(S)
  PROVE  SetToSeq(S) \in Seq(S) /\ Range(SetToSeq(S)) = S
<1> DEFINE n == Cardinality(S)
           f == SetToSeq(S)
<1>1. n \in Nat /\ ExistsBijection(1..n, S)
  BY FS_CardinalityType
<1>2. \E g \in [1..n -> S] : IsInjective(g)
  <2>1. PICK g \in Bijection(1..n, S) : TRUE
    BY <1>1 DEF ExistsBijection
  <2>2. g \in [1..n -> S] /\ IsInjective(g)
    BY <2>1 DEF Bijection, Injection, IsInjective
  <2> QED
    BY <2>2
<1>3. f \in [1..n -> S] /\ IsInjective(f)
  BY <1>2 DEF SetToSeq
<1>4. f \in Injection(1..n, S)
  BY <1>3 DEF Injection, IsInjective
<1>5. IsFiniteSet(1..n) /\ Cardinality(1..n) = n
  BY <1>1, FS_Interval
<1>6. f \in Surjection(1..n, S)
  BY <1>4, <1>5, FS_Injection
<1>7. Range(f) = S
  BY <1>3, <1>6 DEF Surjection, Range
<1> QED
  BY <1>1, <1>3, <1>7

\* What a server answers for a set of flags has these flags, with or without \Recent.
LEMMA ReportIsTrue ==
  ASSUME NEW S, IsFiniteSet(S), NEW list \in Reported(S)
  PROVE  Range(list) = S \/ Range(list) = S \union {Recent}
<1> DEFINE l == SetToSeq(S)
           n == Len(l)
<1>1. l \in Seq(S) /\ Range(l) = S
  BY SequenceOfSet
<1>2. n \in Nat /\ l \in [1..n -> S]
  BY <1>1
<1>3. Reverse(l) \in Seq(S) /\ Len(Reverse(l)) = n
  BY <1>2 DEF Reverse
<1>4. Range(Reverse(l)) = S
  <2>1. \A i \in 1..n : n - i + 1 \in 1..n /\ n - (n - i + 1) + 1 = i
    BY <1>2
  <2>2. \A i \in 1..n : Reverse(l)[i] = l[n - i + 1]
    BY <1>2 DEF Reverse
  <2>3. DOMAIN Reverse(l) = 1..n /\ DOMAIN l = 1..n
    BY <1>2, <1>3
  <2>4. Range(Reverse(l)) \subseteq S
    BY <1>1, <2>1, <2>2, <2>3 DEF Range
  <2>5. \A x \in S : x \in Range(Reverse(l))
    <3> TAKE x \in S
    <3>1. PICK i \in 1..n : l[i] = x
      BY <1>1, <2>3 DEF Range
    <3>2. n - i + 1 \in 1..n /\ Reverse(l)[n - i + 1] = x
      BY <2>1, <2>2, <3>1
    <3> QED
      BY <2>3, <3>2 DEF Range
  <2> QED
    BY <2>4, <2>5
<1>5. \A s \in Seq(S) : /\ Range(<<Recent>> \o s) = Range(s) \union {Recent}
                        /\ Range(s \o <<Recent>>) = Range(s) \union {Recent}
  <2> TAKE s \in Seq(S)
  <2>1. Range(<<Recent>> \o s) = Range(s) \union {Recent}
    <3> DEFINE t == <<Recent>> \o s
    <3>1. s \in Seq(S \union {Recent}) /\ <<Recent>> \in Seq(S \union {Recent})
          /\ Len(<<Recent>>) = 1 /\ <<Recent>>[1] = Recent
      OBVIOUS
    <3>2. /\ Len(t) = Len(s) + 1 /\ t \in Seq(S \union {Recent})
          /\ \A i \in 1..Len(t) : t[i] = IF i <= 1 THEN <<Recent>>[i] ELSE s[i - 1]
      BY <3>1
    <3>3. DOMAIN t = 1..Len(t) /\ DOMAIN s = 1..Len(s) /\ Len(s) \in Nat
      BY <3>1, <3>2
    <3> HIDE DEF t
    <3>4. \A i \in 1..Len(t) : t[i] \in Range(s) \union {Recent}
      <4> TAKE i \in 1..Len(t)
      <4>1. CASE i = 1
        BY <3>1, <3>2, <4>1
      <4>2. CASE i # 1
        <5>1. i - 1 \in 1..Len(s) /\ t[i] = s[i - 1]
          BY <3>2, <3>3, <4>2
        <5> QED
          BY <3>3, <5>1 DEF Range
      <4> QED
        BY <4>1, <4>2
    <3>5. \A i \in 1..Len(s) : i + 1 \in 1..Len(t) /\ t[i + 1] = s[i]
      BY <3>2, <3>3
    <3>6. 1 \in 1..Len(t) /\ t[1] = Recent
      BY <3>1, <3>2, <3>3
    <3>7. \A x \in Range(s) : x \in Range(t)
      <4> TAKE x \in Range(s)
      <4>1. PICK i \in 1..Len(s) : s[i] = x
        BY <3>3 DEF Range
      <4> QED
        BY <3>3, <3>5, <4>1 DEF Range
    <3>8. Range(t) \subseteq Range(s) \union {Recent} /\ Recent \in Range(t)
      BY <3>3, <3>4, <3>6 DEF Range
    <3>9. Range(t) = Range(s) \union {Recent}
      BY <3>7, <3>8
    <3> QED
      BY <3>9 DEF t
  <2>2. Range(s \o <<Recent>>) = Range(s) \union {Recent}
    <3> DEFINE t == s \o <<Recent>>
    <3>1. /\ Len(t) = Len(s) + 1 /\ t[Len(s) + 1] = Recent
          /\ \A i \in 1..Len(s) : t[i] = s[i]
          /\ \A i \in 1..Len(t) : i = Len(s) + 1 \/ i \in 1..Len(s)
          /\ DOMAIN t = 1..Len(t) /\ DOMAIN s = 1..Len(s)
          /\ \A i \in 1..Len(s) : i \in 1..Len(t)
          /\ Len(s) + 1 \in 1..Len(t)
      OBVIOUS
    <3> HIDE DEF t
    <3> QED
      BY <3>1 DEF Range
  <2> QED
    BY <2>1, <2>2
<1>6. list \in {l, Reverse(l), <<Recent>> \o l, Reverse(l) \o <<Recent>>}
  BY DEF Reported
<1> HIDE DEF l
<1> QED
  BY <1>1, <1>3, <1>4, <1>5, <1>6

\* The canonical form of a list has its flags without \Recent, ...
LEMMA CanonHasFlags ==
  ASSUME NEW list, IsFiniteSet(Range(list))
  PROVE  Range(CanonFlags(list)) = Range(list) \ {Recent}
  BY FS_Subset, SequenceOfSet DEF CanonFlags

\* ... and is the same for two lists of the same flags.
LEMMA CanonIgnoresOrder ==
  ASSUME NEW a, NEW b, Range(a) \ {Recent} = Range(b) \ {Recent}
  PROVE  CanonFlags(a) = CanonFlags(b)
  BY DEF CanonFlags

\* There are finitely many flags, so every list of them has a canonical form.
LEMMA FlagsAreFinite ==
  ASSUME NEW S \in SUBSET Flag
  PROVE  IsFiniteSet(S) /\ Recent \notin S
  BY FlagAssumption, FS_Union, FS_Subset DEF Flag

LEMMA ReportOfFlags ==
  ASSUME NEW S \in SUBSET Flag, NEW list \in Reported(S)
  PROVE  /\ Range(list) \ {Recent} = S
         /\ Range(CanonFlags(list)) = S
<1>1. IsFiniteSet(S) /\ Recent \notin S
  BY FlagsAreFinite
<1>2. Range(list) = S \/ Range(list) = S \union {Recent}
  BY <1>1, ReportIsTrue
<1>3. IsFiniteSet(Range(list))
  BY <1>1, <1>2, FS_AddElement
<1> QED
  BY <1>1, <1>2, <1>3, CanonHasFlags

-----------------------------------------------------------------------------
(* The invariant *)

\* What the source has.
SourceOK == have \in [Uid -> (SUBSET Flag) \union {Gone}]

\* Every message has a row, or the place of one.
RowsOK ==
  /\ DOMAIN row = Uid
  /\ \A u \in Uid : /\ row[u] = [st |-> row[u].st, uid |-> row[u].uid, flags |-> row[u].flags]
                    /\ row[u].st \in {"none", "planned", "done"}

\* A row says what the source has, unless there is news.
RowsAreCurrent ==
  \A u \in Uid : row[u].st # "none" /\ u \notin news =>
    have[u] # Gone /\ Range(row[u].flags) \ {Recent} = have[u]

\* The pass is to do confirmed messages, each once, and all of them are news.
ChangesAreNews ==
  /\ \A c \in changed : /\ c.uid \in Uid /\ c.uid \in news /\ row[c.uid].st = "done"
                        /\ Range(c.new) \subseteq Flag
  /\ \A c, d \in changed : c.uid = d.uid => c = d

\* Only a pass has something to do; it waits for an answer to the first of it.
PassIsOpen ==
  /\ pc \notin {"store", "answer"} => changed = {}
  /\ pc = "answer" => changed # {}

IInv == SourceOK /\ RowsOK /\ RowsAreCurrent /\ ChangesAreNews /\ PassIsOpen

-----------------------------------------------------------------------------
(* The first of a set *)

\* Uid is a set of numbers, so the first message of some exists.
LEMMA LeastIsIn ==
  ASSUME NEW S \in SUBSET Uid, S # {}
  PROVE  Least(S) \in S /\ \A v \in S : Least(S) <= v
<1> DEFINE R == OpToRel(<, Nat)
<1>1. S \subseteq Nat
  BY FlagAssumption
<1>2. \A x, y \in Nat : <<y, x>> \notin R => x <= y
  BY DEF OpToRel
<1>3. IsWellFoundedOn(R, Nat)
  BY NatLessThanWellFounded
<1> HIDE DEF R
<1>4. \E x \in S : \A y \in S : <<y, x>> \notin R
  BY <1>1, <1>3, WFMin
<1>5. \E x \in S : \A y \in S : x <= y
  BY <1>1, <1>2, <1>4
<1> QED
  BY <1>5 DEF Least

LEMMA ChangeIsFirst ==
  ASSUME ChangesAreNews, changed # {}
  PROVE  Change \in changed
<1> DEFINE us == {c.uid : c \in changed}
<1>1. us \in SUBSET Uid /\ us # {}
  BY DEF ChangesAreNews
<1> HIDE DEF us
<1>2. \E x \in us : \A y \in us : x <= y
  BY <1>1, LeastIsIn
<1>3. \E c \in changed : \A d \in changed : c.uid <= d.uid
  BY <1>2 DEF us
<1> QED
  BY <1>3 DEF Change

-----------------------------------------------------------------------------
(* The invariant is inductive *)

LEMMA IInvInit == Init => IInv
<1> SUFFICES ASSUME Init
             PROVE  IInv
  OBVIOUS
<1>1. SourceOK
  BY FirstAssumption DEF Init, SourceOK, Flag
<1>2. RowsOK /\ \A u \in Uid : row[u].st = "none"
  BY DEF Init, RowsOK, NoRow
<1>3. RowsAreCurrent
  BY <1>2 DEF RowsAreCurrent
<1>4. ChangesAreNews /\ PassIsOpen
  BY DEF Init, ChangesAreNews, PassIsOpen
<1> QED
  BY <1>1, <1>2, <1>3, <1>4 DEF IInv

\* Steps that only take the session on, or that only touch the destination.
LEMMA QuietSteps ==
  ASSUME IInv, UNCHANGED <<have, row, news>>,
         changed' \subseteq changed, PassIsOpen'
  PROVE  IInv'
<1>1. SourceOK' /\ RowsOK' /\ RowsAreCurrent'
  BY DEF IInv, SourceOK, RowsOK, RowsAreCurrent
<1>2. ChangesAreNews'
  BY DEF IInv, ChangesAreNews
<1> QED
  BY <1>1, <1>2 DEF IInv

\* A row that is written anew says what the source has now.
LEMMA ScanKeeps ==
  ASSUME IInv, Scan
  PROVE  IInv'
<1>1. CASE Unknown = {}
  <2>1. UNCHANGED <<have, row, news, changed>> /\ PassIsOpen'
    BY <1>1 DEF Scan, IInv, PassIsOpen
  <2> QED
    BY <2>1, QuietSteps
<1>2. CASE Unknown # {}
  <2> DEFINE u == Least(Unknown)
  <2>1. PICK list \in Reported(have[u]) :
          row' = [row EXCEPT ![u] = [st |-> "planned", uid |-> FALSE, flags |-> list]]
    BY <1>2 DEF Scan
  <2>2. /\ news' = news \ {u} /\ UNCHANGED <<have, pc, changed>> /\ pc = "scan"
    BY <1>2 DEF Scan
  <2>3. u \in Unknown
    BY <1>2, LeastIsIn DEF Unknown
  <2>4. u \in Uid /\ have[u] # Gone /\ have[u] \in SUBSET Flag
    BY <2>3 DEF Unknown, IInv, SourceOK
  <2> HIDE DEF u
  <2>5. Range(list) \ {Recent} = have[u]
    BY <2>1, <2>4, ReportOfFlags
  <2>6. /\ row'[u] = [st |-> "planned", uid |-> FALSE, flags |-> list]
        /\ \A v \in Uid \ {u} : row'[v] = row[v]
        /\ DOMAIN row' = Uid
    BY <2>1, <2>4 DEF IInv, RowsOK
  <2>7. changed = {}
    BY <2>2 DEF IInv, PassIsOpen
  <2>8. SourceOK' /\ PassIsOpen' /\ ChangesAreNews'
    BY <2>2, <2>7 DEF IInv, SourceOK, PassIsOpen, ChangesAreNews
  <2>9. RowsOK'
    <3> SUFFICES ASSUME NEW v \in Uid
                 PROVE  /\ row'[v] = [st |-> row'[v].st, uid |-> row'[v].uid, flags |-> row'[v].flags]
                        /\ row'[v].st \in {"none", "planned", "done"}
      BY <2>6 DEF RowsOK
    <3> QED
      BY <2>6 DEF IInv, RowsOK
  <2>10. RowsAreCurrent'
    <3> SUFFICES ASSUME NEW v \in Uid, row'[v].st # "none", v \notin news'
                 PROVE  have[v] # Gone /\ Range(row'[v].flags) \ {Recent} = have[v]
      BY <2>2 DEF RowsAreCurrent
    <3>1. CASE v = u
      BY <2>4, <2>5, <2>6, <3>1
    <3>2. CASE v # u
      BY <2>2, <2>6, <3>2 DEF IInv, RowsAreCurrent
    <3> QED
      BY <3>1, <3>2
  <2> QED
    BY <2>8, <2>9, <2>10 DEF IInv
<1> QED
  BY <1>1, <1>2

\* A row that is confirmed keeps its flags.
LEMMA ConfirmKeeps ==
  ASSUME IInv, NEW u \in Uid, row[u].st # "none", NEW known,
         row' = [row EXCEPT ![u].st = "done", ![u].uid = known],
         UNCHANGED <<have, news, pc, changed>>
  PROVE  IInv'
<1>1. /\ row'[u] = [row[u] EXCEPT !.st = "done", !.uid = known]
      /\ \A v \in Uid \ {u} : row'[v] = row[v]
      /\ DOMAIN row' = Uid
  BY DEF IInv, RowsOK
<1>2. row'[u] = [st |-> "done", uid |-> known, flags |-> row[u].flags]
  BY <1>1 DEF IInv, RowsOK
<1>3. \A v \in Uid : row'[v].flags = row[v].flags /\ (row'[v].st = row[v].st \/ row'[v].st = "done")
  BY <1>1, <1>2
<1>4. RowsOK'
  BY <1>1, <1>2 DEF IInv, RowsOK
<1>5. RowsAreCurrent'
  <2> SUFFICES ASSUME NEW v \in Uid, row'[v].st # "none", v \notin news
               PROVE  have[v] # Gone /\ Range(row'[v].flags) \ {Recent} = have[v]
    BY DEF RowsAreCurrent
  <2>1. row[v].st # "none"
    BY <1>1
  <2> QED
    BY <1>3, <2>1 DEF IInv, RowsAreCurrent
<1>6. ChangesAreNews'
  BY <1>3 DEF IInv, ChangesAreNews
<1>7. SourceOK' /\ PassIsOpen'
  BY DEF IInv, SourceOK, PassIsOpen
<1> QED
  BY <1>4, <1>5, <1>6, <1>7 DEF IInv

LEMMA CopyKeeps ==
  ASSUME IInv, Adopt \/ Copy
  PROVE  IInv'
<1> DEFINE u == Least(Planned)
<1>1. u \in Planned
  BY LeastIsIn DEF Adopt, Copy, Planned
<1>2. u \in Uid /\ row[u].st # "none"
  BY <1>1 DEF Planned
<1> HIDE DEF u
<1>3. \E known : row' = [row EXCEPT ![u].st = "done", ![u].uid = known]
  BY DEF Adopt, Copy, Confirm, u
<1>4. UNCHANGED <<have, news, pc, changed>>
  BY DEF Adopt, Copy
<1> QED
  BY <1>2, <1>3, <1>4, ConfirmKeeps

\* What differs from its row is news, and FETCH finds a message once.
LEMMA FetchKeeps ==
  ASSUME IInv, FetchFlags
  PROVE  IInv'
<1>1. PICK current \in [There -> UNION {Reported(have[u]) : u \in There}] :
        /\ \A u \in There : current[u] \in Reported(have[u])
        /\ changed' = {[uid |-> u, new |-> CanonFlags(current[u])] :
                         u \in {v \in There : CanonFlags(current[v]) # CanonFlags(row[v].flags)}}
  BY DEF FetchFlags
<1>2. pc' = "store" /\ UNCHANGED <<have, row, news>>
  BY DEF FetchFlags
<1>3. \A u \in There : /\ u \in Uid /\ row[u].st = "done"
                       /\ have[u] # Gone /\ have[u] \in SUBSET Flag
  BY DEF There, WithDst, IInv, SourceOK
<1>4. \A u \in There : /\ Range(current[u]) \ {Recent} = have[u]
                       /\ Range(CanonFlags(current[u])) = have[u]
  BY <1>1, <1>3, ReportOfFlags
<1>5. \A u \in There : CanonFlags(current[u]) # CanonFlags(row[u].flags) => u \in news
  <2> SUFFICES ASSUME NEW u \in There, u \notin news
               PROVE  CanonFlags(current[u]) = CanonFlags(row[u].flags)
    OBVIOUS
  <2>1. Range(row[u].flags) \ {Recent} = have[u]
    BY <1>3 DEF IInv, RowsAreCurrent
  <2> QED
    BY <1>4, <2>1, CanonIgnoresOrder
<1>6. ChangesAreNews'
  <2>1. \A c \in changed' : \E u \in There : /\ c = [uid |-> u, new |-> CanonFlags(current[u])]
                                              /\ u \in news
    BY <1>1, <1>5
  <2>2. \A c \in changed' : /\ c.uid \in Uid /\ c.uid \in news /\ row[c.uid].st = "done"
                            /\ Range(c.new) \subseteq Flag
    BY <1>3, <1>4, <2>1
  <2>3. \A c, d \in changed' : c.uid = d.uid => c = d
    BY <2>1
  <2> QED
    BY <1>2, <2>2, <2>3 DEF ChangesAreNews
<1>7. SourceOK' /\ RowsOK' /\ RowsAreCurrent' /\ PassIsOpen'
  BY <1>2 DEF IInv, SourceOK, RowsOK, RowsAreCurrent, PassIsOpen
<1> QED
  BY <1>6, <1>7 DEF IInv

\* A row that is brought up to date stops being news only if the source has not
\* changed once more.
LEMMA UpdateKeeps ==
  ASSUME IInv, UpdateFlags
  PROVE  IInv'
<1> DEFINE c == Change
           u == c.uid
<1>1. changed # {}
  BY DEF UpdateFlags, IInv, PassIsOpen
<1>2. c \in changed
  BY <1>1, ChangeIsFirst DEF IInv
<1>3. /\ u \in Uid /\ u \in news /\ row[u].st = "done" /\ Range(c.new) \subseteq Flag
      /\ \A d \in changed : d.uid = u => d = c
  BY <1>2 DEF IInv, ChangesAreNews
<1>4. /\ row' = [row EXCEPT ![u].flags = c.new] /\ changed' = changed \ {c}
      /\ news' = IF have[u] # Gone /\ Range(c.new) = have[u] THEN news \ {u} ELSE news
      /\ have' = have /\ pc' = "store"
  BY DEF UpdateFlags
<1> HIDE DEF c, u
<1>5. /\ row'[u] = [row[u] EXCEPT !.flags = c.new]
      /\ \A v \in Uid \ {u} : row'[v] = row[v]
      /\ DOMAIN row' = Uid
  BY <1>3, <1>4 DEF IInv, RowsOK
<1>6. row'[u] = [st |-> row[u].st, uid |-> row[u].uid, flags |-> c.new]
  BY <1>3, <1>5 DEF IInv, RowsOK
<1>7. RowsOK'
  BY <1>3, <1>5, <1>6 DEF IInv, RowsOK
<1>8. Range(c.new) \ {Recent} = Range(c.new)
  BY <1>3, FlagsAreFinite
<1>9. RowsAreCurrent'
  <2> SUFFICES ASSUME NEW v \in Uid, row'[v].st # "none", v \notin news'
               PROVE  have[v] # Gone /\ Range(row'[v].flags) \ {Recent} = have[v]
    BY <1>4 DEF RowsAreCurrent
  <2>1. CASE v = u
    BY <1>3, <1>4, <1>6, <1>8, <2>1
  <2>2. CASE v # u
    BY <1>4, <1>5, <2>2 DEF IInv, RowsAreCurrent
  <2> QED
    BY <2>1, <2>2
<1>10. ChangesAreNews'
  <2>1. \A d \in changed' : d \in changed /\ d.uid # u
    BY <1>3, <1>4
  <2>2. \A d \in changed' : d.uid \in news' /\ row'[d.uid] = row[d.uid] /\ d.uid \in Uid
    BY <1>4, <1>5, <2>1 DEF IInv, ChangesAreNews
  <2> QED
    BY <2>1, <2>2 DEF IInv, ChangesAreNews
<1>11. SourceOK' /\ PassIsOpen'
  BY <1>4 DEF IInv, SourceOK, PassIsOpen
<1> QED
  BY <1>7, <1>9, <1>10, <1>11 DEF IInv

\* Whatever the source changes is news.
LEMMA SourceKeeps ==
  ASSUME IInv, SourceChanges
  PROVE  IInv'
<1>1. PICK u \in Uid, new \in (SUBSET Flag) \union {Gone} :
        /\ have' = [have EXCEPT ![u] = new]
        /\ news' = news \union {u}
  BY DEF SourceChanges
<1>2. UNCHANGED <<row, pc, changed>>
  BY DEF SourceChanges
<1>3. SourceOK'
  BY <1>1 DEF IInv, SourceOK
<1>4. RowsAreCurrent'
  BY <1>1, <1>2 DEF IInv, SourceOK, RowsAreCurrent
<1>5. RowsOK' /\ ChangesAreNews' /\ PassIsOpen'
  BY <1>1, <1>2 DEF IInv, RowsOK, ChangesAreNews, PassIsOpen
<1> QED
  BY <1>3, <1>4, <1>5 DEF IInv

LEMMA IInvStep ==
  ASSUME IInv, [Next]_vars
  PROVE  IInv'
<1>1. CASE Start \/ Copied \/ Store \/ StoreFails \/ Finish \/ Cut \/ OwnerChanges \/ UNCHANGED vars
  <2>1. UNCHANGED <<have, row, news>> /\ changed' \subseteq changed
    BY <1>1 DEF Start, Copied, Store, StoreFails, Finish, Cut, OwnerChanges, vars
  <2>2. PassIsOpen'
    BY <1>1 DEF Start, Copied, Store, StoreFails, Finish, Cut, OwnerChanges, vars, IInv, PassIsOpen
  <2> QED
    BY <2>1, <2>2, QuietSteps
<1> QED
  BY <1>1, ScanKeeps, CopyKeeps, FetchKeeps, UpdateKeeps, SourceKeeps DEF Next, Step

\* The copies are those of messages; the bounds are counted in numbers.
Frame ==
  /\ DOMAIN box = Uid
  /\ budget \in [change : Nat, owner : Nat, cut : Nat]

LEMMA FrameStep ==
  ASSUME Frame, [Next]_vars
  PROVE  Frame'
<1>1. (DOMAIN box)' = DOMAIN box
  BY DEF Next, Step, vars, Start, Scan, Adopt, Copy, AppendWith, Copied, FetchFlags, Store,
         StoreFails, UpdateFlags, Finish, Cut, SourceChanges, OwnerChanges
<1>2. \/ budget' = budget
      \/ budget' = [budget EXCEPT !.change = @ + 1]
      \/ budget' = [budget EXCEPT !.owner = @ + 1]
      \/ budget' = [budget EXCEPT !.cut = @ + 1]
  BY DEF Next, Step, vars, Start, Scan, Adopt, Copy, Copied, FetchFlags, Store,
         StoreFails, UpdateFlags, Finish, Cut, SourceChanges, OwnerChanges
<1> QED
  BY <1>1, <1>2 DEF Frame

-----------------------------------------------------------------------------
(* The theorem *)

\* A session overwrites the flags of a copy only if the source has news for it:
\* whatever the order of a FLAGS list and \Recent in it, however often a pass is
\* run, interrupted between STORE and UPDATE, or refused, and whatever the owners of
\* both mailboxes do meanwhile (folder.go, syncFlagsPass and canonFlags).
THEOREM OwnersFlagsStayAlways == Spec => OwnersFlagsStay
<1> DEFINE Own == \A u \in Uid : box'[u] # box[u] /\ box[u] # Gone /\ budget' = budget => u \in news
<1>1. Init => IInv /\ Frame
  BY IInvInit DEF Init, Frame
<1>2. IInv /\ Frame /\ [Next]_vars => (IInv /\ Frame)'
  BY IInvStep, FrameStep
<1>3. IInv /\ Frame /\ [Next]_vars => [Own]_vars
  <2> SUFFICES ASSUME IInv, Frame, Next
               PROVE  Own
    OBVIOUS
  <2> SUFFICES ASSUME NEW u \in Uid, box'[u] # box[u], box[u] # Gone, budget' = budget
               PROVE  u \in news
    OBVIOUS
  <2>1. CASE Copy
    <3>1. PICK v, flags : box[v] = Gone /\ box' = [box EXCEPT ![v] = flags]
      BY <2>1 DEF Copy, AppendWith
    <3> QED
      BY <3>1 DEF Frame
  <2>2. CASE Store
    <3>1. Change \in changed
      BY <2>2, ChangeIsFirst DEF Store, IInv
    <3>2. box' = box \/ \E flags : box' = [box EXCEPT ![Change.uid] = flags]
      BY <2>2 DEF Store
    <3>3. \A v : box'[u] # box[u] /\ (\E flags : box' = [box EXCEPT ![v] = flags]) => u = v
      BY DEF Frame
    <3>4. u = Change.uid
      BY <3>2, <3>3
    <3> QED
      BY <3>1, <3>4 DEF IInv, ChangesAreNews
  <2>3. CASE OwnerChanges \/ SourceChanges \/ Cut
    <3>1. ~OwnerChanges
      BY DEF OwnerChanges, Frame
    <3> QED
      BY <2>3, <3>1 DEF SourceChanges, Cut
  <2>4. CASE Start \/ Scan \/ Adopt \/ Copied \/ FetchFlags \/ StoreFails \/ UpdateFlags \/ Finish
    BY <2>4 DEF Start, Scan, Adopt, Copied, FetchFlags, StoreFails, UpdateFlags, Finish
  <2> QED
    BY <2>1, <2>2, <2>3, <2>4 DEF Next, Step
<1> QED
  BY <1>1, <1>2, <1>3, PTL DEF Spec, OwnersFlagsStay
=============================================================================
