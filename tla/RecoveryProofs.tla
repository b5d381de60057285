---------------------------- MODULE RecoveryProofs ----------------------------
(***************************************************************************)
(* Proofs about Recovery: a message is given up once, the counters of the  *)
(* dashboard agree with the database, a mailbox that ends well has settled *)
(* every message, and as long as only messages break connections no other  *)
(* message pays for it.                                                    *)
(***************************************************************************)
EXTENDS Recovery, FiniteSetTheorems, SequenceTheorems, TLAPS

Open == {"planned", "inflight"}
Bad == {"killer", "silent"}

Entries == [uids : Seq(UID), tries : Nat]

\* The pass is under way.
Passing == {"fill", "head", "body", "append", "settle"}

\* What a message is once the batch is written.
Is(states) == {u \in UID : Flushed[u] \in states}

\* Every variable the proofs look at has its type; what is on the destination, it
\* has accepted.
Typed ==
  /\ row \in [UID -> RowStates]
  /\ box \in SUBSET {u \in UID : Kind[u] = "good"}
  /\ count \in [msgsDone : Nat, appended : Nat, adopted : Nat, prior : Nat,
                failed : Nat, priorSet : BOOLEAN]
  /\ rec \in [losses : Nat, suspects : SUBSET UID, ladder : Seq(Entries),
              noCounts : [UID -> Nat], isoLosses : Nat]
  /\ pass \in [iso : BOOLEAN, no : Nat, rows : Seq(UID), taken : Nat, fetched : Nat,
               pend : Seq(UID), replies : Seq({"OK", "NO"}), fails : Seq(UID),
               batch : SUBSET UID, last : UID \union {0}, phase : {"", "fetch", "append"}]

\* An answer belongs to the message it stands for, and says what its kind makes the
\* destination say.  Between passes nothing is on the wire.
Answers ==
  /\ pc \notin Passing \union {"broken", "trouble"} => pass.pend = <<>>
  /\ Len(pass.replies) <= Len(pass.pend)
  /\ \A k \in DOMAIN pass.replies :
       Kind[pass.pend[k]] = IF pass.replies[k] = "OK" THEN "good" ELSE "refused"

\* The message that the pass has in its hands.
InHand == IF pc \in {"body", "append"} THEN {Item} ELSE {}

\* What the pass has taken so far, and of this what it has not settled.
Taken == {p.rows[i] : i \in 1..p.taken}
Unsettled == ToSet(p.pend) \union ToSet(p.fails) \union InHand

\* The batch has what is in flight in the database, and it is written before a pass
\* is over.
Batched ==
  /\ \A u \in pass.batch : row[u] = "inflight"
  /\ pc \notin Passing \union {"broken"} => pass.batch = {}

\* The rows of a pass are apart; what it has taken is in flight and sent or has
\* failed or is in hand, or else it is done; the rest is open.
PassRows ==
  pc \in Passing =>
    /\ p.rows # <<>> /\ IsInjective(p.rows)
    /\ p.taken <= p.fetched /\ p.fetched <= Len(p.rows)
    /\ pc = "fill" => p.taken = 0
    /\ pc \in {"body", "append"} => p.taken > 0
    /\ IsInjective(p.pend) /\ IsInjective(p.fails)
    /\ ToSet(p.pend) \intersect ToSet(p.fails) = {}
    /\ InHand \intersect (ToSet(p.pend) \union ToSet(p.fails)) = {}
    /\ Unsettled \subseteq Taken
    /\ \A u \in Unsettled : Flushed[u] = "inflight"
    /\ \A u \in Taken \ Unsettled : Flushed[u] = "done"
    /\ \A i \in DOMAIN p.rows : i > p.taken => Flushed[p.rows[i]] \in Open

\* A pass that breaks leaves a message behind; none of its messages is given up yet.
BrokenRows ==
  pc = "broken" =>
    /\ IsInjective(p.rows)
    /\ \E u \in ToSet(p.rows) : Flushed[u] \in Open
    /\ \A u \in ToSet(p.rows) : Flushed[u] # "failed"

\* The messages of a ladder, and that no message is on it twice.
All(l) == UNION {ToSet(l[i].uids) : i \in DOMAIN l}

Distinct(l) ==
  /\ \A i \in DOMAIN l : IsInjective(l[i].uids)
  /\ \A i, j \in DOMAIN l : i # j => ToSet(l[i].uids) \intersect ToSet(l[j].uids) = {}

\* The entries of the ladder have no message in common.
LadderApart == Distinct(rec.ladder)

OnLadder == All(rec.ladder)

\* A pass of the ladder has what is open of the first entry.
LadderRows ==
  pc \in Passing \union {"broken"} /\ p.iso =>
    /\ rec.ladder # <<>>
    /\ ToSet(p.rows) \subseteq ToSet(Head(rec.ladder).uids)
    /\ \A u \in ToSet(Head(rec.ladder).uids) : Flushed[u] \in Open => u \in ToSet(p.rows)

\* What is in flight is on the ladder until the ladder is done, then nothing is but
\* what the pass has; what is planned is in the pass of the end.
Held ==
  /\ pc = "ladder" \/ (pc \in Passing /\ p.iso) => Is({"inflight"}) \subseteq OnLadder
  /\ pc \in {"scan", "adopt", "main"} => Is({"inflight"}) = {}
  /\ pc = "main" => rec.ladder = <<>>
  /\ pc \in Passing /\ ~p.iso => Is(Open) \subseteq ToSet(p.rows)

\* The runner has its type.
RunTyped ==
  run \in [attempt : Nat, rc : Nat, gaveUp : BOOLEAN,
           status : {"RUNNING", "RETRYING", "SUCCESS", "WARNINGS", "PARTIAL", "FAILED",
                     "STALE"}]

\* A mailbox that gets to its end has nothing open, and has given up nothing if it
\* calls itself a success.
NoneLeft ==
  /\ run.gaveUp => pc \in {"last", "ended"}
  /\ pc = "last" /\ ~run.gaveUp => Is(Open) = {}
  /\ pc = "ended" /\ run.status \in {"SUCCESS", "WARNINGS"} => Is(Open) = {}
  /\ pc = "ended" /\ run.status = "SUCCESS" => Is({"failed"}) = {}
  /\ pc # "ended" => run.status \in {"RUNNING", "RETRYING"}

\* The destination has accepted what is done.
DoneIsGood == \A u \in UID : Flushed[u] = "done" => Kind[u] = "good"

FailedIsCounted == count.failed = Cardinality(Is({"failed"}))

RInv ==
  /\ Typed /\ Answers /\ PassRows /\ BrokenRows /\ LadderApart /\ LadderRows
  /\ Held /\ RunTyped /\ NoneLeft /\ DoneIsGood /\ FailedIsCounted
  /\ Batched

\* Until a session has read its totals nothing is counted but what reconciliation has
\* adopted: all that was left in flight, or nothing.  From then on every message
\* that is done has been counted in one way, what was resumed in two.
Uncounted ==
  /\ count.appended = 0 /\ count.msgsDone = 0
  /\ Is({"inflight", "done"}) = Resumed
  /\ count.adopted = Cardinality(Is({"done"}))
  /\ Is({"inflight"}) \subseteq box
  /\ Is({"inflight"}) = {} \/ Is({"done"}) = {}
  /\ pc = "scan" => Is({"inflight"}) = {}
  /\ ~TotalsAreFresh

Balanced ==
  /\ count.appended + count.adopted + count.prior
       = Cardinality(Is({"done"})) + Cardinality(Resumed)
  /\ count.msgsDone <= Cardinality(Is({"done"}))
  /\ TotalsAreFresh => count.msgsDone = Cardinality(Is({"done"}))

Counted ==
  budget.requeue = MaxRequeue =>
    IF count.priorSet THEN Balanced ELSE Uncounted

\* Only messages have broken connections so far: nobody has kicked, cut or paused.
Calm == budget.trouble = MaxTrouble /\ budget.kick = MaxKick

\* The next message the destination is to execute makes it drop the connection, or
\* fall silent.
Blocked ==
  /\ Len(p.replies) < Len(p.pend)
  /\ Kind[p.pend[Len(p.replies) + 1]] \in Bad

Disturbed == src # "up" \/ dst # "up" \/ hung

Links == src # "kick" /\ dst # "kick"
Refusals == \A u \in ToSet(p.fails) : Kind[u] = "refused"
Undisturbed ==
  pc \in {"list", "reopened", "open", "scan", "adopt", "ladder", "main"} => ~Disturbed
Accounted == pc \in Passing /\ Disturbed => Blocked
Culprit == pc = "broken" => \E u \in ToSet(p.rows) : Kind[u] \in Bad
Spared == \A u \in UID : Kind[u] = "good" => Flushed[u] # "failed"

Innocence ==
  Calm =>
    /\ ~bus.paused /\ ~bus.staleFailed
    /\ Links /\ Refusals /\ Undisturbed /\ Accounted /\ Culprit /\ Spared
-------------------------------------------------------------------------------
(* Sequences *)

LEMMA RankGrows ==
  ASSUME NEW S \in SUBSET Nat, IsFiniteSet(S), NEW i \in S, NEW j \in S, i < j
  PROVE  /\ Cardinality({k \in S : k <= i}) \in Nat
         /\ Cardinality({k \in S : k <= j}) \in Nat
         /\ Cardinality({k \in S : k <= i}) < Cardinality({k \in S : k <= j})
<1> DEFINE A == {k \in S : k <= i}
           B == {k \in S : k <= j}
<1>1. A \in SUBSET B /\ B \in SUBSET S /\ j \in B /\ j \notin A
  <2>1. (\A k \in S : k <= i => k <= j) /\ j <= j /\ ~(j <= i)
    OBVIOUS
  <2>2. A \subseteq B
    BY <2>1
  <2>3. B \subseteq S /\ j \in B /\ j \notin A
    BY <2>1
  <2> QED
    BY <2>2, <2>3
<1> HIDE DEF A, B
<1>2. IsFiniteSet(A) /\ IsFiniteSet(B)
  BY <1>1, FS_Subset
<1>3. Cardinality(A) <= Cardinality(B) /\ (Cardinality(B) = Cardinality(A) => B = A)
  BY <1>1, <1>2, FS_Subset
<1>4. Cardinality(A) \in Nat /\ Cardinality(B) \in Nat
  BY <1>2, FS_CardinalityType
<1>5. Cardinality(A) < Cardinality(B)
  BY <1>1, <1>3, <1>4
<1> QED
  BY <1>4, <1>5 DEF A, B

\* The numbers of a finite set, each once.
LEMMA SortedIsOnto ==
  ASSUME NEW S \in SUBSET Nat, IsFiniteSet(S)
  PROVE  /\ Sorted(S) \in Seq(S)
         /\ IsInjective(Sorted(S))
         /\ ToSet(Sorted(S)) = S
<1> DEFINE n == Cardinality(S)
           Rank(i) == Cardinality({j \in S : j <= i})
           f == [i \in S |-> Rank(i)]
<1>1. n \in Nat
  BY FS_CardinalityType
<1>2. ASSUME NEW i \in S
      PROVE  Rank(i) \in 1..n
  <2>1. {j \in S : j <= i} \in SUBSET S /\ i \in {j \in S : j <= i}
    OBVIOUS
  <2>2. /\ IsFiniteSet({j \in S : j <= i}) /\ Rank(i) <= n /\ Rank(i) \in Nat
    BY <2>1, FS_Subset, FS_CardinalityType
  <2>3. Rank(i) # 0
    BY <2>1, <2>2, FS_EmptySet
  <2> QED
    BY <1>1, <2>2, <2>3
<1>3. \A i, j \in S : Rank(i) = Rank(j) => i = j
  <2> SUFFICES ASSUME NEW i \in S, NEW j \in S, i # j
               PROVE  Rank(i) # Rank(j)
    OBVIOUS
  <2>1. i < j \/ j < i
    OBVIOUS
  <2>2. CASE i < j
    BY <2>2, RankGrows
  <2>3. CASE j < i
    BY <2>3, RankGrows
  <2> QED
    BY <2>1, <2>2, <2>3
<1>4. f \in Injection(S, 1..n)
  BY <1>2, <1>3 DEF Injection, IsInjective
<1>5. IsFiniteSet(1..n) /\ Cardinality(1..n) = n
  BY <1>1, FS_Interval
<1>6. f \in Surjection(S, 1..n)
  <2> HIDE DEF f
  <2> QED
    BY <1>4, <1>5, FS_Injection
<1>7. \A k \in 1..n : \E i \in S : Rank(i) = k
  BY <1>6 DEF Surjection
<1>8. Sorted(S) = [k \in 1..n |-> CHOOSE i \in S : Rank(i) = k]
  BY DEF Sorted
<1>9. \A k \in 1..n : Sorted(S)[k] \in S /\ Rank(Sorted(S)[k]) = k
  BY <1>7, <1>8
<1>10. DOMAIN Sorted(S) = 1..n /\ Sorted(S) \in [1..n -> S]
  BY <1>8, <1>9
<1>11. \A i \in S : Sorted(S)[Rank(i)] = i
  BY <1>2, <1>3, <1>9
<1>12. Sorted(S) \in Seq(S)
  BY <1>1, <1>10, SeqDef
<1>13. IsInjective(Sorted(S))
  <2> HIDE DEF Rank
  <2>1. ASSUME NEW a \in 1..n, NEW b \in 1..n, Sorted(S)[a] = Sorted(S)[b]
        PROVE  a = b
    BY <1>9, <2>1
  <2> QED
    BY <1>10, <2>1 DEF IsInjective
<1>14. ToSet(Sorted(S)) = S
  BY <1>2, <1>9, <1>10, <1>11 DEF ToSet
<1> QED
  BY <1>12, <1>13, <1>14

\* The items of a sequence that belong to a set.
LEMMA ThoseOfSet ==
  ASSUME NEW T, NEW s \in Seq(T), NEW us
  PROVE  /\ Those(s, us) \in Seq(T)
         /\ ToSet(Those(s, us)) = ToSet(s) \intersect us
         /\ IsInjective(s) => IsInjective(Those(s, us))
<1> DEFINE S == {i \in DOMAIN s : s[i] \in us}
           at == Sorted(S)
<1>1. DOMAIN s = 1..Len(s) /\ Len(s) \in Nat
  OBVIOUS
<1>2. S \in SUBSET Nat /\ IsFiniteSet(S)
  <2>1. IsFiniteSet(1..Len(s))
    BY <1>1, FS_Interval
  <2> QED
    BY <1>1, <2>1, FS_Subset
<1>3. at \in Seq(S) /\ IsInjective(at) /\ ToSet(at) = S
  <2> HIDE DEF S
  <2> QED
    BY <1>2, SortedIsOnto
<1>4. \A k \in DOMAIN at : at[k] \in DOMAIN s /\ s[at[k]] \in us
  BY <1>3 DEF ToSet
<1>5. Those(s, us) = [k \in DOMAIN at |-> s[at[k]]]
  BY DEF Those
<1>6. \A i \in DOMAIN s : s[i] \in us => \E k \in DOMAIN at : at[k] = i
  BY <1>3 DEF ToSet
<1> HIDE DEF at
<1>7. DOMAIN at = 1..Len(at) /\ Len(at) \in Nat
  BY <1>3
<1>8. Those(s, us) \in Seq(T)
  <2>1. Those(s, us) \in [1..Len(at) -> T]
    BY <1>4, <1>5, <1>7
  <2> QED
    BY <2>1, <1>7, SeqDef
<1>9. DOMAIN Those(s, us) = DOMAIN at
  BY <1>5
<1>10. ToSet(Those(s, us)) = ToSet(s) \intersect us
  BY <1>4, <1>5, <1>6, <1>9 DEF ToSet
<1>11. ASSUME IsInjective(s)
       PROVE  IsInjective(Those(s, us))
  BY <1>11, <1>3, <1>4, <1>5, <1>9 DEF IsInjective
<1> QED
  BY <1>8, <1>10, <1>11

LEMMA HeadAndTail ==
  ASSUME NEW T, NEW s \in Seq(T), s # <<>>
  PROVE  /\ Tail(s) \in Seq(T)
         /\ Head(s) \in ToSet(s)
         /\ ToSet(s) = {Head(s)} \union ToSet(Tail(s))
         /\ IsInjective(s) => IsInjective(Tail(s)) /\ Head(s) \notin ToSet(Tail(s))
<1>1. /\ Tail(s) \in Seq(T) /\ Len(Tail(s)) = Len(s) - 1 /\ Head(s) = s[1]
      /\ \A i \in 1..Len(s) - 1 : Tail(s)[i] = s[i + 1]
  BY HeadTailProperties
<1>2. /\ DOMAIN s = 1..Len(s) /\ Len(s) \in Nat \ {0}
      /\ DOMAIN Tail(s) = 1..Len(s) - 1
  BY <1>1, LenProperties, EmptySeq
<1>3. ASSUME NEW x \in ToSet(s), x # Head(s)
      PROVE  x \in ToSet(Tail(s))
  <2>1. PICK i \in 1..Len(s) : s[i] = x
    BY <1>2 DEF ToSet
  <2>2. i - 1 \in 1..Len(s) - 1 /\ (i - 1) + 1 = i
    BY <1>1, <1>2, <1>3, <2>1
  <2>3. Tail(s)[i - 1] = x
    BY <1>1, <2>1, <2>2
  <2> QED
    BY <1>2, <2>2, <2>3 DEF ToSet
<1>4. \A i \in 1..Len(s) - 1 : i + 1 \in 1..Len(s)
  BY <1>2
<1>5. \A x \in ToSet(Tail(s)) : x \in ToSet(s)
  BY <1>1, <1>2, <1>4 DEF ToSet
<1>6. Head(s) \in ToSet(s)
  BY <1>1, <1>2 DEF ToSet
<1>7. ASSUME IsInjective(s)
      PROVE  IsInjective(Tail(s)) /\ Head(s) \notin ToSet(Tail(s))
  <2>1. \A i \in 1..Len(s) - 1 : i + 1 # 1 /\ 1 \in 1..Len(s)
    BY <1>2
  <2>2. Head(s) \notin ToSet(Tail(s))
    BY <1>7, <1>1, <1>2, <1>4, <2>1 DEF ToSet, IsInjective
  <2>3. \A i, j \in 1..Len(s) - 1 : i + 1 = j + 1 => i = j
    BY <1>2
  <2>4. IsInjective(Tail(s))
    BY <1>7, <1>1, <1>2, <1>4, <2>3 DEF IsInjective
  <2> QED
    BY <2>2, <2>4
<1> QED
  BY <1>1, <1>3, <1>5, <1>6, <1>7

LEMMA OneAppended ==
  ASSUME NEW T, NEW s \in Seq(T), NEW x \in T
  PROVE  /\ Append(s, x) \in Seq(T)
         /\ ToSet(Append(s, x)) = ToSet(s) \union {x}
         /\ IsInjective(s) /\ x \notin ToSet(s) => IsInjective(Append(s, x))
<1> DEFINE t == Append(s, x)
<1>1. /\ t \in Seq(T) /\ DOMAIN s = 1..Len(s) /\ DOMAIN t = 1..Len(s) + 1
      /\ Len(s) \in Nat /\ t[Len(s) + 1] = x
      /\ \A i \in 1..Len(s) : t[i] = s[i]
  OBVIOUS
<1>2. \A i : i \in 1..Len(s) + 1 <=> i \in 1..Len(s) \/ i = Len(s) + 1
  BY <1>1
<1> HIDE DEF t
<1>3. ToSet(t) = ToSet(s) \union {x}
  BY <1>1, <1>2 DEF ToSet
<1>4. IsInjective(s) /\ x \notin ToSet(s) => IsInjective(t)
  BY <1>1, <1>2 DEF ToSet, IsInjective
<1> QED
  BY <1>1, <1>3, <1>4 DEF t
LEMMA NothingIn == ASSUME NEW T PROVE ToSet(<<>>) = {} /\ IsInjective(<<>>) /\ <<>> \in Seq(T)
  BY DEF ToSet, IsInjective

LEMMA OneElement ==
  ASSUME NEW T, NEW x \in T
  PROVE  <<x>> \in Seq(T) /\ ToSet(<<x>>) = {x} /\ IsInjective(<<x>>)
  BY DEF ToSet, IsInjective

LEMMA ItemIsIn ==
  ASSUME NEW T, NEW s \in Seq(T), NEW i \in 1..Len(s)
  PROVE  s[i] \in T /\ s[i] \in ToSet(s)
  BY DEF ToSet

\* Messages are numbers, and finitely many.
LEMMA Messages ==
  /\ UID \in SUBSET Nat /\ IsFiniteSet(UID) /\ 0 \notin UID
  /\ \A us \in SUBSET UID : IsFiniteSet(us) /\ Cardinality(us) \in Nat
<1>1. Kind \in Seq(Kinds)
  BY RecoveryAssumption
<1>2. UID = 1..Len(Kind) /\ Len(Kind) \in Nat
  BY <1>1 DEF UID
<1>3. IsFiniteSet(1..Len(Kind))
  BY <1>2, FS_Interval
<1>4. IsFiniteSet(UID) /\ UID \in SUBSET Nat /\ 0 \notin UID
  BY <1>2, <1>3
<1>5. ASSUME NEW us \in SUBSET UID
      PROVE  IsFiniteSet(us) /\ Cardinality(us) \in Nat
  BY <1>4, FS_Subset, FS_CardinalityType
<1> QED
  BY <1>4, <1>5

LEMMA TheLesser == \A a, b \in Nat : Min({a, b}) \in Nat /\ Min({a, b}) <= a /\ Min({a, b}) <= b
                                     /\ (Min({a, b}) = a \/ Min({a, b}) = b)
<1> SUFFICES ASSUME NEW a \in Nat, NEW b \in Nat
             PROVE  \E x \in {a, b} : x = Min({a, b}) /\ x <= a /\ x <= b
  OBVIOUS
<1>1. \E x \in {a, b} : \A y \in {a, b} : x <= y
  <2>1. CASE a <= b
    BY <2>1
  <2>2. CASE b <= a
    BY <2>2
  <2> QED
    BY <2>1, <2>2
<1>2. Min({a, b}) \in {a, b} /\ \A y \in {a, b} : Min({a, b}) <= y
  BY <1>1 DEF Min
<1> QED
  BY <1>2

\* Half of what is more than one.
LEMMA TheHalf ==
  ASSUME NEW n \in Nat, n > 1
  PROVE  Max({1, n \div 2}) \in 1..n
<1>1. n \div 2 \in Nat
  OBVIOUS
<1>2. n \div 2 <= n
  OBVIOUS
<1>3. PICK h \in Nat : h = n \div 2 /\ h <= n
  BY <1>1, <1>2
<1>4. \E x \in {1, h} : \A y \in {1, h} : x >= y
  <2>1. CASE h <= 1
    BY <2>1
  <2>2. CASE 1 <= h
    BY <2>2
  <2> QED
    BY <2>1, <2>2
<1>5. Max({1, h}) \in {1, h} /\ \A y \in {1, h} : Max({1, h}) >= y
  BY <1>4 DEF Max
<1>6. Max({1, h}) \in 1..n
  BY <1>3, <1>5
<1> QED
  BY <1>3, <1>6
-------------------------------------------------------------------------------
(* Types *)

Counts == [msgsDone : Nat, appended : Nat, adopted : Nat, prior : Nat,
           failed : Nat, priorSet : BOOLEAN]

Records == [losses : Nat, suspects : SUBSET UID, ladder : Seq(Entries),
            noCounts : [UID -> Nat], isoLosses : Nat]

Passes == [iso : BOOLEAN, no : Nat, rows : Seq(UID), taken : Nat, fetched : Nat,
           pend : Seq(UID), replies : Seq({"OK", "NO"}), fails : Seq(UID),
           batch : SUBSET UID, last : UID \union {0}, phase : {"", "fetch", "append"}]

LEMMA NewRecType == NewRec \in Records
<1>1. <<>> \in Seq(Entries)
  BY NothingIn
<1> QED
  BY <1>1 DEF NewRec, Records

LEMMA NoPassType == NoPass \in Passes
<1>1. <<>> \in Seq(UID) /\ <<>> \in Seq({"OK", "NO"})
  BY NothingIn
<1> QED
  BY <1>1 DEF NoPass, Passes

LEMMA GivenUpType ==
  ASSUME Typed, NEW us \in SUBSET UID, GivenUp(us)
  PROVE  row' \in [UID -> RowStates] /\ count' \in Counts
<1>1. PICK n \in Nat : n = Cardinality(us)
  BY Messages
<1>2. row' \in [UID -> RowStates]
  BY DEF GivenUp, Flushed, Typed, RowStates
<1>3. count \in Counts /\ count' = [count EXCEPT !.failed = @ + n]
  BY <1>1 DEF GivenUp, Typed, Counts
<1> QED
  BY <1>2, <1>3 DEF Counts

LEMMA NotedType ==
  ASSUME NEW r \in Records, NEW rows, NEW fails
  PROVE  Noted(r, rows, fails) \in Records /\ Noted(r, rows, fails).ladder = r.ladder
<1>1. [u \in UID |-> IF u \in fails THEN r.noCounts[u] + 1
                     ELSE IF u \in rows THEN 0 ELSE r.noCounts[u]] \in [UID -> Nat]
  BY DEF Records
<1> QED
  BY <1>1 DEF Noted, Records

LEMMA ForgottenType ==
  ASSUME NEW r \in Records, NEW us
  PROVE  Forgotten(r, us) \in Records /\ Forgotten(r, us).ladder = r.ladder
<1>1. [u \in UID |-> IF u \in us THEN 0 ELSE r.noCounts[u]] \in [UID -> Nat]
  BY DEF Records
<1> QED
  BY <1>1 DEF Forgotten, Records

LEMMA SingleType ==
  ASSUME NEW u \in UID
  PROVE  Single(u) \in Entries /\ ToSet(Single(u).uids) = {u} /\ IsInjective(Single(u).uids)
  BY OneElement DEF Single, Entries

LEMMA WithoutType ==
  ASSUME NEW us \in Seq(UID), NEW u
  PROVE  /\ Without(us, u) \in Seq(UID) /\ ToSet(Without(us, u)) = ToSet(us) \ {u}
         /\ IsInjective(us) => IsInjective(Without(us, u))
<1>1. ToSet(us) \intersect (ToSet(us) \ {u}) = ToSet(us) \ {u}
  OBVIOUS
<1> QED
  BY <1>1, ThoseOfSet DEF Without

LEMMA TriedType ==
  ASSUME NEW e \in Entries
  PROVE  Tried(e) \in Entries /\ Tried(e).uids = e.uids
  BY DEF Tried, Entries

-------------------------------------------------------------------------------
(* Ladders *)

LEMMA ApartIsDistinct ==
  ASSUME NEW l, Distinct(l)
  PROVE  \A i, j \in DOMAIN l : \A a \in DOMAIN l[i].uids : \A b \in DOMAIN l[j].uids :
           l[i].uids[a] = l[j].uids[b] => i = j /\ a = b
<1> SUFFICES ASSUME NEW i \in DOMAIN l, NEW j \in DOMAIN l,
                    NEW a \in DOMAIN l[i].uids, NEW b \in DOMAIN l[j].uids,
                    l[i].uids[a] = l[j].uids[b]
             PROVE  i = j /\ a = b
  OBVIOUS
<1>1. l[i].uids[a] \in ToSet(l[i].uids) /\ l[i].uids[a] \in ToSet(l[j].uids)
  BY DEF ToSet
<1>2. i = j
  BY <1>1 DEF Distinct
<1> QED
  BY <1>2 DEF Distinct, IsInjective

LEMMA EmptyLadder == All(<<>>) = {} /\ Distinct(<<>>) /\ <<>> \in Seq(Entries)
  BY DEF All, Distinct

LEMMA OneEntry ==
  ASSUME NEW e \in Entries
  PROVE  /\ <<e>> \in Seq(Entries) /\ All(<<e>>) = ToSet(e.uids)
         /\ IsInjective(e.uids) => Distinct(<<e>>)
<1>1. <<e>> \in Seq(Entries) /\ DOMAIN <<e>> = {1} /\ <<e>>[1] = e
  OBVIOUS
<1> QED
  BY <1>1 DEF All, Distinct

LEMMA TwoEntries ==
  ASSUME NEW e \in Entries, NEW f \in Entries
  PROVE  /\ <<e, f>> \in Seq(Entries) /\ All(<<e, f>>) = ToSet(e.uids) \union ToSet(f.uids)
         /\ IsInjective(e.uids) /\ IsInjective(f.uids) /\ ToSet(e.uids) \intersect ToSet(f.uids) = {}
              => Distinct(<<e, f>>)
<1>1. /\ <<e, f>> \in Seq(Entries) /\ DOMAIN <<e, f>> = {1, 2}
      /\ <<e, f>>[1] = e /\ <<e, f>>[2] = f
  OBVIOUS
<1> HIDE DEF Entries
<1> QED
  BY <1>1 DEF All, Distinct

LEMMA LaddersJoined ==
  ASSUME NEW a \in Seq(Entries), NEW b \in Seq(Entries)
  PROVE  /\ a \o b \in Seq(Entries) /\ All(a \o b) = All(a) \union All(b)
         /\ Distinct(a) /\ Distinct(b) /\ All(a) \intersect All(b) = {} => Distinct(a \o b)
<1> DEFINE c == a \o b
<1>1. /\ c \in Seq(Entries) /\ Len(c) = Len(a) + Len(b)
      /\ DOMAIN a = 1..Len(a) /\ DOMAIN b = 1..Len(b) /\ DOMAIN c = 1..Len(a) + Len(b)
      /\ Len(a) \in Nat /\ Len(b) \in Nat
  BY ConcatProperties, LenProperties
<1>2. \A i \in DOMAIN a : i \in DOMAIN c /\ c[i] = a[i]
  BY <1>1, ConcatProperties
<1>3. ASSUME NEW i \in DOMAIN b
      PROVE  Len(a) + i \in DOMAIN c /\ c[Len(a) + i] = b[i]
  <2>1. i \in 1..Len(b) /\ Len(a) + i \in 1..Len(a) + Len(b)
    BY <1>1
  <2>2. ~(Len(a) + i <= Len(a)) /\ Len(a) + i - Len(a) = i
    BY <1>1, <2>1
  <2> QED
    BY <1>1, <2>1, <2>2, ConcatProperties
<1>4. ASSUME NEW i \in DOMAIN c
      PROVE  i \in DOMAIN a \/ \E j \in DOMAIN b : i = Len(a) + j
  <2>1. CASE i <= Len(a)
    BY <1>1, <2>1
  <2>2. CASE i > Len(a)
    <3>1. i - Len(a) \in DOMAIN b /\ i = Len(a) + (i - Len(a))
      BY <1>1, <2>2
    <3> QED
      BY <3>1
  <2> QED
    BY <1>1, <2>1, <2>2
<1> HIDE DEF c
<1>5. \A x \in All(c) : x \in All(a) \union All(b)
  BY <1>2, <1>3, <1>4 DEF All
<1>6. \A x \in All(a) \union All(b) : x \in All(c)
  BY <1>2, <1>3 DEF All
<1>7. ASSUME Distinct(a), Distinct(b), All(a) \intersect All(b) = {}
      PROVE  Distinct(c)
  <2>1. \A i \in DOMAIN c : IsInjective(c[i].uids)
    BY <1>7, <1>2, <1>3, <1>4 DEF Distinct
  <2>2. ASSUME NEW i \in DOMAIN c, NEW j \in DOMAIN c, NEW x \in ToSet(c[i].uids),
               x \in ToSet(c[j].uids)
        PROVE  i = j
    <3>1. CASE i \in DOMAIN a /\ j \in DOMAIN a
      BY <3>1, <2>2, <1>2, <1>7 DEF Distinct
    <3>2. ASSUME NEW k \in DOMAIN b, i = Len(a) + k, j \in DOMAIN a
          PROVE  FALSE
      BY <3>2, <2>2, <1>2, <1>3, <1>7 DEF All
    <3>3. ASSUME NEW k \in DOMAIN b, j = Len(a) + k, i \in DOMAIN a
          PROVE  FALSE
      BY <3>3, <2>2, <1>2, <1>3, <1>7 DEF All
    <3>4. ASSUME NEW k \in DOMAIN b, NEW m \in DOMAIN b, i = Len(a) + k, j = Len(a) + m
          PROVE  i = j
      BY <3>4, <2>2, <1>3, <1>7 DEF Distinct
    <3> QED
      BY <1>4, <3>1, <3>2, <3>3, <3>4
  <2> QED
    BY <2>1, <2>2 DEF Distinct
<1> QED
  BY <1>1, <1>5, <1>6, <1>7 DEF c

LEMMA LadderSplit ==
  ASSUME NEW l \in Seq(Entries), l # <<>>
  PROVE  /\ Head(l) \in Entries /\ Tail(l) \in Seq(Entries)
         /\ All(l) = ToSet(Head(l).uids) \union All(Tail(l))
         /\ Distinct(l) => /\ Distinct(Tail(l)) /\ IsInjective(Head(l).uids)
                           /\ ToSet(Head(l).uids) \intersect All(Tail(l)) = {}
<1>1. /\ Tail(l) \in Seq(Entries) /\ Len(Tail(l)) = Len(l) - 1 /\ Head(l) = l[1]
      /\ Head(l) \in Entries
      /\ \A i \in 1..Len(l) - 1 : Tail(l)[i] = l[i + 1]
  BY HeadTailProperties
<1>2. /\ DOMAIN l = 1..Len(l) /\ Len(l) \in Nat \ {0}
      /\ DOMAIN Tail(l) = 1..Len(l) - 1
  BY <1>1, LenProperties, EmptySeq
<1>3. \A i \in 1..Len(l) - 1 : i + 1 \in 1..Len(l) /\ i + 1 # 1
  BY <1>2
<1>4. \A i \in 1..Len(l) : i = 1 \/ (i - 1 \in 1..Len(l) - 1 /\ (i - 1) + 1 = i)
  BY <1>2
<1>5. \A x \in ToSet(Head(l).uids) \union All(Tail(l)) : x \in All(l)
  BY <1>1, <1>2, <1>3 DEF All
<1>6. ASSUME NEW i \in DOMAIN l, NEW x \in ToSet(l[i].uids)
      PROVE  x \in ToSet(Head(l).uids) \union All(Tail(l))
  <2>1. CASE i = 1
    BY <2>1, <1>1, <1>6
  <2>2. CASE i - 1 \in DOMAIN Tail(l) /\ (i - 1) + 1 = i
    <3>1. Tail(l)[i - 1] = l[i]
      BY <1>1, <1>2, <2>2
    <3> QED
      BY <3>1, <2>2, <1>6 DEF All
  <2> QED
    BY <1>2, <1>4, <2>1, <2>2
<1>7. ASSUME Distinct(l)
      PROVE  /\ Distinct(Tail(l)) /\ IsInjective(Head(l).uids)
             /\ ToSet(Head(l).uids) \intersect All(Tail(l)) = {}
  <2>1. \A i, j \in 1..Len(l) - 1 : i # j => i + 1 # j + 1
    BY <1>2
  <2>2. Distinct(Tail(l))
    BY <1>7, <1>1, <1>2, <1>3, <2>1 DEF Distinct
  <2>3. IsInjective(Head(l).uids)
    BY <1>7, <1>1, <1>2 DEF Distinct
  <2>4. 1 \in DOMAIN l
    BY <1>2
  <2>5. \A i \in DOMAIN Tail(l) : ToSet(Head(l).uids) \intersect ToSet(Tail(l)[i].uids) = {}
    BY <1>7, <1>1, <1>2, <1>3, <2>4 DEF Distinct
  <2> QED
    BY <2>2, <2>3, <2>5 DEF All
<1>8. \A x \in All(l) : x \in ToSet(Head(l).uids) \union All(Tail(l))
  BY <1>6 DEF All
<1> QED
  BY <1>1, <1>5, <1>7, <1>8

LEMMA SinglesApart ==
  ASSUME NEW s \in Seq(UID)
  PROVE  LET l == [i \in 1..Len(s) |-> Single(s[i])]
         IN  /\ l \in Seq(Entries) /\ All(l) = ToSet(s)
             /\ IsInjective(s) => Distinct(l)
<1> DEFINE l == [i \in 1..Len(s) |-> Single(s[i])]
<1>1. DOMAIN s = 1..Len(s) /\ Len(s) \in Nat /\ \A i \in 1..Len(s) : s[i] \in UID
  OBVIOUS
<1>2. \A i \in 1..Len(s) : /\ Single(s[i]) \in Entries /\ ToSet(Single(s[i]).uids) = {s[i]}
                           /\ IsInjective(Single(s[i]).uids)
  BY <1>1, SingleType
<1>3. DOMAIN l = 1..Len(s) /\ \A i \in 1..Len(s) : l[i] = Single(s[i])
  OBVIOUS
<1>4. l \in Seq(Entries)
  <2>1. l \in [1..Len(s) -> Entries]
    BY <1>2
  <2> QED
    BY <1>1, <2>1, SeqDef
<1> HIDE DEF l
<1>5. \A i \in DOMAIN l : ToSet(l[i].uids) = {s[i]} /\ IsInjective(l[i].uids)
  BY <1>2, <1>3
<1>6. ToSet(s) = {s[i] : i \in DOMAIN l}
  BY <1>1, <1>3 DEF ToSet
<1>7. All(l) = ToSet(s)
  <2>1. \A x \in All(l) : x \in ToSet(s)
    BY <1>5, <1>6 DEF All
  <2>2. \A x \in ToSet(s) : x \in All(l)
    BY <1>5, <1>6 DEF All
  <2> QED
    BY <2>1, <2>2
<1>8. IsInjective(s) => \A i, j \in DOMAIN l : i # j => s[i] # s[j]
  BY <1>1, <1>3 DEF IsInjective
<1>9. IsInjective(s) => Distinct(l)
  BY <1>5, <1>8 DEF Distinct
<1> QED
  BY <1>4, <1>7, <1>9 DEF l

\* A loss leaves the messages of an entry on the ladder or not, and none twice.
LEMMA ClimbedType ==
  ASSUME Typed, NEW entry \in Entries, NEW above \in Seq(Entries),
         pc = "broken", ToSet(pass.rows) \subseteq ToSet(entry.uids),
         IsInjective(pass.rows), pass.rows # <<>>
  PROVE  /\ Climbed(entry, above) \in Seq(Entries)
         /\ All(Climbed(entry, above)) \subseteq ToSet(entry.uids) \union All(above)
         /\ IsInjective(entry.uids) /\ Distinct(above) /\ ToSet(entry.uids) \intersect All(above) = {}
              => Distinct(Climbed(entry, above))
<1> DEFINE e == Tried(entry)
           half == Max({1, Len(e.uids) \div 2})
           low == [uids |-> SubSeq(e.uids, 1, half), tries |-> 0]
           high == [uids |-> SubSeq(e.uids, half + 1, Len(e.uids)), tries |-> 0]
           rest == [e EXCEPT !.uids = Without(@, p.last)]
           apart == /\ IsInjective(entry.uids) /\ Distinct(above)
                    /\ ToSet(entry.uids) \intersect All(above) = {}
<1> DEFINE Good(l) == /\ l \in Seq(Entries)
                      /\ All(l) \subseteq ToSet(entry.uids)
                      /\ IsInjective(entry.uids) => Distinct(l)
<1>1. e \in Entries /\ e.uids = entry.uids /\ e.uids \in Seq(UID)
  BY TriedType DEF Entries
<1>2. Good(<<e>>)
  <2> HIDE DEF e
  <2> QED
    BY <1>1, OneEntry
<1>3. ASSUME Len(e.uids) > 1
      PROVE  Good(<<low, high>>)
  <2>1. DOMAIN e.uids = 1..Len(e.uids) /\ Len(e.uids) \in Nat
    BY <1>1
  <2> HIDE DEF e
  <2>2. half \in Nat /\ 1 <= half /\ half <= Len(e.uids)
    <3>1. half \in 1..Len(e.uids)
      BY <1>3, <2>1, TheHalf
    <3> QED
      BY <2>1, <3>1
  <2> HIDE DEF half
  <2>3. /\ low.uids \in Seq(UID) /\ Len(low.uids) = half
        /\ \A i \in 1..half : low.uids[i] = e.uids[i]
    <3>1. \A i \in 1..half : e.uids[i] \in UID
      BY <1>1, <2>1, <2>2
    <3> QED
      BY <3>1, <2>2, SubSeqProperties
  <2>4. /\ high.uids \in Seq(UID) /\ Len(high.uids) = Len(e.uids) - half
        /\ \A i \in 1..Len(e.uids) - half : high.uids[i] = e.uids[half + i]
    <3>1. \A i \in half + 1..Len(e.uids) : e.uids[i] \in UID
      BY <1>1, <2>1, <2>2
    <3>2. /\ high.uids \in Seq(UID)
          /\ Len(high.uids) = IF half + 1 <= Len(e.uids) THEN Len(e.uids) - (half + 1) + 1 ELSE 0
          /\ \A i \in 1..Len(e.uids) - (half + 1) + 1 : high.uids[i] = e.uids[half + 1 + i - 1]
      BY <3>1, <2>1, <2>2, SubSeqProperties
    <3> QED
      BY <3>2, <2>1, <2>2
  <2>5. low \in Entries /\ high \in Entries
    BY <2>3, <2>4 DEF Entries
  <2>6. DOMAIN low.uids = 1..half /\ DOMAIN high.uids = 1..Len(e.uids) - half
    BY <2>1, <2>2, <2>3, <2>4
  <2>7. \A i \in 1..half : i \in DOMAIN e.uids
    BY <2>1, <2>2
  <2>8. \A i \in 1..Len(e.uids) - half : half + i \in DOMAIN e.uids /\ \A j \in 1..half : half + i # j
    BY <2>1, <2>2
  <2> HIDE DEF low, high
  <2>9. ToSet(low.uids) \subseteq ToSet(e.uids) /\ ToSet(high.uids) \subseteq ToSet(e.uids)
    BY <2>3, <2>4, <2>6, <2>7, <2>8 DEF ToSet
  <2>10. ASSUME IsInjective(e.uids)
         PROVE  /\ IsInjective(low.uids) /\ IsInjective(high.uids)
                /\ ToSet(low.uids) \intersect ToSet(high.uids) = {}
    <3>1. IsInjective(low.uids)
      BY <2>10, <2>3, <2>6, <2>7 DEF IsInjective
    <3>2. \A i, j \in 1..Len(e.uids) - half : half + i = half + j => i = j
      BY <2>1, <2>2
    <3>3. IsInjective(high.uids)
      BY <2>10, <2>4, <2>6, <2>8, <3>2 DEF IsInjective
    <3>4. ToSet(low.uids) \intersect ToSet(high.uids) = {}
      BY <2>10, <2>3, <2>4, <2>6, <2>7, <2>8 DEF IsInjective, ToSet
    <3> QED
      BY <3>1, <3>3, <3>4
  <2> QED
    BY <1>1, <2>5, <2>9, <2>10, TwoEntries
<1>4. ASSUME p.last \in ToSet(e.uids)
      PROVE  Good(<<Single(p.last), rest>>)
  <2>1. p.last \in UID
    BY <1>1, <1>4 DEF ToSet
  <2>2. rest \in Entries /\ rest.uids = Without(e.uids, p.last)
    BY <1>1, WithoutType DEF Entries
  <2>3. /\ ToSet(rest.uids) = ToSet(e.uids) \ {p.last}
        /\ IsInjective(e.uids) => IsInjective(rest.uids)
    BY <1>1, <2>2, WithoutType
  <2> DEFINE one == Single(p.last)
  <2>4. one \in Entries /\ ToSet(one.uids) = {p.last} /\ IsInjective(one.uids)
    BY <2>1, SingleType
  <2> HIDE DEF e, rest, one
  <2>5. /\ <<one, rest>> \in Seq(Entries)
        /\ All(<<one, rest>>) = ToSet(one.uids) \union ToSet(rest.uids)
        /\ IsInjective(rest.uids) => Distinct(<<one, rest>>)
    BY <2>2, <2>3, <2>4, TwoEntries
  <2>6. All(<<one, rest>>) \subseteq ToSet(entry.uids)
    BY <1>1, <1>4, <2>3, <2>4, <2>5
  <2>7. IsInjective(entry.uids) => Distinct(<<one, rest>>)
    BY <1>1, <2>3, <2>5
  <2> QED
    BY <2>5, <2>6, <2>7 DEF one
<1>5. Len(pass.rows) # 1 => Len(e.uids) > 1
  <2>1. SUFFICES ASSUME Len(pass.rows) # 1
                 PROVE  Len(e.uids) > 1
    OBVIOUS
  <2>2. DOMAIN e.uids = 1..Len(e.uids) /\ Len(e.uids) \in Nat
    BY <1>1
  <2>3. pass.rows \in Seq(UID)
    BY DEF Typed
  <2>4. DOMAIN pass.rows = 1..Len(pass.rows) /\ Len(pass.rows) \in Nat \ {0}
    BY <2>3, LenProperties, EmptySeq
  <2>5. 1 \in DOMAIN pass.rows /\ 2 \in DOMAIN pass.rows
    <3>1. PICK n \in Nat : n = Len(pass.rows)
      BY <2>4
    <3>2. n # 0 /\ n # 1
      BY <2>1, <2>4, <3>1
    <3>3. n >= 2
      BY <3>2
    <3> QED
      BY <2>4, <3>1, <3>3
  <2>6. pass.rows[1] # pass.rows[2]
    BY <2>5 DEF IsInjective
  <2>7. pass.rows[1] \in ToSet(e.uids) /\ pass.rows[2] \in ToSet(e.uids)
    BY <1>1, <2>5 DEF ToSet
  <2>8. PICK i \in DOMAIN e.uids, j \in DOMAIN e.uids : i # j
    BY <2>6, <2>7 DEF ToSet
  <2> HIDE DEF e
  <2> QED
    BY <2>2, <2>8
<1>6. ASSUME NEW l, Good(l)
      PROVE  /\ l \o above \in Seq(Entries)
             /\ All(l \o above) \subseteq ToSet(entry.uids) \union All(above)
             /\ apart => Distinct(l \o above)
  BY <1>6, LaddersJoined
<1>7. \/ Climbed(entry, above) = above
      \/ \E l : Good(l) /\ Climbed(entry, above) = l \o above
  <2> HIDE DEF Good
  <2> QED
    BY <1>2, <1>3, <1>4, <1>5, Zenon DEF Climbed, p
<1> QED
  <2> HIDE DEF Good
  <2> QED
    BY <1>6, <1>7

\* A loss may put the suspects on the ladder, if it is empty.
LEMMA BlamedType ==
  ASSUME Typed, NEW r \in Records, NEW inflight \in SUBSET UID
  PROVE  /\ Blamed(r, inflight) \in Records
         /\ Distinct(r.ladder) => Distinct(Blamed(r, inflight).ladder)
<1> DEFINE window == inflight \union ({p.last} \ {0})
           common == IF r.suspects = {} THEN window ELSE r.suspects \intersect window
           q == IF common # {} THEN [r EXCEPT !.losses = @ + 1, !.suspects = common]
                ELSE [r EXCEPT !.losses = 1, !.suspects = window]
           all == Sorted(q.suspects)
           first == IF p.last \in q.suspects /\ Len(all) > 1
                    THEN <<Single(p.last), [uids |-> Without(all, p.last), tries |-> 0]>>
                    ELSE <<[uids |-> all, tries |-> 0]>>
<1>1. window \in SUBSET UID
  <2>1. p.last \in UID \union {0}
    BY DEF Typed, p
  <2> QED
    BY <2>1
<1>2. common \in SUBSET UID
  BY <1>1 DEF Records
<1> HIDE DEF window, common
<1>3. q \in Records /\ q.ladder = r.ladder
  <2>1. CASE common # {}
    <3>1. r.losses + 1 \in Nat
      BY DEF Records
    <3>2. PICK n \in Nat : n = r.losses + 1
      BY <3>1
    <3>3. q = [r EXCEPT !.losses = n, !.suspects = common]
      BY <2>1, <3>2
    <3> HIDE DEF q
    <3> QED
      BY <1>2, <3>3 DEF Records
  <2>2. CASE common = {}
    <3>1. q = [r EXCEPT !.losses = 1, !.suspects = window]
      BY <2>2
    <3> HIDE DEF q
    <3> QED
      BY <1>1, <3>1 DEF Records
  <2> QED
    BY <2>1, <2>2
<1>4. q.suspects \in SUBSET UID
  BY <1>3 DEF Records
<1> HIDE DEF q
<1>5. all \in Seq(UID) /\ IsInjective(all)
  <2>1. q.suspects \in SUBSET Nat /\ IsFiniteSet(q.suspects)
    BY <1>4, Messages
  <2>2. all \in Seq(q.suspects) /\ IsInjective(all)
    BY <2>1, SortedIsOnto
  <2> QED
    BY <1>4, <2>2, SeqMonotonic
<1> HIDE DEF all
<1>6. first \in Seq(Entries) /\ Distinct(first)
  <2>1. CASE p.last \in q.suspects /\ Len(all) > 1
    <3> DEFINE one == Single(p.last)
               rest == [uids |-> Without(all, p.last), tries |-> 0]
    <3>1. one \in Entries /\ ToSet(one.uids) = {p.last} /\ IsInjective(one.uids)
      BY <1>4, <2>1, SingleType
    <3>2. /\ rest \in Entries /\ IsInjective(rest.uids)
          /\ ToSet(rest.uids) = ToSet(all) \ {p.last}
      BY <1>5, WithoutType DEF Entries
    <3>3. first = <<one, rest>>
      BY <2>1
    <3> HIDE DEF one, rest, first
    <3>4. ToSet(one.uids) \intersect ToSet(rest.uids) = {}
      BY <3>1, <3>2
    <3> QED
      BY <3>1, <3>2, <3>3, <3>4, TwoEntries
  <2>2. CASE ~(p.last \in q.suspects /\ Len(all) > 1)
    <3> DEFINE one == [uids |-> all, tries |-> 0]
    <3>1. one \in Entries /\ IsInjective(one.uids)
      BY <1>5 DEF Entries
    <3>2. first = <<one>>
      BY <2>2
    <3> HIDE DEF one, first
    <3> QED
      BY <3>1, <3>2, OneEntry
  <2> QED
    BY <2>1, <2>2
<1> HIDE DEF first
<1>7. [q EXCEPT !.ladder = first] \in Records /\ [q EXCEPT !.ladder = first].ladder = first
  BY <1>3, <1>6 DEF Records
<1>8. Blamed(r, inflight) \in {r, q, [q EXCEPT !.ladder = first]}
  BY DEF Blamed, window, common, q, all, first
<1> QED
  BY <1>3, <1>6, <1>7, <1>8

\* A pass that has got through takes the first entry off the ladder.
LEMMA ShorterType ==
  ASSUME NEW r \in Records, NEW l \in Seq(Entries)
  PROVE  [r EXCEPT !.ladder = l] \in Records /\ [r EXCEPT !.ladder = l].ladder = l
  BY DEF Records

-------------------------------------------------------------------------------
(* Types are kept *)

LEMMA TypesNamed ==
  /\ Typed <=> /\ row \in [UID -> RowStates]
               /\ box \in SUBSET {u \in UID : Kind[u] = "good"}
               /\ count \in Counts /\ rec \in Records /\ pass \in Passes
  /\ Typed => Flushed \in [UID -> RowStates]
<1>1. Typed <=> /\ row \in [UID -> RowStates]
                /\ box \in SUBSET {u \in UID : Kind[u] = "good"}
                /\ count \in Counts /\ rec \in Records /\ pass \in Passes
  BY DEF Typed, Counts, Records, Passes
<1>2. Typed => Flushed \in [UID -> RowStates]
  BY DEF Typed, Flushed, RowStates
<1> QED
  BY <1>1, <1>2

\* Between passes the database has everything.
LEMMA FlushedPlain ==
  ASSUME Typed, pass.batch = {}
  PROVE  Flushed = row /\ \A states : In(states) = Is(states)
<1>1. Flushed = row
  BY DEF Typed, Flushed, p
<1> QED
  BY <1>1 DEF In, Is

LEMMA TypedInit == Init => Typed
<1> SUFFICES ASSUME Init
             PROVE  Typed
  OBVIOUS
<1>1. row \in [UID -> RowStates]
  BY DEF Init, RowStates
<1>2. box \in SUBSET {u \in UID : Kind[u] = "good"}
  BY RecoveryAssumption DEF Init
<1>3. count \in Counts
  BY DEF Init, Counts
<1> QED
  BY <1>1, <1>2, <1>3, NewRecType, NoPassType, TypesNamed DEF Init

\* Steps outside a session leave alone what the proofs look at, or start afresh.
Rests == UNCHANGED <<row, box, count, rec, pass>>

LEMMA WhoRests ==
  ASSUME OpenPair \/ FailAttempt \/ Retry \/ EndMailbox \/ OpenFolderFails
           \/ CutSrc \/ WatchdogSrc \/ WatchdogDst \/ Supervisor \/ TogglePause
  PROVE  Rests
<1>1. CASE OpenPair
  BY <1>1 DEF OpenPair, Rests
<1>2. CASE FailAttempt
  BY <1>2 DEF FailAttempt, Rests
<1>3. CASE Retry
  BY <1>3 DEF Retry, Rests
<1>4. CASE EndMailbox
  BY <1>4 DEF EndMailbox, Rests
<1>5. CASE OpenFolderFails
  BY <1>5 DEF OpenFolderFails, Rests
<1>7. CASE CutSrc
  BY <1>7 DEF CutSrc, Rests
<1>8. CASE WatchdogSrc
  BY <1>8 DEF WatchdogSrc, Rests, work
<1>9. CASE WatchdogDst
  BY <1>9 DEF WatchdogDst, Rests, work
<1>10. CASE Supervisor
  BY <1>10 DEF Supervisor, Elapse, Observe, Act, Rests, work
<1>11. CASE TogglePause
  BY <1>11 DEF TogglePause, Rests, work
<1> QED
  BY <1>1, <1>2, <1>3, <1>4, <1>5, <1>7, <1>8, <1>9, <1>10, <1>11

LEMMA CountedType ==
  ASSUME NEW c \in Counts, NEW n \in Nat
  PROVE  /\ Baseline(c, n) \in Counts
         /\ [c EXCEPT !.adopted = @ + n] \in Counts
         /\ [c EXCEPT !.priorSet = FALSE] \in Counts
         /\ [c EXCEPT !.msgsDone = @ + 1, !.appended = @ + 1] \in Counts
<1>1. Baseline(c, n) \in Counts
  BY DEF Baseline, Counts
<1>2. [c EXCEPT !.adopted = @ + n] \in Counts
  BY DEF Counts
<1>3. [c EXCEPT !.priorSet = FALSE] \in Counts
  BY DEF Counts
<1>4. [c EXCEPT !.msgsDone = @ + 1, !.appended = @ + 1] \in Counts
  <2>1. c.msgsDone + 1 \in Nat /\ c.appended + 1 \in Nat
    BY DEF Counts
  <2>2. PICK m \in Nat, a \in Nat : m = c.msgsDone + 1 /\ a = c.appended + 1
    BY <2>1
  <2>3. [c EXCEPT !.msgsDone = m, !.appended = a] \in Counts
    BY DEF Counts
  <2>4. [c EXCEPT !.msgsDone = @ + 1, !.appended = @ + 1]
          = [c EXCEPT !.msgsDone = m, !.appended = a]
    BY <2>2
  <2> QED
    BY <2>3, <2>4
<1> QED
  BY <1>1, <1>2, <1>3, <1>4

\* What reconciliation makes of the rows, and what a hint begins the ladder with.
After(arrived) ==
  [u \in UID |-> IF u \in arrived THEN "done"
                 ELSE IF Flushed[u] = "inflight" THEN "planned" ELSE Flushed[u]]

FrontOf(S) == SubSeq(Sorted(S), 1, Min({Window, Len(Sorted(S))}))

LEMMA InOrder ==
  ASSUME NEW S \in SUBSET UID
  PROVE  Sorted(S) \in Seq(UID) /\ IsInjective(Sorted(S)) /\ ToSet(Sorted(S)) = S
<1>1. S \in SUBSET Nat /\ IsFiniteSet(S)
  BY Messages
<1>2. Sorted(S) \in Seq(S) /\ IsInjective(Sorted(S)) /\ ToSet(Sorted(S)) = S
  BY <1>1, SortedIsOnto
<1> QED
  BY <1>2, SeqMonotonic

LEMMA FrontType ==
  ASSUME NEW S \in SUBSET UID
  PROVE  FrontOf(S) \in Seq(UID) /\ IsInjective(FrontOf(S))
<1> DEFINE queue == Sorted(S)
           n == Min({Window, Len(queue)})
           front == SubSeq(queue, 1, n)
<1>1. queue \in Seq(UID) /\ IsInjective(queue)
  BY InOrder
<1> HIDE DEF queue
<1>2. DOMAIN queue = 1..Len(queue) /\ Len(queue) \in Nat
  BY <1>1
<1>3. n \in Nat /\ n <= Len(queue)
  <2>1. Window \in Nat
    BY RecoveryAssumption
  <2> QED
    BY <1>2, <2>1, TheLesser
<1> HIDE DEF n
<1>4. \A i \in 1..n : i \in DOMAIN queue /\ queue[i] \in UID
  BY <1>1, <1>2, <1>3
<1>5. /\ front \in Seq(UID) /\ Len(front) = n
      /\ \A i \in 1..n : front[i] = queue[i]
  BY <1>3, <1>4, SubSeqProperties
<1>6. DOMAIN front = 1..n
  BY <1>5
<1>7. IsInjective(front)
  BY <1>1, <1>4, <1>5, <1>6 DEF IsInjective
<1> QED
  BY <1>5, <1>7 DEF FrontOf, queue, n

LEMMA ReconcileShape ==
  ASSUME RInv, Reconcile
  PROVE  \E arrived \in SUBSET UID :
           /\ arrived = Is({"inflight"}) \intersect box
           /\ row' = After(arrived) /\ Flushed' = After(arrived) /\ Batched'
           /\ count' = [count EXCEPT !.adopted = @ + Cardinality(arrived)]
           /\ pc = "open" /\ pc' = "scan"
           /\ UNCHANGED <<run, box, rec, pass>>
<1> DEFINE arrived == Is({"inflight"}) \intersect box
<1>1. pc = "open" /\ pc' = "scan" /\ UNCHANGED <<run, box, rec, pass>>
  BY DEF Reconcile
<1>2. pass.batch = {} /\ pass'.batch = {}
  BY <1>1 DEF RInv, Batched, Passing
<1>3. Flushed = row /\ \A states : In(states) = Is(states)
  BY <1>2, FlushedPlain DEF RInv
<1>4. row' = After(arrived) /\ count' = [count EXCEPT !.adopted = @ + Cardinality(arrived)]
  BY <1>3 DEF Reconcile, After
<1>5. Flushed' = After(arrived)
  BY <1>2, <1>4 DEF Flushed, After, p
<1>6. Batched'
  BY <1>2 DEF Batched
<1>7. arrived \in SUBSET UID
  BY DEF Is
<1> QED
  BY <1>1, <1>4, <1>5, <1>6, <1>7

LEMMA OpenFolderShape ==
  ASSUME RInv, OpenFolder
  PROVE  /\ rec' = rec \/ \E front \in Seq(UID) :
                            /\ IsInjective(front) /\ rec.ladder = <<>>
                            /\ rec' = [rec EXCEPT !.ladder = <<[uids |-> front, tries |-> 0]>>]
         /\ pc = "adopt" /\ pc' = IF rec'.ladder # <<>> THEN "ladder" ELSE "main"
         /\ UNCHANGED <<run, row, box, count, pass>>
<1> DEFINE queue == In({"planned"})
<1>1. queue \in SUBSET UID
  BY DEF In
<1>2. rec' = rec \/ /\ rec.ladder = <<>>
                    /\ rec' = [rec EXCEPT !.ladder = <<[uids |-> FrontOf(queue), tries |-> 0]>>]
  BY DEF OpenFolder, FrontOf
<1> HIDE DEF queue
<1>3. FrontOf(queue) \in Seq(UID) /\ IsInjective(FrontOf(queue))
  BY <1>1, FrontType
<1> QED
  BY <1>2, <1>3 DEF OpenFolder

\* A pass that starts: nothing is taken of its rows yet.
Fresh(iso, rows) ==
  /\ pass'.iso = iso /\ pass'.rows = rows
  /\ pass'.taken = 0 /\ pass'.fetched = 0
  /\ pass'.pend = <<>> /\ pass'.replies = <<>> /\ pass'.fails = <<>> /\ pass'.batch = {}

LEMMA StartPassShape ==
  ASSUME Typed, NEW iso \in BOOLEAN, NEW no \in Nat, NEW rows \in Seq(UID),
         StartPass(iso, no, rows)
  PROVE  pass' \in Passes /\ Fresh(iso, rows) /\ pc' = "fill"
<1>1. pass \in Passes
  BY TypesNamed
<1>2. pass' = [NoPass EXCEPT !.iso = iso, !.no = no, !.rows = rows,
                             !.last = pass.last, !.phase = pass.phase]
  BY DEF StartPass
<1>3. pass' = [iso |-> iso, no |-> no, rows |-> rows, taken |-> 0, fetched |-> 0,
               pend |-> <<>>, replies |-> <<>>, fails |-> <<>>, batch |-> {},
               last |-> pass.last, phase |-> pass.phase]
  BY <1>2 DEF NoPass
<1>4. <<>> \in Seq(UID) /\ <<>> \in Seq({"OK", "NO"})
  BY NothingIn
<1>5. pass' \in Passes
  BY <1>1, <1>3, <1>4 DEF Passes
<1>6. pc' = "fill"
  BY DEF StartPass
<1>7. Fresh(iso, rows)
  BY <1>3 DEF Fresh
<1> QED
  BY <1>5, <1>6, <1>7

\* What is in the hands of the pass is one of its rows.
LEMMA ItemInHand ==
  ASSUME Typed, PassRows, pc \in {"body", "append"}
  PROVE  /\ p.taken \in 1..Len(p.rows) /\ p.taken \in DOMAIN p.rows
         /\ Item \in UID /\ Item \in ToSet(p.rows) /\ Item \in Taken
<1>1. pass \in Passes
  BY TypesNamed
<1>a. p.rows \in Seq(UID) /\ p.taken \in Nat /\ p.fetched \in Nat
  BY <1>1 DEF Passes, p
<1>2. p.rows \in Seq(UID) /\ p.taken \in Nat /\ p.fetched \in Nat /\ Len(p.rows) \in Nat
  BY <1>a, LenProperties
<1>3. p.taken > 0 /\ p.taken <= p.fetched /\ p.fetched <= Len(p.rows)
  BY DEF PassRows, Passing
<1>4. p.taken \in 1..Len(p.rows) /\ p.taken \in 1..p.taken
  BY <1>2, <1>3
<1>5. p.rows[p.taken] \in UID /\ p.rows[p.taken] \in ToSet(p.rows)
  BY <1>2, <1>4, ItemIsIn
<1> QED
  BY <1>2, <1>4, <1>5 DEF Item, Taken

\* An answer is taken from the wire.
LEMMA SettledType ==
  ASSUME Typed, p.pend # <<>>
  PROVE  /\ Head(p.pend) \in UID /\ Tail(p.pend) \in Seq(UID)
         /\ p.replies # <<>> => Tail(p.replies) \in Seq({"OK", "NO"})
         /\ \A a \in Seq({"OK", "NO"}) : [p EXCEPT !.pend = Tail(@), !.replies = a] \in Passes
<1>1. pass \in Passes
  BY TypesNamed
<1>2. p.pend \in Seq(UID) /\ p.replies \in Seq({"OK", "NO"})
  BY <1>1 DEF Passes, p
<1>3. Head(p.pend) \in UID /\ Tail(p.pend) \in Seq(UID)
  BY <1>2, HeadAndTail, HeadTailProperties
<1>4. p.replies # <<>> => Tail(p.replies) \in Seq({"OK", "NO"})
  BY <1>2, HeadAndTail
<1>5. ASSUME NEW t \in Seq(UID), NEW a \in Seq({"OK", "NO"})
      PROVE  [pass EXCEPT !.pend = t, !.replies = a] \in Passes
  BY <1>1 DEF Passes
<1> QED
  BY <1>3, <1>4, <1>5 DEF p

\* settleOne, in its three ways.
Confirms ==
  /\ p.replies # <<>> /\ Head(p.replies) = "OK"
  /\ count' = [count EXCEPT !.msgsDone = @ + 1, !.appended = @ + 1]
  /\ pass' = [p EXCEPT !.pend = Tail(@), !.replies = Tail(@),
                       !.batch = @ \union {Head(p.pend)}]
  /\ UNCHANGED <<pc, row>>

Fails ==
  /\ \/ p.replies # <<>> /\ Head(p.replies) = "NO"
        /\ pass' = [p EXCEPT !.pend = Tail(@), !.replies = Tail(@), !.fails = Append(@, Head(p.pend))]
     \/ p.replies = <<>> /\ dst = "kick"
        /\ pass' = [p EXCEPT !.pend = Tail(@), !.fails = Append(@, Head(p.pend))]
  /\ UNCHANGED <<pc, row, count>>

Drops ==
  /\ p.replies = <<>> /\ dst = "lost"
  /\ pc' = "broken"
  /\ pass' = [p EXCEPT !.pend = Tail(@)]
  /\ UNCHANGED <<row, count>>

LEMMA SettleOneShape ==
  ASSUME Typed, PassRows, SettleOne
  PROVE  /\ pc \in {"settle", "head"} /\ p.pend # <<>>
         /\ Confirms \/ Fails \/ Drops
         /\ UNCHANGED <<box, rec>>
<1>1. pass \in Passes
  BY TypesNamed
<1>2. p.pend \in Seq(UID) /\ p.replies \in Seq({"OK", "NO"})
  BY <1>1 DEF Passes, p
<1>3. (pc = "settle" /\ Full) \/ Drained
  BY DEF SettleOne
<1>4. p.pend # <<>>
  <2>1. CASE Drained
    BY <2>1 DEF Drained
  <2>2. CASE Full
    <3>1. Window \in Nat \ {0}
      BY RecoveryAssumption
    <3>2. Len(p.pend) >= Window
      BY <2>2 DEF Full
    <3>3. Len(<<>>) = 0
      OBVIOUS
    <3> QED
      BY <3>1, <3>2, <3>3
  <2> QED
    BY <1>3, <2>1, <2>2
<1>5. pc \in {"settle", "head"}
  BY <1>3 DEF Drained
<1> DEFINE answered == p.replies # <<>>
           q == [p EXCEPT !.pend = Tail(@), !.replies = IF answered THEN Tail(@) ELSE @]
<1>6. pass \in [iso : BOOLEAN, no : Nat, rows : Seq(UID), taken : Nat, fetched : Nat,
           pend : Seq(UID), replies : Seq({"OK", "NO"}), fails : Seq(UID),
           batch : SUBSET UID, last : UID \union {0}, phase : {"", "fetch", "append"}]
  BY <1>1 DEF Passes
<1>r. row' = row
  BY DEF SettleOne
<1>7. ASSUME /\ answered /\ Head(p.replies) = "OK"
             /\ count' = [count EXCEPT !.msgsDone = @ + 1, !.appended = @ + 1]
             /\ pass' = [q EXCEPT !.batch = @ \union {Head(p.pend)}] /\ UNCHANGED <<pc, err>>
      PROVE  Confirms
  <2>1. q = [p EXCEPT !.pend = Tail(@), !.replies = Tail(@)]
    BY <1>7
  <2>2. pass' = [p EXCEPT !.pend = Tail(@), !.replies = Tail(@),
                          !.batch = @ \union {Head(p.pend)}]
    BY <1>6, <1>7, <2>1 DEF p
  <2> QED
    BY <1>7, <1>r, <2>2, Zenon DEF Confirms
<1>8. ASSUME /\ IF answered THEN Head(p.replies) = "NO" ELSE dst = "kick"
             /\ pass' = [q EXCEPT !.fails = Append(@, Head(p.pend))]
             /\ UNCHANGED <<pc, err, count>>
      PROVE  Fails
  <2>1. CASE answered
    <3>1. q = [p EXCEPT !.pend = Tail(@), !.replies = Tail(@)]
      BY <2>1
    <3>2. pass' = [p EXCEPT !.pend = Tail(@), !.replies = Tail(@), !.fails = Append(@, Head(p.pend))]
      BY <1>6, <1>8, <3>1 DEF p
    <3> QED
      BY <1>8, <1>r, <2>1, <3>2, Zenon DEF Fails
  <2>2. CASE ~answered
    <3>1. q = [p EXCEPT !.pend = Tail(@)]
      BY <1>6, <2>2 DEF p
    <3>2. pass' = [p EXCEPT !.pend = Tail(@), !.fails = Append(@, Head(p.pend))]
      BY <1>6, <1>8, <3>1 DEF p
    <3> QED
      BY <1>8, <1>r, <2>2, <3>2, Zenon DEF Fails
  <2> QED
    BY <2>1, <2>2
<1>9. ASSUME /\ ~answered /\ dst = "lost" /\ FailsWith(dst)
             /\ pc' = "broken" /\ pass' = [p EXCEPT !.pend = Tail(@)]
             /\ UNCHANGED count
      PROVE  Drops
  BY <1>9, <1>r, Zenon DEF Drops
<1>10. Confirms \/ Fails \/ Drops
  BY <1>7, <1>8, <1>9 DEF SettleOne
<1>11. UNCHANGED <<box, rec>>
  BY DEF SettleOne
<1> QED
  BY <1>4, <1>5, <1>10, <1>11

\* What an answer makes of the rows.
LEMMA SettledRows ==
  ASSUME RInv, SettleOne
  PROVE  /\ Confirms => Flushed' = [Flushed EXCEPT ![Head(p.pend)] = "done"]
         /\ Fails \/ Drops => Flushed' = Flushed
         /\ Batched'
<1>a. Typed /\ PassRows /\ Batched /\ pass \in Passes /\ row \in [UID -> RowStates]
  BY TypesNamed DEF RInv
<1>1. /\ pc \in {"settle", "head"} /\ p.pend # <<>>
      /\ Confirms \/ Fails \/ Drops
  BY <1>a, SettleOneShape
<1> DEFINE u == Head(p.pend)
<1>2. u \in UID /\ u \in ToSet(p.pend)
  <2>1. p.pend \in Seq(UID)
    BY <1>a DEF Passes, p
  <2> QED
    BY <1>1, <2>1, HeadAndTail, HeadTailProperties
<1>3. Flushed[u] = "inflight"
  BY <1>a, <1>1, <1>2 DEF PassRows, Passing, Unsettled
<1>4. row[u] = "inflight"
  BY <1>2, <1>3 DEF Flushed
<1>5. CASE Confirms
  <2>1. row' = row /\ pass'.batch = pass.batch \union {u} /\ pc' = pc
    BY <1>a, <1>5 DEF Confirms, Passes, p
  <2> HIDE DEF u
  <2>2. Flushed' = [Flushed EXCEPT ![u] = "done"]
    BY <1>2, <2>1 DEF Flushed, p
  <2>3. Batched'
    BY <1>a, <1>1, <1>4, <2>1 DEF Batched, Passing
  <2>4. Fails \/ Drops => FALSE
    BY <1>5 DEF Confirms, Fails, Drops
  <2> QED
    BY <2>2, <2>3, <2>4 DEF u
<1>6. CASE Fails \/ Drops
  <2>1. row' = row /\ pass'.batch = pass.batch /\ pc' \in {"settle", "head", "broken"}
    BY <1>a, <1>1, <1>6 DEF Fails, Drops, Passes, p
  <2>2. Flushed' = Flushed
    BY <2>1 DEF Flushed, p
  <2>3. Batched'
    BY <1>a, <2>1 DEF Batched, Passing
  <2>4. Confirms => FALSE
    BY <1>6 DEF Confirms, Fails, Drops
  <2> QED
    BY <2>2, <2>3, <2>4
<1> QED
  BY <1>1, <1>5, <1>6

\* The steps that leave the rows alone, or only write the batch.
Unwritten ==
  \/ OpenPair \/ Ready \/ FailAttempt \/ Retry \/ Trouble \/ EndMailbox \/ Requeue
  \/ RefreshTotals \/ OpenFolder \/ OpenFolderFails \/ StartEntry \/ LeaveLadder \/ StartMain
  \/ Fill \/ Body \/ AppendItem \/ Room \/ Serve
  \/ CutDst \/ CutSrc \/ WatchdogSrc \/ WatchdogDst \/ Supervisor \/ TogglePause
  \/ UNCHANGED vars

LEMMA RowsStay ==
  ASSUME RInv, Unwritten
  PROVE  Flushed' = Flushed /\ Batched'
<1>a. Batched /\ pass \in Passes /\ row \in [UID -> RowStates]
  BY TypesNamed DEF RInv
<1> DEFINE P == Passing \union {"broken"}
           Same == Flushed' = Flushed /\ Batched'
<1> SUFFICES Same
  OBVIOUS
<1>1. ASSUME row' = row, pass'.batch = pass.batch, pc' \in P \/ pc \notin P
      PROVE  Same
  BY <1>1, <1>a DEF Flushed, Batched, p
<1>2. ASSUME row' = row, pass'.batch = {}, pc \notin P
      PROVE  Same
  BY <1>2, <1>a DEF Flushed, Batched, p
<1>p. /\ {"connect", "list", "reconnect", "reopened", "retry", "open", "scan", "adopt", "ladder",
         "main", "trouble", "last", "ended"} \intersect P = {}
      /\ {"fill", "head", "body", "append", "settle", "broken"} \subseteq P
  BY DEF Passing
<1>n. NoPass.batch = {}
  BY DEF NoPass
<1> HIDE DEF P, Same
<1>3. CASE OpenPair \/ FailAttempt \/ Retry \/ EndMailbox \/ OpenFolderFails
             \/ RefreshTotals \/ OpenFolder \/ LeaveLadder
  <2>1. row' = row /\ pass' = pass
    BY <1>3 DEF OpenPair, FailAttempt, Retry, EndMailbox, OpenFolderFails, RefreshTotals,
                OpenFolder, LeaveLadder
  <2>2. pc \notin P
    BY <1>3, <1>p DEF OpenPair, FailAttempt, Retry, EndMailbox, OpenFolderFails, RefreshTotals,
                OpenFolder, LeaveLadder
  <2> QED
    BY <1>1, <2>1, <2>2
<1>4. CASE Ready \/ Trouble \/ Requeue
  <2>1. row' = row /\ pass' = NoPass /\ pc \notin P
    BY <1>4, <1>p DEF Ready, Trouble, Requeue
  <2> QED
    BY <1>2, <1>n, <2>1
<1>5. CASE StartEntry
  <2> DEFINE live == Those(Head(rec.ladder).uids, In({"planned", "inflight"}))
  <2>1. row' = row /\ pc = "ladder" /\ (pass' = pass \/ StartPass(TRUE, 1, live))
    BY <1>5 DEF StartEntry
  <2> HIDE DEF live
  <2>2. StartPass(TRUE, 1, live) => pass'.batch = {}
    BY DEF StartPass, NoPass
  <2> QED
    BY <1>1, <1>2, <1>p, <2>1, <2>2
<1>6. CASE StartMain
  <2> DEFINE queue == Sorted(In({"planned"}))
  <2>1. row' = row /\ pc = "main" /\ (pass' = pass \/ StartPass(FALSE, 1, queue))
    BY <1>6 DEF StartMain
  <2> HIDE DEF queue
  <2>2. StartPass(FALSE, 1, queue) => pass'.batch = {}
    BY DEF StartPass, NoPass
  <2> QED
    BY <1>1, <1>2, <1>p, <2>1, <2>2
<1>7. CASE Fill \/ Body
  <2>1. row' = row /\ pc' \in P
    BY <1>7, <1>p DEF Fill, Body
  <2>2. pass'.batch = pass.batch
    BY <1>7, <1>a DEF Fill, Body, Passes, p
  <2> QED
    BY <1>1, <2>1, <2>2
<1>8. CASE AppendItem
  <2> DEFINE q == [pass EXCEPT !.last = Item, !.phase = "append"]
  <2>1. /\ row' = row /\ pc' \in P
        /\ pass' = q \/ pass' = [q EXCEPT !.pend = Append(@, Item)]
    BY <1>8, <1>p DEF AppendItem, p
  <2>2. q.batch = pass.batch /\ DOMAIN q = DOMAIN pass
    BY <1>a DEF Passes
  <2>3. pass'.batch = pass.batch
    BY <1>a, <2>1 DEF Passes
  <2> QED
    BY <1>1, <2>1, <2>3
<1>9. CASE Room
  <2>1. pc' \in P /\ ((row' = row /\ pass' = pass) \/ (row' = Flushed /\ pass' = Emptied))
    BY <1>9, <1>p DEF Room
  <2>2. CASE row' = Flushed /\ pass' = Emptied
    <3>1. pass'.batch = {}
      BY <1>a, <2>2 DEF Emptied, Passes, p
    <3>2. Flushed' = Flushed
      BY <2>2, <3>1 DEF Flushed, p
    <3> QED
      BY <3>1, <3>2 DEF Same, Batched
  <2> QED
    BY <1>1, <2>1, <2>2
<1>10. CASE Serve
  <2>1. /\ row' = row /\ pc' = pc
        /\ pass' = pass \/ \E a : pass' = [pass EXCEPT !.replies = a]
    BY <1>10 DEF Serve, p
  <2>2. pass'.batch = pass.batch
    BY <1>a, <2>1 DEF Passes
  <2> QED
    BY <1>1, <2>1, <2>2
<1>11. CASE CutDst
  <2>1. row' = row /\ pc' = pc /\ \E a : pass' = [pass EXCEPT !.replies = a]
    BY <1>11 DEF CutDst, p
  <2>2. pass'.batch = pass.batch
    BY <1>a, <2>1 DEF Passes
  <2> QED
    BY <1>1, <2>1, <2>2
<1>12. CASE CutSrc \/ WatchdogSrc \/ WatchdogDst \/ Supervisor \/ TogglePause \/ UNCHANGED vars
  <2>1. row' = row /\ pc' = pc /\ pass' = pass
    BY <1>12 DEF CutSrc, WatchdogSrc, WatchdogDst, Supervisor, Elapse, Observe, Act, TogglePause,
                 work, vars
  <2> QED
    BY <1>1, <2>1
<1> QED
  BY <1>3, <1>4, <1>5, <1>6, <1>7, <1>8, <1>9, <1>10, <1>11, <1>12 DEF Unwritten

\* Between passes the rows are what the database has.
LEMMA Between ==
  ASSUME RInv, pc \notin Passing \union {"broken"}
  PROVE  Flushed = row /\ \A states : In(states) = Is(states)
  BY FlushedPlain DEF RInv, Batched

LEMMA TypedSession ==
  ASSUME RInv, Reconcile \/ RefreshTotals \/ OpenFolder \/ StartEntry \/ LeaveLadder \/ StartMain
                 \/ Ready \/ Trouble \/ Requeue
  PROVE  Typed'
<1>t. Typed
  BY DEF RInv
<1>a. /\ row \in [UID -> RowStates] /\ count \in Counts /\ rec \in Records /\ pass \in Passes
      /\ box \in SUBSET {u \in UID : Kind[u] = "good"} /\ Flushed \in [UID -> RowStates]
  BY <1>t, TypesNamed
<1>n. Typed' <=> /\ row' \in [UID -> RowStates]
                 /\ box' \in SUBSET {u \in UID : Kind[u] = "good"}
                 /\ count' \in Counts /\ rec' \in Records /\ pass' \in Passes
  BY DEF Typed, Counts, Records, Passes
<1>8. CASE Reconcile
  <2>1. PICK arrived \in SUBSET UID :
           /\ row' = After(arrived)
           /\ count' = [count EXCEPT !.adopted = @ + Cardinality(arrived)]
           /\ UNCHANGED <<box, rec, pass>>
    BY <1>8, ReconcileShape
  <2>2. row' \in [UID -> RowStates]
    BY <1>a, <2>1 DEF After, RowStates
  <2>3. Cardinality(arrived) \in Nat
    BY Messages
  <2>4. count' \in Counts
    BY <1>a, <2>1, <2>3, CountedType
  <2> QED
    BY <1>n, <1>a, <2>1, <2>2, <2>4
<1>9. CASE RefreshTotals
  <2>1. Cardinality(In({"done"})) \in Nat
    <3>1. In({"done"}) \in SUBSET UID
      BY DEF In
    <3> QED
      BY <3>1, Messages
  <2>2. count' \in Counts
    BY <1>a, <1>9, <2>1, CountedType DEF RefreshTotals
  <2> QED
    BY <1>n, <1>a, <1>9, <2>2 DEF RefreshTotals
<1>1. CASE OpenFolder
  <2>1. /\ rec' = rec \/ \E front \in Seq(UID) :
                             rec' = [rec EXCEPT !.ladder = <<[uids |-> front, tries |-> 0]>>]
        /\ UNCHANGED <<row, box, count, pass>>
    BY <1>1, OpenFolderShape
  <2>4. rec' \in Records
    <3>1. ASSUME NEW front \in Seq(UID)
          PROVE  <<[uids |-> front, tries |-> 0]>> \in Seq(Entries)
      <4>1. [uids |-> front, tries |-> 0] \in Entries
        BY DEF Entries
      <4> QED
        BY <4>1, OneEntry
    <3>2. ASSUME NEW front \in Seq(UID)
          PROVE  [rec EXCEPT !.ladder = <<[uids |-> front, tries |-> 0]>>] \in Records
      BY <1>a, <3>1, ShorterType
    <3> QED
      BY <1>a, <2>1, <3>2
  <2> QED
    BY <1>n, <1>a, <2>1, <2>4
<1>2. CASE StartEntry
  <2> DEFINE live == Those(Head(rec.ladder).uids, In({"planned", "inflight"}))
  <2>1. rec.ladder \in Seq(Entries) /\ rec.ladder # <<>>
    BY <1>a, <1>2 DEF StartEntry, Records
  <2>2. Head(rec.ladder) \in Entries /\ Tail(rec.ladder) \in Seq(Entries)
    BY <2>1, LadderSplit
  <2>3. live \in Seq(UID)
    BY <2>2, ThoseOfSet DEF Entries
  <2>4. UNCHANGED <<row, box, count>>
    BY <1>2 DEF StartEntry
  <2>5. \/ rec' = [rec EXCEPT !.ladder = Tail(@)] /\ pass' = pass
        \/ StartPass(TRUE, 1, live) /\ rec' = rec
    BY <1>2 DEF StartEntry
  <2>6. [rec EXCEPT !.ladder = Tail(@)] \in Records
    BY <1>a, <2>2, ShorterType
  <2> HIDE DEF live
  <2>7. StartPass(TRUE, 1, live) => pass' \in Passes
    BY <1>t, <2>3, StartPassShape
  <2> QED
    BY <1>n, <1>a, <2>4, <2>5, <2>6, <2>7
<1>3. CASE LeaveLadder
  <2>1. rec' = [rec EXCEPT !.losses = 0, !.suspects = {}] /\ UNCHANGED <<row, box, count, pass>>
    BY <1>3 DEF LeaveLadder
  <2>2. rec' \in Records
    BY <1>a, <2>1 DEF Records
  <2> QED
    BY <1>n, <1>a, <2>1, <2>2
<1>4. CASE StartMain
  <2> DEFINE queue == Sorted(In({"planned"}))
  <2>1. queue \in Seq(UID)
    <3>1. In({"planned"}) \in SUBSET UID
      BY DEF In
    <3> QED
      BY <3>1, InOrder
  <2>2. pass' = pass \/ StartPass(FALSE, 1, queue)
    BY <1>4 DEF StartMain
  <2> HIDE DEF queue
  <2>3. pass' \in Passes
    BY <1>t, <1>a, <2>1, <2>2, StartPassShape
  <2> QED
    BY <1>n, <1>a, <1>4, <2>3 DEF StartMain
<1>5. CASE Ready
  BY <1>n, <1>a, <1>5, NoPassType DEF Ready
<1>6. CASE Trouble
  BY <1>n, <1>a, <1>6, NoPassType DEF Trouble
<1>7. CASE Requeue
  <2>1. count' \in Counts
    BY <1>a, <1>7, CountedType DEF Requeue
  <2> QED
    BY <1>n, <1>a, <1>7, <2>1, NoPassType, NewRecType DEF Requeue
<1> QED
  BY <1>1, <1>2, <1>3, <1>4, <1>5, <1>6, <1>7, <1>8, <1>9

\* The batch is written.
LEMMA EmptiedType ==
  ASSUME Typed
  PROVE  /\ Emptied \in Passes /\ Emptied.batch = {}
         /\ Emptied.iso = p.iso /\ Emptied.no = p.no /\ Emptied.rows = p.rows
         /\ Emptied.taken = p.taken /\ Emptied.fetched = p.fetched
         /\ Emptied.pend = p.pend /\ Emptied.replies = p.replies /\ Emptied.fails = p.fails
         /\ Emptied.last = p.last /\ Emptied.phase = p.phase
<1>1. pass \in Passes
  BY TypesNamed
<1>2. Emptied \in Passes
  BY <1>1 DEF Emptied, Passes, p
<1>3. Emptied = [pass EXCEPT !.batch = {}]
  BY DEF Emptied, p
<1> QED
  BY <1>1, <1>2, <1>3 DEF Passes, p

LEMMA TypedPass ==
  ASSUME RInv, Fill \/ Take \/ Body \/ AppendItem \/ SettleOne \/ Room \/ Serve \/ CutDst
  PROVE  Typed'
<1>t. Typed /\ PassRows /\ Answers
  BY DEF RInv
<1>a. /\ row \in [UID -> RowStates] /\ count \in Counts /\ rec \in Records /\ pass \in Passes
      /\ box \in SUBSET {u \in UID : Kind[u] = "good"}
  BY <1>t, TypesNamed
<1>n. Typed' <=> /\ row' \in [UID -> RowStates]
                 /\ box' \in SUBSET {u \in UID : Kind[u] = "good"}
                 /\ count' \in Counts /\ rec' \in Records /\ pass' \in Passes
  BY DEF Typed, Counts, Records, Passes
<1>b. /\ p.rows \in Seq(UID) /\ p.pend \in Seq(UID) /\ p.fails \in Seq(UID)
      /\ p.replies \in Seq({"OK", "NO"}) /\ p.taken \in Nat /\ p.fetched \in Nat /\ p = pass
  BY <1>a DEF Passes, p
<1>1. CASE Fill
  <2>1. Min({Window, Len(p.rows)}) \in Nat
    <3>1. Len(p.rows) \in Nat /\ Window \in Nat
      BY <1>b, LenProperties, RecoveryAssumption
    <3> QED
      BY <3>1, TheLesser
  <2>2. [pass EXCEPT !.fetched = Min({Window, Len(p.rows)})] \in Passes
    BY <1>a, <2>1 DEF Passes
  <2>3. pass' \in Passes
    BY <1>1, <1>a, <1>b, <2>2 DEF Fill
  <2> QED
    BY <1>n, <1>a, <1>1, <2>3 DEF Fill
<1>2. CASE Take
  <2>1. row' \in [UID -> RowStates]
    BY <1>a, <1>2 DEF Take, RowStates
  <2>2. pass.taken + 1 \in Nat /\ pass.fetched + 1 \in Nat
    BY <1>b
  <2>3. PICK n \in Nat, m \in Nat : n = pass.taken + 1 /\ m = pass.fetched + 1
    BY <2>2
  <2>4. \/ pass' = [pass EXCEPT !.taken = n, !.fetched = m]
        \/ pass' = [pass EXCEPT !.taken = n, !.fetched = pass.fetched]
        \/ pass' = [pass EXCEPT !.taken = n]
    BY <1>2, <2>3 DEF Take, p
  <2>5. [pass EXCEPT !.taken = n, !.fetched = m] \in Passes
    BY <1>a DEF Passes
  <2>6. [pass EXCEPT !.taken = n, !.fetched = pass.fetched] \in Passes
    BY <1>a DEF Passes
  <2>7. [pass EXCEPT !.taken = n] \in Passes
    BY <1>a DEF Passes
  <2> QED
    BY <1>n, <1>a, <1>2, <2>1, <2>4, <2>5, <2>6, <2>7 DEF Take
<1>3. CASE Body
  <2>1. Item \in UID
    BY <1>t, <1>3, ItemInHand DEF Body
  <2>2. Append(pass.fails, Item) \in Seq(UID)
    BY <1>b, <2>1, OneAppended
  <2>3. \/ pass' = [pass EXCEPT !.phase = "fetch"]
        \/ pass' = [pass EXCEPT !.phase = "fetch", !.fails = Append(@, Item)]
    BY <1>3 DEF Body, p
  <2>4. [pass EXCEPT !.phase = "fetch"] \in Passes
    BY <1>a DEF Passes
  <2>5. [pass EXCEPT !.phase = "fetch", !.fails = Append(@, Item)] \in Passes
    BY <1>a, <2>2 DEF Passes
  <2>6. pass' \in Passes
    BY <2>3, <2>4, <2>5
  <2> QED
    BY <1>n, <1>a, <1>3, <2>6 DEF Body
<1>4. CASE AppendItem
  <2>1. Item \in UID
    BY <1>t, <1>4, ItemInHand DEF AppendItem
  <2>2. Append(pass.pend, Item) \in Seq(UID)
    BY <1>b, <2>1, OneAppended
  <2> DEFINE q == [pass EXCEPT !.last = Item, !.phase = "append"]
  <2>3. q \in Passes /\ q.pend = pass.pend
    BY <1>a, <2>1 DEF Passes
  <2>4. pass' = q \/ pass' = [q EXCEPT !.pend = Append(@, Item)]
    BY <1>4 DEF AppendItem, p
  <2> HIDE DEF q
  <2>5. pass' = q \/ pass' = [q EXCEPT !.pend = Append(pass.pend, Item)]
    BY <2>3, <2>4
  <2>6. pass' \in Passes
    BY <2>2, <2>3, <2>5 DEF Passes
  <2> QED
    BY <1>n, <1>a, <1>4, <2>6 DEF AppendItem
<1>5. CASE SettleOne
  <2>1. p.pend # <<>> /\ (Confirms \/ Fails \/ Drops) /\ UNCHANGED <<box, rec>>
    BY <1>t, <1>5, SettleOneShape
  <2>2. /\ Head(p.pend) \in UID /\ Tail(p.pend) \in Seq(UID)
        /\ p.replies # <<>> => Tail(p.replies) \in Seq({"OK", "NO"})
    BY <1>t, <2>1, SettledType
  <2>3. Append(p.fails, Head(p.pend)) \in Seq(UID)
    BY <1>b, <2>2, OneAppended
  <2>4. CASE Confirms
    <3>1. row' \in [UID -> RowStates]
      BY <1>a, <2>4 DEF Confirms
    <3>2. count' \in Counts
      BY <1>a, <2>4, CountedType DEF Confirms
    <3>3. Tail(p.replies) \in Seq({"OK", "NO"})
      BY <2>2, <2>4 DEF Confirms
    <3> DEFINE b == pass.batch \union {Head(p.pend)}
    <3>4. b \in SUBSET UID
      BY <1>a, <2>2 DEF Passes
    <3>5. pass' = [pass EXCEPT !.pend = Tail(p.pend), !.replies = Tail(p.replies), !.batch = b]
      BY <2>4 DEF Confirms, p
    <3> HIDE DEF b
    <3>6. pass' \in Passes
      BY <1>a, <2>2, <3>3, <3>4, <3>5 DEF Passes
    <3> QED
      BY <1>n, <1>a, <2>1, <3>1, <3>2, <3>6
  <2>5. CASE Fails
    <3>1. \E a \in Seq({"OK", "NO"}) :
             pass' = [pass EXCEPT !.pend = Tail(p.pend), !.replies = a,
                                  !.fails = Append(p.fails, Head(p.pend))]
      <4>1. CASE p.replies # <<>>
        BY <2>2, <2>5, <4>1 DEF Fails, p
      <4>2. CASE p.replies = <<>>
        <5>1. pass' = [pass EXCEPT !.pend = Tail(p.pend), !.fails = Append(p.fails, Head(p.pend))]
          BY <2>5, <4>2 DEF Fails, p
        <5>2. pass' = [pass EXCEPT !.pend = Tail(p.pend), !.replies = p.replies,
                                   !.fails = Append(p.fails, Head(p.pend))]
          BY <1>a, <5>1 DEF Passes, p
        <5> QED
          BY <1>b, <5>2
      <4> QED
        BY <4>1, <4>2
    <3>2. PICK a \in Seq({"OK", "NO"}) :
             pass' = [pass EXCEPT !.pend = Tail(p.pend), !.replies = a,
                                  !.fails = Append(p.fails, Head(p.pend))]
      BY <3>1
    <3>3. pass' \in Passes
      BY <1>a, <2>2, <2>3, <3>2 DEF Passes
    <3> QED
      BY <1>n, <1>a, <2>1, <2>5, <3>3 DEF Fails
  <2>6. CASE Drops
    <3>1. pass' = [pass EXCEPT !.pend = Tail(p.pend)]
      BY <2>6 DEF Drops, p
    <3>2. pass' \in Passes
      BY <1>a, <2>2, <3>1 DEF Passes
    <3> QED
      BY <1>n, <1>a, <2>1, <2>6, <3>2 DEF Drops
  <2> QED
    BY <2>1, <2>4, <2>5, <2>6
<1>6. CASE Serve
  <2> DEFINE k == Len(p.replies) + 1
             u == p.pend[k]
             answer == Append(p.replies, IF Kind[u] = "good" THEN "OK" ELSE "NO")
  <2>1. k \in 1..Len(p.pend)
    BY <1>b, <1>6, LenProperties DEF Serve
  <2>2. u \in UID
    BY <1>b, <2>1, ItemIsIn
  <2>3. answer \in Seq({"OK", "NO"})
    <3>1. (IF Kind[u] = "good" THEN "OK" ELSE "NO") \in {"OK", "NO"}
      OBVIOUS
    <3> QED
      BY <1>b, <3>1, OneAppended
  <2>4. /\ box' = IF Kind[u] = "good" THEN box \union {u} ELSE box
        /\ pass' = IF Kind[u] \in {"good", "refused"} THEN [pass EXCEPT !.replies = answer] ELSE pass
        /\ UNCHANGED <<row, count, rec>>
    BY <1>6 DEF Serve, p
  <2> HIDE DEF k, u, answer
  <2>5. pass' \in Passes
    BY <1>a, <2>3, <2>4 DEF Passes
  <2>6. box' \in SUBSET {v \in UID : Kind[v] = "good"}
    BY <1>a, <2>2, <2>4
  <2> QED
    BY <1>n, <1>a, <2>4, <2>5, <2>6
<1>7. CASE CutDst
  <2>1. PICK n \in 0..Len(pass.replies) : pass' = [pass EXCEPT !.replies = SubSeq(@, 1, n)]
    BY <1>7 DEF CutDst, p
  <2>2. SubSeq(pass.replies, 1, n) \in Seq({"OK", "NO"})
    BY <1>b
  <2>3. pass' \in Passes
    BY <1>a, <2>1, <2>2 DEF Passes
  <2> QED
    BY <1>n, <1>a, <1>7, <2>3 DEF CutDst
<1>8. CASE Room
  <2>1. Flushed \in [UID -> RowStates] /\ Emptied \in Passes
    BY <1>t, TypesNamed, EmptiedType
  <2> QED
    BY <1>n, <1>a, <1>8, <2>1 DEF Room
<1> QED
  BY <1>1, <1>2, <1>3, <1>4, <1>5, <1>6, <1>7, <1>8

\* The ends of a pass: what is given up, and what becomes of the ladder.
LEMMA MainPassShape ==
  ASSUME RInv, MainPassEnds
  PROVE  /\ Complete /\ ~p.iso
         /\ rec' \in Records /\ rec'.ladder = rec.ladder
         /\ \/ p.fails # <<>> /\ StartPass(FALSE, p.no + 1, p.fails) /\ row' = Flushed /\ UNCHANGED count
            \/ GivenUp(ToSet(p.fails)) /\ pc' = "last" /\ pass' = Emptied
         /\ UNCHANGED box
<1>a. rec \in Records
  BY TypesNamed DEF RInv
<1> DEFINE fails == ToSet(p.fails)
           r == Noted(rec, ToSet(p.rows), fails)
<1>1. r \in Records /\ r.ladder = rec.ladder
  BY <1>a, NotedType
<1>2. fails # {} => p.fails # <<>>
  BY DEF ToSet
<1> HIDE DEF r, fails
<1>3. Forgotten(r, fails) \in Records /\ Forgotten(r, fails).ladder = r.ladder
  BY <1>1, ForgottenType
<1>4. /\ Complete /\ ~p.iso /\ UNCHANGED box
      /\ \/ /\ fails # {}
            /\ StartPass(FALSE, p.no + 1, p.fails)
            /\ rec' = r
            /\ row' = Flushed
            /\ UNCHANGED count
         \/ /\ GivenUp(fails)
            /\ rec' = Forgotten(r, fails)
            /\ pc' = "last" /\ pass' = Emptied
  BY Zenon DEF MainPassEnds, r, fails
<1>5. rec' \in Records /\ rec'.ladder = rec.ladder
  BY <1>1, <1>3, <1>4
<1>6. \/ p.fails # <<>> /\ StartPass(FALSE, p.no + 1, p.fails) /\ row' = Flushed /\ UNCHANGED count
      \/ GivenUp(ToSet(p.fails)) /\ pc' = "last" /\ pass' = Emptied
  BY <1>2, <1>4, Zenon DEF fails
<1> QED
  BY <1>4, <1>5, <1>6

LEMMA LadderPassShape ==
  ASSUME RInv, LadderPassEnds
  PROVE  \E lost \in SUBSET ToSet(p.fails) :
           LET again == Those(p.fails, ToSet(p.fails) \ lost)
           IN  /\ Complete /\ p.iso /\ rec.ladder # <<>>
               /\ GivenUp(lost)
               /\ rec' \in Records
               /\ rec'.ladder = Tail(rec.ladder) \o [i \in 1..Len(again) |-> Single(again[i])]
               /\ pc' = "ladder"
               /\ pass' = Emptied /\ UNCHANGED box
<1>a. rec \in Records /\ pass \in Passes
  BY TypesNamed DEF RInv
<1> DEFINE fails == ToSet(p.fails)
           r == Noted(rec, ToSet(p.rows), fails)
           lost == {u \in fails : Len(p.rows) = 1 \/ r.noCounts[u] >= MsgRetries}
           again == Those(p.fails, fails \ lost)
           tail == [i \in 1..Len(again) |-> Single(again[i])]
<1>1. r \in Records /\ r.ladder = rec.ladder
  BY <1>a, NotedType
<1> HIDE DEF r
<1>2. lost \in SUBSET fails
  OBVIOUS
<1> HIDE DEF lost
<1>3. Forgotten(r, lost) \in Records /\ Forgotten(r, lost).ladder = r.ladder
  BY <1>1, ForgottenType
<1>4. /\ Complete /\ p.iso /\ GivenUp(lost) /\ pc' = "ladder" /\ pass' = Emptied /\ UNCHANGED box
      /\ rec' = [Forgotten(r, lost) EXCEPT !.ladder = Tail(@) \o tail]
  BY DEF LadderPassEnds, r, lost
<1>5. p.fails \in Seq(UID)
  BY <1>a DEF Passes, p
<1>6. again \in Seq(UID)
  BY <1>5, ThoseOfSet
<1> HIDE DEF again
<1>7. tail \in Seq(Entries)
  BY <1>6, SinglesApart
<1> HIDE DEF tail
<1>8. rec.ladder # <<>>
  BY <1>4 DEF RInv, LadderRows, Complete, Passing
<1>9. rec.ladder \in Seq(Entries)
  BY <1>a DEF Records
<1>10. Tail(rec.ladder) \o tail \in Seq(Entries)
  BY <1>7, <1>8, <1>9, LadderSplit, LaddersJoined
<1> DEFINE l == Tail(rec.ladder) \o tail
<1>11. rec' = [Forgotten(r, lost) EXCEPT !.ladder = l]
  BY <1>1, <1>3, <1>4
<1> HIDE DEF l
<1>12. rec' \in Records /\ rec'.ladder = l
  BY <1>3, <1>10, <1>11, ShorterType DEF l
<1> QED
  BY <1>2, <1>4, <1>8, <1>12 DEF l, tail, again, fails

\* A message is given up only if the pass was its alone.
LEMMA PassBreaksShape ==
  ASSUME RInv, PassBreaks
  PROVE  \E lost \in SUBSET UID :
           /\ pc = "broken"
           /\ lost = {} \/ (lost = {p.rows[1]} /\ Len(p.rows) = 1 /\ p.iso)
           /\ GivenUp(lost)
           /\ rec' \in Records
           /\ Distinct(rec.ladder) => Distinct(rec'.ladder)
           /\ pc' = "trouble"
           /\ pass' = Emptied /\ UNCHANGED <<box, run>>
<1>a. rec \in Records /\ pass \in Passes /\ Typed
  BY TypesNamed DEF RInv
<1> DEFINE entry == Head(rec.ladder)
           spent == /\ Blames /\ p.iso /\ Len(p.rows) = 1
                    /\ Tried(entry).tries >= BatchAttempts
           lost == IF spent THEN {p.rows[1]} ELSE {}
           r == IF ~p.iso THEN rec
                ELSE [Forgotten(rec, lost) EXCEPT
                        !.isoLosses = @ + 1,
                        !.ladder = IF Blames THEN Climbed(entry, Tail(@)) ELSE @]
<1>1. pc = "broken" /\ pc' = "trouble" /\ GivenUp(lost) /\ pass' = Emptied /\ UNCHANGED <<box, run>>
  BY DEF PassBreaks
<1>2. rec' = IF Blames THEN Blamed(r, In({"inflight"}) \ (p.batch \union lost)) ELSE r
  BY DEF PassBreaks
<1>3. lost = {} \/ (lost = {p.rows[1]} /\ Len(p.rows) = 1 /\ p.iso)
  OBVIOUS
<1>4. p.rows \in Seq(UID) /\ p.rows # <<>> /\ IsInjective(p.rows)
  <2>1. p.rows \in Seq(UID)
    BY <1>a DEF Passes, p
  <2>2. IsInjective(p.rows) /\ \E u \in ToSet(p.rows) : Flushed[u] \in Open
    BY <1>1 DEF RInv, BrokenRows
  <2> QED
    BY <2>1, <2>2, NothingIn
<1>5. lost \in SUBSET UID
  <2>1. DOMAIN p.rows = 1..Len(p.rows) /\ Len(p.rows) \in Nat
    BY <1>4, LenProperties
  <2>2. Len(p.rows) = 1 => p.rows[1] \in UID
    BY <1>4, <2>1, ItemIsIn
  <2> QED
    BY <1>3, <2>2
<1> HIDE DEF lost
<1>6. r \in Records /\ (Distinct(rec.ladder) => Distinct(r.ladder))
  <2>1. CASE ~p.iso
    BY <1>a, <2>1
  <2>2. CASE p.iso
    <3>1. rec.ladder \in Seq(Entries) /\ rec.ladder # <<>>
      BY <1>a, <1>1, <2>2 DEF Records, RInv, LadderRows
    <3>2. entry \in Entries /\ Tail(rec.ladder) \in Seq(Entries)
      BY <3>1, LadderSplit
    <3>3. ToSet(p.rows) \subseteq ToSet(entry.uids)
      BY <1>1, <2>2 DEF RInv, LadderRows
    <3> DEFINE climbed == Climbed(entry, Tail(rec.ladder))
    <3>4. /\ climbed \in Seq(Entries)
          /\ Distinct(rec.ladder) => Distinct(climbed)
      BY <1>a, <1>1, <1>4, <3>1, <3>2, <3>3, ClimbedType, LadderSplit DEF p
    <3> HIDE DEF climbed, entry
    <3>5. Forgotten(rec, lost) \in Records /\ Forgotten(rec, lost).ladder = rec.ladder
      BY <1>a, ForgottenType
    <3> DEFINE f == Forgotten(rec, lost)
    <3>6. f.isoLosses + 1 \in Nat
      BY <3>5 DEF Records
    <3>7. PICK n \in Nat : n = f.isoLosses + 1
      BY <3>6
    <3>8. r = [f EXCEPT !.isoLosses = n, !.ladder = IF Blames THEN climbed ELSE rec.ladder]
      BY <2>2, <3>5, <3>7 DEF climbed, entry
    <3> HIDE DEF r, f
    <3>9. CASE Blames
      BY <3>4, <3>5, <3>8, <3>9 DEF Records, f
    <3>10. CASE ~Blames
      BY <3>1, <3>5, <3>8, <3>10 DEF Records, f
    <3> QED
      BY <3>9, <3>10
  <2> QED
    BY <2>1, <2>2
<1> HIDE DEF r
<1>7. In({"inflight"}) \ (p.batch \union lost) \in SUBSET UID
  BY DEF In
<1>8. /\ Blamed(r, In({"inflight"}) \ (p.batch \union lost)) \in Records
      /\ Distinct(r.ladder) => Distinct(Blamed(r, In({"inflight"}) \ (p.batch \union lost)).ladder)
  BY <1>a, <1>6, <1>7, BlamedType
<1>9. rec' \in Records /\ (Distinct(rec.ladder) => Distinct(rec'.ladder))
  BY <1>2, <1>6, <1>8
<1> QED
  BY <1>1, <1>3, <1>5, <1>9

LEMMA TypedEnds ==
  ASSUME RInv, MainPassEnds \/ LadderPassEnds \/ PassBreaks
  PROVE  Typed'
<1>t. Typed
  BY DEF RInv
<1>a. /\ row \in [UID -> RowStates] /\ count \in Counts /\ rec \in Records /\ pass \in Passes
      /\ box \in SUBSET {u \in UID : Kind[u] = "good"}
      /\ Flushed \in [UID -> RowStates] /\ Emptied \in Passes
  BY <1>t, TypesNamed, EmptiedType
<1>n. Typed' <=> /\ row' \in [UID -> RowStates]
                 /\ box' \in SUBSET {u \in UID : Kind[u] = "good"}
                 /\ count' \in Counts /\ rec' \in Records /\ pass' \in Passes
  BY DEF Typed, Counts, Records, Passes
<1>f. p.fails \in Seq(UID) /\ p.no + 1 \in Nat
  <2>1. p.fails \in Seq(UID) /\ p.no \in Nat
    BY <1>a DEF Passes, p
  <2> QED
    BY <2>1
<1>g. ToSet(p.fails) \in SUBSET UID
  BY <1>f DEF ToSet
<1>h. \A us \in SUBSET UID : GivenUp(us) => row' \in [UID -> RowStates] /\ count' \in Counts
  BY <1>t, GivenUpType
<1>1. CASE MainPassEnds
  <2>1. /\ rec' \in Records /\ UNCHANGED box
        /\ \/ StartPass(FALSE, p.no + 1, p.fails) /\ row' = Flushed /\ UNCHANGED count
           \/ GivenUp(ToSet(p.fails)) /\ pass' = Emptied
    BY <1>1, MainPassShape
  <2>2. StartPass(FALSE, p.no + 1, p.fails) => pass' \in Passes
    BY <1>t, <1>f, StartPassShape
  <2> QED
    BY <1>n, <1>a, <1>g, <1>h, <2>1, <2>2
<1>2. CASE LadderPassEnds
  <2>1. PICK lost \in SUBSET ToSet(p.fails) :
           GivenUp(lost) /\ rec' \in Records /\ pass' = Emptied /\ UNCHANGED box
    BY <1>2, LadderPassShape
  <2> QED
    BY <1>n, <1>a, <1>g, <1>h, <2>1
<1>3. CASE PassBreaks
  <2>1. PICK lost \in SUBSET UID : GivenUp(lost) /\ rec' \in Records /\ pass' = Emptied /\ UNCHANGED box
    BY <1>3, PassBreaksShape
  <2> QED
    BY <1>n, <1>a, <1>h, <2>1
<1> QED
  BY <1>1, <1>2, <1>3

\* A pass that is over has written its batch.
LEMMA Written ==
  ASSUME Typed, pass'.batch = {}
  PROVE  /\ Batched'
         /\ row' = Flushed => Flushed' = Flushed
         /\ \A us : GivenUp(us) =>
              Flushed' = [u \in UID |-> IF u \in us THEN "failed" ELSE Flushed[u]]
<1>1. Batched'
  BY DEF Batched
<1>2. row' \in [UID -> RowStates] => Flushed' = row'
  BY DEF Flushed, p
<1>3. row' = Flushed => Flushed' = Flushed
  BY <1>2, TypesNamed
<1>4. ASSUME NEW us, GivenUp(us)
      PROVE  Flushed' = [u \in UID |-> IF u \in us THEN "failed" ELSE Flushed[u]]
  <2>1. row' = [u \in UID |-> IF u \in us THEN "failed" ELSE Flushed[u]]
    BY <1>4 DEF GivenUp
  <2>2. row' \in [UID -> RowStates]
    BY <2>1, TypesNamed DEF RowStates
  <2> QED
    BY <1>2, <2>1, <2>2
<1> QED
  BY <1>1, <1>3, <1>4

LEMMA TypedStep == RInv /\ [Next]_vars => Typed'
<1> SUFFICES ASSUME RInv, [Next]_vars
             PROVE  Typed'
  OBVIOUS
<1>1. CASE Rests
  BY <1>1 DEF RInv, Typed, Rests
<1>2. CASE UNCHANGED vars
  BY <1>1, <1>2 DEF vars, Rests
<1> QED
  BY <1>1, <1>2, WhoRests, TypedSession, TypedPass, TypedEnds DEF Next, Runner, Breaks

-------------------------------------------------------------------------------
(* Steps beside the session *)

\* The invariant, apart from the types.
Rest ==
  /\ Answers /\ PassRows /\ BrokenRows /\ LadderApart /\ LadderRows
  /\ Held /\ RunTyped /\ NoneLeft /\ DoneIsGood /\ FailedIsCounted

\* What a step keeps that goes nowhere near a pass.
LEMMA AwayFromPasses ==
  ASSUME RInv, UNCHANGED Flushed,
         pc' \in {"list", "reopened", "open", "retry", "connect", "ended",
                 "trouble", "last", "reconnect"}
  PROVE  PassRows' /\ BrokenRows' /\ LadderRows' /\ Held' /\ DoneIsGood'
<1>1. pc' \notin Passing \union {"broken", "ladder", "main", "scan", "adopt"}
  BY DEF Passing
<1>2. PassRows' /\ BrokenRows' /\ LadderRows'
  BY <1>1 DEF PassRows, BrokenRows, LadderRows, Passing
<1>3. Held'
  BY <1>1 DEF Held, Passing
<1>4. DoneIsGood'
  BY DEF RInv, DoneIsGood
<1> QED
  BY <1>2, <1>3, <1>4

\* The steps of others than the runner, and those of the runner that only wait.
LEMMA OthersKeep ==
  ASSUME RInv, CutSrc \/ WatchdogSrc \/ WatchdogDst \/ Supervisor \/ TogglePause \/ UNCHANGED vars
  PROVE  Rest'
<1>1. UNCHANGED <<pc, run>> /\ Rests
  BY WhoRests DEF CutSrc, WatchdogSrc, WatchdogDst, Supervisor, Elapse, Observe, Act,
                  TogglePause, vars, work, Rests
<1>2. UNCHANGED <<pc, run, Flushed, count, rec, pass>>
  BY <1>1, RowsStay DEF Rests, Unwritten
<1>3. UNCHANGED <<InHand, Taken, Unsettled, OnLadder>> /\ \A states : UNCHANGED Is(states)
  BY <1>2 DEF InHand, Item, Taken, Unsettled, OnLadder, Is, p
<1>4. Answers' /\ LadderApart' /\ DoneIsGood' /\ FailedIsCounted'
  BY <1>2, <1>3 DEF RInv, Answers, LadderApart, DoneIsGood, FailedIsCounted
<1>5. PassRows' /\ BrokenRows'
  BY <1>2, <1>3 DEF RInv, PassRows, BrokenRows, p
<1>6. LadderRows' /\ Held'
  BY <1>2, <1>3 DEF RInv, LadderRows, Held, p
<1>7. RunTyped' /\ NoneLeft'
  BY <1>2, <1>3 DEF RInv, RunTyped, NoneLeft
<1> QED
  BY <1>4, <1>5, <1>6, <1>7 DEF Rest

\* The steps of the runner from one attempt to the next.
LEMMA AttemptsKeep ==
  ASSUME RInv, OpenPair \/ FailAttempt \/ Retry \/ EndMailbox \/ OpenFolderFails
                 \/ Ready \/ Trouble \/ Requeue
  PROVE  Rest'
<1>0. UNCHANGED Flushed
  BY RowsStay DEF Unwritten
<1>1. /\ pc' \in {"list", "reopened", "open", "retry", "connect", "ended", "trouble", "last",
                 "reconnect"}
      /\ count'.failed = count.failed
      /\ rec' = rec \/ rec' = NewRec
      /\ (pass' = pass /\ pc \notin Passing \union {"broken", "trouble"}) \/ pass' = NoPass
  <2>1. CASE OpenPair
    BY <2>1 DEF OpenPair, Passing
  <2>2. CASE FailAttempt
    BY <2>2 DEF FailAttempt, Passing
  <2>3. CASE Retry
    BY <2>3 DEF Retry, Passing
  <2>4. CASE EndMailbox
    BY <2>4 DEF EndMailbox, Passing
  <2>5. CASE OpenFolderFails
    BY <2>5 DEF OpenFolderFails, Passing
  <2>6. CASE Ready
    BY <2>6 DEF Ready
  <2>7. CASE Trouble
    BY <2>7 DEF Trouble
  <2>8. CASE Requeue
    <3>1. count \in Counts
      BY TypesNamed DEF RInv
    <3> QED
      BY <2>8, <3>1 DEF Requeue, Counts
  <2> QED
    BY <2>1, <2>2, <2>3, <2>4, <2>5, <2>6, <2>7, <2>8
<1>2. PassRows' /\ BrokenRows' /\ LadderRows' /\ Held' /\ DoneIsGood'
  BY <1>0, <1>1, AwayFromPasses
<1>3. Answers'
  <2>1. CASE pass' = pass /\ pc \notin Passing \union {"broken", "trouble"}
    BY <2>1 DEF RInv, Answers
  <2>2. CASE pass' = NoPass
    <3>1. pass'.pend = <<>> /\ pass'.replies = <<>>
      BY <2>2 DEF NoPass
    <3>2. Len(<<>>) = 0 /\ DOMAIN <<>> = {}
      OBVIOUS
    <3> QED
      BY <3>1, <3>2 DEF Answers
  <2> QED
    BY <1>1, <2>1, <2>2
<1>4. LadderApart'
  BY <1>1, EmptyLadder DEF RInv, LadderApart, NewRec
<1>5. FailedIsCounted'
  BY <1>0, <1>1 DEF RInv, FailedIsCounted, Is
<1>6. RunTyped' /\ NoneLeft'
  <2>1. /\ run.gaveUp => pc \in {"last", "ended"}
        /\ pc # "ended" => run.status \in {"RUNNING", "RETRYING"}
        /\ pc = "last" /\ ~run.gaveUp => Is(Open) = {}
        /\ pc = "ended" /\ run.status \in {"SUCCESS", "WARNINGS"} => Is(Open) = {}
        /\ pc = "ended" /\ run.status = "SUCCESS" => Is({"failed"}) = {}
    BY DEF RInv, NoneLeft
  <2>2. RunTyped /\ Is(Open)' = Is(Open) /\ Is({"failed"})' = Is({"failed"})
    BY <1>0 DEF RInv, Is
  <2>3. CASE OpenPair \/ OpenFolderFails
    BY <2>1, <2>2, <2>3 DEF OpenPair, OpenFolderFails, RunTyped, NoneLeft
  <2>4. CASE FailAttempt
    BY <2>1, <2>2, <2>4 DEF FailAttempt, RunTyped, NoneLeft
  <2>5. CASE Retry
    <3>1. run.attempt + 1 \in Nat
      BY <2>2 DEF RunTyped
    <3>2. PICK n \in Nat : n = run.attempt + 1
      BY <3>1
    <3>3. run' = [run EXCEPT !.status = "RUNNING", !.attempt = n] /\ pc = "retry" /\ pc' = "connect"
      BY <2>5, <3>2 DEF Retry
    <3> QED
      BY <2>1, <2>2, <3>3 DEF RunTyped, NoneLeft
  <2>6. CASE EndMailbox
    <3>1. \E st \in {"PARTIAL", "FAILED", "WARNINGS", "SUCCESS"} :
            /\ run' = [run EXCEPT !.status = st]
            /\ st \in {"WARNINGS", "SUCCESS"} => ~run.gaveUp
            /\ st = "SUCCESS" => Is({"failed"}) = {}
      <4>1. In({"failed"}) = Is({"failed"})
        BY <2>6, Between DEF EndMailbox, Passing
      <4> QED
        BY <2>6, <4>1 DEF EndMailbox
    <3>2. pc = "last" /\ pc' = "ended"
      BY <2>6 DEF EndMailbox
    <3> QED
      BY <2>1, <2>2, <3>1, <3>2 DEF RunTyped, NoneLeft
  <2>7. CASE Ready
    BY <2>1, <2>2, <2>7 DEF Ready, RunTyped, NoneLeft
  <2>8. CASE Trouble
    <3>1. run.rc + 1 \in Nat
      BY <2>2 DEF RunTyped
    <3>2. PICK n \in Nat : n = run.rc + 1
      BY <3>1
    <3>3. /\ pc = "trouble"
          /\ \/ pc' = "ended" /\ run' = [run EXCEPT !.status = "STALE"]
             \/ pc' = "reconnect" /\ run' = run
             \/ pc' = "last" /\ run' = [run EXCEPT !.rc = n, !.gaveUp = TRUE]
             \/ pc' = "reconnect" /\ run' = [run EXCEPT !.rc = n]
      BY <2>8, <3>2 DEF Trouble
    <3> QED
      BY <2>1, <2>2, <3>3 DEF RunTyped, NoneLeft
  <2>9. CASE Requeue
    BY <2>1, <2>2, <2>9 DEF Requeue, RunTyped, NoneLeft
  <2> QED
    BY <2>3, <2>4, <2>5, <2>6, <2>7, <2>8, <2>9
<1> QED
  BY <1>2, <1>3, <1>4, <1>5, <1>6 DEF Rest

-------------------------------------------------------------------------------
(* Steps of a session *)

LEMMA PassBegins ==
  ASSUME NEW iso \in BOOLEAN, NEW rows \in Seq(UID), Fresh(iso, rows), pc' = "fill",
         UNCHANGED Flushed, rows # <<>>, IsInjective(rows),
         \A u \in ToSet(rows) : Flushed[u] \in Open
  PROVE  Answers' /\ PassRows' /\ BrokenRows'
<1>1. /\ p'.rows = rows /\ p'.taken = 0 /\ p'.fetched = 0
      /\ p'.pend = <<>> /\ p'.replies = <<>> /\ p'.fails = <<>>
  BY DEF Fresh, p
<1>2. Len(<<>>) = 0 /\ DOMAIN <<>> = {} /\ ToSet(<<>>) = {} /\ IsInjective(<<>>)
  BY NothingIn
<1>3. Answers'
  BY <1>1, <1>2 DEF Answers, Passing, p
<1>4. BrokenRows'
  BY DEF BrokenRows
<1>5. InHand' = {} /\ Taken' = {} /\ Unsettled' = {}
  <2>1. InHand' = {}
    BY DEF InHand
  <2>2. Taken' = {}
    BY <1>1 DEF Taken
  <2> QED
    BY <1>1, <1>2, <2>1, <2>2 DEF Unsettled
<1>6. DOMAIN rows = 1..Len(rows) /\ Len(rows) \in Nat
  BY LenProperties
<1>7. \A i \in DOMAIN rows : rows[i] \in ToSet(rows)
  BY DEF ToSet
<1>8. PassRows'
  <2>1. /\ p'.rows # <<>> /\ IsInjective(p'.rows)
        /\ p'.taken <= p'.fetched /\ p'.fetched <= Len(p'.rows)
        /\ IsInjective(p'.pend) /\ IsInjective(p'.fails)
        /\ ToSet(p'.pend) \intersect ToSet(p'.fails) = {}
    BY <1>1, <1>2, <1>6
  <2>2. \A i \in DOMAIN p'.rows : Flushed'[p'.rows[i]] \in Open
    BY <1>1, <1>7
  <2> QED
    BY <1>1, <1>5, <2>1, <2>2 DEF PassRows
<1> QED
  BY <1>3, <1>4, <1>8

LEMMA ReconcileKeeps ==
  ASSUME RInv, Reconcile
  PROVE  Rest'
<1>a. /\ Flushed \in [UID -> RowStates] /\ count \in Counts
      /\ box \in SUBSET {u \in UID : Kind[u] = "good"}
  BY TypesNamed DEF RInv
<1>1. PICK arrived \in SUBSET UID :
           /\ arrived = Is({"inflight"}) \intersect box
           /\ Flushed' = After(arrived)
           /\ count' = [count EXCEPT !.adopted = @ + Cardinality(arrived)]
           /\ pc = "open" /\ pc' = "scan"
           /\ UNCHANGED <<run, box, rec, pass>>
  BY ReconcileShape
<1>3. Answers'
  BY <1>1 DEF RInv, Answers, Passing
<1>4. PassRows' /\ BrokenRows' /\ LadderRows'
  BY <1>1 DEF PassRows, BrokenRows, LadderRows, Passing
<1>5. LadderApart'
  BY <1>1 DEF RInv, LadderApart
<1>6. /\ Is({"inflight"})' = {} /\ Is({"failed"})' = Is({"failed"})
      /\ \A u \in UID : Flushed'[u] = "done" => Flushed[u] = "done" \/ u \in arrived
  BY <1>a, <1>1 DEF Is, After
<1>7. Held'
  BY <1>1, <1>6 DEF Held, Passing
<1>9. RunTyped' /\ NoneLeft'
  BY <1>1 DEF RInv, RunTyped, NoneLeft
<1>10. DoneIsGood'
  BY <1>a, <1>1, <1>6 DEF RInv, DoneIsGood
<1>11. FailedIsCounted'
  <2>1. count'.failed = count.failed
    BY <1>a, <1>1 DEF Counts
  <2> QED
    BY <1>6, <2>1 DEF RInv, FailedIsCounted
<1> QED
  BY <1>3, <1>4, <1>5, <1>7, <1>9, <1>10, <1>11 DEF Rest

LEMMA RefreshTotalsKeeps ==
  ASSUME RInv, RefreshTotals
  PROVE  Rest'
<1>a. count \in Counts
  BY TypesNamed DEF RInv
<1>1. UNCHANGED Flushed
  BY RowsStay DEF Unwritten
<1>2. pc = "scan" /\ pc' = "adopt" /\ UNCHANGED <<run, rec, pass>>
  BY DEF RefreshTotals
<1>3. count' = Baseline(count, Cardinality(In({"done"})))
  BY DEF RefreshTotals
<1>4. count'.failed = count.failed
  BY <1>a, <1>3 DEF Baseline, Counts
<1>5. Answers' /\ LadderApart' /\ PassRows' /\ BrokenRows' /\ LadderRows'
  BY <1>2 DEF RInv, Answers, LadderApart, PassRows, BrokenRows, LadderRows, Passing
<1>6. \A states : UNCHANGED Is(states)
  BY <1>1 DEF Is
<1>7. Held'
  BY <1>2, <1>6 DEF RInv, Held, Passing
<1>8. RunTyped' /\ NoneLeft'
  BY <1>2 DEF RInv, RunTyped, NoneLeft
<1>9. DoneIsGood' /\ FailedIsCounted'
  BY <1>1, <1>4, <1>6 DEF RInv, DoneIsGood, FailedIsCounted
<1> QED
  BY <1>5, <1>7, <1>8, <1>9 DEF Rest

LEMMA OpenFolderKeeps ==
  ASSUME RInv, OpenFolder
  PROVE  Rest'
<1>a. rec \in Records
  BY TypesNamed DEF RInv
<1>1. /\ rec' = rec \/ \E front \in Seq(UID) :
                           /\ IsInjective(front) /\ rec.ladder = <<>>
                           /\ rec' = [rec EXCEPT !.ladder = <<[uids |-> front, tries |-> 0]>>]
      /\ pc = "adopt" /\ pc' = IF rec'.ladder # <<>> THEN "ladder" ELSE "main"
      /\ UNCHANGED <<run, count, pass>>
  BY OpenFolderShape
<1>b. UNCHANGED Flushed
  BY RowsStay DEF Unwritten
<1>2. pc' \in {"ladder", "main"}
  BY <1>1
<1>3. Answers'
  BY <1>1, <1>2 DEF RInv, Answers, Passing
<1>4. PassRows' /\ BrokenRows' /\ LadderRows'
  BY <1>2 DEF PassRows, BrokenRows, LadderRows, Passing
<1>5. LadderApart'
  <2>1. CASE rec' = rec
    BY <2>1 DEF RInv, LadderApart
  <2>2. ASSUME NEW front \in Seq(UID), IsInjective(front),
               rec' = [rec EXCEPT !.ladder = <<[uids |-> front, tries |-> 0]>>]
        PROVE  LadderApart'
    <3> DEFINE e == [uids |-> front, tries |-> 0]
    <3>1. e \in Entries /\ e.uids = front
      BY DEF Entries
    <3>2. rec'.ladder = <<e>>
      BY <1>a, <2>2 DEF Records
    <3> HIDE DEF e
    <3> QED
      BY <2>2, <3>1, <3>2, OneEntry DEF LadderApart
  <2> QED
    BY <1>1, <2>1, <2>2
<1>6. \A states : UNCHANGED Is(states)
  BY <1>b DEF Is
<1>7. Held'
  <2>1. pc' = "main" => rec'.ladder = <<>>
    BY <1>1
  <2>2. Is({"inflight"}) = {}
    BY <1>1 DEF RInv, Held
  <2> QED
    BY <1>2, <1>6, <2>1, <2>2 DEF Held, Passing
<1>9. RunTyped' /\ NoneLeft'
  BY <1>1, <1>2 DEF RInv, RunTyped, NoneLeft
<1>10. DoneIsGood' /\ FailedIsCounted'
  BY <1>1, <1>b, <1>6 DEF RInv, DoneIsGood, FailedIsCounted
<1> QED
  BY <1>3, <1>4, <1>5, <1>7, <1>9, <1>10 DEF Rest

LEMMA StartEntryKeeps ==
  ASSUME RInv, StartEntry
  PROVE  Rest'
<1>a. /\ Flushed \in [UID -> RowStates] /\ rec \in Records /\ pass \in Passes /\ Typed
  BY TypesNamed DEF RInv
<1> DEFINE live == Those(Head(rec.ladder).uids, Is(Open))
<1>1. rec.ladder \in Seq(Entries) /\ rec.ladder # <<>>
  BY <1>a DEF StartEntry, Records
<1>2. /\ Head(rec.ladder) \in Entries /\ Tail(rec.ladder) \in Seq(Entries)
      /\ All(rec.ladder) = ToSet(Head(rec.ladder).uids) \union All(Tail(rec.ladder))
      /\ Distinct(rec.ladder) => /\ Distinct(Tail(rec.ladder))
                                 /\ IsInjective(Head(rec.ladder).uids)
  BY <1>1, LadderSplit
<1>3. Distinct(rec.ladder)
  BY DEF RInv, LadderApart
<1>4. /\ live \in Seq(UID) /\ IsInjective(live)
      /\ ToSet(live) = ToSet(Head(rec.ladder).uids) \intersect Is(Open)
  BY <1>2, <1>3, ThoseOfSet DEF Entries
<1>5. /\ pc = "ladder" /\ UNCHANGED <<Flushed, count, run>>
      /\ \/ live = <<>> /\ rec' = [rec EXCEPT !.ladder = Tail(@)] /\ UNCHANGED <<pc, pass>>
         \/ live # <<>> /\ StartPass(TRUE, 1, live) /\ rec' = rec
  <2>1. pc = "ladder" /\ UNCHANGED Flushed
    BY RowsStay DEF StartEntry, Unwritten
  <2>2. In(Open) = Is(Open)
    BY <2>1, Between DEF Passing
  <2> QED
    BY <2>1, <2>2 DEF StartEntry, Open
<1>6. RunTyped' /\ DoneIsGood' /\ FailedIsCounted'
  BY <1>5 DEF RInv, RunTyped, DoneIsGood, FailedIsCounted, Is
<1>7. CASE live = <<>>
  <2>1. rec'.ladder = Tail(rec.ladder) /\ pc' = "ladder" /\ pass' = pass
    BY <1>a, <1>2, <1>5, <1>7, ShorterType
  <2>2. Answers'
    BY <1>5, <2>1 DEF RInv, Answers
  <2>3. PassRows' /\ BrokenRows' /\ LadderRows'
    BY <2>1 DEF PassRows, BrokenRows, LadderRows, Passing
  <2>4. LadderApart'
    BY <1>2, <1>3, <2>1 DEF LadderApart
  <2>5. ToSet(Head(rec.ladder).uids) \intersect Is(Open) = {}
    BY <1>4, <1>7, NothingIn
  <2>6. Is({"inflight"})' \subseteq OnLadder'
    <3>1. Is({"inflight"}) \subseteq All(rec.ladder)
      BY <1>5 DEF RInv, Held, OnLadder
    <3>2. Is({"inflight"}) \subseteq Is(Open) /\ Is({"inflight"})' = Is({"inflight"})
      BY <1>5 DEF Is, Open
    <3> QED
      BY <1>2, <2>1, <2>5, <3>1, <3>2 DEF OnLadder
  <2>7. Held'
    BY <2>1, <2>6 DEF Held, Passing
  <2>8. NoneLeft'
    BY <1>5, <2>1 DEF RInv, NoneLeft
  <2> QED
    BY <1>6, <2>2, <2>3, <2>4, <2>7, <2>8 DEF Rest
<1>8. CASE live # <<>>
  <2>1. StartPass(TRUE, 1, live) /\ rec' = rec
    BY <1>5, <1>8
  <2> HIDE DEF live
  <2>2. Fresh(TRUE, live) /\ pc' = "fill"
    BY <1>a, <1>4, <2>1, StartPassShape
  <2>3. \A u \in ToSet(live) : Flushed[u] \in Open
    BY <1>4 DEF Is
  <2>4. Answers' /\ PassRows' /\ BrokenRows'
    BY <1>4, <1>5, <1>8, <2>2, <2>3, PassBegins
  <2>5. LadderApart'
    BY <1>3, <2>1 DEF LadderApart
  <2>6. LadderRows'
    <3>1. p'.rows = live
      BY <2>2 DEF Fresh, p
    <3>2. \A u \in ToSet(Head(rec.ladder).uids) : Flushed[u] \in Open => u \in ToSet(live)
      <4>1. ToSet(Head(rec.ladder).uids) \subseteq UID
        BY <1>2 DEF Entries, ToSet
      <4> QED
        BY <1>4, <4>1 DEF Is
    <3> QED
      BY <1>1, <1>4, <1>5, <2>1, <3>1, <3>2 DEF LadderRows
  <2>7. Held'
    <3>1. p'.iso /\ pc' = "fill"
      BY <2>2 DEF Fresh, p
    <3>2. Is({"inflight"})' \subseteq OnLadder'
      BY <1>5, <2>1 DEF RInv, Held, OnLadder, Is
    <3> QED
      BY <3>1, <3>2 DEF Held, Passing
  <2>8. NoneLeft'
    BY <1>5, <2>2 DEF RInv, NoneLeft
  <2> QED
    BY <1>6, <2>4, <2>5, <2>6, <2>7, <2>8 DEF Rest
<1> QED
  BY <1>7, <1>8

LEMMA LeaveLadderKeeps ==
  ASSUME RInv, LeaveLadder
  PROVE  Rest'
<1>a. rec \in Records
  BY TypesNamed DEF RInv
<1>1. /\ pc = "ladder" /\ pc' = "main" /\ rec.ladder = <<>> /\ rec'.ladder = <<>>
      /\ UNCHANGED <<Flushed, count, run, pass>>
  BY <1>a, RowsStay DEF LeaveLadder, Records, Unwritten
<1>2. Answers' /\ PassRows' /\ BrokenRows' /\ LadderRows'
  BY <1>1 DEF RInv, Answers, PassRows, BrokenRows, LadderRows, Passing
<1>3. LadderApart'
  BY <1>1, EmptyLadder DEF LadderApart
<1>4. Held'
  <2>1. Is({"inflight"}) = {}
    BY <1>1, EmptyLadder DEF RInv, Held, OnLadder
  <2> QED
    BY <1>1, <2>1 DEF Held, Passing, Is
<1>5. RunTyped' /\ NoneLeft' /\ DoneIsGood' /\ FailedIsCounted'
  BY <1>1 DEF RInv, RunTyped, NoneLeft, DoneIsGood, FailedIsCounted, Is
<1> QED
  BY <1>2, <1>3, <1>4, <1>5 DEF Rest

LEMMA StartMainKeeps ==
  ASSUME RInv, StartMain
  PROVE  Rest'
<1> DEFINE queue == Sorted(Is({"planned"}))
<1>a. Typed
  BY DEF RInv
<1>1. /\ pc = "main" /\ UNCHANGED <<Flushed, count, run, rec>>
      /\ \/ queue = <<>> /\ pc' = "last" /\ pass' = pass
         \/ queue # <<>> /\ StartPass(FALSE, 1, queue)
  <2>1. pc = "main" /\ UNCHANGED Flushed
    BY RowsStay DEF StartMain, Unwritten
  <2>2. In({"planned"}) = Is({"planned"})
    BY <2>1, Between DEF Passing
  <2> QED
    BY <2>1, <2>2 DEF StartMain
<1>2. queue \in Seq(UID) /\ IsInjective(queue) /\ ToSet(queue) = Is({"planned"})
  <2>1. Is({"planned"}) \in SUBSET UID
    BY DEF Is
  <2> QED
    BY <2>1, InOrder
<1> HIDE DEF queue
<1>3. rec.ladder = <<>> /\ Is({"inflight"}) = {}
  BY <1>1 DEF RInv, Held
<1>4. Is(Open) = ToSet(queue)
  BY <1>2, <1>3 DEF Is, Open
<1>5. LadderApart' /\ RunTyped' /\ DoneIsGood' /\ FailedIsCounted'
  BY <1>1 DEF RInv, LadderApart, RunTyped, DoneIsGood, FailedIsCounted, Is
<1>6. CASE queue = <<>> /\ pc' = "last" /\ pass' = pass
  <2>1. PassRows' /\ BrokenRows' /\ LadderRows' /\ Held'
    BY <1>1, <1>6, AwayFromPasses
  <2>2. Answers'
    BY <1>1, <1>6 DEF RInv, Answers, Passing
  <2>3. Is(Open)' = {}
    BY <1>1, <1>4, <1>6, NothingIn DEF Is
  <2>4. NoneLeft'
    BY <1>1, <1>6, <2>3 DEF RInv, NoneLeft
  <2> QED
    BY <1>5, <2>1, <2>2, <2>4 DEF Rest
<1>7. CASE queue # <<>> /\ StartPass(FALSE, 1, queue)
  <2>1. Fresh(FALSE, queue) /\ pc' = "fill"
    BY <1>a, <1>2, <1>7, StartPassShape
  <2>2. Answers' /\ PassRows' /\ BrokenRows'
    <3>1. \A u \in ToSet(queue) : Flushed[u] \in Open
      BY <1>4 DEF Is
    <3> QED
      BY <1>1, <1>2, <1>7, <2>1, <3>1, PassBegins
  <2>3. LadderRows' /\ Held'
    <3>1. ~p'.iso /\ p'.rows = queue /\ Is(Open)' = Is(Open)
      BY <1>1, <2>1 DEF Fresh, p, Is
    <3> QED
      BY <1>4, <2>1, <3>1 DEF LadderRows, Held, Passing
  <2>4. NoneLeft'
    BY <1>1, <2>1 DEF RInv, NoneLeft
  <2> QED
    BY <1>5, <2>2, <2>3, <2>4 DEF Rest
<1> QED
  BY <1>1, <1>6, <1>7

-------------------------------------------------------------------------------
(* Steps of a pass *)

\* What every step of a pass leaves as it is, and what it may do to the rows.
LEMMA PassGoesOn ==
  ASSUME RInv, pc \in Passing, pc' \in Passing \union {"broken"}, UNCHANGED <<rec, run>>,
         pass'.iso = pass.iso, pass'.rows = pass.rows,
         \A u \in UID : Flushed'[u] \in Open => Flushed[u] \in Open,
         \A u \in UID : Flushed'[u] = "inflight" => Flushed[u] = "inflight" \/ u \in ToSet(p.rows)
  PROVE  LadderApart' /\ LadderRows' /\ Held' /\ RunTyped' /\ NoneLeft'
<1>a. rec \in Records
  BY TypesNamed DEF RInv
<1>1. LadderApart' /\ RunTyped'
  BY DEF RInv, LadderApart, RunTyped
<1>2. NoneLeft'
  BY DEF RInv, NoneLeft, Passing
<1>3. p'.iso = p.iso /\ p'.rows = p.rows /\ OnLadder' = OnLadder
  BY DEF p, OnLadder
<1>4. p.iso => /\ rec.ladder # <<>>
               /\ ToSet(p.rows) \subseteq ToSet(Head(rec.ladder).uids)
               /\ \A u \in ToSet(Head(rec.ladder).uids) : Flushed[u] \in Open => u \in ToSet(p.rows)
  BY DEF RInv, LadderRows
<1>5. rec.ladder # <<>> => /\ Head(rec.ladder) \in Entries
                           /\ ToSet(Head(rec.ladder).uids) \subseteq OnLadder
  BY <1>a, LadderSplit DEF Records, OnLadder
<1>6. rec.ladder # <<>> => ToSet(Head(rec.ladder).uids) \subseteq UID
  BY <1>5 DEF Entries, ToSet
<1>7. LadderRows'
  BY <1>3, <1>4, <1>6 DEF LadderRows
<1>8. p.iso => Is({"inflight"})' \subseteq OnLadder'
  <2>1. p.iso => Is({"inflight"}) \subseteq OnLadder
    BY DEF RInv, Held
  <2> QED
    BY <1>3, <1>4, <1>5, <2>1 DEF Is
<1>9. ~p.iso => Is(Open)' \subseteq ToSet(p.rows)
  <2>1. ~p.iso => Is(Open) \subseteq ToSet(p.rows)
    BY DEF RInv, Held
  <2> QED
    BY <2>1 DEF Is
<1>10. Held'
  BY <1>3, <1>8, <1>9 DEF Held, Passing
<1> QED
  BY <1>1, <1>2, <1>7, <1>10

\* As long as a pass is under way nothing that it has is given up.
LEMMA NoneGivenUp ==
  ASSUME RInv, pc \in Passing
  PROVE  \A u \in ToSet(p.rows) : u \in UID /\ Flushed[u] # "failed"
<1> SUFFICES ASSUME NEW i \in DOMAIN p.rows
             PROVE  p.rows[i] \in UID /\ Flushed[p.rows[i]] # "failed"
  BY DEF ToSet
<1>1. p.rows \in Seq(UID) /\ p.taken \in Nat
  BY TypesNamed DEF RInv, Passes, p
<1>2. DOMAIN p.rows = 1..Len(p.rows) /\ p.rows[i] \in UID
  BY <1>1
<1>3. CASE i > p.taken
  BY <1>2, <1>3 DEF RInv, PassRows, Open
<1>4. CASE ~(i > p.taken)
  <2>1. i \in 1..p.taken
    BY <1>1, <1>2, <1>4
  <2>2. p.rows[i] \in Taken
    BY <2>1 DEF Taken
  <2> QED
    BY <1>2, <2>2 DEF RInv, PassRows
<1> QED
  BY <1>3, <1>4

\* The counters and the rows have not changed.
LEMMA NothingSettled ==
  ASSUME RInv, UNCHANGED <<Flushed, count>>
  PROVE  DoneIsGood' /\ FailedIsCounted' /\ \A states : Is(states)' = Is(states)
  BY DEF RInv, DoneIsGood, FailedIsCounted, Is

LEMMA FillKeeps ==
  ASSUME RInv, Fill
  PROVE  Rest'
<1>a. p.rows \in Seq(UID) /\ p.taken \in Nat /\ p.fetched \in Nat /\ pass \in Passes
  BY TypesNamed DEF RInv, Passes, p
<1>1. pc = "fill" /\ UNCHANGED <<Flushed, count, rec, run>>
  BY RowsStay DEF Fill, Unwritten
<1>2. pc \in Passing
  BY <1>1 DEF Passing
<1> DEFINE n == Min({Window, Len(p.rows)})
<1>3. n \in Nat /\ n <= Len(p.rows)
  <2>1. Window \in Nat /\ Len(p.rows) \in Nat
    BY <1>a, RecoveryAssumption, LenProperties
  <2> QED
    BY <2>1, TheLesser
<1>4. \/ pass' = [pass EXCEPT !.fetched = n] /\ pc' = "head"
      \/ pass' = pass /\ pc' = "broken"
  BY DEF Fill, p
<1> HIDE DEF n
<1>5. /\ p'.iso = p.iso /\ p'.rows = p.rows /\ p'.taken = p.taken
      /\ p'.pend = p.pend /\ p'.fails = p.fails /\ p'.replies = p.replies
      /\ pc' = "head" => p'.fetched = n
  BY <1>a, <1>4 DEF Passes, p
<1>6. DoneIsGood' /\ FailedIsCounted'
  BY <1>1, NothingSettled
<1>7. LadderApart' /\ LadderRows' /\ Held' /\ RunTyped' /\ NoneLeft'
  BY <1>1, <1>2, <1>4, <1>5, PassGoesOn DEF Passing, p
<1>8. Answers'
  BY <1>1, <1>2, <1>4, <1>5 DEF RInv, Answers, Passing, p
<1>r. /\ p.rows # <<>> /\ IsInjective(p.rows) /\ p.taken = 0
      /\ \A i \in DOMAIN p.rows : i > p.taken => Flushed[p.rows[i]] \in Open
  BY <1>1, <1>2 DEF RInv, PassRows
<1>9. BrokenRows'
  <2>1. 1 \in DOMAIN p.rows
    BY <1>a, <1>r, LenProperties, EmptySeq
  <2>2. Flushed[p.rows[1]] \in Open /\ p.rows[1] \in ToSet(p.rows)
    BY <1>r, <2>1 DEF ToSet
  <2>3. \A u \in ToSet(p.rows) : Flushed[u] # "failed"
    BY <1>2, NoneGivenUp
  <2> QED
    BY <1>1, <1>5, <1>r, <2>2, <2>3 DEF BrokenRows
<1>10. PassRows'
  <2>1. InHand' = InHand /\ Taken' = Taken /\ Unsettled' = Unsettled
    BY <1>1, <1>4, <1>5 DEF InHand, Taken, Unsettled
  <2>2. pc' = "head" => p'.taken <= p'.fetched /\ p'.fetched <= Len(p'.rows)
    BY <1>3, <1>5, <1>r
  <2>3. PassRows
    BY DEF RInv
  <2> QED
    BY <1>1, <1>2, <1>4, <1>5, <2>1, <2>2, <2>3 DEF PassRows, Passing
<1> QED
  BY <1>6, <1>7, <1>8, <1>9, <1>10 DEF Rest

\* What is taken is in flight; what is in the batch stays there.
LEMMA TakenRows ==
  ASSUME RInv, Take
  PROVE  /\ \A u \in UID :
              Flushed'[u] = IF u \in {p.rows[i] : i \in 1..p.fetched} /\ Flushed[u] = "planned"
                            THEN "inflight" ELSE Flushed[u]
         /\ Batched'
<1>a. pass \in Passes /\ row \in [UID -> RowStates] /\ Batched
  BY TypesNamed DEF RInv
<1>1. pass'.batch = pass.batch
  BY <1>a DEF Take, Passes, p
<1>2. pc \in Passing /\ pc' \in Passing \union {"broken"}
  BY DEF Take, Passing
<1>3. row' = [u \in UID |-> IF u \in {p.rows[i] : i \in 1..p.fetched} /\ row[u] = "planned"
                           THEN "inflight" ELSE row[u]]
  BY DEF Take
<1> DEFINE fetched == {p.rows[i] : i \in 1..p.fetched}
<1> HIDE DEF fetched
<1>4. \A u \in UID : row'[u] = IF u \in fetched /\ row[u] = "planned" THEN "inflight" ELSE row[u]
  BY <1>3 DEF fetched
<1>5. \A u \in pass.batch : row[u] = "inflight" /\ u \in UID
  BY <1>a DEF Batched, Passes
<1>6. /\ \A u \in UID : Flushed[u] = IF u \in pass.batch THEN "done" ELSE row[u]
      /\ \A u \in UID : Flushed'[u] = IF u \in pass.batch THEN "done" ELSE row'[u]
  BY <1>1 DEF Flushed, p
<1>7. \A u \in UID : Flushed'[u] = IF u \in fetched /\ Flushed[u] = "planned" THEN "inflight"
                                  ELSE Flushed[u]
  BY <1>4, <1>6
<1>8. Batched'
  BY <1>1, <1>2, <1>4, <1>5 DEF Batched
<1> QED
  BY <1>7, <1>8 DEF fetched

LEMMA TakeKeeps ==
  ASSUME RInv, Take
  PROVE  Rest'
<1>a. /\ p.rows \in Seq(UID) /\ p.taken \in Nat /\ p.fetched \in Nat /\ pass \in Passes
      /\ Flushed \in [UID -> RowStates]
  BY TypesNamed DEF RInv, Passes, p
<1>1. pc = "head" /\ UNCHANGED <<box, count, rec, run>> /\ p.taken < p.fetched
  BY DEF Take
<1>2. pc \in Passing
  BY <1>1 DEF Passing
<1>r. PassRows
  BY DEF RInv
<1>3. PICK n \in Nat, m \in Nat : n = p.taken + 1 /\ m = p.fetched + 1
  BY <1>a
<1>4. /\ pc' \in {"body", "broken"}
      /\ \/ pass' = [pass EXCEPT !.taken = n, !.fetched = m] /\ p.fetched < Len(p.rows)
         \/ pass' = [pass EXCEPT !.taken = n, !.fetched = pass.fetched]
         \/ pass' = [pass EXCEPT !.taken = n]
  BY <1>3 DEF Take, p
<1>5. /\ p'.iso = p.iso /\ p'.rows = p.rows /\ p'.taken = n
      /\ p'.pend = p.pend /\ p'.fails = p.fails /\ p'.replies = p.replies
      /\ p'.fetched = p.fetched \/ (p'.fetched = m /\ p.fetched < Len(p.rows))
  BY <1>a, <1>4 DEF Passes, p
<1>6. Len(p.rows) \in Nat /\ p.fetched <= Len(p.rows) /\ DOMAIN p.rows = 1..Len(p.rows)
  BY <1>a, <1>2, <1>r, LenProperties DEF PassRows
<1>7. n \in 1..Len(p.rows) /\ n \in 1..p.fetched /\ n > p.taken
  BY <1>a, <1>1, <1>3, <1>6
<1> DEFINE item == p.rows[n]
<1>8. item \in UID /\ item \in ToSet(p.rows) /\ Flushed[item] \in Open /\ Item' = item
  BY <1>a, <1>2, <1>5, <1>6, <1>7, <1>r, ItemIsIn DEF PassRows, Item
<1>9. \A u \in UID : Flushed'[u] = IF u \in {p.rows[i] : i \in 1..p.fetched} /\ Flushed[u] = "planned"
                               THEN "inflight" ELSE Flushed[u]
  BY TakenRows
<1>10. {p.rows[i] : i \in 1..p.fetched} \subseteq ToSet(p.rows)
  BY <1>a, <1>6 DEF ToSet
<1>11. /\ \A u \in UID : Flushed'[u] \in Open <=> Flushed[u] \in Open
       /\ \A u \in UID : Flushed'[u] = "inflight" => Flushed[u] = "inflight" \/ u \in ToSet(p.rows)
       /\ \A u \in UID : Flushed[u] = "inflight" => Flushed'[u] = "inflight"
       /\ \A u \in UID : Flushed'[u] = "done" <=> Flushed[u] = "done"
       /\ \A u \in UID : Flushed'[u] = "failed" <=> Flushed[u] = "failed"
       /\ Flushed'[item] = "inflight"
  BY <1>7, <1>8, <1>9, <1>10 DEF Open
<1>12. LadderApart' /\ LadderRows' /\ Held' /\ RunTyped' /\ NoneLeft'
  BY <1>1, <1>2, <1>4, <1>5, <1>11, PassGoesOn DEF Passing, p
<1>13. DoneIsGood' /\ FailedIsCounted'
  BY <1>1, <1>11 DEF RInv, DoneIsGood, FailedIsCounted, Is
<1>14. Answers'
  BY <1>2, <1>4, <1>5 DEF RInv, Answers, Passing, p
<1>15. BrokenRows'
  <2>1. \A u \in ToSet(p.rows) : u \in UID /\ Flushed[u] # "failed"
    BY <1>2, NoneGivenUp
  <2>2. IsInjective(p.rows)
    BY <1>2, <1>r DEF PassRows
  <2> QED
    BY <1>5, <1>8, <1>11, <2>1, <2>2 DEF BrokenRows, Open
<1>16. PassRows'
  <2> SUFFICES ASSUME pc' = "body"
               PROVE  PassRows'
    BY <1>4 DEF PassRows, Passing
  <2>1. InHand = {} /\ InHand' = {item}
    BY <1>1, <1>8 DEF InHand
  <2>2. Taken' = Taken \union {item}
    <3>1. \A i : i \in 1..n <=> i \in 1..p.taken \/ i = n
      BY <1>a, <1>3
    <3> QED
      BY <1>5, <3>1 DEF Taken
  <2>3. item \notin Taken
    <3>1. \A i \in 1..p.taken : i # n /\ i \in DOMAIN p.rows /\ n \in DOMAIN p.rows
      BY <1>a, <1>3, <1>6, <1>7
    <3>2. IsInjective(p.rows)
      BY <1>2, <1>r DEF PassRows
    <3> QED
      BY <3>1, <3>2 DEF Taken, IsInjective
  <2>4. Unsettled \subseteq Taken /\ Unsettled' = Unsettled \union {item}
    BY <1>2, <1>5, <1>r, <2>1 DEF PassRows, Unsettled
  <2>5. Taken \subseteq UID
    BY <1>a, <1>1, <1>6 DEF Taken
  <2>6. /\ \A u \in Unsettled' : Flushed'[u] = "inflight"
        /\ \A u \in Taken' \ Unsettled' : Flushed'[u] = "done"
    <3>1. /\ \A u \in Unsettled : Flushed[u] = "inflight"
          /\ \A u \in Taken \ Unsettled : Flushed[u] = "done"
      BY <1>2, <1>r DEF PassRows
    <3> QED
      BY <1>11, <2>2, <2>4, <2>5, <3>1
  <2>7. \A i \in DOMAIN p.rows : i > n => Flushed'[p.rows[i]] \in Open
    <3>1. \A i \in DOMAIN p.rows : p.rows[i] \in UID /\ (i > n => i > p.taken)
      BY <1>a, <1>3, <1>6
    <3>2. \A i \in DOMAIN p.rows : i > p.taken => Flushed[p.rows[i]] \in Open
      BY <1>2, <1>r DEF PassRows
    <3> QED
      BY <1>11, <3>1, <3>2
  <2>8. n <= p'.fetched /\ p'.fetched <= Len(p.rows) /\ n > 0
    BY <1>a, <1>1, <1>3, <1>5, <1>6
  <2>9. item \notin ToSet(p.pend) \union ToSet(p.fails)
    BY <2>3, <2>4 DEF Unsettled
  <2>10. /\ p.rows # <<>> /\ IsInjective(p.rows) /\ IsInjective(p.pend) /\ IsInjective(p.fails)
         /\ ToSet(p.pend) \intersect ToSet(p.fails) = {}
    BY <1>2, <1>r DEF PassRows
  <2>11. Unsettled' \subseteq Taken'
    BY <2>2, <2>4
  <2> HIDE DEF item
  <2> QED
    BY <1>5, <2>1, <2>6, <2>7, <2>8, <2>9, <2>10, <2>11 DEF PassRows
<1> QED
  BY <1>12, <1>13, <1>14, <1>15, <1>16 DEF Rest

LEMMA BodyKeeps ==
  ASSUME RInv, Body
  PROVE  Rest'
<1>a. /\ p.rows \in Seq(UID) /\ p.fails \in Seq(UID) /\ pass \in Passes /\ Typed /\ PassRows
  BY TypesNamed DEF RInv, Passes, p
<1>1. pc = "body" /\ UNCHANGED <<Flushed, count, rec, run>>
  BY RowsStay DEF Body, Unwritten
<1>2. pc \in Passing
  BY <1>1 DEF Passing
<1>3. \/ pc' \in {"append", "broken"} /\ pass' = [pass EXCEPT !.phase = "fetch"]
      \/ pc' = "head" /\ pass' = [pass EXCEPT !.phase = "fetch", !.fails = Append(@, Item)]
  BY DEF Body, p
<1>4. /\ p'.iso = p.iso /\ p'.rows = p.rows /\ p'.taken = p.taken /\ p'.fetched = p.fetched
      /\ p'.pend = p.pend /\ p'.replies = p.replies
      /\ pc' \in {"append", "broken"} => p'.fails = p.fails
      /\ pc' = "head" => p'.fails = Append(p.fails, Item)
  BY <1>a, <1>3 DEF Passes, p
<1>5. Item \in UID /\ Item \in ToSet(p.rows) /\ Item' = Item
  BY <1>a, <1>1, <1>4, ItemInHand DEF Item
<1>6. LadderApart' /\ LadderRows' /\ Held' /\ RunTyped' /\ NoneLeft'
  BY <1>1, <1>2, <1>3, <1>4, PassGoesOn DEF Passing, p
<1>7. DoneIsGood' /\ FailedIsCounted'
  BY <1>1, NothingSettled
<1>8. Answers'
  BY <1>2, <1>3, <1>4 DEF RInv, Answers, Passing, p
<1>i. InHand = {Item} /\ Item \in Unsettled /\ Flushed[Item] = "inflight"
  BY <1>a, <1>1, <1>2 DEF InHand, Unsettled, PassRows
<1>9. BrokenRows'
  <2>1. \A u \in ToSet(p.rows) : u \in UID /\ Flushed[u] # "failed"
    BY <1>2, NoneGivenUp
  <2>2. IsInjective(p.rows)
    BY <1>2, <1>a DEF PassRows
  <2> QED
    BY <1>1, <1>4, <1>5, <1>i, <2>1, <2>2 DEF BrokenRows, Open
<1>t. Taken' = Taken
  BY <1>4 DEF Taken
<1>10. CASE pc' \in {"append", "broken"}
  <2>1. PassRows'
    <3> SUFFICES ASSUME pc' = "append"
                 PROVE  PassRows'
      BY <1>10 DEF PassRows, Passing
    <3>1. InHand' = InHand /\ Unsettled' = Unsettled
      BY <1>i, <1>4, <1>5, <1>10 DEF InHand, Unsettled
    <3> QED
      BY <1>a, <1>1, <1>2, <1>4, <1>10, <1>t, <3>1 DEF PassRows
  <2> QED
    BY <1>6, <1>7, <1>8, <1>9, <2>1 DEF Rest
<1>11. CASE pc' = "head"
  <2>1. /\ ToSet(p'.fails) = ToSet(p.fails) \union {Item}
        /\ IsInjective(p.fails) /\ Item \notin ToSet(p.fails) => IsInjective(p'.fails)
    <3>1. p'.fails = Append(p.fails, Item)
      BY <1>4, <1>11
    <3>2. /\ ToSet(Append(p.fails, Item)) = ToSet(p.fails) \union {Item}
          /\ IsInjective(p.fails) /\ Item \notin ToSet(p.fails) => IsInjective(Append(p.fails, Item))
      BY <1>a, <1>5, OneAppended
    <3> QED
      BY <3>1, <3>2, Zenon
  <2>2. InHand' = {} /\ Unsettled' = Unsettled
    BY <1>i, <1>4, <1>11, <2>1 DEF InHand, Unsettled
  <2>3. PassRows'
    BY <1>a, <1>1, <1>2, <1>4, <1>11, <1>i, <1>t, <2>1, <2>2 DEF PassRows
  <2> QED
    BY <1>6, <1>7, <1>8, <1>9, <2>3 DEF Rest
<1> QED
  BY <1>3, <1>10, <1>11

LEMMA AppendItemKeeps ==
  ASSUME RInv, AppendItem
  PROVE  Rest'
<1>a. /\ p.rows \in Seq(UID) /\ p.pend \in Seq(UID) /\ p.replies \in Seq({"OK", "NO"})
      /\ pass \in Passes /\ Typed /\ PassRows /\ Answers
  BY TypesNamed DEF RInv, Passes, p
<1>1. pc = "append" /\ UNCHANGED <<Flushed, count, rec, run>>
  BY RowsStay DEF AppendItem, Unwritten
<1>2. pc \in Passing
  BY <1>1 DEF Passing
<1> DEFINE q == [pass EXCEPT !.last = Item, !.phase = "append"]
<1>3. \/ pc' = "settle" /\ pass' = [q EXCEPT !.pend = Append(@, Item)]
      \/ pc' = "broken" /\ pass' = q
  BY DEF AppendItem, p
<1>4. /\ p'.iso = p.iso /\ p'.rows = p.rows /\ p'.taken = p.taken /\ p'.fetched = p.fetched
      /\ p'.fails = p.fails /\ p'.replies = p.replies
      /\ pc' = "broken" => p'.pend = p.pend
      /\ pc' = "settle" => p'.pend = Append(p.pend, Item)
  BY <1>a, <1>3 DEF Passes, p
<1> HIDE DEF q
<1>5. Item \in UID /\ Item \in ToSet(p.rows)
  BY <1>a, <1>1, <1>4, ItemInHand
<1>6. LadderApart' /\ LadderRows' /\ Held' /\ RunTyped' /\ NoneLeft'
  BY <1>1, <1>2, <1>3, <1>4, PassGoesOn DEF Passing, p
<1>7. DoneIsGood' /\ FailedIsCounted'
  BY <1>1, NothingSettled
<1>i. InHand = {Item} /\ Item \in Unsettled /\ Flushed[Item] = "inflight"
  BY <1>a, <1>1, <1>2 DEF InHand, Unsettled, PassRows
<1>8. BrokenRows'
  <2>1. \A u \in ToSet(p.rows) : u \in UID /\ Flushed[u] # "failed"
    BY <1>2, NoneGivenUp
  <2>2. IsInjective(p.rows)
    BY <1>2, <1>a DEF PassRows
  <2> QED
    BY <1>1, <1>4, <1>5, <1>i, <2>1, <2>2 DEF BrokenRows, Open
<1>t. Taken' = Taken
  BY <1>4 DEF Taken
<1>9. CASE pc' = "broken"
  <2>1. PassRows'
    BY <1>9 DEF PassRows, Passing
  <2>2. Answers'
    BY <1>2, <1>4, <1>9, <1>a DEF Answers, p
  <2> QED
    BY <1>6, <1>7, <1>8, <2>1, <2>2 DEF Rest
<1>10. CASE pc' = "settle"
  <2>1. /\ ToSet(p'.pend) = ToSet(p.pend) \union {Item}
        /\ IsInjective(p.pend) /\ Item \notin ToSet(p.pend) => IsInjective(p'.pend)
    <3>1. p'.pend = Append(p.pend, Item)
      BY <1>4, <1>10
    <3>2. /\ ToSet(Append(p.pend, Item)) = ToSet(p.pend) \union {Item}
          /\ IsInjective(p.pend) /\ Item \notin ToSet(p.pend) => IsInjective(Append(p.pend, Item))
      BY <1>a, <1>5, OneAppended
    <3> QED
      BY <3>1, <3>2, Zenon
  <2>2. InHand' = {} /\ Unsettled' = Unsettled
    BY <1>i, <1>4, <1>10, <2>1 DEF InHand, Unsettled
  <2>3. PassRows'
    BY <1>a, <1>1, <1>2, <1>4, <1>10, <1>i, <1>t, <2>1, <2>2 DEF PassRows
  <2>4. Answers'
    <3>1. /\ Len(p.pend) \in Nat /\ Len(p.replies) \in Nat
          /\ DOMAIN p.replies = 1..Len(p.replies) /\ Len(p.replies) <= Len(p.pend)
      BY <1>a, LenProperties DEF Answers, p
    <3>2. Len(p'.pend) = Len(p.pend) + 1 /\ \A k \in 1..Len(p.pend) : p'.pend[k] = p.pend[k]
      BY <1>a, <1>4, <1>5, <1>10
    <3>3. \A k \in DOMAIN p.replies : p'.pend[k] = p.pend[k]
      BY <3>1, <3>2
    <3>4. \A k \in DOMAIN p.replies :
            Kind[p.pend[k]] = IF p.replies[k] = "OK" THEN "good" ELSE "refused"
      BY <1>a DEF Answers, p
    <3>5. /\ Len(p'.replies) <= Len(p'.pend)
          /\ \A k \in DOMAIN p'.replies :
               Kind[p'.pend[k]] = IF p'.replies[k] = "OK" THEN "good" ELSE "refused"
      BY <1>4, <3>1, <3>2, <3>3, <3>4
    <3> QED
      BY <1>10, <3>5 DEF Answers, Passing, p
  <2> QED
    BY <1>6, <1>7, <1>8, <2>3, <2>4 DEF Rest
<1> QED
  BY <1>3, <1>9, <1>10

LEMMA RoomKeeps ==
  ASSUME RInv, Room
  PROVE  Rest'
<1>1. pc = "settle" /\ pc' = "head" /\ UNCHANGED <<Flushed, count, rec, run>>
  BY RowsStay DEF Room, Unwritten
<1>e. /\ p'.iso = p.iso /\ p'.rows = p.rows /\ p'.taken = p.taken /\ p'.fetched = p.fetched
      /\ p'.pend = p.pend /\ p'.replies = p.replies /\ p'.fails = p.fails
  <2>1. pass' = pass \/ pass' = Emptied
    BY DEF Room
  <2>2. Typed
    BY DEF RInv
  <2> QED
    BY <2>1, <2>2, EmptiedType DEF p
<1>2. LadderApart' /\ LadderRows' /\ Held' /\ RunTyped' /\ NoneLeft'
  BY <1>1, <1>e, PassGoesOn DEF Passing, p
<1>3. DoneIsGood' /\ FailedIsCounted'
  BY <1>1, NothingSettled
<1>4. Answers' /\ BrokenRows'
  BY <1>1, <1>e DEF RInv, Answers, BrokenRows, Passing, p
<1>5. InHand = {} /\ InHand' = {} /\ Taken' = Taken
  BY <1>1, <1>e DEF InHand, Taken
<1>6. Unsettled' = Unsettled
  BY <1>5, <1>e DEF Unsettled
<1>7. PassRows'
  BY <1>1, <1>5, <1>6, <1>e DEF RInv, PassRows, Passing
<1> QED
  BY <1>2, <1>3, <1>4, <1>7 DEF Rest

\* An answer comes, or some are lost on the way.
LEMMA RepliesKeep ==
  ASSUME RInv, UNCHANGED <<pc, Flushed, count, rec, run>>,
         NEW answers \in Seq({"OK", "NO"}), pass' = [pass EXCEPT !.replies = answers],
         Len(answers) <= Len(p.pend),
         \A k \in DOMAIN answers :
           Kind[p.pend[k]] = IF answers[k] = "OK" THEN "good" ELSE "refused"
  PROVE  Rest'
<1>a. pass \in Passes
  BY TypesNamed DEF RInv
<1>1. /\ p'.iso = p.iso /\ p'.rows = p.rows /\ p'.taken = p.taken /\ p'.fetched = p.fetched
      /\ p'.fails = p.fails /\ p'.pend = p.pend /\ p'.replies = answers
  BY <1>a DEF Passes, p
<1>2. Item' = Item
  BY <1>1 DEF Item
<1>3. InHand' = InHand /\ Taken' = Taken
  BY <1>1, <1>2 DEF InHand, Taken
<1>4. Unsettled' = Unsettled
  BY <1>1, <1>3 DEF Unsettled
<1>5. Answers'
  BY <1>1 DEF RInv, Answers, p
<1>6. PassRows' /\ BrokenRows'
  BY <1>1, <1>3, <1>4 DEF RInv, PassRows, BrokenRows
<1>7. LadderApart' /\ LadderRows' /\ Held' /\ RunTyped' /\ NoneLeft'
  BY <1>1 DEF RInv, LadderApart, LadderRows, Held, OnLadder, Is, RunTyped, NoneLeft
<1>8. DoneIsGood' /\ FailedIsCounted'
  BY NothingSettled
<1> QED
  BY <1>5, <1>6, <1>7, <1>8 DEF Rest

LEMMA ServeKeeps ==
  ASSUME RInv, Serve
  PROVE  Rest'
<1>a. /\ pass \in Passes /\ p.pend \in Seq(UID) /\ p.replies \in Seq({"OK", "NO"}) /\ Answers
  BY TypesNamed DEF RInv, Passes, p
<1> DEFINE k == Len(p.replies) + 1
           u == p.pend[k]
           said == IF Kind[u] = "good" THEN "OK" ELSE "NO"
           answers == Append(p.replies, said)
<1>1. /\ k <= Len(p.pend) /\ UNCHANGED <<pc, Flushed, count, rec, run>>
      /\ pass' = IF Kind[u] \in {"good", "refused"} THEN [pass EXCEPT !.replies = answers] ELSE pass
  BY RowsStay DEF Serve, p, Unwritten
<1>2. /\ Len(p.replies) \in Nat /\ DOMAIN p.replies = 1..Len(p.replies)
      /\ Len(answers) = k /\ DOMAIN answers = 1..k /\ answers[k] = said
      /\ \A j \in 1..Len(p.replies) : answers[j] = p.replies[j]
  BY <1>a
<1>3. answers \in Seq({"OK", "NO"})
  <2>1. said \in {"OK", "NO"}
    OBVIOUS
  <2> QED
    BY <1>a, <2>1, OneAppended
<1>4. \A j \in DOMAIN answers : j \in DOMAIN p.replies \/ j = k
  BY <1>2
<1>5. /\ Len(p.replies) <= Len(p.pend)
      /\ \A j \in DOMAIN p.replies :
           Kind[p.pend[j]] = IF p.replies[j] = "OK" THEN "good" ELSE "refused"
  BY <1>a DEF Answers, p
<1>6. CASE Kind[u] \in {"good", "refused"}
  <2>1. Kind[u] = IF answers[k] = "OK" THEN "good" ELSE "refused"
    BY <1>2, <1>6
  <2> HIDE DEF answers, said
  <2>2. \A j \in DOMAIN answers :
          Kind[p.pend[j]] = IF answers[j] = "OK" THEN "good" ELSE "refused"
    BY <1>2, <1>4, <1>5, <2>1
  <2>3. Len(answers) <= Len(p.pend) /\ pass' = [pass EXCEPT !.replies = answers]
    BY <1>1, <1>2, <1>6
  <2> QED
    BY <1>1, <1>3, <2>2, <2>3, RepliesKeep
<1>7. CASE Kind[u] \notin {"good", "refused"}
  <2>1. pass' = pass
    BY <1>1, <1>7
  <2>2. pass' = [pass EXCEPT !.replies = p.replies]
    BY <1>a, <2>1 DEF Passes, p
  <2> QED
    BY <1>a, <1>1, <1>5, <2>2, RepliesKeep
<1> QED
  BY <1>6, <1>7

LEMMA CutDstKeeps ==
  ASSUME RInv, CutDst
  PROVE  Rest'
<1>a. /\ p.pend \in Seq(UID) /\ p.replies \in Seq({"OK", "NO"}) /\ Answers
  BY TypesNamed DEF RInv, Passes, p
<1>1. PICK n \in 0..Len(p.replies) : pass' = [pass EXCEPT !.replies = SubSeq(p.replies, 1, n)]
  BY DEF CutDst, p
<1> DEFINE answers == SubSeq(p.replies, 1, n)
<1>2. UNCHANGED <<pc, Flushed, count, rec, run>>
  BY RowsStay DEF CutDst, Unwritten
<1>3. /\ answers \in Seq({"OK", "NO"}) /\ Len(answers) = n /\ DOMAIN answers = 1..n
      /\ \A j \in 1..n : answers[j] = p.replies[j] /\ j \in DOMAIN p.replies
  BY <1>a
<1>4. /\ Len(p.replies) <= Len(p.pend) /\ Len(p.pend) \in Nat /\ Len(p.replies) \in Nat
      /\ \A j \in DOMAIN p.replies :
           Kind[p.pend[j]] = IF p.replies[j] = "OK" THEN "good" ELSE "refused"
  BY <1>a, LenProperties DEF Answers, p
<1>5. n <= Len(p.pend)
  BY <1>4
<1> HIDE DEF answers
<1>6. \A j \in DOMAIN answers :
        Kind[p.pend[j]] = IF answers[j] = "OK" THEN "good" ELSE "refused"
  BY <1>3, <1>4
<1> QED
  BY <1>1, <1>2, <1>3, <1>5, <1>6, RepliesKeep DEF answers

\* The answers that are left belong to the messages that are left.
LEMMA OneAnswered ==
  ASSUME NEW pend \in Seq(UID), NEW replies \in Seq({"OK", "NO"}), replies # <<>>,
         Len(replies) <= Len(pend),
         \A k \in DOMAIN replies : Kind[pend[k]] = IF replies[k] = "OK" THEN "good" ELSE "refused"
  PROVE  /\ pend # <<>>
         /\ Kind[Head(pend)] = IF Head(replies) = "OK" THEN "good" ELSE "refused"
         /\ Len(Tail(replies)) <= Len(Tail(pend))
         /\ \A k \in DOMAIN Tail(replies) :
              Kind[Tail(pend)[k]] = IF Tail(replies)[k] = "OK" THEN "good" ELSE "refused"
<1>1. /\ Len(replies) \in Nat \ {0} /\ Len(pend) \in Nat /\ DOMAIN replies = 1..Len(replies)
  BY LenProperties, EmptySeq
<1>2. pend # <<>> /\ Len(pend) \in Nat \ {0}
  <2>1. Len(pend) # 0
    BY <1>1
  <2> QED
    BY <1>1, <2>1, EmptySeq
<1>3. /\ Tail(replies) \in Seq({"OK", "NO"}) /\ Len(Tail(replies)) = Len(replies) - 1
      /\ Head(replies) = replies[1]
      /\ \A i \in 1..Len(replies) - 1 : Tail(replies)[i] = replies[i + 1]
  BY HeadTailProperties
<1>4. /\ Len(Tail(pend)) = Len(pend) - 1 /\ Head(pend) = pend[1]
      /\ \A i \in 1..Len(pend) - 1 : Tail(pend)[i] = pend[i + 1]
  BY <1>2, HeadTailProperties
<1>5. DOMAIN Tail(replies) = 1..Len(replies) - 1
  BY <1>3, LenProperties
<1>6. Kind[Head(pend)] = IF Head(replies) = "OK" THEN "good" ELSE "refused"
  <2>1. 1 \in DOMAIN replies
    BY <1>1
  <2> QED
    BY <1>3, <1>4, <2>1
<1>7. Len(Tail(replies)) <= Len(Tail(pend))
  BY <1>1, <1>3, <1>4
<1>8. ASSUME NEW k \in DOMAIN Tail(replies)
      PROVE  Kind[Tail(pend)[k]] = IF Tail(replies)[k] = "OK" THEN "good" ELSE "refused"
  <2>1. /\ k \in 1..Len(replies) - 1 /\ k \in 1..Len(pend) - 1
        /\ k + 1 \in DOMAIN replies
    BY <1>1, <1>2, <1>5
  <2> QED
    BY <1>3, <1>4, <2>1
<1> QED
  BY <1>2, <1>6, <1>7, <1>8

LEMMA SettleOneKeeps ==
  ASSUME RInv, SettleOne
  PROVE  Rest'
<1> DEFINE u == Head(p.pend)
<1>a. /\ p.rows \in Seq(UID) /\ p.pend \in Seq(UID) /\ p.replies \in Seq({"OK", "NO"})
      /\ p.fails \in Seq(UID) /\ pass \in Passes /\ Typed /\ PassRows /\ Answers
      /\ Flushed \in [UID -> RowStates] /\ count \in Counts
  BY TypesNamed DEF RInv, Passes, p
<1>1. /\ pc \in {"settle", "head"} /\ p.pend # <<>> /\ (Confirms \/ Fails \/ Drops)
      /\ UNCHANGED <<rec, run>>
  BY <1>a, SettleOneShape DEF SettleOne
<1>f. /\ Confirms => Flushed' = [Flushed EXCEPT ![u] = "done"]
      /\ Fails \/ Drops => Flushed' = Flushed
  BY SettledRows
<1>2. pc \in Passing
  BY <1>1 DEF Passing
<1>3. /\ u \in UID /\ Tail(p.pend) \in Seq(UID) /\ ToSet(p.pend) = {u} \union ToSet(Tail(p.pend))
      /\ IsInjective(p.pend) => IsInjective(Tail(p.pend)) /\ u \notin ToSet(Tail(p.pend))
  <2>1. u \in UID /\ Tail(p.pend) \in Seq(UID)
    BY <1>a, <1>1, HeadTailProperties
  <2> QED
    BY <1>a, <1>1, <2>1, HeadAndTail
<1>r. /\ p.rows # <<>> /\ IsInjective(p.rows) /\ p.taken <= p.fetched /\ p.fetched <= Len(p.rows)
      /\ IsInjective(p.pend) /\ IsInjective(p.fails)
      /\ ToSet(p.pend) \intersect ToSet(p.fails) = {}
      /\ Unsettled \subseteq Taken
      /\ \A v \in Unsettled : Flushed[v] = "inflight"
      /\ \A v \in Taken \ Unsettled : Flushed[v] = "done"
      /\ \A i \in DOMAIN p.rows : i > p.taken => Flushed[p.rows[i]] \in Open
  BY <1>a, <1>2 DEF PassRows
<1>4. InHand = {} /\ Unsettled = ToSet(p.pend) \union ToSet(p.fails)
  <2>1. InHand = {}
    BY <1>1 DEF InHand
  <2> QED
    BY <2>1 DEF Unsettled
<1>5. u \in Unsettled /\ u \in Taken /\ Flushed[u] = "inflight" /\ u \notin ToSet(p.fails)
  BY <1>3, <1>4, <1>r
<1>6. Taken \subseteq ToSet(p.rows) /\ Taken \subseteq UID
  <2>1. p.taken \in Nat /\ p.fetched \in Nat
    BY <1>a DEF Passes, p
  <2>2. \A i \in 1..p.taken : i \in DOMAIN p.rows
    BY <1>a, <1>r, <2>1, LenProperties
  <2> QED
    BY <1>a, <2>2 DEF Taken, ToSet
<1>7. /\ Len(p.replies) <= Len(p.pend)
      /\ \A k \in DOMAIN p.replies :
           Kind[p.pend[k]] = IF p.replies[k] = "OK" THEN "good" ELSE "refused"
  BY <1>a DEF Answers, p
<1>8. CASE Confirms
  <2>1. /\ p'.iso = p.iso /\ p'.rows = p.rows /\ p'.taken = p.taken /\ p'.fetched = p.fetched
        /\ p'.pend = Tail(p.pend) /\ p'.fails = p.fails /\ p'.replies = Tail(p.replies)
        /\ p.replies # <<>> /\ Head(p.replies) = "OK" /\ pc' = pc
    BY <1>a, <1>8 DEF Confirms, Passes, p
  <2>2. Flushed' = [Flushed EXCEPT ![u] = "done"] /\ count'.failed = count.failed
    BY <1>a, <1>f, <1>8 DEF Confirms, Counts
  <2>3. Kind[u] = "good"
    BY <1>a, <1>7, <2>1, OneAnswered
  <2>4. Answers'
    <3>1. /\ Len(p'.replies) <= Len(p'.pend)
          /\ \A k \in DOMAIN p'.replies :
               Kind[p'.pend[k]] = IF p'.replies[k] = "OK" THEN "good" ELSE "refused"
      BY <1>a, <1>7, <2>1, OneAnswered
    <3> QED
      BY <1>2, <2>1, <3>1 DEF Answers, p
  <2>5. \A v \in UID : Flushed'[v] = IF v = u THEN "done" ELSE Flushed[v]
    BY <1>a, <2>2
  <2> HIDE DEF u
  <2>6. LadderApart' /\ LadderRows' /\ Held' /\ RunTyped' /\ NoneLeft'
    <3>1. /\ \A v \in UID : Flushed'[v] \in Open => Flushed[v] \in Open
          /\ \A v \in UID : Flushed'[v] = "inflight" => Flushed[v] = "inflight" \/ v \in ToSet(p.rows)
      BY <2>5 DEF Open
    <3> QED
      BY <1>1, <1>2, <2>1, <3>1, PassGoesOn DEF p
  <2>7. DoneIsGood'
    BY <2>3, <2>5 DEF RInv, DoneIsGood
  <2>8. FailedIsCounted'
    <3>1. Is({"failed"})' = Is({"failed"})
      BY <1>5, <2>5 DEF Is
    <3> QED
      BY <2>2, <3>1 DEF RInv, FailedIsCounted
  <2>9. BrokenRows'
    BY <1>1, <2>1 DEF BrokenRows
  <2>10. InHand' = {} /\ Taken' = Taken
    BY <1>1, <2>1 DEF InHand, Taken
  <2>11. Unsettled' = Unsettled \ {u}
    BY <1>3, <1>4, <1>5, <1>r, <2>1, <2>10 DEF Unsettled
  <2>12. \A i \in DOMAIN p.rows : p.rows[i] \in UID
    BY <1>a
  <2>13. /\ \A v \in Unsettled' : Flushed'[v] = "inflight"
         /\ \A v \in Taken' \ Unsettled' : Flushed'[v] = "done"
         /\ \A i \in DOMAIN p.rows : i > p.taken => Flushed'[p.rows[i]] \in Open
    <3>1. ASSUME NEW i \in DOMAIN p.rows, i > p.taken
          PROVE  p.rows[i] # u
      <4>1. PICK j \in 1..p.taken : u = p.rows[j]
        BY <1>5 DEF Taken
      <4>2. p.taken \in Nat /\ p.fetched \in Nat
        BY <1>a DEF Passes, p
      <4>3. j \in DOMAIN p.rows /\ i # j
        BY <1>a, <1>r, <3>1, <4>2, LenProperties
      <4> QED
        BY <1>r, <4>1, <4>3 DEF IsInjective
    <3> QED
      BY <1>6, <1>r, <2>5, <2>10, <2>11, <2>12, <3>1
  <2>14. PassRows'
    <3>1. ToSet(p'.pend) \intersect ToSet(p'.fails) = {} /\ IsInjective(p'.pend)
      BY <1>3, <1>r, <2>1
    <3>2. Unsettled' \subseteq Taken'
      BY <1>r, <2>10, <2>11
    <3> QED
      BY <1>1, <1>r, <2>1, <2>10, <2>13, <3>1, <3>2 DEF PassRows
  <2> QED
    BY <2>4, <2>6, <2>7, <2>8, <2>9, <2>14 DEF Rest
<1>9. CASE Fails
  <2>1. /\ p'.iso = p.iso /\ p'.rows = p.rows /\ p'.taken = p.taken /\ p'.fetched = p.fetched
        /\ p'.pend = Tail(p.pend) /\ p'.fails = Append(p.fails, u)
        /\ pc' = pc /\ UNCHANGED <<Flushed, count>>
        /\ \/ p.replies # <<>> /\ p'.replies = Tail(p.replies)
           \/ p.replies = <<>> /\ p'.replies = <<>>
    BY <1>a, <1>f, <1>9 DEF Fails, Passes, p
  <2>2. Answers'
    <3>1. /\ Len(p'.replies) <= Len(p'.pend)
          /\ \A k \in DOMAIN p'.replies :
               Kind[p'.pend[k]] = IF p'.replies[k] = "OK" THEN "good" ELSE "refused"
      <4>1. CASE p.replies # <<>> /\ p'.replies = Tail(p.replies)
        BY <1>a, <1>7, <2>1, <4>1, OneAnswered
      <4>2. CASE p'.replies = <<>>
        <5>1. Len(p'.pend) \in Nat
          BY <1>3, <2>1, LenProperties
        <5>2. Len(<<>>) = 0 /\ DOMAIN <<>> = {}
          OBVIOUS
        <5> QED
          BY <4>2, <5>1, <5>2
      <4> QED
        BY <2>1, <4>1, <4>2
    <3> QED
      BY <1>2, <2>1, <3>1 DEF Answers, p
  <2>3. /\ ToSet(Append(p.fails, u)) = ToSet(p.fails) \union {u}
        /\ IsInjective(Append(p.fails, u))
    BY <1>a, <1>3, <1>5, <1>r, OneAppended
  <2> HIDE DEF u
  <2>4. LadderApart' /\ LadderRows' /\ Held' /\ RunTyped' /\ NoneLeft'
    BY <1>1, <1>2, <2>1, PassGoesOn DEF p
  <2>5. DoneIsGood' /\ FailedIsCounted'
    BY <2>1, NothingSettled
  <2>6. BrokenRows'
    BY <1>1, <2>1 DEF BrokenRows
  <2>7. InHand' = {} /\ Taken' = Taken
    BY <1>1, <2>1 DEF InHand, Taken
  <2>8. Unsettled' = Unsettled
    BY <1>3, <1>4, <2>1, <2>3, <2>7 DEF Unsettled
  <2>9. PassRows'
    <3>1. ToSet(p'.pend) \intersect ToSet(p'.fails) = {} /\ IsInjective(p'.pend) /\ IsInjective(p'.fails)
      BY <1>3, <1>r, <2>1, <2>3
    <3> QED
      BY <1>1, <1>r, <2>1, <2>7, <2>8, <3>1 DEF PassRows
  <2> QED
    BY <2>2, <2>4, <2>5, <2>6, <2>9 DEF Rest
<1>10. CASE Drops
  <2>1. /\ p'.iso = p.iso /\ p'.rows = p.rows /\ p'.pend = Tail(p.pend) /\ p'.replies = <<>>
        /\ pc' = "broken" /\ UNCHANGED <<Flushed, count>>
    BY <1>a, <1>f, <1>10 DEF Drops, Passes, p
  <2>2. LadderApart' /\ LadderRows' /\ Held' /\ RunTyped' /\ NoneLeft'
    BY <1>1, <1>2, <2>1, PassGoesOn DEF p
  <2>3. DoneIsGood' /\ FailedIsCounted'
    BY <2>1, NothingSettled
  <2>4. PassRows'
    BY <2>1 DEF PassRows, Passing
  <2>5. Answers'
    <3>1. Len(p'.pend) \in Nat
      BY <1>3, <2>1, LenProperties
    <3>2. Len(<<>>) = 0 /\ DOMAIN <<>> = {}
      OBVIOUS
    <3> QED
      BY <2>1, <3>1, <3>2 DEF Answers, p
  <2>6. BrokenRows'
    <3>1. \A v \in ToSet(p.rows) : v \in UID /\ Flushed[v] # "failed"
      BY <1>2, NoneGivenUp
    <3>2. u \in ToSet(p.rows) /\ Flushed[u] \in Open
      BY <1>5, <1>6 DEF Open
    <3> HIDE DEF u
    <3> QED
      BY <1>r, <2>1, <3>1, <3>2 DEF BrokenRows
  <2> QED
    BY <2>2, <2>3, <2>4, <2>5, <2>6 DEF Rest
<1> QED
  BY <1>1, <1>8, <1>9, <1>10

-------------------------------------------------------------------------------
(* The ends of a pass *)

\* A pass that is complete has settled its messages, or they have failed.
LEMMA WhatIsSettled ==
  ASSUME RInv, Complete
  PROVE  /\ pc = "head" /\ p.pend = <<>> /\ p.fails \in Seq(UID) /\ IsInjective(p.fails)
         /\ ToSet(p.fails) \subseteq ToSet(p.rows)
         /\ \A u \in ToSet(p.fails) : u \in UID /\ Flushed[u] = "inflight"
         /\ \A u \in ToSet(p.rows) \ ToSet(p.fails) : Flushed[u] = "done"
<1>1. p.rows \in Seq(UID) /\ p.fails \in Seq(UID) /\ p.taken \in Nat
  BY TypesNamed DEF RInv, Passes, p
<1>2. pc = "head" /\ p.pend = <<>> /\ p.taken = Len(p.rows)
  BY DEF Complete
<1>3. InHand = {} /\ Unsettled = ToSet(p.fails)
  <2>1. InHand = {}
    BY <1>2 DEF InHand
  <2> QED
    BY <1>2, <2>1, NothingIn DEF Unsettled
<1>4. Taken = ToSet(p.rows)
  BY <1>1, <1>2 DEF Taken, ToSet
<1>5. /\ IsInjective(p.fails) /\ Unsettled \subseteq Taken
      /\ \A u \in Unsettled : Flushed[u] = "inflight"
      /\ \A u \in Taken \ Unsettled : Flushed[u] = "done"
  BY <1>2 DEF RInv, PassRows, Passing
<1>6. \A u \in ToSet(p.fails) : u \in UID
  BY <1>1 DEF ToSet
<1> QED
  BY <1>1, <1>2, <1>3, <1>4, <1>5, <1>6

\* What is given up is counted once.
LEMMA OnceGivenUp ==
  ASSUME RInv, NEW us \in SUBSET UID, GivenUp(us), \A u \in us : Flushed[u] # "failed",
         pass'.batch = {}
  PROVE  /\ \A u \in UID : Flushed'[u] = IF u \in us THEN "failed" ELSE Flushed[u]
         /\ DoneIsGood' /\ FailedIsCounted'
<1>1. Flushed \in [UID -> RowStates] /\ count \in Counts
  BY TypesNamed DEF RInv
<1>2. \A u \in UID : Flushed'[u] = IF u \in us THEN "failed" ELSE Flushed[u]
  <2>1. Flushed' = [u \in UID |-> IF u \in us THEN "failed" ELSE Flushed[u]]
    BY Written DEF RInv
  <2> QED
    BY <2>1
<1>3. DoneIsGood'
  BY <1>2 DEF RInv, DoneIsGood
<1>4. Is({"failed"})' = Is({"failed"}) \union us /\ Is({"failed"}) \intersect us = {}
  BY <1>2 DEF Is
<1> DEFINE F == Is({"failed"})
<1>5. F \in SUBSET UID
  BY DEF Is
<1>6. IsFiniteSet(F) /\ IsFiniteSet(us) /\ Cardinality(F) \in Nat /\ Cardinality(us) \in Nat
  BY <1>5, Messages
<1>7. count'.failed = count.failed + Cardinality(us) /\ count.failed = Cardinality(F)
  BY <1>1 DEF GivenUp, Counts, RInv, FailedIsCounted
<1> HIDE DEF F
<1>8. Cardinality(F \union us) = Cardinality(F) + Cardinality(us) - Cardinality(F \intersect us)
  BY <1>6, FS_Union
<1>9. Cardinality(F \intersect us) = 0
  BY <1>4, FS_EmptySet DEF F
<1>10. Cardinality(F \union us) = Cardinality(F) + Cardinality(us)
  BY <1>6, <1>8, <1>9
<1>11. FailedIsCounted'
  BY <1>4, <1>7, <1>10 DEF FailedIsCounted, F
<1> QED
  BY <1>2, <1>3, <1>11

LEMMA MainPassEndsKeeps ==
  ASSUME RInv, MainPassEnds
  PROVE  Rest'
<1>1. /\ Complete /\ ~p.iso
      /\ rec' \in Records /\ rec'.ladder = rec.ladder
      /\ \/ p.fails # <<>> /\ StartPass(FALSE, p.no + 1, p.fails) /\ row' = Flushed /\ UNCHANGED count
         \/ GivenUp(ToSet(p.fails)) /\ pc' = "last" /\ pass' = Emptied
  BY MainPassShape
<1>a. Typed /\ p.no \in Nat
  BY TypesNamed DEF RInv, Passes, p
<1>2. /\ pc = "head" /\ p.pend = <<>> /\ p.fails \in Seq(UID) /\ IsInjective(p.fails)
      /\ ToSet(p.fails) \subseteq ToSet(p.rows)
      /\ \A u \in ToSet(p.fails) : u \in UID /\ Flushed[u] = "inflight"
      /\ \A u \in ToSet(p.rows) \ ToSet(p.fails) : Flushed[u] = "done"
  BY <1>1, WhatIsSettled
<1>3. LadderApart' /\ RunTyped' /\ UNCHANGED run
  BY <1>1 DEF RInv, LadderApart, RunTyped, MainPassEnds
<1>4. Is(Open) \subseteq ToSet(p.fails)
  <2>1. Is(Open) \subseteq ToSet(p.rows)
    BY <1>1, <1>2 DEF RInv, Held, Passing
  <2> QED
    BY <1>2, <2>1 DEF Is, Open
<1>5. CASE p.fails # <<>> /\ StartPass(FALSE, p.no + 1, p.fails) /\ row' = Flushed /\ UNCHANGED count
  <2>1. p.no + 1 \in Nat
    BY <1>a
  <2>2. Fresh(FALSE, p.fails) /\ pc' = "fill"
    BY <1>a, <1>2, <1>5, <2>1, StartPassShape
  <2>w. UNCHANGED Flushed
    BY <1>a, <1>5, <2>2, Written DEF Fresh
  <2>3. Answers' /\ PassRows' /\ BrokenRows'
    <3>1. \A u \in ToSet(p.fails) : Flushed[u] \in Open
      BY <1>2 DEF Open
    <3> QED
      BY <1>2, <1>5, <2>2, <2>w, <3>1, PassBegins
  <2>4. LadderRows' /\ Held'
    <3>1. ~p'.iso /\ p'.rows = p.fails /\ Is(Open)' = Is(Open)
      BY <2>2, <2>w DEF Fresh, p, Is
    <3> QED
      BY <1>4, <2>2, <3>1 DEF LadderRows, Held, Passing
  <2>5. NoneLeft'
    BY <1>2, <1>3, <2>2 DEF RInv, NoneLeft
  <2>6. DoneIsGood' /\ FailedIsCounted'
    BY <1>5, <2>w, NothingSettled
  <2> QED
    BY <1>3, <2>3, <2>4, <2>5, <2>6 DEF Rest
<1>6. CASE GivenUp(ToSet(p.fails)) /\ pc' = "last" /\ pass' = Emptied
  <2>e. pass'.batch = {} /\ p'.pend = p.pend /\ p'.replies = p.replies
    BY <1>a, <1>6, EmptiedType DEF p
  <2>1. ToSet(p.fails) \in SUBSET UID /\ \A u \in ToSet(p.fails) : Flushed[u] # "failed"
    BY <1>2
  <2>2. /\ \A u \in UID : Flushed'[u] = IF u \in ToSet(p.fails) THEN "failed" ELSE Flushed[u]
        /\ DoneIsGood' /\ FailedIsCounted'
    BY <1>6, <2>1, <2>e, OnceGivenUp
  <2>3. Is(Open)' = {}
    BY <1>4, <2>2 DEF Is, Open
  <2>4. PassRows' /\ BrokenRows' /\ LadderRows' /\ Held'
    BY <1>6 DEF PassRows, BrokenRows, LadderRows, Held, Passing
  <2>5. Answers'
    BY <1>2, <1>6, <2>e DEF RInv, Answers, p
  <2>6. NoneLeft'
    BY <1>2, <1>3, <1>6, <2>3 DEF RInv, NoneLeft
  <2> QED
    BY <1>3, <2>2, <2>4, <2>5, <2>6 DEF Rest
<1> QED
  BY <1>1, <1>5, <1>6

LEMMA LadderPassEndsKeeps ==
  ASSUME RInv, LadderPassEnds
  PROVE  Rest'
<1>1. PICK lost \in SUBSET ToSet(p.fails) :
        LET again == Those(p.fails, ToSet(p.fails) \ lost)
        IN  /\ Complete /\ p.iso /\ rec.ladder # <<>>
            /\ GivenUp(lost)
            /\ rec' \in Records
            /\ rec'.ladder = Tail(rec.ladder) \o [i \in 1..Len(again) |-> Single(again[i])]
            /\ pc' = "ladder"
            /\ pass' = Emptied /\ UNCHANGED box
  BY LadderPassShape
<1> DEFINE again == Those(p.fails, ToSet(p.fails) \ lost)
           ones == [i \in 1..Len(again) |-> Single(again[i])]
<1>2. /\ pc = "head" /\ p.pend = <<>> /\ p.fails \in Seq(UID) /\ IsInjective(p.fails)
      /\ ToSet(p.fails) \subseteq ToSet(p.rows)
      /\ \A u \in ToSet(p.fails) : u \in UID /\ Flushed[u] = "inflight"
      /\ \A u \in ToSet(p.rows) \ ToSet(p.fails) : Flushed[u] = "done"
  BY <1>1, WhatIsSettled
<1>3. again \in Seq(UID) /\ IsInjective(again) /\ ToSet(again) = ToSet(p.fails) \ lost
  <2>1. ToSet(p.fails) \intersect (ToSet(p.fails) \ lost) = ToSet(p.fails) \ lost
    OBVIOUS
  <2> QED
    BY <1>2, <2>1, ThoseOfSet
<1> HIDE DEF again
<1>4. ones \in Seq(Entries) /\ All(ones) = ToSet(again) /\ Distinct(ones)
  BY <1>3, SinglesApart
<1>5. rec'.ladder = Tail(rec.ladder) \o ones /\ pc' = "ladder"
  BY <1>1 DEF again
<1>e. pass'.batch = {} /\ p'.pend = p.pend /\ p'.replies = p.replies
  BY <1>1, EmptiedType DEF p, RInv
<1> HIDE DEF ones
<1>6. rec.ladder \in Seq(Entries) /\ rec.ladder # <<>> /\ Distinct(rec.ladder)
  BY <1>1, TypesNamed DEF RInv, Records, LadderApart
<1>7. /\ Head(rec.ladder) \in Entries /\ Tail(rec.ladder) \in Seq(Entries)
      /\ All(rec.ladder) = ToSet(Head(rec.ladder).uids) \union All(Tail(rec.ladder))
      /\ Distinct(Tail(rec.ladder))
      /\ ToSet(Head(rec.ladder).uids) \intersect All(Tail(rec.ladder)) = {}
  BY <1>6, LadderSplit
<1>8. /\ ToSet(p.rows) \subseteq ToSet(Head(rec.ladder).uids)
      /\ \A u \in ToSet(Head(rec.ladder).uids) : Flushed[u] \in Open => u \in ToSet(p.rows)
  BY <1>1, <1>2 DEF RInv, LadderRows, Passing
<1>9. LadderApart'
  <2>1. All(Tail(rec.ladder)) \intersect All(ones) = {}
    BY <1>2, <1>3, <1>4, <1>7, <1>8
  <2> QED
    <3> DEFINE rest == Tail(rec.ladder)
    <3>1. rest \in Seq(Entries) /\ Distinct(rest) /\ All(rest) \intersect All(ones) = {}
      BY <1>7, <2>1
    <3> HIDE DEF rest
    <3>2. Distinct(rest \o ones)
      BY <1>4, <3>1, LaddersJoined
    <3>3. rec'.ladder = rest \o ones
      BY <1>5 DEF rest
    <3> QED
      BY <3>2, <3>3 DEF LadderApart
<1>10. lost \in SUBSET UID /\ GivenUp(lost) /\ \A u \in lost : Flushed[u] # "failed"
  BY <1>1, <1>2
<1>11. /\ \A u \in UID : Flushed'[u] = IF u \in lost THEN "failed" ELSE Flushed[u]
       /\ DoneIsGood' /\ FailedIsCounted'
  BY <1>10, <1>e, OnceGivenUp
<1>12. OnLadder' = All(Tail(rec.ladder)) \union (ToSet(p.fails) \ lost)
  BY <1>3, <1>4, <1>5, <1>7, LaddersJoined DEF OnLadder
<1>13. Is({"inflight"})' \subseteq OnLadder'
  <2> SUFFICES ASSUME NEW u \in UID, Flushed'[u] = "inflight"
               PROVE  u \in OnLadder'
    BY DEF Is
  <2>1. u \notin lost /\ Flushed[u] = "inflight"
    BY <1>11
  <2>2. u \in All(rec.ladder)
    BY <1>1, <1>2, <2>1 DEF RInv, Held, Passing, OnLadder, Is
  <2>3. CASE u \in All(Tail(rec.ladder))
    BY <1>12, <2>3
  <2>4. CASE u \in ToSet(Head(rec.ladder).uids)
    <3>1. u \in ToSet(p.rows)
      BY <1>8, <2>1, <2>4 DEF Open
    <3> QED
      BY <1>2, <1>12, <2>1, <3>1
  <2> QED
    BY <1>7, <2>2, <2>3, <2>4
<1>14. Held' /\ PassRows' /\ BrokenRows' /\ LadderRows'
  BY <1>5, <1>13 DEF Held, PassRows, BrokenRows, LadderRows, Passing
<1>15. Answers'
  BY <1>2, <1>5, <1>e DEF RInv, Answers, p
<1>16. RunTyped' /\ NoneLeft'
  <2>1. UNCHANGED run
    BY DEF LadderPassEnds
  <2> QED
    BY <1>2, <1>5, <2>1 DEF RInv, RunTyped, NoneLeft
<1> QED
  BY <1>9, <1>11, <1>14, <1>15, <1>16 DEF Rest

LEMMA PassBreaksKeeps ==
  ASSUME RInv, PassBreaks
  PROVE  Rest'
<1>1. PICK lost \in SUBSET UID :
        /\ pc = "broken"
        /\ lost = {} \/ (lost = {p.rows[1]} /\ Len(p.rows) = 1 /\ p.iso)
        /\ GivenUp(lost)
        /\ Distinct(rec.ladder) => Distinct(rec'.ladder)
        /\ pc' = "trouble"
        /\ pass' = Emptied /\ UNCHANGED <<box, run>>
  BY PassBreaksShape
<1>e. pass'.batch = {} /\ p'.pend = p.pend /\ p'.replies = p.replies
  BY <1>1, EmptiedType DEF p, RInv
<1>2. \A u \in lost : Flushed[u] # "failed"
  <2>1. Len(p.rows) = 1 => p.rows[1] \in ToSet(p.rows)
    <3>1. p.rows \in Seq(UID)
      BY TypesNamed DEF RInv, Passes, p
    <3> QED
      BY <3>1, ItemIsIn
  <2> QED
    BY <1>1, <2>1 DEF RInv, BrokenRows
<1>3. DoneIsGood' /\ FailedIsCounted'
  BY <1>1, <1>2, <1>e, OnceGivenUp
<1>4. PassRows' /\ BrokenRows' /\ LadderRows' /\ Held'
  BY <1>1 DEF PassRows, BrokenRows, LadderRows, Held, Passing
<1>5. LadderApart'
  BY <1>1 DEF RInv, LadderApart
<1>6. Answers'
  BY <1>1, <1>e DEF RInv, Answers, Passing, p
<1>7. RunTyped' /\ NoneLeft'
  BY <1>1 DEF RInv, RunTyped, NoneLeft
<1> QED
  BY <1>3, <1>4, <1>5, <1>6, <1>7 DEF Rest

\* At the end of a pass its batch is written.
LEMMA BatchEnds ==
  ASSUME RInv, MainPassEnds \/ LadderPassEnds \/ PassBreaks
  PROVE  pass'.batch = {}
<1>a. Typed /\ p.no \in Nat /\ p.fails \in Seq(UID)
  BY TypesNamed DEF RInv, Passes, p
<1>1. pass' = Emptied => pass'.batch = {}
  BY <1>a, EmptiedType
<1>2. CASE MainPassEnds
  <2>1. StartPass(FALSE, p.no + 1, p.fails) \/ pass' = Emptied
    BY <1>2, MainPassShape
  <2>2. p.no + 1 \in Nat
    BY <1>a
  <2> QED
    BY <1>a, <1>1, <2>1, <2>2, StartPassShape DEF Fresh
<1>3. CASE LadderPassEnds
  BY <1>1, <1>3, LadderPassShape
<1>4. CASE PassBreaks
  BY <1>1, <1>4, PassBreaksShape
<1> QED
  BY <1>2, <1>3, <1>4

-------------------------------------------------------------------------------
(* The invariant, and what follows from it *)

LEMMA RInvInit == Init => RInv
<1> SUFFICES ASSUME Init
             PROVE  RInv
  OBVIOUS
<1>1. Typed
  BY TypedInit
<1>2. /\ pc = "connect" /\ rec.ladder = <<>> /\ pass.pend = <<>> /\ pass.replies = <<>>
      /\ run = [attempt |-> 1, rc |-> 0, gaveUp |-> FALSE, status |-> "RUNNING"]
      /\ count.failed = 0
      /\ pass.batch = {} /\ \A u \in UID : Flushed[u] \in Open
  BY DEF Init, NewRec, NoPass, Open, Flushed, p
<1>3. Len(<<>>) = 0 /\ DOMAIN <<>> = {}
  OBVIOUS
<1>4. Answers
  BY <1>2, <1>3 DEF Answers
<1>5. PassRows /\ BrokenRows /\ LadderRows /\ Held
  BY <1>2 DEF PassRows, BrokenRows, LadderRows, Held, Passing
<1>6. LadderApart
  BY <1>2, EmptyLadder DEF LadderApart
<1>7. RunTyped /\ NoneLeft
  BY <1>2 DEF RunTyped, NoneLeft
<1>8. DoneIsGood
  BY <1>2 DEF DoneIsGood, Open
<1>9. FailedIsCounted
  <2>1. Is({"failed"}) = {}
    BY <1>2 DEF Is, Open
  <2> QED
    BY <1>2, <2>1, FS_EmptySet DEF FailedIsCounted
<1>10. Batched
  BY <1>2 DEF Batched
<1> QED
  BY <1>1, <1>4, <1>5, <1>6, <1>7, <1>8, <1>9, <1>10 DEF RInv

LEMMA RInvStep == RInv /\ [Next]_vars => RInv'
<1> SUFFICES ASSUME RInv, [Next]_vars
             PROVE  RInv'
  OBVIOUS
<1>1. Typed'
  BY TypedStep
<1>2. Rest'
  <2>1. CASE CutSrc \/ WatchdogSrc \/ WatchdogDst \/ Supervisor \/ TogglePause \/ UNCHANGED vars
    BY <2>1, OthersKeep
  <2>2. CASE OpenPair \/ FailAttempt \/ Retry \/ EndMailbox \/ OpenFolderFails
               \/ Ready \/ Trouble \/ Requeue
    BY <2>2, AttemptsKeep
  <2>3. CASE Reconcile \/ RefreshTotals \/ OpenFolder \/ StartEntry \/ LeaveLadder \/ StartMain
    BY <2>3, ReconcileKeeps, RefreshTotalsKeeps, OpenFolderKeeps, StartEntryKeeps,
       LeaveLadderKeeps, StartMainKeeps
  <2>4. CASE Fill \/ Take \/ Body \/ AppendItem \/ SettleOne \/ Room \/ Serve \/ CutDst
    BY <2>4, FillKeeps, TakeKeeps, BodyKeeps, AppendItemKeeps, SettleOneKeeps, RoomKeeps,
       ServeKeeps, CutDstKeeps
  <2>5. CASE MainPassEnds \/ LadderPassEnds \/ PassBreaks
    BY <2>5, MainPassEndsKeeps, LadderPassEndsKeeps, PassBreaksKeeps
  <2> QED
    BY <2>1, <2>2, <2>3, <2>4, <2>5 DEF Next, Runner, Breaks
<1>3. Batched'
  <2>1. CASE Reconcile
    BY <2>1, ReconcileShape
  <2>2. CASE Take
    BY <2>2, TakenRows
  <2>3. CASE SettleOne
    BY <2>3, SettledRows
  <2>4. CASE MainPassEnds \/ LadderPassEnds \/ PassBreaks
    BY <2>4, BatchEnds DEF Batched
  <2>5. CASE Unwritten
    BY <2>5, RowsStay
  <2> QED
    BY <2>1, <2>2, <2>3, <2>4, <2>5 DEF Next, Runner, Breaks, Unwritten
<1> QED
  BY <1>1, <1>2, <1>3 DEF RInv, Rest

LEMMA RInvAlways == Spec => []RInv
  BY RInvInit, RInvStep, PTL DEF Spec

\* A message is on the ladder once, is given up once, and the dashboard counts it
\* once, whatever breaks and however often the mailbox is queued again (folder.go,
\* isolationPhase, noteTransportLoss and permanentFail).
THEOREM LadderIsSoundAlways == Spec => []LadderIsSound
<1>1. RInv => LadderIsSound
  <2> SUFFICES ASSUME RInv
               PROVE  LadderIsSound
    OBVIOUS
  <2>1. Distinct(rec.ladder) /\ count.failed = Cardinality(Is({"failed"}))
    BY DEF RInv, LadderApart, FailedIsCounted
  <2>2. In({"failed"}) = Is({"failed"})
    BY DEF RInv, Batched, In, Is, Flushed, p
  <2> QED
    BY <2>1, <2>2, ApartIsDistinct DEF LadderIsSound
<1> QED
  BY <1>1, RInvAlways, PTL

-------------------------------------------------------------------------------
(* What is done is on the destination *)

Stored ==
  /\ \A k \in DOMAIN pass.replies : pass.replies[k] = "OK" => pass.pend[k] \in box
  /\ \A u \in UID : Flushed[u] = "done" => u \in box

LEMMA StoredStep == RInv /\ Stored /\ [Next]_vars => Stored'
<1> SUFFICES ASSUME RInv, Stored, [Next]_vars
             PROVE  Stored'
  OBVIOUS
<1>a. /\ Typed /\ PassRows /\ Answers /\ rec \in Records /\ pass \in Passes
      /\ Flushed \in [UID -> RowStates]
      /\ p.pend \in Seq(UID) /\ p.replies \in Seq({"OK", "NO"}) /\ p = pass
  BY TypesNamed DEF RInv, Passes, p
<1>b. /\ Len(p.pend) \in Nat /\ Len(p.replies) \in Nat /\ Len(p.replies) <= Len(p.pend)
      /\ DOMAIN p.replies = 1..Len(p.replies)
  BY <1>a, LenProperties DEF Answers
<1>c. DOMAIN <<>> = {}
  OBVIOUS
<1>g. Unwritten => UNCHANGED Flushed
  BY RowsStay
<1>e. /\ Emptied.replies = pass.replies /\ Emptied.pend = pass.pend
  BY <1>a, EmptiedType
<1>1. CASE UNCHANGED <<Flushed, box, pass>>
  BY <1>1 DEF Stored
<1>2. CASE /\ \A u \in UID : Flushed'[u] = "done" => Flushed[u] = "done"
           /\ UNCHANGED box
           /\ pass'.replies = <<>>
  BY <1>2, <1>c DEF Stored
<1>3. CASE /\ \A u \in UID : Flushed'[u] = "done" => Flushed[u] = "done"
           /\ UNCHANGED box
           /\ pass'.replies = pass.replies /\ pass'.pend = pass.pend
  BY <1>3 DEF Stored
<1>4. CASE Ready \/ Trouble \/ Requeue
  <2>1. pass' = NoPass /\ UNCHANGED <<Flushed, box>>
    BY <1>g, <1>4 DEF Ready, Trouble, Requeue, Unwritten
  <2>2. pass'.replies = <<>>
    BY <2>1 DEF NoPass
  <2> QED
    BY <1>2, <2>1, <2>2
<1>5. CASE Reconcile
  <2>1. PICK arrived \in SUBSET UID :
           arrived = Is({"inflight"}) \intersect box /\ Flushed' = After(arrived) /\ UNCHANGED <<box, pass>>
    BY <1>5, ReconcileShape
  <2>2. \A u \in UID : Flushed'[u] = "done" => Flushed[u] = "done" \/ u \in box
    BY <2>1 DEF After
  <2> QED
    BY <2>1, <2>2 DEF Stored
<1>6. CASE StartEntry
  <2> DEFINE live == Those(Head(rec.ladder).uids, In({"planned", "inflight"}))
  <2>1. UNCHANGED <<Flushed, box>> /\ (pass' = pass \/ StartPass(TRUE, 1, live))
    BY <1>g, <1>6 DEF StartEntry, Unwritten
  <2> HIDE DEF live
  <2>2. StartPass(TRUE, 1, live) => pass'.replies = <<>>
    BY DEF StartPass, NoPass
  <2> QED
    BY <1>1, <1>2, <2>1, <2>2
<1>7. CASE StartMain
  <2> DEFINE queue == Sorted(In({"planned"}))
  <2>1. UNCHANGED <<Flushed, box>> /\ (pass' = pass \/ StartPass(FALSE, 1, queue))
    BY <1>g, <1>7 DEF StartMain, Unwritten
  <2> HIDE DEF queue
  <2>2. StartPass(FALSE, 1, queue) => pass'.replies = <<>>
    BY DEF StartPass, NoPass
  <2> QED
    BY <1>1, <1>2, <2>1, <2>2
<1>8. CASE LeaveLadder \/ RefreshTotals
  BY <1>1, <1>g, <1>8 DEF LeaveLadder, RefreshTotals, Unwritten
<1>20. CASE OpenFolder
  <2>1. UNCHANGED <<box, pass>>
    BY <1>20 DEF OpenFolder
  <2> QED
    BY <1>1, <1>g, <1>20, <2>1 DEF Unwritten
<1>9. CASE Fill
  <2>1. UNCHANGED <<Flushed, box>> /\ pass'.replies = pass.replies /\ pass'.pend = pass.pend
    BY <1>a, <1>g, <1>9 DEF Fill, Passes, Unwritten
  <2> QED
    BY <1>3, <2>1
<1>10. CASE Take
  <2>1. UNCHANGED box /\ \A u \in UID : Flushed'[u] = "done" => Flushed[u] = "done"
    BY <1>10, TakenRows DEF Take
  <2>2. pass'.replies = pass.replies /\ pass'.pend = pass.pend
    BY <1>a, <1>10 DEF Take, Passes
  <2> QED
    BY <1>3, <2>1, <2>2
<1>11. CASE Body
  <2>1. UNCHANGED <<Flushed, box>> /\ pass'.replies = pass.replies /\ pass'.pend = pass.pend
    BY <1>a, <1>g, <1>11 DEF Body, Passes, Unwritten
  <2> QED
    BY <1>3, <2>1
<1>12. CASE AppendItem
  <2> DEFINE q == [pass EXCEPT !.last = Item, !.phase = "append"]
  <2>1. /\ UNCHANGED <<Flushed, box>>
        /\ pass' = q \/ pass' = [q EXCEPT !.pend = Append(@, Item)]
    BY <1>a, <1>g, <1>12 DEF AppendItem, Unwritten
  <2>2. q.pend = pass.pend /\ q.replies = pass.replies /\ DOMAIN q = DOMAIN pass
    BY <1>a DEF Passes
  <2>3. /\ pass'.replies = pass.replies
        /\ pass'.pend = pass.pend \/ pass'.pend = Append(pass.pend, Item)
    BY <1>a, <2>1 DEF Passes
  <2> HIDE DEF q
  <2>4. CASE pass'.pend = Append(pass.pend, Item)
    <3>1. Item \in UID
      BY <1>a, <1>12, ItemInHand DEF AppendItem
    <3>2. \A k \in 1..Len(p.pend) : Append(p.pend, Item)[k] = p.pend[k]
      BY <1>a, <3>1
    <3>3. \A k \in DOMAIN p.replies : k \in 1..Len(p.pend)
      BY <1>b
    <3> QED
      BY <1>a, <2>1, <2>3, <2>4, <3>2, <3>3 DEF Stored
  <2> QED
    BY <1>3, <2>1, <2>3, <2>4
<1>13. CASE SettleOne
  <2>1. p.pend # <<>> /\ (Confirms \/ Fails \/ Drops) /\ UNCHANGED box
    BY <1>a, <1>13, SettleOneShape
  <2>f. /\ Confirms => Flushed' = [Flushed EXCEPT ![Head(p.pend)] = "done"]
        /\ Fails \/ Drops => Flushed' = Flushed
    BY <1>13, SettledRows
  <2>2. ASSUME p.replies # <<>>, pass'.pend = Tail(p.pend), pass'.replies = Tail(p.replies)
        PROVE  /\ Head(p.replies) = "OK" => Head(p.pend) \in box
               /\ \A k \in DOMAIN pass'.replies : pass'.replies[k] = "OK" => pass'.pend[k] \in box
    <3>1. /\ Len(p.replies) \in Nat \ {0} /\ Head(p.replies) = p.replies[1]
          /\ DOMAIN Tail(p.replies) = 1..Len(p.replies) - 1
          /\ \A k \in 1..Len(p.replies) - 1 : Tail(p.replies)[k] = p.replies[k + 1]
      BY <1>a, <2>2, HeadTailProperties, LenProperties, EmptySeq
    <3>2. /\ Head(p.pend) = p.pend[1]
          /\ \A k \in 1..Len(p.pend) - 1 : Tail(p.pend)[k] = p.pend[k + 1]
      BY <1>a, <2>1, HeadTailProperties
    <3>3. 1 \in DOMAIN p.replies
      BY <1>b, <3>1
    <3>4. \A k \in 1..Len(p.replies) - 1 : k + 1 \in DOMAIN p.replies /\ k \in 1..Len(p.pend) - 1
      BY <1>b, <3>1
    <3> QED
      BY <1>a, <2>2, <3>1, <3>2, <3>3, <3>4 DEF Stored
  <2>3. CASE Confirms
    <3>1. /\ p.replies # <<>> /\ Head(p.replies) = "OK"
          /\ pass'.pend = Tail(p.pend) /\ pass'.replies = Tail(p.replies)
          /\ \A u \in UID : Flushed'[u] = "done" => Flushed[u] = "done" \/ u = Head(p.pend)
      BY <1>a, <2>f, <2>3 DEF Confirms, Passes
    <3> QED
      BY <2>1, <2>2, <3>1 DEF Stored
  <2>4. CASE Fails
    <3>1. /\ pass'.pend = Tail(p.pend) /\ UNCHANGED Flushed
          /\ \/ p.replies # <<>> /\ pass'.replies = Tail(p.replies)
             \/ pass'.replies = <<>>
      BY <1>a, <2>f, <2>4 DEF Fails, Passes
    <3> QED
      BY <1>2, <2>1, <2>2, <3>1 DEF Stored
  <2>5. CASE Drops
    <3>1. pass'.replies = <<>> /\ UNCHANGED Flushed
      BY <1>a, <2>f, <2>5 DEF Drops, Passes
    <3> QED
      BY <1>2, <2>1, <3>1
  <2> QED
    BY <2>1, <2>3, <2>4, <2>5
<1>14. CASE MainPassEnds
  <2>1. /\ UNCHANGED box
        /\ \/ StartPass(FALSE, p.no + 1, p.fails) /\ row' = Flushed
           \/ GivenUp(ToSet(p.fails)) /\ pass' = Emptied
    BY <1>14, MainPassShape
  <2>2. StartPass(FALSE, p.no + 1, p.fails) => pass'.replies = <<>>
    BY DEF StartPass, NoPass
  <2>3. /\ row' = Flushed => UNCHANGED Flushed
        /\ GivenUp(ToSet(p.fails)) => \A u \in UID : Flushed'[u] = "done" => Flushed[u] = "done"
    BY <1>a, <1>14, BatchEnds, Written
  <2> QED
    BY <1>2, <1>3, <1>e, <2>1, <2>2, <2>3
<1>15. CASE LadderPassEnds
  <2>1. PICK lost \in SUBSET ToSet(p.fails) : GivenUp(lost) /\ pass' = Emptied /\ UNCHANGED box
    BY <1>15, LadderPassShape
  <2>2. \A u \in UID : Flushed'[u] = "done" => Flushed[u] = "done"
    BY <1>a, <2>1, EmptiedType, Written
  <2> QED
    BY <1>3, <1>e, <2>1, <2>2
<1>16. CASE PassBreaks
  <2>1. PICK lost \in SUBSET UID : GivenUp(lost) /\ pass' = Emptied /\ UNCHANGED box
    BY <1>16, PassBreaksShape
  <2>2. \A u \in UID : Flushed'[u] = "done" => Flushed[u] = "done"
    BY <1>a, <2>1, EmptiedType, Written
  <2> QED
    BY <1>3, <1>e, <2>1, <2>2
<1>17. CASE Serve
  <2> DEFINE k == Len(p.replies) + 1
             u == p.pend[k]
             said == IF Kind[u] = "good" THEN "OK" ELSE "NO"
             answers == Append(p.replies, said)
  <2>1. /\ UNCHANGED Flushed
        /\ box' = IF Kind[u] = "good" THEN box \union {u} ELSE box
        /\ pass' = IF Kind[u] \in {"good", "refused"} THEN [pass EXCEPT !.replies = answers] ELSE pass
    BY <1>a, <1>g, <1>17 DEF Serve, Unwritten
  <2>2. /\ DOMAIN answers = 1..k /\ answers[k] = said
        /\ \A j \in 1..Len(p.replies) : answers[j] = p.replies[j]
    BY <1>a
  <2>3. \A j \in 1..k : j \in DOMAIN p.replies \/ j = k
    BY <1>b
  <2>4. answers[k] = "OK" => Kind[u] = "good"
    BY <2>2
  <2> HIDE DEF answers, said
  <2>5. /\ pass'.pend = pass.pend
        /\ pass'.replies = answers \/ pass'.replies = pass.replies
    BY <1>a, <2>1 DEF Passes
  <2>6. box \subseteq box' /\ (Kind[u] = "good" => u \in box')
    BY <2>1
  <2> HIDE DEF k
  <2>7. CASE pass'.replies = answers
    BY <1>a, <1>b, <2>1, <2>2, <2>3, <2>4, <2>5, <2>6, <2>7 DEF Stored
  <2>8. CASE pass'.replies = pass.replies
    BY <2>1, <2>5, <2>6, <2>8 DEF Stored
  <2> QED
    BY <2>5, <2>7, <2>8
<1>18. CASE CutDst
  <2>1. PICK n \in 0..Len(p.replies) : pass' = [pass EXCEPT !.replies = SubSeq(p.replies, 1, n)]
    BY <1>a, <1>18 DEF CutDst
  <2>2. UNCHANGED <<Flushed, box>>
    BY <1>g, <1>18 DEF CutDst, Unwritten
  <2> DEFINE answers == SubSeq(p.replies, 1, n)
  <2>3. /\ DOMAIN answers = 1..n
        /\ \A j \in 1..n : answers[j] = p.replies[j] /\ j \in DOMAIN p.replies
    BY <1>a
  <2> HIDE DEF answers
  <2>4. pass'.replies = answers /\ pass'.pend = pass.pend
    BY <1>a, <2>1 DEF Passes, answers
  <2> QED
    BY <1>a, <2>2, <2>3, <2>4 DEF Stored
<1>21. CASE Room
  <2>1. UNCHANGED box /\ (pass' = pass \/ pass' = Emptied)
    BY <1>21 DEF Room
  <2> QED
    BY <1>1, <1>3, <1>e, <1>g, <1>21, <2>1 DEF Unwritten
<1>19. CASE OpenPair \/ FailAttempt \/ Retry \/ EndMailbox \/ OpenFolderFails
             \/ CutSrc \/ WatchdogSrc \/ WatchdogDst \/ Supervisor \/ TogglePause
             \/ UNCHANGED vars
  <2>1. UNCHANGED <<box, pass>>
    BY <1>19, WhoRests DEF Rests, vars
  <2> QED
    BY <1>1, <1>g, <1>19, <2>1 DEF Unwritten
<1> QED
  BY <1>4, <1>5, <1>6, <1>7, <1>8, <1>9, <1>10, <1>11, <1>12, <1>13, <1>14, <1>15, <1>16,
     <1>17, <1>18, <1>19, <1>20, <1>21 DEF Next, Runner, Breaks

\* A mailbox that ends as a success has every message on the destination; one that
\* ends with warnings has settled every message, and what it calls done is there.
EndsSettled ==
  pc = "ended" =>
    /\ run.status = "SUCCESS" => box = UID /\ \A u \in UID : row[u] = "done"
    /\ run.status = "WARNINGS" =>
         \A u \in UID : row[u] = "failed" \/ (row[u] = "done" /\ u \in box)

\* The end of a mailbox is what it says, whatever has gone wrong on the way
\* (mailbox.go, attempt; folder.go, run).
THEOREM EndsSettledAlways == Spec => []EndsSettled
<1>1. Init => Stored
  <2> SUFFICES ASSUME Init
               PROVE  Stored
    OBVIOUS
  <2>1. DOMAIN <<>> = {}
    OBVIOUS
  <2>2. pass.replies = <<>>
    BY DEF Init, NoPass
  <2>3. \A u \in UID : Flushed[u] # "done"
    BY DEF Init, Flushed, NoPass, p
  <2> QED
    BY <2>1, <2>2, <2>3 DEF Stored
<1>2. RInv /\ Stored /\ [Next]_vars => Stored'
  BY StoredStep
<1>3. RInv /\ Stored => EndsSettled
  <2> SUFFICES ASSUME RInv, Stored, pc = "ended"
               PROVE  /\ run.status = "SUCCESS" => box = UID /\ \A u \in UID : row[u] = "done"
                      /\ run.status = "WARNINGS" =>
                           \A u \in UID : row[u] = "failed" \/ (row[u] = "done" /\ u \in box)
    BY DEF EndsSettled
  <2>1. Flushed \in [UID -> RowStates] /\ box \subseteq UID
    BY TypesNamed DEF RInv
  <2>2. \A u \in UID : Flushed[u] \in Open \/ Flushed[u] = "done" \/ Flushed[u] = "failed"
    BY <2>1 DEF RowStates, Open
  <2>3. /\ run.status \in {"SUCCESS", "WARNINGS"} => \A u \in UID : Flushed[u] \notin Open
        /\ run.status = "SUCCESS" => \A u \in UID : Flushed[u] # "failed"
    BY DEF RInv, NoneLeft, Is
  <2>4. \A u \in UID : Flushed[u] = "done" => u \in box
    BY DEF Stored
  <2>5. row = Flushed
    BY Between DEF Passing
  <2> QED
    BY <2>1, <2>2, <2>3, <2>4, <2>5
<1> QED
  BY <1>1, <1>2, <1>3, RInvAlways, PTL DEF Spec

-------------------------------------------------------------------------------
(* The counters *)

\* What may still go wrong only shrinks, and the bus has its type.
Bounds ==
  /\ budget \in [trouble : 0..MaxTrouble, kick : 0..MaxKick, requeue : 0..MaxRequeue]
  /\ bus \in [paused : BOOLEAN, hint : BOOLEAN, staleFailed : BOOLEAN]

LEMMA BoundsInit == Init => Bounds
<1> SUFFICES ASSUME Init
             PROVE  Bounds
  OBVIOUS
<1>1. MaxTrouble \in 0..MaxTrouble /\ MaxKick \in 0..MaxKick /\ MaxRequeue \in 0..MaxRequeue
  BY RecoveryAssumption
<1> QED
  BY <1>1 DEF Init, Bounds

LEMMA HappensSpends ==
  ASSUME Bounds, NEW what, Happens(what)
  PROVE  /\ budget' \in [trouble : 0..MaxTrouble, kick : 0..MaxKick, requeue : 0..MaxRequeue]
         /\ budget'.requeue = budget.requeue /\ budget'.trouble # MaxTrouble
<1>1. MaxTrouble \in Nat /\ MaxKick \in Nat /\ TroubleCost \in Nat
  BY RecoveryAssumption
<1>2. /\ budget.trouble \in 0..MaxTrouble /\ budget.kick \in 0..MaxKick
      /\ budget.trouble > 0 /\ budget.kick >= TroubleCost
  BY DEF Bounds, Happens
<1>3. /\ budget.trouble - 1 \in 0..MaxTrouble /\ budget.trouble - 1 # MaxTrouble
      /\ budget.kick - TroubleCost \in 0..MaxKick
  BY <1>1, <1>2
<1>4. PICK t \in 0..MaxTrouble, k \in 0..MaxKick :
         t = budget.trouble - 1 /\ k = budget.kick - TroubleCost
  BY <1>3
<1>5. budget' = [budget EXCEPT !.trouble = t, !.kick = k] /\ t # MaxTrouble
  BY <1>3, <1>4 DEF Happens
<1> QED
  BY <1>5 DEF Bounds

LEMMA WhoSpends ==
  ASSUME [Next]_vars
  PROVE  \/ UNCHANGED <<bus, budget>>
         \/ OpenFolder \/ Requeue \/ CutDst \/ CutSrc \/ Observe \/ Act \/ TogglePause
<1>1. CASE OpenPair \/ Ready \/ FailAttempt \/ Retry \/ Trouble \/ EndMailbox \/ OpenFolderFails
  BY <1>1 DEF OpenPair, Ready, FailAttempt, Retry, Trouble, EndMailbox, OpenFolderFails, outside
<1>2. CASE StartEntry \/ LeaveLadder \/ StartMain \/ Fill \/ Take \/ Body \/ AppendItem
  BY <1>2 DEF StartEntry, LeaveLadder, StartMain, Fill, Take, Body, AppendItem, outside
<1>3. CASE SettleOne \/ Room \/ MainPassEnds \/ LadderPassEnds \/ PassBreaks
  BY <1>3 DEF SettleOne, Room, MainPassEnds, LadderPassEnds, PassBreaks, outside
<1>4. CASE Serve \/ WatchdogSrc \/ WatchdogDst \/ Elapse \/ UNCHANGED vars
  BY <1>4 DEF Serve, WatchdogSrc, WatchdogDst, Elapse, outside, vars
<1>5. CASE Reconcile \/ RefreshTotals
  BY <1>5 DEF Reconcile, RefreshTotals, outside
<1> QED
  BY <1>1, <1>2, <1>3, <1>4, <1>5 DEF Next, Runner, Breaks, Supervisor

\* What each step does to the budget and to the bus.
LEMMA BoundsStep ==
  ASSUME Bounds, [Next]_vars
  PROVE  /\ Bounds'
         /\ Requeue => budget'.requeue # MaxRequeue
         /\ budget'.requeue = MaxRequeue => budget.requeue = MaxRequeue
         /\ Calm' => Calm /\ (bus'.paused => bus.paused)
                  /\ (bus'.staleFailed => bus.staleFailed)
<1> DEFINE Goal == /\ Bounds'
                   /\ Requeue => budget'.requeue # MaxRequeue
                   /\ budget'.requeue = MaxRequeue => budget.requeue = MaxRequeue
                   /\ Calm' => /\ Calm /\ (bus'.paused => bus.paused)
                               /\ (bus'.staleFailed => bus.staleFailed)
<1>b. /\ budget \in [trouble : 0..MaxTrouble, kick : 0..MaxKick, requeue : 0..MaxRequeue]
      /\ bus \in [paused : BOOLEAN, hint : BOOLEAN, staleFailed : BOOLEAN]
  BY DEF Bounds
<1>n. MaxTrouble \in Nat /\ MaxKick \in Nat /\ MaxRequeue \in Nat
  BY RecoveryAssumption
<1>r. Requeue => /\ budget'.requeue # MaxRequeue /\ budget'.requeue \in 0..MaxRequeue
                 /\ budget'.trouble = budget.trouble /\ budget'.kick = budget.kick
                 /\ \E n \in 0..MaxRequeue : budget' = [budget EXCEPT !.requeue = n]
  <2> SUFFICES ASSUME Requeue
               PROVE  /\ budget'.requeue # MaxRequeue /\ budget'.requeue \in 0..MaxRequeue
                      /\ budget'.trouble = budget.trouble /\ budget'.kick = budget.kick
                      /\ \E n \in 0..MaxRequeue : budget' = [budget EXCEPT !.requeue = n]
    OBVIOUS
  <2>1. budget.requeue \in 0..MaxRequeue /\ budget.requeue > 0
    BY <1>b DEF Requeue
  <2>2. budget.requeue - 1 \in 0..MaxRequeue /\ budget.requeue - 1 # MaxRequeue
    BY <1>n, <2>1
  <2>3. PICK n \in 0..MaxRequeue : n = budget.requeue - 1
    BY <2>2
  <2>4. budget' = [budget EXCEPT !.requeue = n] /\ n # MaxRequeue
    BY <2>2, <2>3 DEF Requeue
  <2> QED
    BY <1>b, <2>4
<1>1. CASE Requeue
  <2>1. bus' = [bus EXCEPT !.staleFailed = FALSE]
    BY <1>1 DEF Requeue
  <2>2. Bounds'
    BY <1>b, <1>1, <1>r, <2>1 DEF Bounds
  <2>3. Calm' => Calm
    BY <1>1, <1>r DEF Calm
  <2>4. bus'.paused = bus.paused /\ bus'.staleFailed = FALSE
    BY <1>b, <2>1
  <2>5. Goal
    BY <1>1, <1>r, <2>2, <2>3, <2>4
  <2> QED
    BY <2>5
<1>2. ASSUME ~Requeue, UNCHANGED budget,
             \E h, f \in BOOLEAN : /\ bus' = [bus EXCEPT !.hint = h, !.staleFailed = f]
                                   /\ f => bus.staleFailed
      PROVE  Goal
  <2>1. PICK h \in BOOLEAN, f \in BOOLEAN :
           bus' = [bus EXCEPT !.hint = h, !.staleFailed = f] /\ (f => bus.staleFailed)
    BY <1>2
  <2>2. /\ bus' \in [paused : BOOLEAN, hint : BOOLEAN, staleFailed : BOOLEAN]
        /\ bus'.paused = bus.paused /\ bus'.staleFailed = f
    BY <1>b, <2>1
  <2>3. Bounds' /\ (Calm' => Calm)
    BY <1>b, <1>2, <2>2 DEF Bounds, Calm
  <2> QED
    BY <1>2, <2>1, <2>2, <2>3
<1>3. ASSUME ~Requeue,
             budget' \in [trouble : 0..MaxTrouble, kick : 0..MaxKick, requeue : 0..MaxRequeue],
             bus' \in [paused : BOOLEAN, hint : BOOLEAN, staleFailed : BOOLEAN],
             budget'.requeue = budget.requeue,
             budget'.trouble # MaxTrouble \/ budget'.kick # MaxKick
      PROVE  Goal
  BY <1>3 DEF Bounds, Calm
<1>4. ASSUME ~Requeue
      PROVE  Goal
  <2>1. CASE UNCHANGED <<bus, budget>>
    <3>1. bus' = [bus EXCEPT !.hint = bus.hint, !.staleFailed = bus.staleFailed]
      BY <1>b, <2>1
    <3>2. bus.hint \in BOOLEAN /\ bus.staleFailed \in BOOLEAN
      BY <1>b
    <3> QED
      BY <1>2, <1>4, <2>1, <3>1, <3>2
  <2>2. CASE OpenFolder
    <3>1. PICK h \in BOOLEAN : bus' = [bus EXCEPT !.hint = h]
      <4>1. PICK hinted \in BOOLEAN : bus' = [bus EXCEPT !.hint = @ /\ ~hinted]
        BY <2>2 DEF OpenFolder
      <4> QED
        BY <4>1
    <3>2. bus' = [bus EXCEPT !.hint = h, !.staleFailed = bus.staleFailed]
      BY <1>b, <3>1
    <3>3. UNCHANGED budget /\ bus.staleFailed \in BOOLEAN
      BY <1>b, <2>2 DEF OpenFolder
    <3> QED
      BY <1>2, <1>4, <3>2, <3>3
  <2>3. CASE Observe
    <3>1. /\ UNCHANGED budget
          /\ bus' = [bus EXCEPT !.staleFailed =
                  @ /\ ~(~bus.paused /\ watch.on /\ watch.episode /\ run.status = "RUNNING"
                         /\ watch.seen # Signature)]
      BY <2>3 DEF Observe
    <3>2. PICK f \in BOOLEAN : bus' = [bus EXCEPT !.staleFailed = f] /\ (f => bus.staleFailed)
      BY <3>1
    <3>3. bus' = [bus EXCEPT !.hint = bus.hint, !.staleFailed = f] /\ bus.hint \in BOOLEAN
      BY <1>b, <3>2
    <3> QED
      BY <1>2, <1>4, <3>1, <3>2, <3>3
  <2>4. CASE CutDst \/ CutSrc
    <3>1. UNCHANGED bus /\ (Happens("dst") \/ Happens("src"))
      BY <2>4 DEF CutDst, CutSrc
    <3> QED
      BY <1>3, <1>4, <1>b, <3>1, HappensSpends
  <2>5. CASE TogglePause /\ ~bus.paused
    <3>1. Happens("pause") /\ bus' = [bus EXCEPT !.paused = ~@]
      BY <2>5 DEF TogglePause
    <3>2. bus' \in [paused : BOOLEAN, hint : BOOLEAN, staleFailed : BOOLEAN]
      BY <1>b, <3>1
    <3> QED
      BY <1>3, <1>4, <3>1, <3>2, HappensSpends
  <2>6. CASE TogglePause /\ bus.paused
    <3>1. UNCHANGED budget /\ bus' = [bus EXCEPT !.paused = FALSE]
      BY <2>6 DEF TogglePause
    <3>2. /\ bus' \in [paused : BOOLEAN, hint : BOOLEAN, staleFailed : BOOLEAN]
          /\ ~bus'.paused /\ bus'.staleFailed = bus.staleFailed
      BY <1>b, <3>1
    <3>3. Bounds' /\ (Calm' => Calm)
      BY <1>b, <3>1, <3>2 DEF Bounds, Calm
    <3> QED
      BY <1>4, <3>1, <3>2, <3>3
  <2>7. CASE Act
    <3>1. budget.kick \in 0..MaxKick /\ budget.kick > 0
      BY <1>b, <2>7 DEF Act
    <3>2. budget.kick - 1 \in 0..MaxKick /\ budget.kick - 1 # MaxKick
      BY <1>n, <3>1
    <3>3. PICK k \in 0..MaxKick : k = budget.kick - 1
      BY <3>2
    <3>4. budget' = [budget EXCEPT !.kick = k] /\ k # MaxKick
      BY <2>7, <3>2, <3>3 DEF Act
    <3>5. bus' \in {bus, [bus EXCEPT !.hint = TRUE], [bus EXCEPT !.staleFailed = TRUE]}
      BY <2>7 DEF Act
    <3>6. bus' \in [paused : BOOLEAN, hint : BOOLEAN, staleFailed : BOOLEAN]
      BY <1>b, <3>5
    <3>7. /\ budget' \in [trouble : 0..MaxTrouble, kick : 0..MaxKick, requeue : 0..MaxRequeue]
          /\ budget'.requeue = budget.requeue /\ budget'.kick # MaxKick
      BY <1>b, <3>4
    <3> QED
      BY <1>3, <1>4, <3>6, <3>7
  <2> QED
    BY <1>4, <2>1, <2>2, <2>3, <2>4, <2>5, <2>6, <2>7, WhoSpends
<1> HIDE DEF Goal
<1>5. Goal
  BY <1>1, <1>4 DEF Goal
<1> QED
  BY <1>5 DEF Goal

\* Only RefreshTotals makes the totals fresh.
LEMMA FreshBefore ==
  ASSUME RInv, [Next]_vars, ~RefreshTotals, ~Requeue, TotalsAreFresh'
  PROVE  TotalsAreFresh
<1> DEFINE F == {"adopt", "ladder", "main", "fill", "head", "body", "append", "settle", "broken"}
<1>f. /\ TotalsAreFresh <=> \/ pc \in F \/ (pc = "last" /\ ~run.gaveUp)
                            \/ (pc = "ended" /\ run.status \in {"SUCCESS", "WARNINGS"})
      /\ TotalsAreFresh' <=> \/ pc' \in F \/ (pc' = "last" /\ ~run'.gaveUp)
                             \/ (pc' = "ended" /\ run'.status \in {"SUCCESS", "WARNINGS"})
  BY DEF TotalsAreFresh
<1>t. RunTyped
  BY DEF RInv
<1>1. CASE OpenPair \/ Ready \/ Retry \/ OpenFolderFails \/ Reconcile
  BY <1>1, <1>f DEF OpenPair, Ready, Retry, OpenFolderFails, Reconcile
<1>2. CASE FailAttempt
  BY <1>2, <1>f, <1>t DEF FailAttempt, RunTyped
<1>3. CASE Trouble
  <2>1. \/ pc' = "ended" /\ run' = [run EXCEPT !.status = "STALE"]
        \/ pc' = "reconnect"
        \/ pc' = "last" /\ run'.gaveUp
    BY <1>3, <1>t DEF Trouble, RunTyped
  <2> QED
    BY <1>f, <1>t, <2>1 DEF RunTyped
<1>4. CASE EndMailbox
  <2>1. pc = "last" /\ pc' = "ended" /\ (run.gaveUp => run'.status \in {"PARTIAL", "FAILED"})
    BY <1>4, <1>t DEF EndMailbox, RunTyped
  <2> QED
    BY <1>f, <2>1
<1>5. CASE OpenFolder \/ StartEntry \/ LeaveLadder \/ StartMain \/ Fill \/ Take \/ Body \/ AppendItem
             \/ SettleOne \/ Room \/ MainPassEnds \/ LadderPassEnds \/ PassBreaks
  <2>1. pc \in F
    BY <1>5 DEF OpenFolder, StartEntry, LeaveLadder, StartMain, Fill, Take, Body, AppendItem, SettleOne,
                Drained, Room, MainPassEnds, LadderPassEnds, Complete, PassBreaks
  <2> QED
    BY <1>f, <2>1
<1>6. CASE Serve \/ CutDst \/ CutSrc \/ WatchdogSrc \/ WatchdogDst \/ Supervisor \/ TogglePause
             \/ UNCHANGED vars
  <2>1. UNCHANGED <<pc, run>>
    BY <1>6 DEF Serve, CutDst, CutSrc, WatchdogSrc, WatchdogDst, Supervisor, Elapse, Observe, Act,
                TogglePause, vars, work
  <2> QED
    BY <1>f, <2>1
<1> QED
  BY <1>1, <1>2, <1>3, <1>4, <1>5, <1>6 DEF Next, Runner, Breaks

\* A step that counts nothing.
LEMMA StillCounted ==
  ASSUME ~count.priorSet => Uncounted, count.priorSet => Balanced,
         count'.msgsDone = count.msgsDone, count'.appended = count.appended,
         count'.adopted = count.adopted, count'.prior = count.prior,
         count'.priorSet = count.priorSet,
         \A u \in UID : Flushed'[u] = "done" <=> Flushed[u] = "done",
         TotalsAreFresh' => TotalsAreFresh,
         TotalsAreFresh \/ (UNCHANGED Flushed /\ box \subseteq box' /\ (pc' = "scan" => pc = "scan"))
  PROVE  Counted'
<1>1. Is({"done"})' = Is({"done"})
  BY DEF Is
<1>2. CASE count.priorSet
  BY <1>1, <1>2 DEF Balanced, Counted
<1>3. CASE ~count.priorSet
  <2>1. Uncounted
    BY <1>3
  <2>2. UNCHANGED Flushed /\ box \subseteq box' /\ (pc' = "scan" => pc = "scan")
    BY <2>1 DEF Uncounted
  <2>3. /\ Is({"inflight", "done"})' = Is({"inflight", "done"})
        /\ Is({"inflight"})' = Is({"inflight"})
    BY <2>2 DEF Is
  <2>4. Uncounted'
    BY <1>1, <2>1, <2>2, <2>3 DEF Uncounted
  <2> QED
    BY <1>3, <2>4 DEF Counted
<1> QED
  BY <1>2, <1>3

LEMMA CountedStep == RInv /\ Bounds /\ Counted /\ [Next]_vars => Counted'
<1> SUFFICES ASSUME RInv, Bounds, Counted, [Next]_vars, budget'.requeue = MaxRequeue
             PROVE  Counted'
  BY DEF Counted
<1>a. /\ Typed /\ PassRows /\ rec \in Records /\ pass \in Passes /\ count \in Counts
      /\ Flushed \in [UID -> RowStates] /\ p = pass
  BY TypesNamed DEF RInv, Passes, p
<1>b. budget.requeue = MaxRequeue /\ ~Requeue
  BY BoundsStep
<1>c. (~count.priorSet => Uncounted) /\ (count.priorSet => Balanced)
  BY <1>b DEF Counted
<1>g. Unwritten => UNCHANGED Flushed
  BY RowsStay
<1>n. ~RefreshTotals => (TotalsAreFresh' => TotalsAreFresh)
  BY <1>b, FreshBefore
<1> DEFINE P == Passing \union {"ladder", "main", "broken", "adopt"}
<1>p. pc \in P => TotalsAreFresh
  BY DEF Passing, TotalsAreFresh
<1> HIDE DEF P
<1>1. ASSUME ~RefreshTotals, UNCHANGED <<Flushed, count>>,
             pc \in P \/ (box \subseteq box' /\ (pc' = "scan" => pc = "scan"))
      PROVE  Counted'
  BY <1>1, <1>c, <1>n, <1>p, StillCounted
<1>2. CASE OpenPair \/ Ready \/ FailAttempt \/ Retry \/ Trouble \/ EndMailbox \/ OpenFolderFails
  <2>1. UNCHANGED <<box, count>> /\ pc' # "scan"
    BY <1>2 DEF OpenPair, Ready, FailAttempt, Retry, Trouble, EndMailbox, OpenFolderFails
  <2>2. ~RefreshTotals
    BY <2>1, <1>2 DEF RefreshTotals, OpenPair, Ready, FailAttempt, Retry, Trouble, EndMailbox, OpenFolderFails
  <2> QED
    BY <1>1, <1>2, <1>g, <2>1, <2>2 DEF Unwritten
<1>3. CASE OpenFolder \/ StartEntry \/ LeaveLadder \/ StartMain \/ Fill \/ Body \/ AppendItem \/ Room
  <2>1. UNCHANGED count /\ pc \in P
    BY <1>3 DEF OpenFolder, StartEntry, LeaveLadder, StartMain, Fill, Body, AppendItem, Room, Passing, P
  <2>2. ~RefreshTotals
    BY <2>1 DEF RefreshTotals, P, Passing
  <2> QED
    BY <1>1, <1>3, <1>g, <2>1, <2>2 DEF Unwritten
<1>4. CASE Serve \/ CutDst \/ CutSrc \/ WatchdogSrc \/ WatchdogDst \/ Supervisor \/ TogglePause
             \/ UNCHANGED vars
  <2>1. UNCHANGED <<count, pc>> /\ box \subseteq box'
    BY <1>4 DEF Serve, CutDst, CutSrc, WatchdogSrc, WatchdogDst, Supervisor, Elapse, Observe, Act,
                TogglePause, vars, work
  <2>2. ~RefreshTotals
    BY <2>1 DEF RefreshTotals
  <2> QED
    BY <1>1, <1>4, <1>g, <2>1, <2>2 DEF Unwritten
<1>5. CASE Take
  <2>1. UNCHANGED count /\ pc = "head" /\ ~RefreshTotals
    BY <1>5 DEF Take, RefreshTotals
  <2>2. \A u \in UID : Flushed'[u] = "done" <=> Flushed[u] = "done"
    BY <1>5, TakenRows
  <2>3. TotalsAreFresh
    BY <2>1 DEF TotalsAreFresh
  <2> QED
    BY <1>c, <1>n, <2>1, <2>2, <2>3, StillCounted
<1>6. ASSUME NEW us \in SUBSET UID, GivenUp(us), pc \in P, \A u \in us : Flushed[u] # "done",
             pass'.batch = {}, ~RefreshTotals
      PROVE  Counted'
  <2>1. \A u \in UID : Flushed'[u] = "done" <=> Flushed[u] = "done"
    <3>1. Flushed' = [u \in UID |-> IF u \in us THEN "failed" ELSE Flushed[u]]
      BY <1>a, <1>6, Written
    <3> QED
      BY <1>6, <3>1
  <2>2. /\ count'.msgsDone = count.msgsDone /\ count'.appended = count.appended
        /\ count'.adopted = count.adopted /\ count'.prior = count.prior
        /\ count'.priorSet = count.priorSet
    BY <1>a, <1>6 DEF GivenUp, Counts
  <2> QED
    BY <1>c, <1>n, <1>p, <1>6, <2>1, <2>2, StillCounted
<1>7. CASE MainPassEnds
  <2>1. /\ Complete
        /\ (row' = Flushed /\ UNCHANGED count) \/ GivenUp(ToSet(p.fails))
        /\ pass'.batch = {}
    BY <1>7, MainPassShape, BatchEnds
  <2>2. pc = "head" /\ \A u \in ToSet(p.fails) : u \in UID /\ Flushed[u] = "inflight"
    BY <2>1, WhatIsSettled
  <2>3. /\ ToSet(p.fails) \in SUBSET UID /\ pc \in P /\ \A u \in ToSet(p.fails) : Flushed[u] # "done"
        /\ ~RefreshTotals
    BY <2>2 DEF Passing, P, RefreshTotals
  <2>4. row' = Flushed => UNCHANGED Flushed
    BY <1>a, <2>1, Written
  <2> QED
    BY <1>1, <1>6, <2>1, <2>3, <2>4
<1>8. CASE LadderPassEnds
  <2>1. PICK lost \in SUBSET ToSet(p.fails) : Complete /\ GivenUp(lost)
    BY <1>8, LadderPassShape
  <2>2. pc = "head" /\ \A u \in ToSet(p.fails) : u \in UID /\ Flushed[u] = "inflight"
    BY <2>1, WhatIsSettled
  <2>3. lost \in SUBSET UID /\ pc \in P /\ (\A u \in lost : Flushed[u] # "done") /\ ~RefreshTotals
    BY <2>1, <2>2 DEF Passing, P, RefreshTotals
  <2>4. pass'.batch = {}
    BY <1>8, BatchEnds
  <2> QED
    BY <1>6, <2>1, <2>3, <2>4
<1>9. CASE PassBreaks
  <2>1. PICK lost \in SUBSET UID :
          /\ pc = "broken" /\ GivenUp(lost)
          /\ lost = {} \/ (lost = {p.rows[1]} /\ Len(p.rows) = 1)
    BY <1>9, PassBreaksShape
  <2>2. PICK u \in ToSet(p.rows) : Flushed[u] \in Open
    BY <2>1 DEF RInv, BrokenRows
  <2>3. p.rows \in Seq(UID)
    BY <1>a DEF Passes
  <2>4. Len(p.rows) = 1 => u = p.rows[1]
    BY <2>2, <2>3 DEF ToSet
  <2>5. \A v \in lost : Flushed[v] # "done"
    BY <2>1, <2>2, <2>4 DEF Open
  <2>6. pass'.batch = {} /\ pc \in P /\ ~RefreshTotals
    BY <1>9, <2>1, BatchEnds DEF P, RefreshTotals
  <2> QED
    BY <1>6, <2>1, <2>5, <2>6
<1>10. CASE SettleOne
  <2>1. pc \in {"settle", "head"} /\ p.pend # <<>> /\ (Confirms \/ Fails \/ Drops)
    BY <1>a, <1>10, SettleOneShape
  <2>f. /\ Confirms => Flushed' = [Flushed EXCEPT ![Head(p.pend)] = "done"]
        /\ Fails \/ Drops => Flushed' = Flushed
    BY <1>10, SettledRows
  <2>p. pc \in P /\ ~RefreshTotals
    BY <2>1 DEF Passing, P, RefreshTotals
  <2>2. CASE Fails \/ Drops
    <3>1. UNCHANGED <<Flushed, count>>
      BY <2>f, <2>2 DEF Fails, Drops
    <3> QED
      BY <1>1, <2>p, <3>1
  <2>3. CASE Confirms
    <3> DEFINE u == Head(p.pend)
               D == Is({"done"})
    <3>1. u \in UID /\ Flushed[u] = "inflight"
      <4>1. p.pend \in Seq(UID)
        BY <1>a DEF Passes
      <4>2. u \in UID /\ u \in ToSet(p.pend)
        BY <2>1, <4>1, HeadAndTail, HeadTailProperties
      <4> QED
        BY <1>a, <2>1, <4>2 DEF PassRows, Passing, Unsettled
    <3>2. Flushed' = [Flushed EXCEPT ![u] = "done"]
      BY <2>f, <2>3
    <3> HIDE DEF u
    <3>3. Is({"done"})' = D \union {u} /\ u \notin D /\ D \in SUBSET UID
      BY <1>a, <3>1, <3>2 DEF Is
    <3> HIDE DEF D
    <3>4. IsFiniteSet(D) /\ Cardinality(D) \in Nat
      BY <3>3, Messages
    <3>5. Cardinality(D \union {u}) = Cardinality(D) + 1
      BY <3>3, <3>4, FS_AddElement
    <3>6. count.priorSet /\ Balanced /\ TotalsAreFresh
      BY <1>c, <1>p, <2>p DEF Uncounted
    <3>7. /\ count'.msgsDone = count.msgsDone + 1 /\ count'.appended = count.appended + 1
          /\ count'.adopted = count.adopted /\ count'.prior = count.prior
          /\ count'.priorSet
      <4>1. count.msgsDone + 1 \in Nat /\ count.appended + 1 \in Nat
        BY <1>a DEF Counts
      <4>2. PICK m \in Nat, n \in Nat : m = count.msgsDone + 1 /\ n = count.appended + 1
        BY <4>1
      <4>3. count' = [count EXCEPT !.msgsDone = m, !.appended = n]
        BY <2>3, <4>2 DEF Confirms
      <4> QED
        BY <1>a, <3>6, <4>2, <4>3 DEF Counts
    <3>8. /\ count.msgsDone \in Nat /\ count.appended \in Nat /\ count.adopted \in Nat
          /\ count.prior \in Nat /\ Cardinality(Resumed) \in Nat
      <4>1. Resumed \in SUBSET UID
        BY RecoveryAssumption
      <4> QED
        BY <1>a, <4>1, Messages DEF Counts
    <3>9. /\ count.appended + count.adopted + count.prior = Cardinality(D) + Cardinality(Resumed)
          /\ count.msgsDone = Cardinality(D)
      BY <3>6 DEF Balanced, D
    <3>10. Cardinality(Is({"done"})') = Cardinality(D) + 1
      BY <3>3, <3>5
    <3>11. /\ count'.appended + count'.adopted + count'.prior
                = Cardinality(D) + 1 + Cardinality(Resumed)
           /\ count'.msgsDone = Cardinality(D) + 1 /\ count'.msgsDone \in Nat
      BY <3>4, <3>7, <3>8, <3>9
    <3>12. Balanced'
      <4>1. count'.msgsDone <= Cardinality(Is({"done"})')
        BY <3>10, <3>11
      <4> QED
        BY <3>10, <3>11, <4>1 DEF Balanced
    <3> QED
      BY <3>7, <3>12 DEF Counted
  <2> QED
    BY <2>1, <2>2, <2>3
<1>11. CASE Reconcile
  <2>1. PICK arrived \in SUBSET UID :
           /\ arrived = Is({"inflight"}) \intersect box
           /\ Flushed' = After(arrived)
           /\ count' = [count EXCEPT !.adopted = @ + Cardinality(arrived)]
           /\ pc = "open" /\ pc' = "scan" /\ UNCHANGED box
    BY <1>11, ReconcileShape
  <2> DEFINE D == Is({"done"})
  <2>2. Is({"done"})' = D \union arrived /\ D \intersect arrived = {} /\ Is({"inflight"})' = {}
    BY <1>a, <2>1 DEF After, Is
  <2>3. D \in SUBSET UID
    BY DEF Is
  <2>4. ~TotalsAreFresh'
    BY <2>1 DEF TotalsAreFresh
  <2>h. Is({"inflight", "done"}) = Is({"inflight"}) \union D
    BY DEF Is
  <2>i. Is({"inflight", "done"})' = Is({"inflight"})' \union Is({"done"})'
    BY DEF Is
  <2> DEFINE E == Is({"done"})'
  <2>e. E = D \union arrived /\ E = Is({"done"})'
    BY <2>2
  <2> HIDE DEF E
  <2> HIDE DEF D
  <2>5. /\ IsFiniteSet(D) /\ IsFiniteSet(arrived) /\ Cardinality(D) \in Nat
        /\ Cardinality(arrived) \in Nat
    BY <2>3, Messages
  <2>6. Cardinality(E) = Cardinality(D) + Cardinality(arrived)
    <3>1. Cardinality(D \union arrived)
            = Cardinality(D) + Cardinality(arrived) - Cardinality(D \intersect arrived)
      BY <2>5, FS_Union
    <3>2. Cardinality(D \intersect arrived) = 0
      BY <2>2, FS_EmptySet
    <3> QED
      BY <2>e, <2>5, <3>1, <3>2
  <2>7. PICK n \in Nat : n = Cardinality(arrived)
    BY <2>5
  <2>8. /\ count'.msgsDone = count.msgsDone /\ count'.appended = count.appended
        /\ count'.adopted = count.adopted + n /\ count'.priorSet = count.priorSet
        /\ count'.prior = count.prior
    BY <1>a, <2>1, <2>7 DEF Counts
  <2>9. /\ count.msgsDone \in Nat /\ count.appended \in Nat /\ count.adopted \in Nat
        /\ count.prior \in Nat /\ Cardinality(Resumed) \in Nat
    <3>1. Resumed \in SUBSET UID
      BY RecoveryAssumption
    <3> QED
      BY <1>a, <3>1, Messages DEF Counts
  <2>10. CASE count.priorSet
    <3>1. /\ count.appended + count.adopted + count.prior = Cardinality(D) + Cardinality(Resumed)
          /\ count.msgsDone <= Cardinality(D)
      BY <1>c, <2>10 DEF Balanced, D
    <3>2. /\ count'.appended + count'.adopted + count'.prior = Cardinality(E) + Cardinality(Resumed)
          /\ count'.msgsDone <= Cardinality(E)
      BY <2>5, <2>6, <2>7, <2>8, <2>9, <3>1
    <3>3. Balanced'
      BY <2>4, <2>e, <3>2 DEF Balanced
    <3> QED
      BY <2>8, <2>10, <3>3 DEF Counted
  <2>11. CASE ~count.priorSet
    <3>1. Uncounted
      BY <1>c, <2>11
    <3>2. /\ count.appended = 0 /\ count.msgsDone = 0 /\ Is({"inflight", "done"}) = Resumed
          /\ count.adopted = Cardinality(D) /\ Is({"inflight"}) \subseteq box
          /\ Is({"inflight"}) = {} \/ D = {}
      BY <3>1 DEF Uncounted, D
    <3>3. arrived = Is({"inflight"})
      BY <2>1, <3>2
    <3>4. E = Resumed /\ Is({"inflight", "done"})' = E
      BY <2>2, <2>e, <2>h, <2>i, <3>2, <3>3
    <3>5. count'.adopted = Cardinality(E)
      BY <2>5, <2>6, <2>7, <2>8, <3>2
    <3>6. Is({"inflight"})' \subseteq box'
      BY <2>2
    <3>7. Uncounted'
      BY <2>2, <2>4, <2>8, <2>e, <3>2, <3>4, <3>5, <3>6 DEF Uncounted
    <3> QED
      BY <2>8, <2>11, <3>7 DEF Counted
  <2> QED
    BY <2>10, <2>11
<1>12. CASE RefreshTotals
  <2> DEFINE D == Is({"done"})
  <2>1. pc = "scan" /\ count' = Baseline(count, Cardinality(In({"done"})))
    BY <1>12 DEF RefreshTotals
  <2>2. In({"done"}) = D
    BY <2>1, Between DEF Passing
  <2>3. Is({"done"})' = D
    BY <1>12, <1>g DEF Unwritten, Is
  <2>4. D \in SUBSET UID /\ Is({"inflight", "done"}) = Is({"inflight"}) \union D
    BY DEF Is
  <2> HIDE DEF D
  <2>5. PICK m \in Nat : m = Cardinality(D)
    BY <2>4, Messages
  <2>6. /\ count'.msgsDone = m /\ count'.appended = count.appended
        /\ count'.adopted = count.adopted /\ count'.priorSet
        /\ count'.prior = IF count.priorSet THEN count.prior ELSE m
    BY <1>a, <2>1, <2>2, <2>5 DEF Baseline, Counts
  <2>7. /\ count.msgsDone \in Nat /\ count.appended \in Nat /\ count.adopted \in Nat
        /\ count.prior \in Nat /\ Cardinality(Resumed) \in Nat
    <3>1. Resumed \in SUBSET UID
      BY RecoveryAssumption
    <3> QED
      BY <1>a, <3>1, Messages DEF Counts
  <2>8. count'.appended + count'.adopted + count'.prior = m + Cardinality(Resumed)
    <3>1. CASE count.priorSet
      <4>1. count.appended + count.adopted + count.prior = m + Cardinality(Resumed)
        BY <1>c, <2>5, <3>1 DEF Balanced, D
      <4> QED
        BY <2>6, <3>1, <4>1
    <3>2. CASE ~count.priorSet
      <4>1. /\ count.appended = 0 /\ Is({"inflight", "done"}) = Resumed
            /\ count.adopted = m /\ Is({"inflight"}) = {}
        BY <1>c, <2>1, <2>5, <3>2 DEF Uncounted, D
      <4>2. D = Resumed
        BY <2>4, <4>1
      <4> QED
        BY <2>5, <2>6, <2>7, <3>2, <4>1, <4>2
    <3> QED
      BY <3>1, <3>2
  <2>9. Balanced'
    <3>1. count'.msgsDone <= Cardinality(Is({"done"})')
      BY <2>3, <2>5, <2>6
    <3> QED
      BY <2>3, <2>5, <2>6, <2>8, <3>1 DEF Balanced
  <2> QED
    BY <2>6, <2>9 DEF Counted
<1> QED
  BY <1>b, <1>2, <1>3, <1>4, <1>5, <1>7, <1>8, <1>9, <1>10, <1>11, <1>12 DEF Next, Runner, Breaks

\* The dashboard's counters agree with the database, whatever cuts, kicks and
\* reconnects come in between, until the operator queues the mailbox again: what was
\* appended, adopted and done before is what is confirmed, in the database or in the
\* batch that goes there next, with what an earlier process left in flight counted
\* twice; MsgsDone never exceeds it, and is it whenever a session has read its totals
\* (folder.go, reconcileInflight, RefreshTotals and settleOne; stats.go).
THEOREM TotalsReconcileAlways == Spec => []TotalsReconcile
<1>1. Init => Bounds /\ Counted
  <2> SUFFICES ASSUME Init
               PROVE  Bounds /\ Counted
    OBVIOUS
  <2>1. /\ ~count.priorSet /\ count.appended = 0 /\ count.adopted = 0 /\ count.msgsDone = 0
        /\ pc = "connect" /\ box = Resumed
    BY DEF Init
  <2>2. \A u \in UID : Flushed[u] = IF u \in Resumed THEN "inflight" ELSE "planned"
    BY DEF Init, Flushed, NoPass, p
  <2>3. Resumed \subseteq UID
    BY RecoveryAssumption
  <2>4. /\ Is({"inflight", "done"}) = Resumed /\ Is({"inflight"}) = Resumed /\ Is({"done"}) = {}
    BY <2>2, <2>3 DEF Is
  <2>5. ~TotalsAreFresh
    BY <2>1 DEF TotalsAreFresh
  <2>6. Uncounted
    BY <2>1, <2>4, <2>5, FS_EmptySet DEF Uncounted
  <2> QED
    BY <2>1, <2>6, BoundsInit DEF Counted
<1>2. RInv /\ Bounds /\ Counted /\ [Next]_vars => Bounds' /\ Counted'
  BY BoundsStep, CountedStep
<1>3. RInv /\ Counted => TotalsReconcile
  <2> SUFFICES ASSUME RInv, Counted, count.priorSet, budget.requeue = MaxRequeue
               PROVE  /\ count.appended + count.adopted + count.prior
                           = Confirmed + Cardinality(Resumed)
                      /\ count.msgsDone <= Confirmed
                      /\ TotalsAreFresh => count.msgsDone = Confirmed
    BY DEF TotalsReconcile
  <2> DEFINE D == In({"done"})
             B == pass.batch
  <2>1. /\ D \in SUBSET UID /\ B \in SUBSET UID /\ D \intersect B = {}
        /\ Is({"done"}) = D \union B
    <3>1. Typed /\ Batched /\ pass \in Passes
      BY TypesNamed DEF RInv
    <3>2. B \in SUBSET UID
      BY <3>1 DEF Passes
    <3> QED
      BY <3>1, <3>2 DEF Batched, In, Is, Flushed, p
  <2>2. Balanced
    BY DEF Counted
  <2>c. Confirmed = Cardinality(D) + Cardinality(B)
    BY DEF Confirmed, p
  <2> HIDE DEF D, B
  <2>3. /\ IsFiniteSet(D) /\ IsFiniteSet(B) /\ Cardinality(D) \in Nat /\ Cardinality(B) \in Nat
    BY <2>1, Messages
  <2>4. Cardinality(D \union B) = Cardinality(D) + Cardinality(B) - Cardinality(D \intersect B)
    BY <2>3, FS_Union
  <2>5. Cardinality(D \intersect B) = 0
    BY <2>1, FS_EmptySet
  <2>6. Cardinality(Is({"done"})) = Confirmed
    <3>1. \A x, y, z, w \in Nat : z = x + y - w /\ w = 0 => z = x + y
      OBVIOUS
    <3>2. Cardinality(D \union B) \in Nat
      BY <2>3, FS_Union, FS_CardinalityType
    <3>3. Cardinality(D \union B) = Cardinality(D) + Cardinality(B)
      BY <2>3, <2>4, <2>5, <3>1, <3>2
    <3> QED
      BY <2>1, <2>c, <3>3
  <2> QED
    BY <2>2, <2>6 DEF Balanced
<1> QED
  BY <1>1, <1>2, <1>3, RInvAlways, PTL DEF Spec

-------------------------------------------------------------------------------
(* The innocent *)

\* What is known as long as only messages break connections.
Known ==
  /\ RInv /\ Bounds /\ Calm /\ Innocence

LEMMA KnownParts ==
  ASSUME Known
  PROVE  /\ ~bus.paused /\ ~bus.staleFailed
         /\ Links /\ Refusals /\ Undisturbed /\ Accounted /\ Culprit /\ Spared
         /\ Typed /\ PassRows /\ Answers
         /\ pass \in Passes /\ p = pass /\ Flushed \in [UID -> RowStates]
         /\ p.pend \in Seq(UID) /\ p.replies \in Seq({"OK", "NO"}) /\ p.fails \in Seq(UID)
         /\ p.rows \in Seq(UID)
         /\ Len(p.pend) \in Nat /\ Len(p.replies) \in Nat /\ Len(p.replies) <= Len(p.pend)
         /\ DOMAIN p.replies = 1..Len(p.replies)
<1>1. /\ Typed /\ PassRows /\ Answers
      /\ pass \in Passes /\ p = pass /\ Flushed \in [UID -> RowStates]
      /\ p.pend \in Seq(UID) /\ p.replies \in Seq({"OK", "NO"}) /\ p.fails \in Seq(UID)
      /\ p.rows \in Seq(UID)
  BY TypesNamed DEF Known, RInv, Passes, p
<1>2. /\ Len(p.pend) \in Nat /\ Len(p.replies) \in Nat /\ Len(p.replies) <= Len(p.pend)
      /\ DOMAIN p.replies = 1..Len(p.replies)
  BY <1>1, LenProperties DEF Answers
<1> QED
  BY <1>1, <1>2 DEF Known, Innocence

\* The parts that a step has to keep.
Parts == Links /\ Refusals /\ Undisturbed /\ Accounted /\ Culprit /\ Spared

\* Of what is sent and not answered, the first message is of the pass.
LEMMA BlockedByOwn ==
  ASSUME Known, pc \in Passing, Blocked
  PROVE  \E u \in ToSet(p.rows) : Kind[u] \in Bad
<1> DEFINE k == Len(p.replies) + 1
<1>1. k \in 1..Len(p.pend) /\ Kind[p.pend[k]] \in Bad
  BY KnownParts DEF Blocked
<1>2. p.pend[k] \in ToSet(p.pend)
  BY <1>1, KnownParts, ItemIsIn
<1>3. p.pend[k] \in Taken
  BY <1>2, KnownParts DEF PassRows, Unsettled
<1>4. Taken \subseteq ToSet(p.rows)
  <2>1. p.taken \in Nat /\ p.fetched \in Nat /\ Len(p.rows) \in Nat /\ DOMAIN p.rows = 1..Len(p.rows)
    BY KnownParts, LenProperties DEF Passes
  <2>2. \A i \in 1..p.taken : i \in DOMAIN p.rows
    BY <2>1, KnownParts DEF PassRows
  <2> QED
    BY <2>2 DEF Taken, ToSet
<1> QED
  BY <1>1, <1>3, <1>4

\* A connection that is found broken has been broken by a message.
LEMMA BrokenByOwn ==
  ASSUME Known, pc \in Passing, Broken(src) \/ Broken(dst)
  PROVE  \E u \in ToSet(p.rows) : Kind[u] \in Bad
<1>1. Disturbed
  BY DEF Broken, Disturbed
<1>2. Blocked
  BY <1>1, KnownParts DEF Accounted
<1> QED
  BY <1>2, BlockedByOwn

LEMMA NotBlocked ==
  ASSUME Known, p.pend = <<>>
  PROVE  ~Blocked
<1>1. Len(p.pend) = 0
  OBVIOUS
<1> QED
  BY <1>1, KnownParts DEF Blocked

LEMMA AttemptsSpare ==
  ASSUME Known, OpenPair \/ Ready \/ FailAttempt \/ Retry \/ Trouble \/ EndMailbox
                  \/ OpenFolderFails \/ Requeue
  PROVE  Parts'
<1>k. Links /\ Refusals /\ Undisturbed /\ Spared
  BY KnownParts
<1>0. UNCHANGED Flushed
  BY RowsStay DEF Known, Unwritten
<1>1. /\ pass' = pass \/ pass' = NoPass
      /\ src' \in {src, "up", "off"} /\ dst' \in {dst, "up", "off"}
      /\ pc' \notin Passing \union {"broken", "scan", "adopt", "ladder", "main"}
      /\ pc' \in {"list", "reopened"} => src' = "up" /\ dst' = "up" /\ hung' = FALSE
      /\ pc' = "open" => pc \in {"list", "reopened"} /\ UNCHANGED <<src, dst, hung>>
  <2>1. CASE OpenPair
    BY <2>1 DEF OpenPair, Passing
  <2>2. CASE Ready
    BY <2>2 DEF Ready, Passing, net
  <2>3. CASE FailAttempt
    BY <2>3 DEF FailAttempt, Passing
  <2>4. CASE Retry
    BY <2>4 DEF Retry, Passing, net
  <2>5. CASE Trouble
    BY <2>5 DEF Trouble, Passing
  <2>6. CASE EndMailbox
    BY <2>6 DEF EndMailbox, Passing
  <2>7. CASE OpenFolderFails
    BY <2>7 DEF OpenFolderFails, Passing, net
  <2>8. CASE Requeue
    BY <2>8 DEF Requeue, Passing, net
  <2> QED
    BY <2>1, <2>2, <2>3, <2>4, <2>5, <2>6, <2>7, <2>8
<1>2. Links'
  BY <1>k, <1>1 DEF Links
<1>3. Refusals'
  <2>1. CASE pass' = pass
    BY <1>k, <2>1 DEF Refusals, p
  <2>2. CASE pass' = NoPass
    <3>1. pass'.fails = <<>>
      BY <2>2 DEF NoPass
    <3> QED
      BY <3>1, NothingIn DEF Refusals, p
  <2> QED
    BY <1>1, <2>1, <2>2
<1>4. Undisturbed'
  BY <1>k, <1>1 DEF Undisturbed, Disturbed
<1>5. Accounted' /\ Culprit' /\ Spared'
  BY <1>k, <1>0, <1>1 DEF Accounted, Culprit, Spared
<1> QED
  BY <1>2, <1>3, <1>4, <1>5 DEF Parts

\* Steps of the session, where nothing is on the wire.
LEMMA SessionSpares ==
  ASSUME Known, Reconcile \/ RefreshTotals \/ OpenFolder \/ StartEntry \/ LeaveLadder
                  \/ StartMain
  PROVE  Parts'
<1>k. Links /\ Refusals /\ Undisturbed /\ Spared /\ Typed /\ pass \in Passes
      /\ Flushed \in [UID -> RowStates]
  BY KnownParts
<1>r. ~Reconcile => UNCHANGED Flushed
  BY RowsStay DEF Known, Unwritten
<1>1. /\ pc \in {"open", "scan", "adopt", "ladder", "main"} /\ UNCHANGED <<src, dst, hung>>
      /\ pc' \in {"scan", "adopt", "ladder", "main", "fill", "last"}
      /\ pass' = pass \/ pass'.fails = <<>>
      /\ \A u \in UID : Flushed'[u] = "failed" => Flushed[u] = "failed"
  <2>0. CASE Reconcile
    <3>1. pc = "open" /\ pc' = "scan" /\ UNCHANGED <<src, dst, hung, pass>>
      BY <2>0 DEF Reconcile, net
    <3>2. PICK arrived \in SUBSET UID : Flushed' = After(arrived)
      BY <2>0, ReconcileShape DEF Known
    <3>3. \A u \in UID : Flushed'[u] = "failed" => Flushed[u] = "failed"
      BY <3>2 DEF After
    <3> QED
      BY <3>1, <3>3
  <2>1. CASE RefreshTotals \/ OpenFolder
    <3>1. /\ pc \in {"scan", "adopt"} /\ pc' \in {"adopt", "ladder", "main"}
          /\ UNCHANGED <<src, dst, hung, pass>>
      BY <2>1 DEF RefreshTotals, OpenFolder, net
    <3>2. UNCHANGED Flushed
      BY <1>r, <2>1 DEF RefreshTotals, OpenFolder, Reconcile
    <3> QED
      BY <3>1, <3>2
  <2>2. CASE StartEntry
    <3> DEFINE live == Those(Head(rec.ladder).uids, In({"planned", "inflight"}))
    <3>0. UNCHANGED Flushed
      BY <1>r, <2>2 DEF StartEntry, Reconcile
    <3>1. /\ pc = "ladder" /\ UNCHANGED <<src, dst, hung>>
          /\ (pc' = pc /\ pass' = pass) \/ StartPass(TRUE, 1, live)
      BY <2>2 DEF StartEntry, net
    <3> HIDE DEF live
    <3>2. StartPass(TRUE, 1, live) => pass'.fails = <<>> /\ pc' = "fill"
      BY DEF StartPass, NoPass
    <3> QED
      BY <3>0, <3>1, <3>2
  <2>3. CASE LeaveLadder
    <3>1. pc = "ladder" /\ pc' = "main" /\ UNCHANGED <<src, dst, hung, pass>>
      BY <2>3 DEF LeaveLadder, net
    <3>2. UNCHANGED Flushed
      BY <1>r, <2>3 DEF LeaveLadder, Reconcile
    <3> QED
      BY <3>1, <3>2
  <2>4. CASE StartMain
    <3> DEFINE queue == Sorted(In({"planned"}))
    <3>0. UNCHANGED Flushed
      BY <1>r, <2>4 DEF StartMain, Reconcile
    <3>1. /\ pc = "main" /\ UNCHANGED <<src, dst, hung>>
          /\ (pc' = "last" /\ pass' = pass) \/ StartPass(FALSE, 1, queue)
      BY <2>4 DEF StartMain, net
    <3> HIDE DEF queue
    <3>2. StartPass(FALSE, 1, queue) => pass'.fails = <<>> /\ pc' = "fill"
      BY DEF StartPass, NoPass
    <3> QED
      BY <3>0, <3>1, <3>2
  <2> QED
    BY <2>0, <2>1, <2>2, <2>3, <2>4
<1>2. ~Disturbed /\ ~Disturbed'
  BY <1>k, <1>1 DEF Undisturbed, Disturbed
<1>3. Links' /\ Undisturbed' /\ Accounted' /\ Culprit' /\ Spared'
  BY <1>k, <1>1, <1>2 DEF Links, Undisturbed, Accounted, Culprit, Spared
<1>4. Refusals'
  BY <1>k, <1>1, NothingIn DEF Refusals, p
<1> QED
  BY <1>3, <1>4 DEF Parts

\* A step of the runner in a pass that leaves the connections alone.
LEMMA PassSpares ==
  ASSUME Known, pc \in Passing, pc' \in Passing \union {"broken"}, UNCHANGED <<src, dst, hung>>,
         pass'.rows = pass.rows,
         \A u \in ToSet(pass'.fails) : Kind[u] = "refused",
         \A u \in UID : Flushed'[u] = "failed" => Flushed[u] = "failed",
         pc' # "broken" /\ Disturbed /\ Blocked => Blocked',
         pc' = "broken" => Broken(src) \/ Broken(dst)
  PROVE  Parts'
<1>k. Links /\ Accounted /\ Spared
  BY KnownParts
<1>1. Links' /\ Spared' /\ Undisturbed'
  BY <1>k DEF Links, Spared, Undisturbed, Passing
<1>2. Refusals'
  BY DEF Refusals, p
<1>3. Accounted'
  BY <1>k DEF Accounted, Disturbed, Passing
<1>4. Culprit'
  BY BrokenByOwn DEF Culprit, p
<1> QED
  BY <1>1, <1>2, <1>3, <1>4 DEF Parts

LEMMA FillSpares ==
  ASSUME Known, Fill
  PROVE  Parts'
<1>k. pass \in Passes /\ p = pass /\ Refusals /\ PassRows
  BY KnownParts
<1>f. UNCHANGED Flushed
  BY RowsStay DEF Known, Unwritten
<1>1. /\ pc = "fill" /\ UNCHANGED <<src, dst, hung>>
      /\ pc' = "head" \/ (pc' = "broken" /\ Broken(src))
  BY DEF Fill, net, FailsWith
<1>2. /\ pass'.rows = pass.rows /\ pass'.fails = pass.fails /\ pass'.pend = pass.pend
      /\ pass'.replies = pass.replies
  BY <1>k DEF Fill, Passes
<1>3. Blocked' <=> Blocked
  BY <1>2 DEF Blocked, p
<1> QED
  BY <1>f, <1>k, <1>1, <1>2, <1>3, PassSpares DEF Passing, Refusals

LEMMA TakeSpares ==
  ASSUME Known, Take
  PROVE  Parts'
<1>k. pass \in Passes /\ p = pass /\ Refusals
  BY KnownParts
<1>1. /\ pc = "head" /\ UNCHANGED <<src, dst, hung>>
      /\ pc' = "body" \/ (pc' = "broken" /\ Broken(src))
  BY DEF Take, net, FailsWith
<1>f. \A u \in UID : Flushed'[u] = "failed" => Flushed[u] = "failed"
  BY TakenRows DEF Known
<1>2. /\ pass'.rows = pass.rows /\ pass'.fails = pass.fails /\ pass'.pend = pass.pend
      /\ pass'.replies = pass.replies
  BY <1>k DEF Take, Passes
<1>3. Blocked' <=> Blocked
  BY <1>2 DEF Blocked, p
<1> QED
  BY <1>f, <1>k, <1>1, <1>2, <1>3, PassSpares DEF Passing, Refusals

LEMMA BodySpares ==
  ASSUME Known, Body
  PROVE  Parts'
<1>k. pass \in Passes /\ p = pass /\ Refusals /\ Links
  BY KnownParts
<1>f. UNCHANGED Flushed
  BY RowsStay DEF Known, Unwritten
<1>1. /\ pc = "body" /\ UNCHANGED <<src, dst, hung>>
      /\ pc' = "append" \/ (pc' = "broken" /\ Broken(src))
      /\ pass' = [pass EXCEPT !.phase = "fetch"]
  BY <1>k DEF Body, net, FailsWith, Links
<1>2. /\ pass'.rows = pass.rows /\ pass'.fails = pass.fails /\ pass'.pend = pass.pend
      /\ pass'.replies = pass.replies
  BY <1>k, <1>1 DEF Passes
<1>3. Blocked' <=> Blocked
  BY <1>2 DEF Blocked, p
<1> QED
  BY <1>f, <1>k, <1>1, <1>2, <1>3, PassSpares DEF Passing, Refusals

LEMMA AppendItemSpares ==
  ASSUME Known, AppendItem
  PROVE  Parts'
<1>k. /\ pass \in Passes /\ p = pass /\ Refusals /\ Typed /\ PassRows /\ p.pend \in Seq(UID)
      /\ Len(p.pend) \in Nat /\ Len(p.replies) \in Nat
  BY KnownParts
<1>f. UNCHANGED Flushed
  BY RowsStay DEF Known, Unwritten
<1> DEFINE q == [pass EXCEPT !.last = Item, !.phase = "append"]
<1>1. /\ pc = "append" /\ UNCHANGED <<src, dst, hung>>
      /\ \/ pc' = "settle" /\ pass' = [q EXCEPT !.pend = Append(@, Item)]
         \/ pc' = "broken" /\ (Broken(src) \/ Broken(dst)) /\ pass' = q
  BY <1>k DEF AppendItem, net, FailsWith
<1>2. /\ pass'.rows = pass.rows /\ pass'.fails = pass.fails /\ pass'.replies = pass.replies
      /\ pc' = "settle" => pass'.pend = Append(pass.pend, Item)
  BY <1>k, <1>1 DEF Passes
<1> HIDE DEF q
<1>3. ASSUME pc' = "settle", Blocked
      PROVE  Blocked'
  <2>1. Item \in UID
    BY <1>k, <1>1, ItemInHand
  <2>2. /\ Len(Append(p.pend, Item)) = Len(p.pend) + 1
        /\ \A k \in 1..Len(p.pend) : Append(p.pend, Item)[k] = p.pend[k]
    BY <1>k, <2>1
  <2>3. Len(p.replies) + 1 \in 1..Len(p.pend) /\ Len(p.replies) < Len(p.pend) + 1
    BY <1>k, <1>3 DEF Blocked
  <2>4. p'.pend = Append(p.pend, Item) /\ p'.replies = p.replies
    BY <1>k, <1>2, <1>3 DEF p
  <2> QED
    BY <1>3, <2>2, <2>3, <2>4 DEF Blocked
<1> QED
  BY <1>f, <1>k, <1>1, <1>2, <1>3, PassSpares DEF Passing, Refusals

LEMMA RoomSpares ==
  ASSUME Known, Room
  PROVE  Parts'
<1>k. p = pass /\ Refusals /\ Typed
  BY KnownParts
<1>f. UNCHANGED Flushed
  BY RowsStay DEF Known, Unwritten
<1>1. /\ pc = "settle" /\ pc' = "head" /\ UNCHANGED <<src, dst, hung>>
      /\ pass' = pass \/ pass' = Emptied
  BY DEF Room, net
<1>2. /\ pass'.rows = pass.rows /\ pass'.fails = pass.fails /\ pass'.pend = pass.pend
      /\ pass'.replies = pass.replies
  BY <1>k, <1>1, EmptiedType
<1>3. Blocked' <=> Blocked
  BY <1>2 DEF Blocked, p
<1> QED
  BY <1>f, <1>k, <1>1, <1>2, <1>3, PassSpares DEF Passing, Refusals

LEMMA SettleOneSpares ==
  ASSUME Known, SettleOne
  PROVE  Parts'
<1>k. /\ pass \in Passes /\ p = pass /\ Refusals /\ Links /\ Typed /\ PassRows /\ Answers
      /\ Flushed \in [UID -> RowStates]
      /\ p.pend \in Seq(UID) /\ p.replies \in Seq({"OK", "NO"}) /\ p.fails \in Seq(UID)
      /\ Len(p.pend) \in Nat /\ Len(p.replies) \in Nat /\ Len(p.replies) <= Len(p.pend)
  BY KnownParts
<1>1. /\ pc \in {"settle", "head"} /\ p.pend # <<>> /\ (Confirms \/ Fails \/ Drops)
      /\ UNCHANGED <<src, dst, hung>>
  BY <1>k, SettleOneShape DEF SettleOne, net
<1>2. pc \in Passing
  BY <1>1 DEF Passing
<1>f. /\ Confirms => Flushed' = [Flushed EXCEPT ![Head(p.pend)] = "done"]
      /\ Fails \/ Drops => Flushed' = Flushed
  BY SettledRows DEF Known
\* An answer is taken, and the next message is still the next.
<1>3. ASSUME p.replies # <<>>, p'.pend = Tail(p.pend), p'.replies = Tail(p.replies), Blocked
      PROVE  Blocked'
  <2>1. /\ Len(Tail(p.pend)) = Len(p.pend) - 1
        /\ \A i \in 1..Len(p.pend) - 1 : Tail(p.pend)[i] = p.pend[i + 1]
    BY <1>k, <1>1, HeadTailProperties
  <2>2. Len(Tail(p.replies)) = Len(p.replies) - 1 /\ Len(p.replies) # 0
    BY <1>k, <1>3, HeadTailProperties, EmptySeq
  <2>3. Len(p.replies) < Len(p.pend) /\ Kind[p.pend[Len(p.replies) + 1]] \in Bad
    BY <1>3 DEF Blocked
  <2> DEFINE n == Len(p.replies)
  <2>4. n \in 1..Len(p.pend) - 1 /\ n - 1 < Len(p.pend) - 1 /\ n - 1 + 1 = n
    BY <1>k, <2>2, <2>3
  <2>5. Tail(p.pend)[n] = p.pend[n + 1]
    BY <2>1, <2>4
  <2>6. Len(p'.replies) < Len(p'.pend) /\ Len(p'.replies) + 1 = n
    BY <1>3, <2>1, <2>2, <2>4
  <2> QED
    BY <1>3, <2>3, <2>5, <2>6 DEF Blocked
<1>4. CASE Confirms
  <2>1. /\ pc' = pc /\ pass'.rows = pass.rows /\ pass'.fails = pass.fails
        /\ p.replies # <<>> /\ p'.pend = Tail(p.pend) /\ p'.replies = Tail(p.replies)
    BY <1>k, <1>4 DEF Confirms, Passes, p
  <2>2. \A u \in UID : Flushed'[u] = "failed" => Flushed[u] = "failed"
    BY <1>f, <1>k, <1>4
  <2> QED
    BY <1>k, <1>1, <1>2, <1>3, <2>1, <2>2, PassSpares DEF Passing, Refusals
<1>5. CASE Fails
  <2>1. p.replies # <<>> /\ Head(p.replies) = "NO"
    BY <1>k, <1>5 DEF Fails, Links
  <2>2. /\ pc' = pc /\ pass'.rows = pass.rows /\ pass'.fails = Append(p.fails, Head(p.pend))
        /\ p'.pend = Tail(p.pend) /\ p'.replies = Tail(p.replies)
    BY <1>k, <1>5, <2>1 DEF Fails, Passes, p
  <2>3. Kind[Head(p.pend)] = "refused"
    BY <1>k, <2>1, OneAnswered DEF Answers
  <2>4. Head(p.pend) \in UID
    BY <1>k, <1>1, HeadTailProperties
  <2>5. ToSet(Append(p.fails, Head(p.pend))) = ToSet(p.fails) \union {Head(p.pend)}
    BY <1>k, <2>4, OneAppended
  <2>6. \A u \in ToSet(pass'.fails) : Kind[u] = "refused"
    BY <1>k, <2>2, <2>3, <2>5 DEF Refusals
  <2> QED
    BY <1>1, <1>2, <1>3, <1>5, <1>f, <2>1, <2>2, <2>6, PassSpares DEF Passing
<1>6. CASE Drops
  <2>1. /\ pc' = "broken" /\ Broken(dst)
        /\ pass'.rows = pass.rows /\ pass'.fails = pass.fails
    BY <1>k, <1>6 DEF Drops, Broken, Passes
  <2> QED
    BY <1>k, <1>1, <1>2, <1>6, <1>f, <2>1, PassSpares DEF Passing, Refusals
<1> QED
  BY <1>1, <1>4, <1>5, <1>6

\* The ends of a pass: only what was refused, or has broken connections alone, is
\* given up.
LEMMA EndsSpare ==
  ASSUME Known, MainPassEnds \/ LadderPassEnds \/ PassBreaks
  PROVE  Parts'
<1>k. /\ Links /\ Refusals /\ Accounted /\ Culprit /\ Spared /\ RInv /\ Typed
      /\ p.rows \in Seq(UID) /\ p = pass
  BY KnownParts DEF Known
<1>w. /\ row' = Flushed => Flushed' = Flushed
      /\ \A us : GivenUp(us) =>
           Flushed' = [u \in UID |-> IF u \in us THEN "failed" ELSE Flushed[u]]
  BY <1>k, BatchEnds, Written
<1>e. Emptied.fails = p.fails /\ Emptied.rows = p.rows
  BY <1>k, EmptiedType
<1>n. UNCHANGED <<src, dst, hung>>
  BY DEF MainPassEnds, LadderPassEnds, PassBreaks, net
<1>l. Links'
  BY <1>k, <1>n DEF Links
<1>1. CASE MainPassEnds
  <2>1. /\ Complete
        /\ \/ StartPass(FALSE, p.no + 1, p.fails) /\ row' = Flushed
           \/ GivenUp(ToSet(p.fails)) /\ pc' = "last" /\ pass' = Emptied
    BY <1>1, <1>k, MainPassShape
  <2>2. pc = "head" /\ p.pend = <<>>
    BY <2>1 DEF Complete
  <2>3. ~Disturbed'
    BY <1>k, <1>n, <2>2, NotBlocked DEF Accounted, Passing, Disturbed
  <2>4. /\ pc' \in {"fill", "last"} /\ (pass'.fails = pass.fails \/ pass'.fails = <<>>)
        /\ \A u \in UID : Flushed'[u] = "failed" => Flushed[u] = "failed" \/ u \in ToSet(p.fails)
    <3>1. CASE StartPass(FALSE, p.no + 1, p.fails) /\ row' = Flushed
      <4>1. pc' = "fill" /\ pass'.fails = <<>>
        BY <3>1 DEF StartPass, NoPass
      <4> QED
        BY <1>w, <3>1, <4>1
    <3>2. CASE GivenUp(ToSet(p.fails)) /\ pc' = "last" /\ pass' = Emptied
      BY <1>e, <1>k, <1>w, <3>2
    <3> QED
      BY <2>1, <3>1, <3>2
  <2>5. Refusals'
    BY <1>k, <2>4, NothingIn DEF Refusals, p
  <2>6. Spared'
    BY <1>k, <2>4 DEF Spared, Refusals
  <2>7. Undisturbed' /\ Accounted' /\ Culprit'
    BY <2>3, <2>4 DEF Undisturbed, Accounted, Culprit
  <2> QED
    BY <1>l, <2>5, <2>6, <2>7 DEF Parts
<1>2. CASE LadderPassEnds
  <2>1. PICK lost \in SUBSET ToSet(p.fails) :
          Complete /\ GivenUp(lost) /\ pc' = "ladder" /\ pass' = Emptied
    BY <1>2, <1>k, LadderPassShape
  <2>2. pc = "head" /\ p.pend = <<>>
    BY <2>1 DEF Complete
  <2>3. ~Disturbed'
    BY <1>k, <1>n, <2>2, NotBlocked DEF Accounted, Passing, Disturbed
  <2>4. \A u \in UID : Flushed'[u] = "failed" => Flushed[u] = "failed" \/ u \in ToSet(p.fails)
    BY <1>w, <2>1
  <2>5. Refusals'
    BY <1>e, <1>k, <2>1 DEF Refusals, p
  <2>6. Spared'
    BY <1>k, <2>4 DEF Spared, Refusals
  <2>7. Undisturbed' /\ Accounted' /\ Culprit'
    BY <2>1, <2>3 DEF Undisturbed, Accounted, Culprit
  <2> QED
    BY <1>l, <2>5, <2>6, <2>7 DEF Parts
<1>3. CASE PassBreaks
  <2>1. PICK lost \in SUBSET UID :
          /\ pc = "broken" /\ GivenUp(lost) /\ pc' = "trouble" /\ pass' = Emptied
          /\ lost = {} \/ (lost = {p.rows[1]} /\ Len(p.rows) = 1)
    BY <1>3, <1>k, PassBreaksShape
  <2>2. PICK u \in ToSet(p.rows) : Kind[u] \in Bad
    BY <1>k, <2>1 DEF Culprit
  <2>3. Len(p.rows) = 1 => u = p.rows[1]
    BY <1>k, <2>2 DEF ToSet
  <2>4. \A v \in lost : Kind[v] # "good"
    BY <2>1, <2>2, <2>3 DEF Bad
  <2>5. \A v \in UID : Flushed'[v] = "failed" => Flushed[v] = "failed" \/ v \in lost
    BY <1>w, <2>1
  <2>6. Spared'
    BY <1>k, <2>4, <2>5 DEF Spared
  <2>7. Refusals' /\ Undisturbed' /\ Accounted' /\ Culprit'
    BY <1>e, <1>k, <2>1 DEF Refusals, Undisturbed, Accounted, Culprit, Passing, p
  <2> QED
    BY <1>l, <2>6, <2>7 DEF Parts
<1> QED
  BY <1>1, <1>2, <1>3

LEMMA ServeSpares ==
  ASSUME Known, Serve
  PROVE  Parts'
<1>k. /\ pass \in Passes /\ p = pass /\ Refusals /\ Links /\ Undisturbed /\ Accounted
      /\ Culprit /\ Spared /\ Answers
      /\ p.pend \in Seq(UID) /\ p.replies \in Seq({"OK", "NO"})
      /\ Len(p.pend) \in Nat /\ Len(p.replies) \in Nat
  BY KnownParts
<1>f. UNCHANGED Flushed
  BY RowsStay DEF Known, Unwritten
<1> DEFINE k == Len(p.replies) + 1
           u == p.pend[k]
           answers == Append(p.replies, IF Kind[u] = "good" THEN "OK" ELSE "NO")
<1>1. /\ k <= Len(p.pend) /\ dst = "up" /\ UNCHANGED <<pc, src>>
      /\ hung' = (Kind[u] = "silent")
      /\ dst' = IF Kind[u] = "killer" THEN "lost" ELSE dst
      /\ pass' = IF Kind[u] \in {"good", "refused"} THEN [pass EXCEPT !.replies = answers] ELSE pass
  BY <1>k DEF Serve
<1> HIDE DEF answers
<1>2. pass'.rows = pass.rows /\ pass'.fails = pass.fails /\ pass'.pend = pass.pend
  BY <1>k, <1>1 DEF Passes
<1>3. p.pend # <<>>
  <2>1. Len(p.pend) # 0
    BY <1>k, <1>1
  <2> QED
    BY <2>1
<1>4. pc \in Passing \union {"broken", "trouble"}
  BY <1>k, <1>3 DEF Answers
<1>5. Links' /\ Refusals' /\ Culprit' /\ Spared'
  BY <1>f, <1>k, <1>1, <1>2 DEF Links, Refusals, Culprit, Spared, p
<1>6. Undisturbed'
  BY <1>1, <1>4 DEF Undisturbed, Passing
<1>7. u \in UID /\ Kind[u] \in Kinds
  <2>1. k \in 1..Len(p.pend)
    BY <1>k, <1>1
  <2>2. u \in UID
    BY <1>k, <2>1, ItemIsIn
  <2> QED
    BY <2>2, RecoveryAssumption DEF UID
<1>8. Accounted'
  <2> SUFFICES ASSUME pc' \in Passing, Disturbed'
               PROVE  Blocked'
    BY DEF Accounted
  <2>1. CASE Kind[u] \in Bad
    <3>1. pass' = pass
      BY <1>1, <2>1 DEF Bad
    <3>2. Len(pass.replies) < Len(pass.pend) /\ Kind[pass.pend[Len(pass.replies) + 1]] \in Bad
      BY <1>k, <1>1, <2>1 DEF p
    <3>3. (p.replies)' = pass.replies /\ (p.pend)' = pass.pend
      BY <3>1 DEF p
    <3>4. Len(p.replies)' < Len(p.pend)' /\ (Kind[p.pend[Len(p.replies) + 1]])' \in Bad
      BY <3>2, <3>3
    <3> QED
      BY <3>4 DEF Blocked
  <2>2. CASE Kind[u] \notin Bad
    <3>1. Kind[u] # "killer" /\ Kind[u] # "silent"
      BY <2>2 DEF Bad
    <3>2. Disturbed
      BY <1>1, <3>1 DEF Disturbed
    <3>3. Blocked
      BY <1>k, <1>1, <3>2 DEF Accounted
    <3> QED
      BY <2>2, <3>3 DEF Blocked
  <2> QED
    BY <2>1, <2>2
<1> QED
  BY <1>5, <1>6, <1>8 DEF Parts

\* The watchdogs bite only where a message has silenced the destination; nobody else
\* touches the connections.
LEMMA OthersSpare ==
  ASSUME Known, WatchdogSrc \/ WatchdogDst \/ Elapse \/ Observe \/ TogglePause \/ UNCHANGED vars
  PROVE  Parts'
<1>k. ~bus.paused /\ Links /\ Refusals /\ Undisturbed /\ Accounted /\ Culprit /\ Spared
  BY KnownParts
<1>f. UNCHANGED Flushed
  BY RowsStay DEF Known, Unwritten, Supervisor
<1>1. UNCHANGED <<pc, pass, hung>>
  BY DEF WatchdogSrc, WatchdogDst, Elapse, Observe, TogglePause, vars, work, net
<1>2. Refusals' /\ Culprit' /\ Spared' /\ (Blocked' <=> Blocked)
  BY <1>f, <1>k, <1>1 DEF Refusals, Culprit, Spared, Blocked, p
<1>3. CASE UNCHANGED <<src, dst>>
  <2>1. Disturbed' <=> Disturbed
    BY <1>1, <1>3 DEF Disturbed
  <2> QED
    BY <1>k, <1>1, <1>2, <1>3, <2>1 DEF Parts, Links, Undisturbed, Accounted
<1>4. CASE WatchdogSrc \/ WatchdogDst
  <2>1. hung /\ pc \in {"head", "settle"}
    BY <1>k, <1>4 DEF WatchdogSrc, WatchdogDst, Waits, Drained
  <2>2. Disturbed /\ pc \in Passing
    BY <2>1 DEF Disturbed, Passing
  <2>3. Links'
    BY <1>k, <1>4 DEF WatchdogSrc, WatchdogDst, Links
  <2>4. Undisturbed' /\ Accounted'
    BY <1>k, <1>1, <1>2, <2>1, <2>2 DEF Undisturbed, Accounted
  <2> QED
    BY <1>2, <2>3, <2>4 DEF Parts
<1>5. UNCHANGED <<src, dst>> \/ WatchdogSrc \/ WatchdogDst
  BY DEF Elapse, Observe, TogglePause, vars, net
<1> QED
  BY <1>3, <1>4, <1>5

\* As long as it stays calm nobody cuts or kicks.
LEMMA CalmIsCalm ==
  ASSUME Bounds, Calm, Calm'
  PROVE  ~CutDst /\ ~CutSrc /\ ~Act
<1>1. ~CutDst /\ ~CutSrc
  <2>1. ASSUME Happens("dst") \/ Happens("src")
        PROVE  FALSE
    BY <2>1, HappensSpends DEF Calm
  <2> QED
    BY <2>1 DEF CutDst, CutSrc
<1>2. ASSUME Act
      PROVE  FALSE
  <2>1. /\ budget \in [trouble : 0..MaxTrouble, kick : 0..MaxKick, requeue : 0..MaxRequeue]
        /\ MaxKick \in Nat /\ budget.kick = MaxKick /\ budget'.kick = MaxKick
    BY RecoveryAssumption DEF Bounds, Calm
  <2>2. budget' = [budget EXCEPT !.kick = @ - 1]
    BY <1>2 DEF Act
  <2>3. budget'.kick = MaxKick - 1
    BY <2>1, <2>2
  <2> QED
    BY <2>1, <2>3
<1> QED
  BY <1>1, <1>2

LEMMA InnocenceStep == RInv /\ Bounds /\ Innocence /\ [Next]_vars => Innocence'
<1> SUFFICES ASSUME RInv, Bounds, Innocence, [Next]_vars, Calm'
             PROVE  ~bus'.paused /\ ~bus'.staleFailed /\ Parts'
  BY DEF Innocence, Parts
<1>1. Calm /\ (bus'.paused => bus.paused) /\ (bus'.staleFailed => bus.staleFailed)
  BY BoundsStep
<1>2. Known
  BY <1>1 DEF Known
<1>3. ~bus'.paused /\ ~bus'.staleFailed
  BY <1>1, <1>2, KnownParts
<1>4. ~CutDst /\ ~CutSrc /\ ~Act
  BY <1>1, CalmIsCalm
<1>5. Parts'
  BY <1>2, <1>4, AttemptsSpare, SessionSpares, FillSpares, TakeSpares, BodySpares,
     AppendItemSpares, RoomSpares, SettleOneSpares, EndsSpare, ServeSpares, OthersSpare
     DEF Next, Runner, Breaks, Supervisor
<1> QED
  BY <1>3, <1>5

\* As long as only messages break connections, no message that the destination
\* would take is given up, however many of the others there are and whatever the
\* limits (folder.go, isolationPhase, noteTransportLoss and settleOne; mailbox.go).
THEOREM InnocentNeverFailsWhenCalm ==
  Spec => [](budget.trouble = MaxTrouble => InnocentNeverFails)
<1>1. Init => Bounds /\ Innocence
  <2> SUFFICES ASSUME Init
               PROVE  Bounds /\ Innocence
    OBVIOUS
  <2>1. /\ pc = "connect" /\ src = "off" /\ dst = "off" /\ pass.fails = <<>>
        /\ ~bus.paused /\ ~bus.staleFailed
        /\ \A u \in UID : Flushed[u] # "failed"
    BY DEF Init, NoPass, Flushed, p
  <2>2. Links /\ Undisturbed /\ Accounted /\ Culprit /\ Spared
    BY <2>1 DEF Links, Undisturbed, Accounted, Culprit, Spared, Passing
  <2>3. Refusals
    BY <2>1, NothingIn DEF Refusals, p
  <2> QED
    BY <2>1, <2>2, <2>3, BoundsInit DEF Innocence
<1>2. RInv /\ Bounds /\ Innocence /\ [Next]_vars => Bounds' /\ Innocence'
  BY BoundsStep, InnocenceStep
<1>3. RInv /\ Bounds /\ Innocence => (budget.trouble = MaxTrouble => InnocentNeverFails)
  <2> SUFFICES ASSUME RInv, Bounds, Innocence, budget.trouble = MaxTrouble, Kicks = 0
               PROVE  \A u \in UID : Kind[u] = "good" => row[u] # "failed"
    BY DEF InnocentNeverFails
  <2>b. \A u \in UID : row[u] = "failed" => Flushed[u] = "failed"
    BY DEF RInv, Batched, Flushed, p
  <2>1. /\ MaxTrouble \in Nat /\ MaxKick \in Nat /\ TroubleCost \in Nat
        /\ budget.kick \in 0..MaxKick
    BY RecoveryAssumption DEF Bounds
  <2>2. MaxTrouble - budget.trouble = 0 /\ TroubleCost * 0 = 0
    BY <2>1
  <2>3. MaxKick - budget.kick - 0 = 0
    BY <2>2 DEF Kicks
  <2>4. Calm
    BY <2>1, <2>3 DEF Calm
  <2> QED
    BY <2>4, <2>b DEF Innocence, Spared
<1> QED
  BY <1>1, <1>2, <1>3, RInvAlways, PTL DEF Spec
===============================================================================
