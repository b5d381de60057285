----------------------------- MODULE ConsoleProofs -----------------------------
(***************************************************************************)
(* What holds of Scheduler and Console for any batch of mailboxes, any     *)
(* number of slots and places, and whatever the servers and the operator   *)
(* do.                                                                     *)
(***************************************************************************)
EXTENDS Console, FiniteSetTheorems, TLAPS

-------------------------------------------------------------------------------
(* The invariants *)

Waits == {"queued", "slot", "first", "second", "ready"}
Place == Waits \union Running \union {"finish", "release", "gone"}
Link  == {"none", "dialing", "closed dialing", "greeting", "deaf", "open", "closed"}

Thread == [row : Row, idx : Nat, at : Place, link : Link, silent : BOOLEAN]

\* What is true of the variables of the engine one by one.
EngineTypes ==
  /\ main \in {"opening", "admitted", "waiting", "drained", "ended", "returned", "failed"}
  /\ ctx \in BOOLEAN
  /\ go \in Seq(Thread)
  /\ reg \in [Row -> Nat]
  /\ lease \subseteq Row
  /\ DOMAIN spec \subseteq Row /\ IsFiniteSet(DOMAIN spec) /\ spec \in [DOMAIN spec -> Nat]
  /\ DOMAIN board \subseteq Nat /\ IsFiniteSet(DOMAIN board)
  /\ board \in [DOMAIN board -> [label : Row, status : Statuses]]
  /\ budget \in [loss : Nat, hang : Nat, pause : Nat, requeue : Nat, reload : Nat \ {0}]

\* Only a runner has a connection.
Linked == \A g \in DOMAIN go : go[g].link # "none" => go[g].at \in Running

\* Nobody is there before the rows are admitted.
Unborn == main \in {"opening", "failed"} => DOMAIN go = {} /\ DOMAIN spec = {} /\ DOMAIN board = {}

\* A goroutine and an entry of the board have the index of their row.
Numbered ==
  /\ \A g \in DOMAIN go : go[g].row \in DOMAIN spec /\ go[g].idx = spec[go[g].row]
  /\ \A i \in DOMAIN board : board[i].label \in DOMAIN spec /\ spec[board[i].label] = i

EngineInv == EngineTypes /\ Linked /\ Unborn /\ Numbered

\* Who has not given everything back.
Active(g) == go[g].at \notin {"release", "gone"}

\* Of a row one goroutine is active; while its runner is in Run, the registry and the
\* lease say so.
Alone ==
  /\ \A g, k \in DOMAIN go : Active(g) /\ Active(k) /\ go[g].row = go[k].row => g = k
  /\ \A g \in InState(Running \union {"finish"}) :
       reg[go[g].row] = g /\ go[g].row \in lease

\* When the run has ended, whoever comes later finds the database closed.
Closed ==
  /\ main = "ended" => Unfinished = {}
  /\ main = "returned" => InState(Running) = {}

\* A status that is not final has somebody who will change it.
Cared ==
  \A i \in DOMAIN board :
    /\ board[i].status = "QUEUED" /\ main \notin {"ended", "returned"} =>
         \E g \in InState(Waits) : go[g].idx = i
    /\ board[i].status \in {"RUNNING", "RETRYING"} => \E g \in InState(Running) : go[g].idx = i
    /\ board[i].status = "CANCELLED" => ctx

EndStates == Through \union Retryable

\* The rows of the CSV are on the board.
Entered ==
  main \notin {"opening", "failed"} =>
    \A r \in ToSet(Csv) : r \in DOMAIN spec /\ spec[r] \in DOMAIN board

\* The results are final, and those of the board but for what a reload adds later.
Counted ==
  main \in {"ended", "returned"} /\ ~ctx =>
    /\ counts \subseteq EndStates
    /\ \A i \in DOMAIN board :
         \/ board[i].status \in counts
         \/ board[i].status = "QUEUED" /\ board[i].label \notin ToSet(Csv)

\* No reload but the last may add more than one row.
LastGrows == \A k \in DOMAIN Grown : Len(Grown[k]) > 1 => k = Len(Grown)

\* No two rows have one index; until several are added at once, it is their number.
OwnIndex ==
  /\ IsInjective(spec)
  /\ (\A k \in DOMAIN Grown : k < budget.reload => Len(Grown[k]) <= 1) =>
       \A r \in DOMAIN spec : spec[r] \in 1..Cardinality(DOMAIN spec)
-------------------------------------------------------------------------------
(* Ascending *)

Rank(S, i) == Cardinality({j \in S : j <= i})

LEMMA RankGrows ==
  ASSUME NEW S \in SUBSET Nat, IsFiniteSet(S), NEW i \in S, NEW j \in S, i < j
  PROVE  Rank(S, i) \in Nat /\ Rank(S, j) \in Nat /\ Rank(S, i) < Rank(S, j)
<1> DEFINE A == {k \in S : k <= i}
           B == {k \in S : k <= j}
<1>1. A \in SUBSET B /\ B \in SUBSET S /\ j \in B /\ j \notin A
  <2>1. (\A k \in S : k <= i => k <= j) /\ j <= j /\ ~(j <= i)
    OBVIOUS
  <2>2. A \subseteq B
    BY <2>1
  <2>3. B \subseteq S /\ j \in B /\ j \notin A
    BY <2>1
  <2> QED
    BY <2>2, <2>3
<1> HIDE DEF A, B
<1>2. IsFiniteSet(A) /\ IsFiniteSet(B)
  BY <1>1, FS_Subset
<1>3. Cardinality(A) <= Cardinality(B) /\ (Cardinality(B) = Cardinality(A) => B = A)
  BY <1>1, <1>2, FS_Subset
<1>4. Cardinality(A) \in Nat /\ Cardinality(B) \in Nat
  BY <1>2, FS_CardinalityType
<1>5. Cardinality(A) < Cardinality(B)
  BY <1>1, <1>3, <1>4
<1> QED
  BY <1>4, <1>5 DEF Rank, A, B

\* The numbers of a finite set, each once.
LEMMA AscendingIsOnto ==
  ASSUME NEW S \in SUBSET Nat, IsFiniteSet(S)
  PROVE  /\ Cardinality(S) \in Nat
         /\ DOMAIN Ascending(S) = 1..Cardinality(S)
         /\ \A k \in DOMAIN Ascending(S) : Ascending(S)[k] \in S
         /\ \A k, l \in DOMAIN Ascending(S) : Ascending(S)[k] = Ascending(S)[l] => k = l
         /\ \A i \in S : \E k \in DOMAIN Ascending(S) : Ascending(S)[k] = i
<1> DEFINE n == Cardinality(S)
           f == [i \in S |-> Rank(S, i)]
<1>1. n \in Nat
  BY FS_CardinalityType
<1>2. ASSUME NEW i \in S
      PROVE  Rank(S, i) \in 1..n
  <2>1. {j \in S : j <= i} \in SUBSET S /\ i \in {j \in S : j <= i}
    OBVIOUS
  <2>2. /\ IsFiniteSet({j \in S : j <= i}) /\ Rank(S, i) <= n /\ Rank(S, i) \in Nat
    BY <2>1, FS_Subset, FS_CardinalityType DEF Rank
  <2>3. Rank(S, i) # 0
    BY <2>1, <2>2, FS_EmptySet DEF Rank
  <2> QED
    BY <1>1, <2>2, <2>3
<1>3. \A i, j \in S : Rank(S, i) = Rank(S, j) => i = j
  <2> SUFFICES ASSUME NEW i \in S, NEW j \in S, i # j
               PROVE  Rank(S, i) # Rank(S, j)
    OBVIOUS
  <2>1. i < j \/ j < i
    OBVIOUS
  <2>2. CASE i < j
    BY <2>2, RankGrows
  <2>3. CASE j < i
    BY <2>3, RankGrows
  <2> QED
    BY <2>1, <2>2, <2>3
<1>4. f \in Injection(S, 1..n)
  BY <1>2, <1>3 DEF Injection, IsInjective
<1>5. IsFiniteSet(1..n) /\ Cardinality(1..n) = n
  BY <1>1, FS_Interval
<1>6. f \in Surjection(S, 1..n)
  <2> HIDE DEF f
  <2> QED
    BY <1>4, <1>5, FS_Injection
<1>7. \A k \in 1..n : \E i \in S : Rank(S, i) = k
  BY <1>6 DEF Surjection
<1>8. Ascending(S) = [k \in 1..n |-> CHOOSE i \in S : Rank(S, i) = k]
  BY DEF Ascending, Rank
<1>9. \A k \in 1..n : Ascending(S)[k] \in S /\ Rank(S, Ascending(S)[k]) = k
  BY <1>7, <1>8
<1>10. DOMAIN Ascending(S) = 1..n
  BY <1>8
<1>11. \A i \in S : Ascending(S)[Rank(S, i)] = i
  BY <1>2, <1>3, <1>9
<1> QED
  BY <1>1, <1>2, <1>9, <1>10, <1>11

-------------------------------------------------------------------------------
(* What a step of a goroutine does *)

\* The step is one of g: the others, its row and its index stay.
Acts(g) ==
  /\ go' \in Seq(Thread) /\ DOMAIN go' = DOMAIN go
  /\ \A k \in DOMAIN go : k # g => go'[k] = go[k]
  /\ go'[g].row = go[g].row /\ go'[g].idx = go[g].idx
  /\ go'[g].link # "none" => go'[g].at \in Running

Goes(g, from, to) == go[g].at \in from /\ go'[g].at \in to

\* The board is left alone, or shows g under a status.
Shows(g, statuses) == \E s \in statuses : Show(g, s)

Advances(g) == Goes(g, Waits, Waits) /\ UNCHANGED <<reg, lease, board>>

Quits(g) == Goes(g, Waits, {"gone"}) /\ ctx /\ Shows(g, {"CANCELLED"}) /\ UNCHANGED <<reg, lease>>

Starts(g) == /\ Goes(g, {"ready"}, Running)
             /\ main # "returned"
             /\ reg' = [reg EXCEPT ![go[g].row] = g]
             /\ lease' = lease \union {go[g].row}
             /\ Shows(g, {"RUNNING"})

ComesLate(g) == /\ Goes(g, {"ready"}, {"release"})
                /\ main = "returned"
                /\ reg' = [reg EXCEPT ![go[g].row] = 0]
                /\ UNCHANGED lease
                /\ \/ UNCHANGED board
                   \/ go[g].idx \notin DOMAIN board /\ Shows(g, {"QUEUED"})

Runs(g) == /\ Goes(g, Running, Running)
           /\ UNCHANGED <<reg, lease>>
           /\ UNCHANGED board \/ Shows(g, {"RUNNING", "RETRYING"})

Stops(g) == /\ Goes(g, Running, {"finish"})
            /\ UNCHANGED <<reg, lease>>
            /\ Shows(g, EndStates) \/ (ctx /\ Shows(g, {"CANCELLED"}))

Leaves(g) == /\ Goes(g, {"finish"}, {"release"})
             /\ lease' = lease \ {go[g].row}
             /\ reg' = [reg EXCEPT ![go[g].row] = 0]
             /\ UNCHANGED board

GivesBack(g) == Goes(g, {"release"}, {"gone"}) /\ UNCHANGED <<reg, lease, board>>

Deed(g) == \/ Advances(g) \/ Quits(g) \/ Starts(g) \/ ComesLate(g)
           \/ Runs(g) \/ Stops(g) \/ Leaves(g) \/ GivesBack(g)

LEMMA ThreadChanged ==
  ASSUME go \in Seq(Thread), NEW g \in DOMAIN go, NEW x \in Thread,
         x.row = go[g].row, x.idx = go[g].idx, x.link # "none" => x.at \in Running,
         go' = [go EXCEPT ![g] = x]
  PROVE  Acts(g) /\ go'[g] = x
BY DEF Acts

LEMMA ThreadFields ==
  ASSUME EngineInv, NEW g \in DOMAIN go
  PROVE  /\ go \in Seq(Thread)
         /\ go[g] \in Thread
         /\ go[g].row \in Row /\ go[g].at \in Place /\ go[g].link \in Link
         /\ go[g].link # "none" => go[g].at \in Running
<1>1. go \in Seq(Thread) /\ Linked
  BY DEF EngineInv, EngineTypes
<1>2. go[g] \in Thread
  BY <1>1
<1> QED
  BY <1>1, <1>2 DEF Thread, Linked

\* A goroutine moves to a place where it may have no connection.
LEMMA Moved ==
  ASSUME EngineInv, NEW g \in DOMAIN go, NEW place \in Place, Move(g, place),
         go[g].link # "none" => place \in Running
  PROVE  Acts(g) /\ go'[g].at = place
<1> DEFINE x == [go[g] EXCEPT !.at = place]
<1>1. x \in Thread /\ x.row = go[g].row /\ x.idx = go[g].idx /\ x.link = go[g].link /\ x.at = place
  BY ThreadFields DEF Thread
<1>2. go' = [go EXCEPT ![g] = x]
  BY DEF Move
<1> HIDE DEF x
<1> QED
  BY <1>1, <1>2, ThreadChanged, ThreadFields

LEMMA Ended ==
  ASSUME EngineInv, NEW g \in DOMAIN go, NEW s, Ends(g, s)
  PROVE  Acts(g) /\ go'[g].at = "finish"
<1> DEFINE x == [go[g] EXCEPT !.at = "finish", !.link = "none", !.silent = FALSE]
<1>1. x \in Thread /\ x.row = go[g].row /\ x.idx = go[g].idx /\ x.link = "none" /\ x.at = "finish"
  BY ThreadFields DEF Thread, Place, Link
<1>2. go' = [go EXCEPT ![g] = x]
  BY DEF Ends
<1> HIDE DEF x
<1> QED
  BY <1>1, <1>2, ThreadChanged, ThreadFields

LEMMA WaitingDeed ==
  ASSUME EngineInv, NEW g \in DOMAIN go,
         \/ TakeSlot(g) \/ CancelQueued(g) \/ CheckCancelled(g)
         \/ TakePlace(g) \/ LeaveHosts(g) \/ StartRunner(g)
  PROVE  Acts(g) /\ Deed(g)
<1>0. go[g].link # "none" => go[g].at \in Running
  BY ThreadFields
<1>1. CASE TakeSlot(g)
  <2>1. Move(g, "slot") /\ go[g].at = "queued"
    BY <1>1 DEF TakeSlot
  <2>2. Acts(g) /\ go'[g].at = "slot"
    BY <1>0, <2>1, Moved DEF Place, Waits, Running
  <2> QED
    BY <1>1, <2>1, <2>2 DEF TakeSlot, Deed, Advances, Goes, Waits
<1>2. CASE CancelQueued(g)
  <2>1. Move(g, "gone") /\ go[g].at = "queued"
    BY <1>2 DEF CancelQueued
  <2>2. Acts(g) /\ go'[g].at = "gone"
    BY <1>0, <2>1, Moved DEF Place, Running
  <2> QED
    BY <1>2, <2>1, <2>2 DEF CancelQueued, Deed, Quits, Goes, Shows, Waits
<1>3. CASE CheckCancelled(g)
  <2>1. CASE ctx
    <3>1. Move(g, "gone") /\ go[g].at = "slot"
      BY <1>3, <2>1 DEF CheckCancelled
    <3>2. Acts(g) /\ go'[g].at = "gone"
      BY <1>0, <3>1, Moved DEF Place, Running
    <3> QED
      BY <1>3, <2>1, <3>1, <3>2 DEF CheckCancelled, Deed, Quits, Goes, Shows, Waits
  <2>2. CASE ~ctx
    <3>1. Move(g, "first") /\ go[g].at = "slot"
      BY <1>3, <2>2 DEF CheckCancelled
    <3>2. Acts(g) /\ go'[g].at = "first"
      BY <1>0, <3>1, Moved DEF Place, Waits, Running
    <3> QED
      BY <1>3, <2>2, <3>1, <3>2 DEF CheckCancelled, Deed, Advances, Goes, Waits
  <2> QED
    BY <2>1, <2>2
<1>4. CASE TakePlace(g)
  <2>1. PICK p \in {"second", "ready"} : Move(g, p) /\ go[g].at \in {"first", "second"}
    BY <1>4 DEF TakePlace
  <2>2. Acts(g) /\ go'[g].at = p
    BY <1>0, <2>1, Moved DEF Place, Waits, Running
  <2> QED
    BY <1>4, <2>1, <2>2 DEF TakePlace, Deed, Advances, Goes, Waits
<1>5. CASE LeaveHosts(g)
  <2>1. Move(g, "gone") /\ go[g].at \in {"first", "second"}
    BY <1>5 DEF LeaveHosts
  <2>2. Acts(g) /\ go'[g].at = "gone"
    BY <1>0, <2>1, Moved DEF Place, Running
  <2> QED
    BY <1>5, <2>1, <2>2 DEF LeaveHosts, Deed, Quits, Goes, Shows, Waits
<1>6. CASE StartRunner(g)
  <2>1. CASE main = "returned"
    <3>1. Move(g, "release") /\ go[g].at = "ready"
      BY <1>6, <2>1 DEF StartRunner
    <3>2. Acts(g) /\ go'[g].at = "release"
      BY <1>0, <3>1, Moved DEF Place, Running
    <3>3. CASE go[g].idx \in DOMAIN board
      <4>1. board \in [DOMAIN board -> [label : Row, status : Statuses]]
        BY DEF EngineInv, EngineTypes
      <4>2. UNCHANGED board
        BY <1>6, <2>1, <3>3, <4>1 DEF StartRunner, Entry
      <4> QED
        BY <1>6, <2>1, <3>1, <3>2, <4>2 DEF StartRunner, Deed, ComesLate, Goes
    <3>4. CASE go[g].idx \notin DOMAIN board
      <4> DEFINE b == Entry(board, go[g].idx, go[g].row)
      <4>1. b[go[g].idx].status = "QUEUED" /\ go[g].idx \in DOMAIN b /\ b = [i \in DOMAIN b |-> b[i]]
            /\ b[go[g].idx] = [label |-> go[g].row, status |-> "QUEUED"]
        BY <3>4 DEF Entry
      <4>2. board' = b
        BY <1>6, <2>1 DEF StartRunner
      <4> HIDE DEF b
      <4>3. [b EXCEPT ![go[g].idx].status = "QUEUED"] = b
        BY <4>1
      <4>4. Show(g, "QUEUED")
        BY <4>2, <4>3 DEF Show, b
      <4> QED
        BY <1>6, <2>1, <3>1, <3>2, <3>4, <4>4 DEF StartRunner, Deed, ComesLate, Goes, Shows
    <3> QED
      BY <3>3, <3>4
  <2>2. CASE main # "returned"
    <3>1. Move(g, "opening") /\ go[g].at = "ready"
      BY <1>6, <2>2 DEF StartRunner
    <3>2. Acts(g) /\ go'[g].at = "opening"
      BY <1>0, <3>1, Moved DEF Place, Running
    <3> QED
      BY <1>6, <2>2, <3>1, <3>2 DEF StartRunner, Deed, Starts, Goes, Shows, Running
  <2> QED
    BY <2>1, <2>2
<1> QED
  BY <1>1, <1>2, <1>3, <1>4, <1>5, <1>6

\* The attempt is cancelled.
LEMMA CancelledStops ==
  ASSUME EngineInv, NEW g \in DOMAIN go, go[g].at \in Running, ctx,
         Ends(g, "CANCELLED"), UNCHANGED <<reg, lease>>
  PROVE  Acts(g) /\ Deed(g)
<1>1. Acts(g) /\ go'[g].at = "finish"
  BY Ended
<1>2. Shows(g, {"CANCELLED"})
  BY DEF Ends, Shows
<1> QED
  BY <1>1, <1>2 DEF Deed, Stops, Goes

LEMMA RunningDeed ==
  ASSUME EngineInv, NEW g \in DOMAIN go,
         \/ Dial(g) \/ Dialed(g) \/ Greeted(g) \/ LoseLink(g) \/ Backoff(g)
         \/ Gate(g) \/ EndWork(g) \/ Watchdog(g)
  PROVE  Acts(g) /\ Deed(g)
<1>0. /\ go[g] \in Thread /\ go \in Seq(Thread)
      /\ go[g].link # "none" => go[g].at \in Running
  BY ThreadFields
<1>a. ASSUME NEW x \in Thread, x.row = go[g].row, x.idx = go[g].idx,
             go' = [go EXCEPT ![g] = x], x.at \in Running, go[g].at \in Running,
             UNCHANGED <<reg, lease>>, UNCHANGED board \/ Shows(g, {"RUNNING", "RETRYING"})
      PROVE  Acts(g) /\ Deed(g)
  <2>1. Acts(g) /\ go'[g] = x
    BY <1>0, <1>a, ThreadChanged
  <2> QED
    BY <1>a, <2>1 DEF Deed, Runs, Goes
<1>1. CASE Dial(g)
  <2> DEFINE x == [go[g] EXCEPT !.link = "dialing"]
  <2>1. go[g].at = "opening" /\ go' = [go EXCEPT ![g] = x] /\ UNCHANGED <<reg, lease, board>>
    BY <1>1 DEF Dial
  <2>2. x \in Thread /\ x.row = go[g].row /\ x.idx = go[g].idx /\ x.at = "opening"
    BY <1>0, <2>1 DEF Thread, Link
  <2> HIDE DEF x
  <2> QED
    BY <1>a, <2>1, <2>2 DEF Running
<1>2. CASE Dialed(g)
  <2> DEFINE x == [go[g] EXCEPT !.link = IF @ = "dialing" THEN "greeting" ELSE "deaf"]
  <2>1. go[g].at \in Running /\ go' = [go EXCEPT ![g] = x] /\ UNCHANGED <<reg, lease, board>>
    BY <1>0, <1>2 DEF Dialed
  <2>2. x \in Thread /\ x.row = go[g].row /\ x.idx = go[g].idx /\ x.at = go[g].at
    BY <1>0 DEF Thread, Link
  <2> HIDE DEF x
  <2> QED
    BY <1>a, <2>1, <2>2
<1>3. CASE Greeted(g)
  <2>0. go[g].at \in Running /\ UNCHANGED <<reg, lease>>
    BY <1>0, <1>3 DEF Greeted
  <2>1. CASE ctx
    BY <1>3, <2>0, <2>1, CancelledStops DEF Greeted
  <2>2. CASE ~ctx
    <3> DEFINE x == [go[g] EXCEPT !.link = "open", !.at = "work"]
    <3>1. go' = [go EXCEPT ![g] = x] /\ UNCHANGED board
      BY <1>3, <2>2 DEF Greeted
    <3>2. x \in Thread /\ x.row = go[g].row /\ x.idx = go[g].idx /\ x.at = "work"
      BY <1>0 DEF Thread, Link, Place, Running
    <3> HIDE DEF x
    <3> QED
      BY <1>a, <2>0, <3>1, <3>2 DEF Running
  <2> QED
    BY <2>1, <2>2
<1>4. CASE LoseLink(g)
  <2>0. go[g].at \in Running /\ UNCHANGED <<reg, lease>>
    BY <1>0, <1>4 DEF LoseLink
  <2>1. CASE ctx
    BY <1>4, <2>0, <2>1, CancelledStops DEF LoseLink
  <2>2. CASE ~ctx
    <3> DEFINE x == [go[g] EXCEPT !.at = "backoff", !.link = "none", !.silent = FALSE]
    <3>1. go' = [go EXCEPT ![g] = x] /\ Shows(g, {"RUNNING", "RETRYING"})
      BY <1>4, <2>2 DEF LoseLink, Shows
    <3>2. x \in Thread /\ x.row = go[g].row /\ x.idx = go[g].idx /\ x.at = "backoff"
      BY <1>0 DEF Thread, Link, Place, Running
    <3> HIDE DEF x
    <3> QED
      BY <1>a, <2>0, <3>1, <3>2 DEF Running
  <2> QED
    BY <2>1, <2>2
<1>5. CASE Backoff(g)
  <2>0. go[g].at \in Running /\ UNCHANGED <<reg, lease>>
    BY <1>5 DEF Backoff, Running
  <2>1. CASE ctx
    BY <1>5, <2>0, <2>1, CancelledStops DEF Backoff
  <2>2. CASE ~ctx
    <3> DEFINE x == [go[g] EXCEPT !.at = "opening"]
    <3>1. go' = [go EXCEPT ![g] = x] /\ Shows(g, {"RUNNING", "RETRYING"})
      BY <1>5, <2>2 DEF Backoff, Shows, Move
    <3>2. x \in Thread /\ x.row = go[g].row /\ x.idx = go[g].idx /\ x.at = "opening"
      BY <1>0 DEF Thread, Place, Running
    <3> HIDE DEF x
    <3> QED
      BY <1>a, <2>0, <3>1, <3>2 DEF Running
  <2> QED
    BY <2>1, <2>2
<1>6. CASE Gate(g)
  <2> DEFINE x == [go[g] EXCEPT !.at = "last"]
  <2>1. /\ go[g].at = "work" /\ go' = [go EXCEPT ![g] = x] /\ UNCHANGED <<reg, lease, board>>
    BY <1>6 DEF Gate, Move
  <2>2. x \in Thread /\ x.row = go[g].row /\ x.idx = go[g].idx /\ x.at = "last"
    BY <1>0 DEF Thread, Place, Running
  <2> HIDE DEF x
  <2> QED
    BY <1>a, <2>1, <2>2 DEF Running
<1>7. CASE EndWork(g)
  <2>0. go[g].at \in Running /\ UNCHANGED <<reg, lease>>
    BY <1>7 DEF EndWork, Running
  <2>1. CASE ctx
    BY <1>7, <2>0, <2>1, CancelledStops DEF EndWork
  <2>2. CASE ~ctx
    <3>1. PICK s \in Outcomes : Ends(g, s)
      BY <1>7, <2>2 DEF EndWork
    <3>2. s \in EndStates
      BY SchedulerAssumption DEF EndStates, Retryable, Through
    <3>3. Acts(g) /\ go'[g].at = "finish" /\ Shows(g, EndStates)
      BY <3>1, <3>2, Ended DEF Ends, Shows
    <3> QED
      BY <2>0, <3>3 DEF Deed, Stops, Goes
  <2> QED
    BY <2>1, <2>2
<1>8. CASE Watchdog(g)
  <2> DEFINE x == [go[g] EXCEPT !.link = "closed"]
  <2>1. /\ go[g].at = "work" /\ go' = [go EXCEPT ![g] = x] /\ UNCHANGED <<reg, lease, board>>
    BY <1>8 DEF Watchdog
  <2>2. x \in Thread /\ x.row = go[g].row /\ x.idx = go[g].idx /\ x.at = "work"
    BY <1>0, <2>1 DEF Thread, Link
  <2> HIDE DEF x
  <2> QED
    BY <1>a, <2>1, <2>2 DEF Running
<1> QED
  BY <1>1, <1>2, <1>3, <1>4, <1>5, <1>6, <1>7, <1>8

LEMMA EndingDeed ==
  ASSUME EngineInv, NEW g \in DOMAIN go, Unregister(g) \/ Release(g)
  PROVE  Acts(g) /\ Deed(g)
<1>0. go[g].link # "none" => go[g].at \in Running
  BY ThreadFields
<1>1. CASE Unregister(g)
  <2>1. Move(g, "release") /\ go[g].at = "finish"
    BY <1>1 DEF Unregister
  <2>2. Acts(g) /\ go'[g].at = "release"
    BY <1>0, <2>1, Moved DEF Place, Running
  <2> QED
    BY <1>1, <2>1, <2>2 DEF Unregister, Deed, Leaves, Goes
<1>2. CASE Release(g)
  <2>1. Move(g, "gone") /\ go[g].at = "release"
    BY <1>2 DEF Release
  <2>2. Acts(g) /\ go'[g].at = "gone"
    BY <1>0, <2>1, Moved DEF Place, Running
  <2> QED
    BY <1>2, <2>1, <2>2 DEF Release, Deed, GivesBack, Goes
<1> QED
  BY <1>1, <1>2

\* Every step of a goroutine is one of the eight kinds.
LEMMA StepDeed ==
  ASSUME EngineInv, NEW g \in DOMAIN go, Step(g)
  PROVE  Acts(g) /\ Deed(g) /\ UNCHANGED <<control, budget>>
<1>1. UNCHANGED <<control, budget>>
  BY DEF Step, TakeSlot, CancelQueued, CheckCancelled, TakePlace, LeaveHosts, StartRunner, Dial,
         Dialed, Greeted, LoseLink, Backoff, Gate, EndWork, Watchdog, Unregister, Release
<1> QED
  BY <1>1, WaitingDeed, RunningDeed, EndingDeed DEF Step

-------------------------------------------------------------------------------
(* What the other steps do *)

\* Everybody stays where he is; at most connections are cut, lost or silent, and the
\* run is cancelled.
Rests ==
  /\ go' \in Seq(Thread) /\ DOMAIN go' = DOMAIN go
  /\ \A k \in DOMAIN go :
       /\ go'[k].row = go[k].row /\ go'[k].idx = go[k].idx /\ go'[k].at = go[k].at
       /\ go'[k].link # "none" => go'[k].at \in Running
  /\ UNCHANGED <<main, slots, places, reg, lease, spec, board, counts>>
  /\ ctx' \in {ctx, TRUE}
  /\ budget' \in [loss : Nat, hang : Nat, pause : Nat, requeue : Nat, reload : Nat \ {0}]
  /\ budget'.reload = budget.reload

\* The engine is not touched.
LEMMA Untouched ==
  ASSUME EngineInv, go' = go, ctx' \in {ctx, TRUE}, budget' = budget,
         UNCHANGED <<main, slots, places, reg, lease, spec, board, counts>>
  PROVE  Rests
<1>1. \A k \in DOMAIN go : go[k].link # "none" => go[k].at \in Running
  BY DEF EngineInv, Linked
<1> QED
  BY <1>1 DEF Rests, EngineInv, EngineTypes

LEMMA AbortRelinks ==
  ASSUME EngineInv, AbortAll
  PROVE  /\ go' \in Seq(Thread) /\ DOMAIN go' = DOMAIN go
         /\ \A k \in DOMAIN go :
              /\ go'[k].row = go[k].row /\ go'[k].idx = go[k].idx /\ go'[k].at = go[k].at
              /\ go'[k].link # "none" => go'[k].at \in Running
<1>0. go \in Seq(Thread)
  BY DEF EngineInv, EngineTypes
<1>1. DOMAIN go' = DOMAIN go
  BY DEF AbortAll
<1>2. ASSUME NEW k \in DOMAIN go
      PROVE  /\ go'[k] \in Thread
             /\ go'[k].row = go[k].row /\ go'[k].idx = go[k].idx /\ go'[k].at = go[k].at
             /\ go'[k].link # "none" => go'[k].at \in Running
  <2>0. /\ go[k] \in Thread /\ go[k].link \in Link
        /\ go[k].link # "none" => go[k].at \in Running
    BY ThreadFields
  <2>1. Cut(go[k].link) \in Link /\ (go[k].link = "none" => Cut(go[k].link) = "none")
    BY <2>0 DEF Cut, Link
  <2> DEFINE x == [go[k] EXCEPT !.link = Cut(go[k].link)]
  <2>2. go'[k] = x \/ go'[k] = go[k]
    BY DEF AbortAll
  <2>3. x \in Thread /\ x.row = go[k].row /\ x.idx = go[k].idx /\ x.at = go[k].at
        /\ x.link = Cut(go[k].link)
    BY <2>0, <2>1 DEF Thread
  <2> HIDE DEF x
  <2> QED
    BY <2>0, <2>1, <2>2, <2>3
<1>3. go' \in Seq(Thread)
  <2>1. Len(go) \in Nat /\ DOMAIN go = 1..Len(go)
    BY <1>0
  <2>2. go' = [k \in 1..Len(go) |-> go'[k]]
    BY <2>1 DEF AbortAll
  <2> QED
    BY <1>2, <2>1, <2>2
<1> QED
  BY <1>1, <1>2, <1>3

LEMMA ServersRest ==
  ASSUME EngineInv, NEW g \in DOMAIN go, Lose(g) \/ Hang(g)
  PROVE  Rests
<1>0. /\ go[g] \in Thread /\ go \in Seq(Thread) /\ go[g].link # "none"
      /\ go[g].link # "none" => go[g].at \in Running
  BY ThreadFields DEF Lose, Hang
<1>1. PICK x \in Thread : /\ x.row = go[g].row /\ x.idx = go[g].idx /\ x.at = go[g].at
                          /\ go' = [go EXCEPT ![g] = x]
  <2>1. CASE Lose(g)
    <3> DEFINE x == [go[g] EXCEPT !.link = "closed"]
    <3>1. x \in Thread /\ x.row = go[g].row /\ x.idx = go[g].idx /\ x.at = go[g].at
      BY <1>0 DEF Thread, Link
    <3>2. go' = [go EXCEPT ![g] = x]
      BY <2>1 DEF Lose
    <3> HIDE DEF x
    <3> QED
      BY <3>1, <3>2
  <2>2. CASE Hang(g)
    <3> DEFINE x == [go[g] EXCEPT !.silent = TRUE]
    <3>1. x \in Thread /\ x.row = go[g].row /\ x.idx = go[g].idx /\ x.at = go[g].at
      BY <1>0 DEF Thread
    <3>2. go' = [go EXCEPT ![g] = x]
      BY <2>2 DEF Hang
    <3> HIDE DEF x
    <3> QED
      BY <3>1, <3>2
  <2> QED
    BY <2>1, <2>2
<1>2. Acts(g) /\ go'[g] = x
  BY <1>0, <1>1, ThreadChanged
<1>3. \A k \in DOMAIN go : go[k].link # "none" => go[k].at \in Running
  BY DEF EngineInv, Linked
<1>4. /\ budget' \in [loss : Nat, hang : Nat, pause : Nat, requeue : Nat, reload : Nat \ {0}]
      /\ budget'.reload = budget.reload
  <2>1. budget \in [loss : Nat, hang : Nat, pause : Nat, requeue : Nat, reload : Nat \ {0}]
    BY DEF EngineInv, EngineTypes
  <2>2. CASE Lose(g)
    <3>0. budget.loss \in Nat /\ budget.loss > 0
      BY <2>1, <2>2 DEF Lose
    <3>1. budget' = [budget EXCEPT !.loss = budget.loss - 1]
      BY <2>2 DEF Lose
    <3>2. budget.loss - 1 \in Nat
      BY <3>0
    <3> QED
      BY <2>1, <3>1, <3>2
  <2>3. CASE Hang(g)
    <3>0. budget.hang \in Nat /\ budget.hang > 0
      BY <2>1, <2>3 DEF Hang
    <3>1. budget' = [budget EXCEPT !.hang = budget.hang - 1]
      BY <2>3 DEF Hang
    <3>2. budget.hang - 1 \in Nat
      BY <3>0
    <3> QED
      BY <2>1, <3>1, <3>2
  <2> QED
    BY <2>2, <2>3
<1>5. UNCHANGED <<main, ctx, slots, places, reg, lease, spec, board, counts>>
  BY DEF Lose, Hang, control
<1> QED
  BY <1>0, <1>1, <1>2, <1>3, <1>4, <1>5 DEF Rests, Acts

LEMMA OperatorRests ==
  ASSUME EngineInv, Escalate \/ HardStop \/ Interrupt \/ Hangup \/ TogglePause
  PROVE  Rests
<1>1. CASE Interrupt \/ Hangup
  BY <1>1, Untouched DEF Interrupt, Hangup
<1>2. CASE TogglePause
  <2>1. budget \in [loss : Nat, hang : Nat, pause : Nat, requeue : Nat, reload : Nat \ {0}]
    BY DEF EngineInv, EngineTypes
  <2>2. budget.pause - 1 \in Nat /\ budget' = [budget EXCEPT !.pause = budget.pause - 1]
    BY <1>2, <2>1 DEF TogglePause
  <2>3. /\ budget' \in [loss : Nat, hang : Nat, pause : Nat, requeue : Nat, reload : Nat \ {0}]
        /\ budget'.reload = budget.reload
    BY <2>1, <2>2
  <2>4. \A k \in DOMAIN go : go[k].link # "none" => go[k].at \in Running
    BY DEF EngineInv, Linked
  <2> QED
    BY <1>2, <2>3, <2>4 DEF TogglePause, Rests, EngineInv, EngineTypes
<1>3. CASE HardStop
  BY <1>3, AbortRelinks DEF HardStop, Rests, EngineInv, EngineTypes
<1>4. CASE Escalate
  <2>1. CASE Over
    BY <1>4, <2>1, Untouched DEF Escalate
  <2>2. CASE ~Over
    BY <1>4, <2>2, AbortRelinks DEF Escalate, Rests, EngineInv, EngineTypes
  <2> QED
    BY <2>1, <2>2
<1> QED
  BY <1>1, <1>2, <1>3, <1>4

Kinds ==
  \/ Rests
  \/ \E g \in DOMAIN go : Step(g) /\ Acts(g) /\ Deed(g) /\ UNCHANGED <<control, budget>>
  \/ Admit \/ AdmitFails \/ InstallHooks \/ SeeDone \/ EndRun \/ Return
  \/ \E labels \in SUBSET Row : Requeue(labels)
  \/ Reload

\* The console adds nothing to what the engine may do.
LEMMA KindsOfSteps ==
  ASSUME EngineInv, [Next]_allVars
  PROVE  Kinds
<1>1. CASE UNCHANGED engine
  BY <1>1, Untouched DEF engine, control, Kinds
<1>2. CASE UNCHANGED allVars
  BY <1>2, Untouched DEF allVars, vars, Kinds
<1>3. CASE Goroutines
  BY <1>3, StepDeed DEF Goroutines, Kinds
<1>4. CASE Environment
  BY <1>4, ServersRest DEF Environment, Kinds
<1>5. CASE Main
  BY <1>5 DEF Main, Kinds
<1>6. CASE Timer
  BY <1>6, OperatorRests DEF Timer, Kinds
<1>7. CASE UI
  <2>1. CASE CtrlC
    BY <1>1, <2>1, OperatorRests DEF CtrlC, Kinds
  <2>2. CASE DoneMsg \/ PhaseMsg \/ Home \/ View \/ Capture \/ EndCapture
    BY <1>1, <2>2 DEF DoneMsg, PhaseMsg, Home, View, Capture, EndCapture
  <2>3. CASE KeyP
    BY <2>3, OperatorRests DEF KeyP, Kinds
  <2>4. CASE KeyRAll
    BY <2>4 DEF KeyRAll, Kinds
  <2>5. CASE KeyR
    <3>1. PICK r \in Row : Requeue({r})
      BY <2>5 DEF KeyR
    <3>2. {r} \in SUBSET Row
      OBVIOUS
    <3> QED
      BY <3>1, <3>2 DEF Kinds
  <2>6. CASE KeyU
    BY <2>6 DEF KeyU, Kinds
  <2> QED
    BY <1>7, <2>1, <2>2, <2>3, <2>4, <2>5, <2>6 DEF UI
<1>8. CASE Process
  BY <1>1, <1>8, OperatorRests
     DEF Process, Signal, SecondSignal, HangupTui, Leave, LeaveUnfinished, Kinds
<1> QED
  BY <1>2, <1>3, <1>4, <1>5, <1>6, <1>7, <1>8 DEF Next

\* Goroutines are started for rows that have no other, none of them twice.
Joins ==
  LET new == DOMAIN go' \ DOMAIN go
  IN /\ main \in {"waiting", "drained", "ended", "returned"}
     /\ InTheGap \/ main # "ended"
     /\ go' \in Seq(Thread) /\ DOMAIN go \subseteq DOMAIN go'
     /\ \A k \in DOMAIN go : go'[k] = go[k]
     /\ \A k \in new : /\ go'[k].at = "queued" /\ go'[k].link = "none"
                       /\ go'[k].row \in DOMAIN spec' /\ go'[k].idx = spec'[go'[k].row]
     /\ \A j, k \in new : go'[j].row = go'[k].row => j = k
     /\ Patient => \A k \in new, g \in DOMAIN go :
                     go[g].row = go'[k].row => go[g].at \notin Waits /\ reg[go[g].row] = 0
     /\ DOMAIN spec \subseteq DOMAIN spec' /\ DOMAIN spec' \subseteq Row
     /\ IsFiniteSet(DOMAIN spec') /\ spec' \in [DOMAIN spec' -> Nat]
     /\ \A r \in DOMAIN spec : spec'[r] = spec[r]
     /\ budget' \in [loss : Nat, hang : Nat, pause : Nat, requeue : Nat, reload : Nat \ {0}]
     /\ UNCHANGED <<main, ctx, slots, places, reg, lease, board, counts>>

LEMMA NewThread ==
  ASSUME NEW r \in Row, NEW i \in Nat
  PROVE  /\ Goroutine(r, i) \in Thread
         /\ Goroutine(r, i).row = r /\ Goroutine(r, i).idx = i
         /\ Goroutine(r, i).at = "queued" /\ Goroutine(r, i).link = "none"
BY DEF Goroutine, Thread, Place, Waits, Link

\* What it means that threads are appended.
LEMMA Appended ==
  ASSUME EngineInv, NEW n \in Nat, NEW new \in [1..n -> Thread], go' = go \o new
  PROVE  /\ go' \in Seq(Thread) /\ DOMAIN go \subseteq DOMAIN go'
         /\ \A k \in DOMAIN go : go'[k] = go[k]
         /\ \A k \in DOMAIN go' \ DOMAIN go : k - Len(go) \in 1..n /\ go'[k] = new[k - Len(go)]
<1>1. go \in Seq(Thread)
  BY DEF EngineInv, EngineTypes
<1>2. new \in Seq(Thread) /\ Len(new) = n /\ DOMAIN new = 1..n
  OBVIOUS
<1>3. /\ go' \in Seq(Thread) /\ Len(go') = Len(go) + n
      /\ \A k \in 1..Len(go) : go'[k] = go[k]
      /\ \A k \in Len(go) + 1..Len(go) + n : go'[k] = new[k - Len(go)]
  BY <1>1, <1>2
<1>4. DOMAIN go = 1..Len(go) /\ DOMAIN go' = 1..Len(go) + n /\ Len(go) \in Nat
  BY <1>1, <1>3
<1> QED
  BY <1>3, <1>4

LEMMA RequeueJoins ==
  ASSUME EngineInv, NEW labels \in SUBSET Row, Requeue(labels)
  PROVE  Joins
<1> DEFINE S == {i \in DOMAIN board : /\ board[i].status \in Retryable
                                      /\ board[i].label \in labels \intersect DOMAIN spec
                                      /\ Idle(board[i].label)}
           e == Ascending(S)
           n == Cardinality(S)
           new == [k \in 1..n |-> Goroutine(board[e[k]].label, spec[board[e[k]].label])]
<1>1. S \in SUBSET Nat /\ IsFiniteSet(S)
  <2>1. S \subseteq DOMAIN board /\ DOMAIN board \subseteq Nat /\ IsFiniteSet(DOMAIN board)
    BY DEF EngineInv, EngineTypes
  <2> QED
    BY <2>1, FS_Subset
<1>2. Again(labels) = e
  BY DEF Again
<1>0. \A i \in S : /\ i \in DOMAIN board /\ board[i].label \in DOMAIN spec /\ reg[board[i].label] = 0
                   /\ board[i].label \in Row /\ spec[board[i].label] = i /\ i \in Nat
  BY DEF EngineInv, EngineTypes, Numbered, Idle
<1> HIDE DEF S
<1>3. /\ n \in Nat /\ DOMAIN e = 1..n
      /\ \A k \in 1..n : e[k] \in S
      /\ \A k, l \in 1..n : e[k] = e[l] => k = l
  BY <1>1, AscendingIsOnto
<1>4. go' = go \o new
  BY <1>2, <1>3 DEF Requeue
<1>6. /\ Hooked /\ (InTheGap \/ main # "ended")
      /\ Patient => \A g \in InState(Waits) : go[g].row \notin {board[i].label : i \in ToSet(e)}
      /\ budget.requeue > 0 /\ budget' = [budget EXCEPT !.requeue = @ - 1]
      /\ UNCHANGED <<slots, places, reg, lease, board, control>>
  BY <1>2 DEF Requeue, Waits
<1> HIDE DEF e, n
<1>7. \A k \in 1..n : /\ new[k] \in Thread /\ new[k].at = "queued" /\ new[k].link = "none"
                      /\ new[k].row = board[e[k]].label /\ new[k].idx = spec[board[e[k]].label]
  BY <1>3, <1>0, NewThread
<1>8. new \in [1..n -> Thread]
  BY <1>7
<1> HIDE DEF new
<1>9. /\ go' \in Seq(Thread) /\ DOMAIN go \subseteq DOMAIN go'
      /\ \A k \in DOMAIN go : go'[k] = go[k]
      /\ \A k \in DOMAIN go' \ DOMAIN go : k - Len(go) \in 1..n /\ go'[k] = new[k - Len(go)]
  BY <1>3, <1>4, <1>8, Appended
<1>10. \A k \in DOMAIN go' \ DOMAIN go :
         /\ go'[k].at = "queued" /\ go'[k].link = "none"
         /\ go'[k].row \in DOMAIN spec /\ go'[k].idx = spec[go'[k].row]
  BY <1>3, <1>0, <1>7, <1>9
<1>11. \A j, k \in DOMAIN go' \ DOMAIN go : go'[j].row = go'[k].row => j = k
  <2> SUFFICES ASSUME NEW j \in DOMAIN go' \ DOMAIN go, NEW k \in DOMAIN go' \ DOMAIN go,
                      go'[j].row = go'[k].row
               PROVE  j = k
    OBVIOUS
  <2>1. board[e[j - Len(go)]].label = board[e[k - Len(go)]].label
    BY <1>7, <1>9
  <2>2. e[j - Len(go)] = e[k - Len(go)]
    BY <1>3, <1>0, <1>9, <2>1
  <2>3. j - Len(go) = k - Len(go)
    BY <1>3, <1>9, <2>2
  <2>4. j \in Int /\ k \in Int /\ Len(go) \in Int
    BY <1>9 DEF EngineInv, EngineTypes
  <2> QED
    BY <2>3, <2>4
<1>12. ASSUME Patient, NEW k \in DOMAIN go' \ DOMAIN go, NEW g \in DOMAIN go,
              go[g].row = go'[k].row
       PROVE  go[g].at \notin Waits /\ reg[go[g].row] = 0
  <2>1. k - Len(go) \in 1..n /\ go[g].row = board[e[k - Len(go)]].label
    BY <1>7, <1>9, <1>12
  <2>2. e[k - Len(go)] \in ToSet(e)
    BY <1>3, <2>1 DEF ToSet
  <2> QED
    BY <1>3, <1>0, <1>6, <1>12, <2>1, <2>2 DEF InState
<1>13. budget' \in [loss : Nat, hang : Nat, pause : Nat, requeue : Nat, reload : Nat \ {0}]
  <2>1. budget \in [loss : Nat, hang : Nat, pause : Nat, requeue : Nat, reload : Nat \ {0}]
    BY DEF EngineInv, EngineTypes
  <2>2. budget.requeue \in Nat /\ budget.requeue > 0
    BY <1>6, <2>1
  <2>3. budget.requeue - 1 \in Nat
    BY <2>2
  <2> QED
    BY <1>6, <2>1, <2>3
<1> QED
  BY <1>6, <1>9, <1>10, <1>11, <1>12, <1>13
     DEF Joins, Hooked, control, EngineInv, EngineTypes

\* The rows a reload admits, n of them.
Adds(n, added) ==
  /\ n \in Nat /\ n <= Len(Grown[budget.reload])
  /\ added \in [1..n -> Row]
  /\ \A k \in 1..n : added[k] \notin DOMAIN spec
  /\ \A k, l \in 1..n : added[k] = added[l] => k = l
  /\ go' = go \o [k \in 1..n |-> Goroutine(added[k], NewIndex(k, spec))]
  /\ DOMAIN spec' = DOMAIN spec \union {added[k] : k \in 1..n}
  /\ spec' = [r \in DOMAIN spec' |-> spec'[r]]
  /\ \A r \in DOMAIN spec : spec'[r] = spec[r]
  /\ \A k \in 1..n : spec'[added[k]] = NewIndex(k, spec)

LEMMA ReloadAdds ==
  ASSUME EngineInv, Reload
  PROVE  \E n, added : Adds(n, added)
<1> DEFINE rows == Grown[budget.reload]
           S == {i \in DOMAIN rows : rows[i] \notin DOMAIN spec}
           f == Ascending(S)
           n == Cardinality(S)
           added == [k \in DOMAIN f |-> rows[f[k]]]
           index == [k \in DOMAIN added |-> NewIndex(k, spec)]
<1>1. rows \in Seq(Row) /\ IsInjective(rows) /\ budget.reload \in DOMAIN Grown
  <2>1. budget.reload \in DOMAIN Grown
    BY DEF Reload
  <2>2. Grown \in Seq(Seq(Row)) /\ \A k \in DOMAIN Grown : IsInjective(Grown[k])
    BY SchedulerAssumption
  <2> QED
    BY <2>1, <2>2
<1>2. S \in SUBSET Nat /\ IsFiniteSet(S) /\ S \subseteq DOMAIN rows /\ n <= Len(rows)
  <2>0. S \subseteq DOMAIN rows
    OBVIOUS
  <2> HIDE DEF rows, S
  <2>1. PICK l \in Nat : l = Len(rows) /\ DOMAIN rows = 1..l
    BY <1>1
  <2>2. IsFiniteSet(DOMAIN rows) /\ Cardinality(DOMAIN rows) = l
    <3>1. IsFiniteSet(1..l) /\ Cardinality(1..l) = l
      BY FS_Interval
    <3> QED
      BY <2>1, <3>1
  <2>3. IsFiniteSet(S) /\ Cardinality(S) <= Cardinality(DOMAIN rows)
    BY <2>0, <2>2, FS_Subset
  <2> QED
    BY <2>0, <2>1, <2>2, <2>3
<1>3. \A i \in S : rows[i] \in Row /\ rows[i] \notin DOMAIN spec
  <2> HIDE DEF rows
  <2> QED
    BY <1>1
<1>4. \A i, j \in S : rows[i] = rows[j] => i = j
  <2> HIDE DEF rows
  <2> QED
    BY <1>1, <1>2 DEF IsInjective
<1>5. /\ go' = go \o [k \in DOMAIN added |-> Goroutine(added[k], index[k])]
      /\ spec' = [r \in DOMAIN spec \union ToSet(added) |->
                   IF r \in DOMAIN spec THEN spec[r]
                   ELSE index[CHOOSE k \in DOMAIN added : added[k] = r]]
  BY DEF Reload
<1> HIDE DEF S
<1>6. /\ n \in Nat /\ DOMAIN f = 1..n
      /\ \A k \in 1..n : f[k] \in S
      /\ \A k, l \in 1..n : f[k] = f[l] => k = l
  BY <1>2, AscendingIsOnto
<1> HIDE DEF n, f
<1>7. /\ DOMAIN added = 1..n /\ added \in [1..n -> Row]
      /\ \A k \in 1..n : added[k] \notin DOMAIN spec
      /\ \A k, l \in 1..n : added[k] = added[l] => k = l
  <2> HIDE DEF rows
  <2> QED
    BY <1>3, <1>4, <1>6
<1> HIDE DEF added
<1>8. DOMAIN index = 1..n /\ \A k \in 1..n : index[k] = NewIndex(k, spec)
  BY <1>7
<1>9. go' = go \o [k \in 1..n |-> Goroutine(added[k], NewIndex(k, spec))]
  BY <1>5, <1>7, <1>8
<1> HIDE DEF index
<1>10. ToSet(added) = {added[k] : k \in 1..n}
  BY <1>7 DEF ToSet
<1>11. /\ DOMAIN spec' = DOMAIN spec \union {added[k] : k \in 1..n}
       /\ spec' = [r \in DOMAIN spec' |-> spec'[r]]
       /\ \A r \in DOMAIN spec : spec'[r] = spec[r]
  BY <1>5, <1>10
<1>12. \A k \in 1..n : spec'[added[k]] = NewIndex(k, spec)
  <2> SUFFICES ASSUME NEW k \in 1..n
               PROVE  spec'[added[k]] = index[k]
    BY <1>8
  <2>1. added[k] \in DOMAIN spec \union ToSet(added) /\ added[k] \notin DOMAIN spec
    BY <1>7, <1>10
  <2>2. spec'[added[k]] = index[CHOOSE l \in DOMAIN added : added[l] = added[k]]
    BY <1>5, <2>1
  <2>3. (CHOOSE l \in DOMAIN added : added[l] = added[k]) = k
    <3>1. \E l \in DOMAIN added : added[l] = added[k]
      BY <1>7
    <3>2. \A l \in DOMAIN added : added[l] = added[k] => l = k
      BY <1>7
    <3> QED
      BY <3>1, <3>2
  <2> QED
    BY <2>2, <2>3
<1>13. Adds(n, added)
  BY <1>2, <1>6, <1>7, <1>9, <1>11, <1>12, Zenon DEF Adds
<1> QED
  BY <1>13

LEMMA ReloadJoins ==
  ASSUME EngineInv, Reload
  PROVE  Joins
<1>1. PICK n, added : Adds(n, added)
  BY ReloadAdds
<1> DEFINE new == [k \in 1..n |-> Goroutine(added[k], NewIndex(k, spec))]
<1>2. /\ n \in Nat /\ added \in [1..n -> Row] /\ (\A k \in 1..n : added[k] \notin DOMAIN spec)
      /\ (\A k, l \in 1..n : added[k] = added[l] => k = l)
      /\ go' = go \o new
  BY <1>1 DEF Adds
<1>3. /\ DOMAIN spec' = DOMAIN spec \union {added[k] : k \in 1..n}
      /\ spec' = [r \in DOMAIN spec' |-> spec'[r]]
      /\ \A r \in DOMAIN spec : spec'[r] = spec[r]
      /\ \A k \in 1..n : spec'[added[k]] = NewIndex(k, spec)
  BY <1>1 DEF Adds
<1>4. DOMAIN spec \subseteq Row /\ IsFiniteSet(DOMAIN spec) /\ spec \in [DOMAIN spec -> Nat]
  BY DEF EngineInv, EngineTypes
<1>5. \A k \in 1..n : NewIndex(k, spec) \in Nat
  <2>1. PICK c \in Nat : c = Cardinality(DOMAIN spec)
    BY <1>4, FS_CardinalityType
  <2>2. \A k \in 1..n : NewIndex(k, spec) = (c + k - 1) + (k - 1) + 1 /\ k \in Nat /\ k >= 1
    BY <1>2, <2>1 DEF NewIndex
  <2> QED
    BY <2>2
<1>6. \A k \in 1..n : /\ new[k] \in Thread /\ new[k].at = "queued" /\ new[k].link = "none"
                      /\ new[k].row = added[k] /\ new[k].idx = NewIndex(k, spec)
  BY <1>2, <1>5, NewThread
<1>7. new \in [1..n -> Thread]
  BY <1>6
<1> HIDE DEF new
<1>8. /\ go' \in Seq(Thread) /\ DOMAIN go \subseteq DOMAIN go'
      /\ \A k \in DOMAIN go : go'[k] = go[k]
      /\ \A k \in DOMAIN go' \ DOMAIN go : k - Len(go) \in 1..n /\ go'[k] = new[k - Len(go)]
  BY <1>2, <1>7, Appended
<1>9. DOMAIN spec \subseteq DOMAIN spec' /\ DOMAIN spec' \subseteq Row /\ IsFiniteSet(DOMAIN spec')
  <2>1. IsFiniteSet(1..n)
    BY <1>2, FS_Interval
  <2>2. added \in Surjection(1..n, {added[k] : k \in 1..n})
    BY <1>2 DEF Surjection
  <2>3. IsFiniteSet({added[k] : k \in 1..n})
    BY <2>1, <2>2, FS_Surjection
  <2>4. IsFiniteSet(DOMAIN spec \union {added[k] : k \in 1..n})
    BY <1>4, <2>3, FS_Union
  <2> QED
    BY <1>2, <1>3, <1>4, <2>4
<1>10. spec' \in [DOMAIN spec' -> Nat]
  <2>1. \A r \in DOMAIN spec' : spec'[r] \in Nat
    BY <1>3, <1>4, <1>5
  <2> QED
    BY <1>3, <2>1
<1>11. \A k \in DOMAIN go' \ DOMAIN go :
         /\ go'[k].at = "queued" /\ go'[k].link = "none"
         /\ go'[k].row \in DOMAIN spec' /\ go'[k].idx = spec'[go'[k].row]
  BY <1>3, <1>6, <1>8
<1>12. \A j, k \in DOMAIN go' \ DOMAIN go : go'[j].row = go'[k].row => j = k
  <2> SUFFICES ASSUME NEW j \in DOMAIN go' \ DOMAIN go, NEW k \in DOMAIN go' \ DOMAIN go,
                      go'[j].row = go'[k].row
               PROVE  j = k
    OBVIOUS
  <2>1. added[j - Len(go)] = added[k - Len(go)]
    BY <1>6, <1>8
  <2>2. j - Len(go) = k - Len(go)
    BY <1>2, <1>8, <2>1
  <2>3. j \in Int /\ k \in Int /\ Len(go) \in Int
    BY <1>8 DEF EngineInv, EngineTypes
  <2> QED
    BY <2>2, <2>3
<1>13. \A k \in DOMAIN go' \ DOMAIN go, g \in DOMAIN go : go[g].row # go'[k].row
  <2>1. \A g \in DOMAIN go : go[g].row \in DOMAIN spec
    BY DEF EngineInv, Numbered
  <2> QED
    BY <1>2, <1>6, <1>8, <2>1
<1>14. budget' \in [loss : Nat, hang : Nat, pause : Nat, requeue : Nat, reload : Nat \ {0}]
  <2>1. budget \in [loss : Nat, hang : Nat, pause : Nat, requeue : Nat, reload : Nat \ {0}]
    BY DEF EngineInv, EngineTypes
  <2>2. budget.reload + 1 \in Nat \ {0}
    BY <2>1
  <2>3. budget' = [budget EXCEPT !.reload = @ + 1]
    BY DEF Reload
  <2> QED
    BY <2>1, <2>2, <2>3
<1>15. /\ main \in {"waiting", "drained", "ended", "returned"} /\ (InTheGap \/ main # "ended")
       /\ UNCHANGED <<main, ctx, slots, places, reg, lease, board, counts>>
  BY DEF Reload, Hooked
<1> QED
  BY <1>3, <1>8, <1>9, <1>10, <1>11, <1>12, <1>13, <1>14, <1>15, Zenon DEF Joins

\* The rows of the CSV are entered under their numbers; who is not finished is queued.
Admits ==
  /\ main = "opening" /\ main' = "admitted"
  /\ go' \in Seq(Thread)
  /\ \A k \in DOMAIN go' : /\ go'[k].at = "queued" /\ go'[k].link = "none"
                           /\ go'[k].row \in DOMAIN spec' /\ go'[k].idx = spec'[go'[k].row]
  /\ \A j, k \in DOMAIN go' : go'[j].row = go'[k].row => j = k
  /\ DOMAIN spec' \subseteq Row /\ IsFiniteSet(DOMAIN spec')
  /\ spec' \in [DOMAIN spec' -> 1..Cardinality(DOMAIN spec')] /\ IsInjective(spec')
  /\ DOMAIN board' \subseteq Nat /\ IsFiniteSet(DOMAIN board')
  /\ board' \in [DOMAIN board' -> [label : Row, status : {"QUEUED", "SKIPPED"}]]
  /\ \A i \in DOMAIN board' : /\ board'[i].label \in DOMAIN spec' /\ spec'[board'[i].label] = i
                              /\ board'[i].status = "QUEUED" => \E k \in DOMAIN go' : go'[k].idx = i
  /\ UNCHANGED <<ctx, slots, places, reg, lease, paused, alarm, counts, budget>>

LEMMA AdmitAdmits ==
  ASSUME EngineInv, Admit
  PROVE  Admits
<1> DEFINE S == {i \in DOMAIN Csv : ~Skipped(Csv[i])}
           p == Ascending(S)
           n == Cardinality(S)
           number(r) == CHOOSE i \in DOMAIN Csv : Csv[i] = r
<1>1. Csv \in Seq(Row) /\ IsInjective(Csv)
  BY SchedulerAssumption
<1>2. DOMAIN Csv = 1..Len(Csv) /\ Len(Csv) \in Nat
  BY <1>1
<1>3. IsFiniteSet(DOMAIN Csv) /\ Cardinality(DOMAIN Csv) = Len(Csv) /\ DOMAIN Csv \subseteq Nat
  <2>1. IsFiniteSet(1..Len(Csv)) /\ Cardinality(1..Len(Csv)) = Len(Csv) /\ 1..Len(Csv) \subseteq Nat
    <3>1. PICK l \in Nat : l = Len(Csv)
      BY <1>2
    <3>2. IsFiniteSet(1..l) /\ Cardinality(1..l) = l
      BY FS_Interval
    <3> QED
      BY <3>1, <3>2
  <2> QED
    BY <1>2, <2>1
<1>4. S \in SUBSET Nat /\ IsFiniteSet(S) /\ S \subseteq DOMAIN Csv
  <2>1. S \subseteq DOMAIN Csv
    OBVIOUS
  <2> QED
    BY <1>3, <2>1, FS_Subset
<1>5. \A i \in DOMAIN Csv : Csv[i] \in Row
  BY <1>1
<1>6. \A i, j \in DOMAIN Csv : Csv[i] = Csv[j] => i = j
  BY <1>1 DEF IsInjective
<1>7. ToSet(Csv) = {Csv[i] : i \in DOMAIN Csv}
  BY <1>1 DEF ToSet
<1>8. \A i \in DOMAIN Csv : number(Csv[i]) = i
  BY <1>6
<1>9. /\ main = "opening" /\ main' = "admitted"
      /\ spec' = [r \in ToSet(Csv) |-> number(r)]
      /\ board' = [i \in DOMAIN Csv |->
           [label |-> Csv[i], status |-> IF Skipped(Csv[i]) THEN "SKIPPED" ELSE "QUEUED"]]
      /\ go' = [k \in DOMAIN p |-> Goroutine(Csv[p[k]], p[k])]
      /\ UNCHANGED <<ctx, slots, places, reg, lease, paused, alarm, counts, budget>>
  BY DEF Admit
<1>s. \A i \in DOMAIN Csv : ~Skipped(Csv[i]) => i \in S
  OBVIOUS
<1> HIDE DEF S, number
<1>10. /\ n \in Nat /\ DOMAIN p = 1..n
       /\ \A k \in 1..n : p[k] \in S
       /\ \A k, l \in 1..n : p[k] = p[l] => k = l
       /\ \A i \in S : \E k \in 1..n : p[k] = i
  BY <1>4, AscendingIsOnto
<1> HIDE DEF n, p
<1>11. /\ DOMAIN spec' = ToSet(Csv)
       /\ \A i \in DOMAIN Csv : Csv[i] \in DOMAIN spec' /\ spec'[Csv[i]] = i
  BY <1>7, <1>8, <1>9
<1>12. DOMAIN spec' \subseteq Row
  BY <1>5, <1>7, <1>11
<1>13. IsFiniteSet(DOMAIN spec') /\ Cardinality(DOMAIN spec') = Len(Csv)
  <2>1. Csv \in Surjection(DOMAIN Csv, ToSet(Csv)) /\ Csv \in Injection(DOMAIN Csv, ToSet(Csv))
    <3>1. Csv \in [DOMAIN Csv -> ToSet(Csv)]
      BY <1>1, <1>2, <1>7
    <3> QED
      BY <1>1, <1>7, <3>1 DEF Surjection, Injection
  <2>2. IsFiniteSet(ToSet(Csv)) /\ Cardinality(ToSet(Csv)) = Cardinality(DOMAIN Csv)
    BY <1>3, <2>1, FS_Surjection
  <2> QED
    BY <1>3, <1>11, <2>2
<1>14. spec' \in [DOMAIN spec' -> 1..Cardinality(DOMAIN spec')] /\ IsInjective(spec')
  <2>1. \A r \in DOMAIN spec' : \E i \in DOMAIN Csv : r = Csv[i] /\ spec'[r] = i
    BY <1>7, <1>11
  <2>2. \A r \in DOMAIN spec' : spec'[r] \in 1..Cardinality(DOMAIN spec')
    BY <1>2, <1>13, <2>1
  <2>3. spec' = [r \in DOMAIN spec' |-> spec'[r]]
    BY <1>9
  <2>4. \A q, r \in DOMAIN spec' : spec'[q] = spec'[r] => q = r
    BY <2>1
  <2>5. IsInjective(spec')
    BY <2>4 DEF IsInjective
  <2> QED
    BY <2>2, <2>3, <2>5
<1>15. \A k \in 1..n : /\ p[k] \in DOMAIN Csv /\ go'[k] \in Thread
                       /\ go'[k].at = "queued" /\ go'[k].link = "none"
                       /\ go'[k].row = Csv[p[k]] /\ go'[k].idx = p[k]
  <2> SUFFICES ASSUME NEW k \in 1..n
               PROVE  /\ p[k] \in DOMAIN Csv /\ go'[k] \in Thread
                      /\ go'[k].at = "queued" /\ go'[k].link = "none"
                      /\ go'[k].row = Csv[p[k]] /\ go'[k].idx = p[k]
    OBVIOUS
  <2>1. p[k] \in DOMAIN Csv /\ Csv[p[k]] \in Row /\ p[k] \in Nat
    BY <1>3, <1>4, <1>5, <1>10
  <2>2. go'[k] = Goroutine(Csv[p[k]], p[k])
    BY <1>9, <1>10
  <2> QED
    BY <2>1, <2>2, NewThread
<1>16. go' \in Seq(Thread) /\ DOMAIN go' = 1..n
  <2>1. go' = [k \in 1..n |-> go'[k]]
    BY <1>9, <1>10
  <2> QED
    BY <1>10, <1>15, <2>1
<1>17. \A k \in DOMAIN go' : /\ go'[k].at = "queued" /\ go'[k].link = "none"
                             /\ go'[k].row \in DOMAIN spec' /\ go'[k].idx = spec'[go'[k].row]
  BY <1>11, <1>15, <1>16
<1>18. \A j, k \in DOMAIN go' : go'[j].row = go'[k].row => j = k
  BY <1>6, <1>10, <1>15, <1>16
<1>19. /\ DOMAIN board' = DOMAIN Csv
       /\ board' \in [DOMAIN board' -> [label : Row, status : {"QUEUED", "SKIPPED"}]]
       /\ \A i \in DOMAIN board' : /\ board'[i].label = Csv[i]
                                   /\ board'[i].status = "QUEUED" => ~Skipped(Csv[i])
  BY <1>5, <1>9
<1>20. \A i \in DOMAIN board' : /\ board'[i].label \in DOMAIN spec' /\ spec'[board'[i].label] = i
                                /\ board'[i].status = "QUEUED" => \E k \in DOMAIN go' : go'[k].idx = i
  <2> SUFFICES ASSUME NEW i \in DOMAIN board'
               PROVE  /\ board'[i].label \in DOMAIN spec' /\ spec'[board'[i].label] = i
                      /\ board'[i].status = "QUEUED" => \E k \in DOMAIN go' : go'[k].idx = i
    OBVIOUS
  <2>1. i \in DOMAIN Csv /\ board'[i].label = Csv[i]
    BY <1>19
  <2>2. ASSUME board'[i].status = "QUEUED"
        PROVE  \E k \in DOMAIN go' : go'[k].idx = i
    <3>1. i \in S
      BY <1>19, <1>s, <2>1, <2>2
    <3> QED
      BY <1>10, <1>15, <1>16, <3>1
  <2> QED
    BY <1>11, <2>1, <2>2
<1> QED
  BY <1>3, <1>9, <1>12, <1>13, <1>14, <1>16, <1>17, <1>18, <1>19, <1>20 DEF Admits

-------------------------------------------------------------------------------
(* The types and the numbers *)

\* What showing g does to the board.
LEMMA BoardShows ==
  ASSUME EngineInv, NEW g \in DOMAIN go, NEW s \in Statuses, Show(g, s)
  PROVE  /\ DOMAIN board' = DOMAIN board \union {go[g].idx}
         /\ DOMAIN board' \subseteq Nat /\ IsFiniteSet(DOMAIN board')
         /\ board' \in [DOMAIN board' -> [label : Row, status : Statuses]]
         /\ board'[go[g].idx].status = s
         /\ \A i \in DOMAIN board : i # go[g].idx => board'[i] = board[i]
         /\ board'[go[g].idx].label =
              IF go[g].idx \in DOMAIN board THEN board[go[g].idx].label ELSE go[g].row
<1> DEFINE x == go[g].idx
           b == Entry(board, x, go[g].row)
<1>1. go[g].row \in Row /\ x \in Nat
  BY ThreadFields DEF Thread
<1>2. /\ DOMAIN board \subseteq Nat /\ IsFiniteSet(DOMAIN board)
      /\ board \in [DOMAIN board -> [label : Row, status : Statuses]]
  BY DEF EngineInv, EngineTypes
<1>3. /\ DOMAIN b = DOMAIN board \union {x}
      /\ \A i \in DOMAIN board : b[i] = board[i]
      /\ b[x] = IF x \in DOMAIN board THEN board[x] ELSE [label |-> go[g].row, status |-> "QUEUED"]
      /\ b = [i \in DOMAIN b |-> b[i]]
  BY DEF Entry
<1>4. board' = [b EXCEPT ![x].status = s]
  BY DEF Show
<1>5. "QUEUED" \in Statuses
  BY DEF Statuses
<1> HIDE DEF b, x
<1>6. b[x] \in [label : Row, status : Statuses]
  BY <1>1, <1>2, <1>3, <1>5
<1>7. \A i \in DOMAIN b : b[i] \in [label : Row, status : Statuses]
  BY <1>2, <1>3, <1>6
<1>8. /\ DOMAIN board' = DOMAIN b
      /\ board'[x] = [b[x] EXCEPT !.status = s]
      /\ \A i \in DOMAIN b : i # x => board'[i] = b[i]
      /\ board' = [i \in DOMAIN b |-> board'[i]]
  BY <1>3, <1>4
<1>9. board'[x] \in [label : Row, status : Statuses] /\ board'[x].status = s /\ board'[x].label = b[x].label
  BY <1>6, <1>8
<1>10. board' \in [DOMAIN board' -> [label : Row, status : Statuses]]
  BY <1>7, <1>8, <1>9
<1>11. DOMAIN board' \subseteq Nat /\ IsFiniteSet(DOMAIN board')
  BY <1>1, <1>2, <1>3, <1>8, FS_AddElement
<1>12. b[x].label = IF x \in DOMAIN board THEN board[x].label ELSE go[g].row
  BY <1>3
<1> QED
  BY <1>3, <1>8, <1>9, <1>10, <1>11, <1>12 DEF x

\* The status somebody is shown under after a step.
LEMMA DeedShows ==
  ASSUME EngineInv, NEW g \in DOMAIN go, Deed(g)
  PROVE  UNCHANGED board \/ \E s \in Statuses : Show(g, s)
<1>1. EndStates \subseteq Statuses /\ {"QUEUED", "RUNNING", "RETRYING", "CANCELLED"} \subseteq Statuses
  BY DEF EndStates, Through, Statuses
<1> QED
  BY <1>1, Zenon DEF Deed, Advances, Quits, Starts, ComesLate, Runs, Stops, Leaves, GivesBack, Shows

LEMMA EngineInvHolds == ConsoleInit => EngineInv
<1> SUFFICES ASSUME ConsoleInit
             PROVE  EngineInv
  OBVIOUS
<1>1. Init
  BY DEF ConsoleInit
<1>2. IsFiniteSet({})
  BY FS_EmptySet
<1>3. DOMAIN go = {} /\ DOMAIN spec = {} /\ DOMAIN board = {} /\ main = "opening"
  BY <1>1 DEF Init
<1>4. go \in Seq(Thread) /\ spec \in [DOMAIN spec -> Nat]
      /\ board \in [DOMAIN board -> [label : Row, status : Statuses]]
  BY <1>1, <1>3 DEF Init
<1>5. budget \in [loss : Nat, hang : Nat, pause : Nat, requeue : Nat, reload : Nat \ {0}]
  <2>1. MaxLoss \in Nat /\ MaxHang \in Nat /\ MaxPause \in Nat /\ MaxRequeue \in Nat
    BY SchedulerAssumption
  <2> QED
    BY <1>1, <2>1 DEF Init
<1>6. EngineTypes
  BY <1>1, <1>2, <1>3, <1>4, <1>5 DEF EngineTypes, Init
<1>7. Linked /\ Unborn /\ Numbered
  BY <1>3 DEF Linked, Unborn, Numbered
<1> QED
  BY <1>6, <1>7 DEF EngineInv

LEMMA EngineInvStep ==
  ASSUME EngineInv, [Next]_allVars
  PROVE  EngineInv'
<1>0. EngineTypes /\ Linked /\ Unborn /\ Numbered
  BY DEF EngineInv
<1>1. CASE Rests
  <2>1. EngineTypes'
    BY <1>0, <1>1, Zenon DEF Rests, EngineTypes
  <2>2. Linked' /\ Unborn' /\ Numbered'
    BY <1>0, <1>1 DEF Rests, Linked, Unborn, Numbered
  <2> QED
    BY <2>1, <2>2 DEF EngineInv
<1>2. ASSUME NEW g \in DOMAIN go, Acts(g), Deed(g), UNCHANGED <<control, budget>>
      PROVE  EngineInv'
  <2>0. /\ go[g].row \in Row /\ go[g].row \in DOMAIN spec /\ go[g].idx = spec[go[g].row]
        /\ g \in Nat
    BY <1>0, ThreadFields DEF Numbered, EngineTypes
  <2>1. reg' \in [Row -> Nat] /\ lease' \subseteq Row
    <3>1. /\ reg' \in {reg, [reg EXCEPT ![go[g].row] = g], [reg EXCEPT ![go[g].row] = 0]}
          /\ lease' \in {lease, lease \union {go[g].row}, lease \ {go[g].row}}
      BY <1>2, Zenon DEF Deed, Advances, Quits, Starts, ComesLate, Runs, Stops, Leaves, GivesBack
    <3>2. reg \in [Row -> Nat] /\ lease \subseteq Row
      BY <1>0 DEF EngineTypes
    <3> QED
      BY <2>0, <3>1, <3>2
  <2>2. /\ DOMAIN board' \subseteq Nat /\ IsFiniteSet(DOMAIN board')
        /\ board' \in [DOMAIN board' -> [label : Row, status : Statuses]]
        /\ \A i \in DOMAIN board' : board'[i].label \in DOMAIN spec /\ spec[board'[i].label] = i
    <3>1. CASE UNCHANGED board
      BY <1>0, <3>1 DEF EngineTypes, Numbered
    <3>2. CASE \E s \in Statuses : Show(g, s)
      <4>1. PICK s \in Statuses : Show(g, s)
        BY <3>2
      <4>2. /\ DOMAIN board' = DOMAIN board \union {go[g].idx}
            /\ DOMAIN board' \subseteq Nat /\ IsFiniteSet(DOMAIN board')
            /\ board' \in [DOMAIN board' -> [label : Row, status : Statuses]]
            /\ \A i \in DOMAIN board : i # go[g].idx => board'[i] = board[i]
            /\ board'[go[g].idx].label =
                 IF go[g].idx \in DOMAIN board THEN board[go[g].idx].label ELSE go[g].row
        BY <4>1, BoardShows
      <4> QED
        BY <1>0, <2>0, <4>2 DEF Numbered
    <3> QED
      BY <1>2, <3>1, <3>2, DeedShows
  <2>3. UNCHANGED <<main, ctx, spec, counts, budget>>
    BY <1>2 DEF control
  <2>4. EngineTypes'
    BY <1>0, <1>2, <2>1, <2>2, <2>3, Zenon DEF EngineTypes, Acts
  <2>5. Linked' /\ Unborn'
    BY <1>0, <1>2, <2>0, <2>3 DEF Acts, Linked, Unborn
  <2>6. \A k \in DOMAIN go' : go'[k].row = go[k].row /\ go'[k].idx = go[k].idx
    BY <1>2 DEF Acts
  <2>7. Numbered'
    BY <1>0, <1>2, <2>2, <2>3, <2>6 DEF Acts, Numbered
  <2> QED
    BY <2>4, <2>5, <2>7 DEF EngineInv
<1>3. CASE Admits
  <2>1. /\ spec' \in [DOMAIN spec' -> Nat]
        /\ board' \in [DOMAIN board' -> [label : Row, status : Statuses]]
    BY <1>3 DEF Admits, Statuses
  <2>2. EngineTypes'
    <3>1. main' = "admitted"
      BY <1>3 DEF Admits
    <3> QED
      BY <1>0, <1>3, <2>1, <3>1, Zenon DEF EngineTypes, Admits
  <2>3. Linked' /\ Unborn' /\ Numbered'
    BY <1>3 DEF Admits, Linked, Unborn, Numbered
  <2> QED
    BY <2>2, <2>3 DEF EngineInv
<1>4. CASE AdmitFails \/ InstallHooks \/ SeeDone \/ EndRun \/ Return
  <2>1. /\ main' \in {"failed", "waiting", "drained", "ended", "returned"}
        /\ main' = "failed" => main = "opening"
        /\ UNCHANGED <<ctx, go, reg, lease, spec, board, budget>>
    BY <1>4 DEF AdmitFails, InstallHooks, SeeDone, EndRun, Return
  <2> QED
    BY <1>0, <2>1 DEF EngineInv, EngineTypes, Linked, Unborn, Numbered
<1>5. CASE Joins
  <2>1. EngineTypes'
    BY <1>0, <1>5, Zenon DEF Joins, EngineTypes
  <2>2. Linked' /\ Unborn'
    BY <1>0, <1>5 DEF Joins, Linked, Unborn
  <2>3. \A k \in DOMAIN go' : go'[k].row \in DOMAIN spec' /\ go'[k].idx = spec'[go'[k].row]
    <3> TAKE k \in DOMAIN go'
    <3>2. CASE k \in DOMAIN go
      BY <1>0, <1>5, <3>2 DEF Joins, Numbered
    <3>3. CASE k \notin DOMAIN go
      BY <1>5, <3>3 DEF Joins
    <3> QED
      BY <3>2, <3>3
  <2>4. \A i \in DOMAIN board' : board'[i].label \in DOMAIN spec' /\ spec'[board'[i].label] = i
    BY <1>0, <1>5 DEF Joins, Numbered
  <2> QED
    BY <2>1, <2>2, <2>3, <2>4 DEF EngineInv, Numbered
<1> QED
  BY <1>1, <1>2, <1>3, <1>4, <1>5, KindsOfSteps, AdmitAdmits, RequeueJoins, ReloadJoins DEF Kinds

-------------------------------------------------------------------------------
(* Who runs, and what the results are *)

LEMMA AloneStep ==
  ASSUME Patient, EngineInv, Alone, [Next]_allVars
  PROVE  Alone'
<1>0. /\ \A g \in DOMAIN go : /\ go[g].row \in Row /\ go[g].at \in Place /\ g \in Nat \ {0}
                              /\ (go[g].at \in Waits \/ go[g].at \in Running \union {"finish"}
                                   \/ ~Active(g))
      /\ reg \in [Row -> Nat]
  <2>1. go \in Seq(Thread) /\ reg \in [Row -> Nat]
    BY DEF EngineInv, EngineTypes
  <2>2. \A g \in DOMAIN go : g \in Nat \ {0}
    BY <2>1
  <2> QED
    BY <2>1, <2>2, ThreadFields DEF Place, Active
<1>a. /\ \A g, k \in DOMAIN go : Active(g) /\ Active(k) /\ go[g].row = go[k].row => g = k
      /\ \A g \in DOMAIN go : go[g].at \in Running \union {"finish"} =>
           reg[go[g].row] = g /\ go[g].row \in lease
  BY DEF Alone, InState
<1>b. ASSUME \A g, k \in DOMAIN go' : Active(g)' /\ Active(k)' /\ go'[g].row = go'[k].row => g = k,
             \A g \in DOMAIN go' : go'[g].at \in Running \union {"finish"} =>
               reg'[go'[g].row] = g /\ go'[g].row \in lease'
      PROVE  Alone'
  BY <1>b DEF Alone, InState
<1>1. CASE Rests
  <2>1. \A g \in DOMAIN go' : /\ g \in DOMAIN go /\ go'[g].row = go[g].row /\ go'[g].at = go[g].at
                              /\ Active(g)' = Active(g)
    BY <1>1 DEF Rests, Active
  <2>2. UNCHANGED <<reg, lease>>
    BY <1>1 DEF Rests
  <2> QED
    BY <1>a, <1>b, <2>1, <2>2
<1>2. ASSUME NEW g \in DOMAIN go, Acts(g), Deed(g)
      PROVE  Alone'
  <2>1. DOMAIN go' = DOMAIN go /\ (\A k \in DOMAIN go : k # g => go'[k] = go[k])
        /\ \A k \in DOMAIN go : go'[k].row = go[k].row
    BY <1>2 DEF Acts
  <2>3. \A k \in DOMAIN go : k # g => (Active(k)' <=> Active(k))
    BY <2>1 DEF Active
  <2>4. CASE GivesBack(g)
    <3>1. go'[g].at = "gone" /\ UNCHANGED <<reg, lease>>
      BY <2>4 DEF GivesBack, Goes
    <3>2. ~Active(g)' /\ "gone" \notin Running \union {"finish"}
      BY <3>1 DEF Active, Running
    <3>3. \A k, l \in DOMAIN go' : Active(k)' /\ Active(l)' /\ go'[k].row = go'[l].row => k = l
      BY <1>a, <2>1, <2>3, <3>2
    <3>4. \A k \in DOMAIN go' : go'[k].at \in Running \union {"finish"} =>
            reg'[go'[k].row] = k /\ go'[k].row \in lease'
      BY <1>a, <2>1, <3>1, <3>2
    <3> QED
      BY <1>b, <3>3, <3>4
  <2> SUFFICES ASSUME ~GivesBack(g)
               PROVE  Alone'
    BY <2>4
  <2>2. Active(g)
    BY <1>2 DEF Deed, Advances, Quits, Starts, ComesLate, Runs, Stops, Leaves, GivesBack, Goes, Active,
                Waits, Running
  <2>5. \A k, l \in DOMAIN go' : Active(k)' /\ Active(l)' /\ go'[k].row = go'[l].row => k = l
    BY <1>a, <2>1, <2>2, <2>3
  <2>6. \A k \in DOMAIN go : k # g /\ Active(k) => go[k].row # go[g].row
    BY <1>a, <2>2
  <2>7. \A k \in DOMAIN go : go[k].at \in Running \union {"finish"} => Active(k)
    BY DEF Active, Running
  <2>8. ASSUME NEW k \in DOMAIN go', go'[k].at \in Running \union {"finish"}
        PROVE  reg'[go'[k].row] = k /\ go'[k].row \in lease'
    <3>1. CASE k # g
      <4>1. go[k].at \in Running \union {"finish"} /\ go'[k].row = go[k].row /\ go[k].row # go[g].row
        BY <2>1, <2>6, <2>7, <2>8, <3>1
      <4>2. reg[go[k].row] = k /\ go[k].row \in lease /\ go[k].row \in Row
        BY <1>0, <1>a, <2>1, <4>1
      <4>3. /\ reg' \in {reg, [reg EXCEPT ![go[g].row] = g], [reg EXCEPT ![go[g].row] = 0]}
            /\ lease' \in {lease, lease \union {go[g].row}, lease \ {go[g].row}}
        BY <1>2, Zenon DEF Deed, Advances, Quits, Starts, ComesLate, Runs, Stops, Leaves, GivesBack
      <4> QED
        BY <1>0, <4>1, <4>2, <4>3
    <3>2. CASE k = g
      <4>1. CASE Starts(g)
        <5>1. reg' = [reg EXCEPT ![go[g].row] = g] /\ lease' = lease \union {go[g].row}
          BY <4>1 DEF Starts
        <5> QED
          BY <1>0, <2>1, <3>2, <5>1
      <4>2. CASE Runs(g) \/ Stops(g)
        <5>1. go[g].at \in Running \union {"finish"} /\ UNCHANGED <<reg, lease>>
          BY <4>2 DEF Runs, Stops, Goes
        <5> QED
          BY <1>a, <2>1, <3>2, <5>1
      <4>3. CASE Advances(g) \/ Quits(g) \/ ComesLate(g) \/ Leaves(g)
        <5>1. go'[g].at \in Waits \union {"gone", "release"}
          BY <4>3 DEF Advances, Quits, ComesLate, Leaves, Goes
        <5> QED
          BY <2>8, <3>2, <5>1 DEF Waits, Running
      <4> QED
        BY <1>2, <4>1, <4>2, <4>3 DEF Deed
    <3> QED
      BY <3>1, <3>2
  <2> QED
    BY <1>b, <2>5, <2>8
<1>3. CASE Admits
  <2>1. \A g, k \in DOMAIN go' : go'[g].row = go'[k].row => g = k
    BY <1>3 DEF Admits
  <2>2. \A g \in DOMAIN go' : go'[g].at \notin Running \union {"finish"}
    BY <1>3 DEF Admits, Running
  <2> QED
    BY <1>b, <2>1, <2>2
<1>4. CASE AdmitFails \/ InstallHooks \/ SeeDone \/ EndRun \/ Return
  <2>1. UNCHANGED <<go, reg, lease>>
    BY <1>4 DEF AdmitFails, InstallHooks, SeeDone, EndRun, Return
  <2> QED
    BY <2>1 DEF Alone, InState, Active
<1>5. CASE Joins
  <2>1. /\ DOMAIN go \subseteq DOMAIN go' /\ \A k \in DOMAIN go : go'[k] = go[k]
        /\ \A k \in DOMAIN go' \ DOMAIN go : go'[k].at = "queued"
        /\ \A j, k \in DOMAIN go' \ DOMAIN go : go'[j].row = go'[k].row => j = k
        /\ \A k \in DOMAIN go' \ DOMAIN go, g \in DOMAIN go :
             go[g].row = go'[k].row => go[g].at \notin Waits /\ reg[go[g].row] = 0
        /\ UNCHANGED <<reg, lease>>
    BY <1>5 DEF Joins
  <2>2. \A k \in DOMAIN go : Active(k)' <=> Active(k)
    BY <2>1 DEF Active
  <2>3. \A k \in DOMAIN go' \ DOMAIN go, g \in DOMAIN go : Active(g) => go[g].row # go'[k].row
    BY <1>0, <1>a, <2>1
  <2>4. \A g, k \in DOMAIN go' : Active(g)' /\ Active(k)' /\ go'[g].row = go'[k].row => g = k
    BY <1>a, <2>1, <2>2, <2>3
  <2>5. \A g \in DOMAIN go' : go'[g].at \in Running \union {"finish"} =>
               reg'[go'[g].row] = g /\ go'[g].row \in lease'
    <3>1. "queued" \notin Running \union {"finish"}
      BY DEF Running
    <3> QED
      BY <1>a, <2>1, <3>1
  <2> QED
    BY <1>b, <2>4, <2>5
<1> QED
  BY <1>1, <1>2, <1>3, <1>4, <1>5, KindsOfSteps, AdmitAdmits, RequeueJoins, ReloadJoins DEF Kinds

\* OneRunnerPerMailbox: where nobody re-queues a mailbox that waits for its turn, a
\* mailbox has one runner at a time, and the lease for as long as it runs.  The registry
\* is what a re-queue asks, so the invariant says that it knows every runner.
THEOREM OneRunner == ASSUME Patient PROVE Spec => []OneRunnerPerMailbox
<1>1. ConsoleInit => EngineInv /\ Alone
  <2>1. ConsoleInit => DOMAIN go = {}
    BY DEF ConsoleInit, Init
  <2> QED
    BY <2>1, EngineInvHolds DEF Alone, InState
<1>2. EngineInv /\ Alone /\ [Next]_allVars => (EngineInv /\ Alone)'
  BY EngineInvStep, AloneStep
<1>3. Alone => OneRunnerPerMailbox
  BY DEF Alone, OneRunnerPerMailbox, InState, Active, Running
<1> QED
  BY <1>1, <1>2, <1>3, PTL DEF Spec

LEMMA ClosedStep ==
  ASSUME ~InTheGap, EngineInv, Closed, [Next]_allVars
  PROVE  Closed'
<1>a. /\ main = "ended" => \A g \in DOMAIN go : go[g].at = "gone"
      /\ main = "returned" => \A g \in DOMAIN go : go[g].at \notin Running
  BY DEF Closed, Unfinished, InState
<1>b. ASSUME main' = "ended" => \A g \in DOMAIN go' : go'[g].at = "gone",
             main' = "returned" => \A g \in DOMAIN go' : go'[g].at \notin Running
      PROVE  Closed'
  BY <1>b DEF Closed, Unfinished, InState
<1>1. CASE Rests
  <2>1. /\ DOMAIN go' = DOMAIN go /\ (\A g \in DOMAIN go : go'[g].at = go[g].at)
        /\ main' = main
    BY <1>1 DEF Rests
  <2> QED
    BY <1>a, <1>b, <2>1
<1>2. ASSUME NEW g \in DOMAIN go, Acts(g), Deed(g), UNCHANGED <<control, budget>>
      PROVE  Closed'
  <2>1. /\ DOMAIN go' = DOMAIN go /\ (\A k \in DOMAIN go : k # g => go'[k] = go[k])
        /\ main' = main
    BY <1>2 DEF Acts, control
  <2>2. go[g].at # "gone"
    BY <1>2 DEF Deed, Advances, Quits, Starts, ComesLate, Runs, Stops, Leaves, GivesBack, Goes, Waits,
                Running
  <2>3. main = "returned" /\ go'[g].at \in Running => go[g].at \in Running
    BY <1>2 DEF Deed, Advances, Quits, Starts, ComesLate, Runs, Stops, Leaves, GivesBack, Goes, Waits,
                Running
  <2> QED
    BY <1>a, <1>b, <2>1, <2>2, <2>3
<1>3. CASE Admits \/ AdmitFails \/ InstallHooks \/ SeeDone
  <2>1. main' \notin {"ended", "returned"}
    BY <1>3 DEF Admits, AdmitFails, InstallHooks, SeeDone
  <2> QED
    BY <1>b, <2>1
<1>4. CASE EndRun
  <2>1. go' = go /\ main' = "ended" /\ \A g \in DOMAIN go : go[g].at = "gone"
    BY <1>4 DEF EndRun, AllDone, Unfinished
  <2> QED
    BY <1>b, <2>1
<1>5. CASE Return
  <2>1. go' = go /\ main' = "returned" /\ \A g \in DOMAIN go : go[g].at = "gone"
    BY <1>a, <1>5 DEF Return
  <2>2. "gone" \notin Running
    BY DEF Running
  <2> QED
    BY <1>b, <2>1, <2>2
<1>6. CASE Joins
  <2>1. /\ main' = main /\ main # "ended"
        /\ \A k \in DOMAIN go : go'[k] = go[k]
        /\ \A k \in DOMAIN go' \ DOMAIN go : go'[k].at = "queued"
    BY <1>6 DEF Joins
  <2>2. "queued" \notin Running
    BY DEF Running
  <2> QED
    BY <1>a, <1>b, <2>1, <2>2
<1> QED
  BY <1>1, <1>2, <1>3, <1>4, <1>5, <1>6, KindsOfSteps, AdmitAdmits, RequeueJoins, ReloadJoins DEF Kinds

\* ResultsAreFinal: once the results are drawn up no mailbox runs, whatever is re-queued
\* or reloaded later; only a re-queue in the moment of the end is left out.
THEOREM Final == ASSUME ~InTheGap PROVE Spec => []ResultsAreFinal
<1>1. ConsoleInit => EngineInv /\ Closed
  <2>1. ConsoleInit => main = "opening"
    BY DEF ConsoleInit, Init
  <2> QED
    BY <2>1, EngineInvHolds DEF Closed
<1>2. EngineInv /\ Closed /\ [Next]_allVars => (EngineInv /\ Closed)'
  BY EngineInvStep, ClosedStep
<1>3. Closed => ResultsAreFinal
  <2>1. Unfinished = {} => InState(Running) = {}
    BY DEF Unfinished, InState, Running
  <2> QED
    BY <2>1 DEF Closed, ResultsAreFinal
<1> QED
  BY <1>1, <1>2, <1>3, PTL DEF Spec

\* Who is shown under which status, after a step of a goroutine.
LEMMA CaredDeed ==
  ASSUME EngineInv, Cared, NEW g \in DOMAIN go, Acts(g), Deed(g), UNCHANGED <<control, budget>>
  PROVE  Cared'
<1>1. /\ DOMAIN go' = DOMAIN go /\ (\A k \in DOMAIN go : k # g => go'[k] = go[k])
      /\ (\A k \in DOMAIN go : go'[k].idx = go[k].idx)
      /\ main' = main /\ ctx' = ctx
  BY DEF Acts, control
<1>2. \A i \in DOMAIN board :
        /\ board[i].status = "QUEUED" /\ main \notin {"ended", "returned"} =>
             \E k \in DOMAIN go : go[k].at \in Waits /\ go[k].idx = i
        /\ board[i].status \in {"RUNNING", "RETRYING"} =>
             \E k \in DOMAIN go : go[k].at \in Running /\ go[k].idx = i
        /\ board[i].status = "CANCELLED" => ctx
  BY DEF Cared, InState
<1>3. ASSUME \A i \in DOMAIN board' :
        /\ board'[i].status = "QUEUED" /\ main \notin {"ended", "returned"} =>
             \E k \in DOMAIN go' : go'[k].at \in Waits /\ go'[k].idx = i
        /\ board'[i].status \in {"RUNNING", "RETRYING"} =>
             \E k \in DOMAIN go' : go'[k].at \in Running /\ go'[k].idx = i
        /\ board'[i].status = "CANCELLED" => ctx
      PROVE  Cared'
  BY <1>1, <1>3 DEF Cared, InState
<1>4. ASSUME UNCHANGED board,
             go[g].at \in Waits => go'[g].at \in Waits \/ main = "returned",
             go[g].at \in Running => go'[g].at \in Running
      PROVE  Cared'
  <2>1. ASSUME NEW i \in DOMAIN board', board'[i].status = "QUEUED", main \notin {"ended", "returned"}
        PROVE  \E k \in DOMAIN go' : go'[k].at \in Waits /\ go'[k].idx = i
    <3>1. PICK k \in DOMAIN go : go[k].at \in Waits /\ go[k].idx = i
      BY <1>2, <1>4, <2>1
    <3>2. k \in DOMAIN go' /\ go'[k].at \in Waits /\ go'[k].idx = i
      BY <1>1, <1>4, <2>1, <3>1
    <3> QED
      BY <3>2
  <2>2. ASSUME NEW i \in DOMAIN board', board'[i].status \in {"RUNNING", "RETRYING"}
        PROVE  \E k \in DOMAIN go' : go'[k].at \in Running /\ go'[k].idx = i
    <3>1. PICK k \in DOMAIN go : go[k].at \in Running /\ go[k].idx = i
      BY <1>2, <1>4, <2>2
    <3>2. k \in DOMAIN go' /\ go'[k].at \in Running /\ go'[k].idx = i
      BY <1>1, <1>4, <3>1
    <3> QED
      BY <3>2
  <2>3. \A i \in DOMAIN board' : board'[i].status = "CANCELLED" => ctx
    BY <1>2, <1>4
  <2> QED
    BY <1>3, <2>1, <2>2, <2>3
<1>5. ASSUME NEW s \in Statuses, Show(g, s),
             s = "QUEUED" => main \in {"ended", "returned"},
             s \in {"RUNNING", "RETRYING"} => go'[g].at \in Running,
             s = "CANCELLED" => ctx
      PROVE  Cared'
  <2> DEFINE x == go[g].idx
  <2>1. /\ DOMAIN board' = DOMAIN board \union {x} /\ board'[x].status = s
        /\ \A i \in DOMAIN board : i # x => board'[i] = board[i]
    BY <1>5, BoardShows
  <2>2. \A k \in DOMAIN go : go[k].idx # x => go'[k] = go[k]
    BY <1>1
  <2>3. go'[g].idx = x
    BY <1>1
  <2> HIDE DEF x
  <2> SUFFICES ASSUME NEW i \in DOMAIN board'
               PROVE  /\ board'[i].status = "QUEUED" /\ main \notin {"ended", "returned"} =>
                           \E k \in DOMAIN go' : go'[k].at \in Waits /\ go'[k].idx = i
                      /\ board'[i].status \in {"RUNNING", "RETRYING"} =>
                           \E k \in DOMAIN go' : go'[k].at \in Running /\ go'[k].idx = i
                      /\ board'[i].status = "CANCELLED" => ctx
    BY <1>3, Zenon
  <2>4. CASE i = x
    BY <1>1, <1>5, <2>1, <2>3, <2>4
  <2>5. CASE i # x
    <3>1. i \in DOMAIN board /\ board'[i] = board[i]
      BY <2>1, <2>5
    <3>2. \A k \in DOMAIN go : go[k].idx = i => k \in DOMAIN go' /\ go'[k] = go[k]
      BY <1>1, <2>2, <2>5
    <3> QED
      BY <1>2, <3>1, <3>2
  <2> QED
    BY <2>4, <2>5
<1>6. /\ EndStates \subseteq Statuses \ {"QUEUED", "RUNNING", "RETRYING", "CANCELLED"}
      /\ {"RUNNING", "RETRYING", "CANCELLED"} \subseteq Statuses \ {"QUEUED"}
      /\ "QUEUED" \in Statuses
  BY DEF EndStates, Through, Statuses, Retryable
<1>c. CASE ComesLate(g)
  <2>1. /\ go[g].at \notin Running /\ main = "returned"
        /\ UNCHANGED board \/ Show(g, "QUEUED")
    BY <1>c DEF ComesLate, Goes, Shows, Running
  <2> QED
    BY <1>4, <1>5, <1>6, <2>1
<1>7. CASE Advances(g) \/ Leaves(g) \/ GivesBack(g)
  <2>1. /\ UNCHANGED board
        /\ go[g].at \in Waits => go'[g].at \in Waits \/ main = "returned"
        /\ go[g].at \notin Running
    BY <1>7 DEF Advances, Leaves, GivesBack, Goes, Waits, Running
  <2> QED
    BY <1>4, <2>1
<1>8. CASE Quits(g)
  <2>1. ctx /\ Show(g, "CANCELLED")
    BY <1>8 DEF Quits, Shows
  <2> QED
    BY <1>5, <1>6, <2>1
<1>9. CASE Starts(g)
  <2>1. go'[g].at \in Running /\ Show(g, "RUNNING")
    BY <1>9 DEF Starts, Shows, Goes
  <2> QED
    BY <1>5, <1>6, <2>1
<1>10. CASE Runs(g)
  <2>1. go[g].at \in Running /\ go'[g].at \in Running /\ go[g].at \notin Waits
    BY <1>10 DEF Runs, Goes, Running, Waits
  <2>2. CASE UNCHANGED board
    BY <1>4, <2>1, <2>2
  <2>3. CASE Shows(g, {"RUNNING", "RETRYING"})
    <3>1. PICK s \in {"RUNNING", "RETRYING"} : Show(g, s)
      BY <2>3 DEF Shows
    <3> QED
      BY <1>5, <1>6, <2>1, <3>1
  <2> QED
    BY <1>10, <2>2, <2>3 DEF Runs
<1>11. CASE Stops(g)
  <2>1. CASE Shows(g, EndStates)
    <3>1. PICK s \in EndStates : Show(g, s)
      BY <2>1 DEF Shows
    <3> QED
      BY <1>5, <1>6, <3>1
  <2>2. CASE ctx /\ Shows(g, {"CANCELLED"})
    <3>1. ctx /\ Show(g, "CANCELLED")
      BY <2>2 DEF Shows
    <3> QED
      BY <1>5, <1>6, <3>1
  <2> QED
    BY <1>11, <2>1, <2>2 DEF Stops
<1> QED
  BY <1>c, <1>7, <1>8, <1>9, <1>10, <1>11 DEF Deed

LEMMA CaredStep ==
  ASSUME EngineInv, Cared, [Next]_allVars
  PROVE  Cared'
<1>a. \A i \in DOMAIN board :
        /\ board[i].status = "QUEUED" /\ main \notin {"ended", "returned"} =>
             \E k \in DOMAIN go : go[k].at \in Waits /\ go[k].idx = i
        /\ board[i].status \in {"RUNNING", "RETRYING"} =>
             \E k \in DOMAIN go : go[k].at \in Running /\ go[k].idx = i
        /\ board[i].status = "CANCELLED" => ctx
  BY DEF Cared, InState
<1>b. ASSUME \A i \in DOMAIN board' :
        /\ board'[i].status = "QUEUED" /\ main' \notin {"ended", "returned"} =>
             \E k \in DOMAIN go' : go'[k].at \in Waits /\ go'[k].idx = i
        /\ board'[i].status \in {"RUNNING", "RETRYING"} =>
             \E k \in DOMAIN go' : go'[k].at \in Running /\ go'[k].idx = i
        /\ board'[i].status = "CANCELLED" => ctx'
      PROVE  Cared'
  BY <1>b DEF Cared, InState
<1>c. ASSUME UNCHANGED board, main \notin {"ended", "returned"} \/ main' \in {"ended", "returned"},
             ctx => ctx',
             \A k \in DOMAIN go : k \in DOMAIN go' /\ go'[k].at = go[k].at /\ go'[k].idx = go[k].idx
      PROVE  Cared'
  <2> SUFFICES ASSUME NEW i \in DOMAIN board'
               PROVE  /\ board'[i].status = "QUEUED" /\ main' \notin {"ended", "returned"} =>
                           \E k \in DOMAIN go' : go'[k].at \in Waits /\ go'[k].idx = i
                      /\ board'[i].status \in {"RUNNING", "RETRYING"} =>
                           \E k \in DOMAIN go' : go'[k].at \in Running /\ go'[k].idx = i
                      /\ board'[i].status = "CANCELLED" => ctx'
    BY <1>b, Zenon
  <2>1. i \in DOMAIN board /\ board'[i] = board[i]
    BY <1>c
  <2> QED
    BY <1>a, <1>c, <2>1
<1>1. CASE Rests
  <2>0. ctx => ctx'
    <3>1. ctx' = ctx \/ ctx' = TRUE
      BY <1>1 DEF Rests
    <3> QED
      BY <3>1, Zenon
  <2>1. /\ UNCHANGED <<main, board>> /\ (ctx => ctx')
        /\ \A k \in DOMAIN go : k \in DOMAIN go' /\ go'[k].at = go[k].at /\ go'[k].idx = go[k].idx
    BY <1>1, <2>0 DEF Rests
  <2>2. main \notin {"ended", "returned"} \/ main' \in {"ended", "returned"}
    BY <2>1
  <2> QED
    BY <1>c, <2>1, <2>2
<1>2. CASE Admits
  <2>1. \A i \in DOMAIN board' :
          /\ board'[i].status \in {"QUEUED", "SKIPPED"}
          /\ board'[i].status = "QUEUED" => \E k \in DOMAIN go' : go'[k].idx = i
    BY <1>2 DEF Admits
  <2>2. \A k \in DOMAIN go' : go'[k].at \in Waits
    BY <1>2 DEF Admits, Waits
  <2> QED
    BY <1>b, <2>1, <2>2
<1>3. CASE AdmitFails \/ InstallHooks \/ SeeDone \/ EndRun \/ Return
  <2>1. /\ main \notin {"ended", "returned"} \/ main' \in {"ended", "returned"}
        /\ UNCHANGED <<go, board>> /\ (ctx => ctx')
    BY <1>3 DEF AdmitFails, InstallHooks, SeeDone, EndRun, Return
  <2> QED
    BY <1>c, <2>1
<1>4. CASE Joins
  <2>1. /\ UNCHANGED <<main, board>> /\ (ctx => ctx')
        /\ \A k \in DOMAIN go : k \in DOMAIN go' /\ go'[k] = go[k]
    BY <1>4 DEF Joins
  <2>2. main \notin {"ended", "returned"} \/ main' \in {"ended", "returned"}
    BY <2>1
  <2> QED
    BY <1>c, <2>1, <2>2
<1> QED
  BY <1>1, <1>2, <1>3, <1>4, CaredDeed, KindsOfSteps, AdmitAdmits, RequeueJoins, ReloadJoins DEF Kinds

\* The board only grows.
LEMMA EnteredStep ==
  ASSUME EngineInv, Entered, [Next]_allVars
  PROVE  Entered'
<1>a. ASSUME main' \notin {"opening", "failed"} => main \notin {"opening", "failed"},
             \A r \in DOMAIN spec : r \in DOMAIN spec' /\ spec'[r] = spec[r],
             DOMAIN board \subseteq DOMAIN board'
      PROVE  Entered'
  BY <1>a DEF Entered
<1>1. CASE Rests
  BY <1>a, <1>1 DEF Rests
<1>2. ASSUME NEW g \in DOMAIN go, Deed(g), UNCHANGED <<control, budget>>
      PROVE  Entered'
  <2>1. UNCHANGED <<main, spec>>
    BY <1>2 DEF control
  <2>2. DOMAIN board \subseteq DOMAIN board'
    <3>1. CASE UNCHANGED board
      BY <3>1
    <3>2. CASE \E s \in Statuses : Show(g, s)
      BY <3>2, BoardShows
    <3> QED
      BY <1>2, <3>1, <3>2, DeedShows
  <2> QED
    BY <1>a, <2>1, <2>2
<1>3. CASE Admit
  <2>1. /\ spec' = [r \in ToSet(Csv) |-> CHOOSE i \in DOMAIN Csv : Csv[i] = r]
        /\ DOMAIN board' = DOMAIN Csv
    BY <1>3 DEF Admit
  <2>2. \A r \in ToSet(Csv) : \E i \in DOMAIN Csv : Csv[i] = r
    BY DEF ToSet
  <2> QED
    BY <2>1, <2>2 DEF Entered
<1>4. CASE AdmitFails
  BY <1>4 DEF AdmitFails, Entered
<1>5. CASE InstallHooks \/ SeeDone \/ EndRun \/ Return
  BY <1>a, <1>5 DEF InstallHooks, SeeDone, EndRun, Return
<1>6. CASE Joins
  BY <1>a, <1>6 DEF Joins
<1> QED
  BY <1>1, <1>2, <1>3, <1>4, <1>5, <1>6, KindsOfSteps, RequeueJoins, ReloadJoins DEF Kinds

LEMMA CountedStep ==
  ASSUME ~InTheGap, EngineInv, Closed, Cared, Entered, Counted, [Next]_allVars
  PROVE  Counted'
<1> DEFINE shown == {board[i].status : i \in DOMAIN board}
           Late(e) == e.status = "QUEUED" /\ e.label \notin ToSet(Csv)
<1>a. /\ main = "ended" => \A g \in DOMAIN go : go[g].at = "gone"
      /\ main = "returned" => \A g \in DOMAIN go : go[g].at \notin Running
  BY DEF Closed, Unfinished, InState
<1>b. main \in {"ended", "returned"} /\ ~ctx =>
        /\ counts \subseteq EndStates
        /\ \A i \in DOMAIN board : board[i].status \in counts \/ Late(board[i])
  BY DEF Counted
<1>d. ASSUME main' \in {"ended", "returned"} /\ ~ctx' =>
               /\ counts' \subseteq EndStates
               /\ \A i \in DOMAIN board' : board'[i].status \in counts' \/ Late(board'[i])
      PROVE  Counted'
  BY <1>d DEF Counted
<1> HIDE DEF Late
<1>c. ASSUME UNCHANGED <<board, counts>>, ctx => ctx',
             main' \in {"ended", "returned"} => main \in {"ended", "returned"}
      PROVE  Counted'
  BY <1>b, <1>c, <1>d, Zenon
<1>1. CASE Rests
  <2>1. ctx' = ctx \/ ctx' = TRUE
    BY <1>1 DEF Rests
  <2>2. UNCHANGED <<main, board, counts>>
    BY <1>1 DEF Rests
  <2> QED
    BY <1>c, <2>1, <2>2, Zenon
<1>2. ASSUME NEW g \in DOMAIN go, Deed(g), UNCHANGED <<control, budget>>
      PROVE  Counted'
  <2>1. UNCHANGED <<main, ctx, counts>>
    BY <1>2 DEF control
  <2> SUFFICES ASSUME main \in {"ended", "returned"}, ~ctx
               PROVE  Counted'
    BY <2>1, Zenon DEF Counted
  <2>2. go[g].at # "gone"
    BY <1>2 DEF Deed, Advances, Quits, Starts, ComesLate, Runs, Stops, Leaves, GivesBack, Goes, Waits,
                Running
  <2>3. main = "returned" /\ go[g].at \notin Running
    BY <1>a, <2>2
  <2>4. UNCHANGED board \/ (go[g].idx \notin DOMAIN board /\ Show(g, "QUEUED"))
    BY <1>2, <2>3 DEF Deed, Advances, Quits, Starts, ComesLate, Runs, Stops, Leaves, GivesBack, Goes,
                      Shows
  <2>5. CASE UNCHANGED board
    BY <1>c, <2>1, <2>5, Zenon
  <2>6. CASE go[g].idx \notin DOMAIN board /\ Show(g, "QUEUED")
    <3> DEFINE x == go[g].idx
    <3>1. "QUEUED" \in Statuses
      BY DEF Statuses
    <3>2. /\ DOMAIN board' = DOMAIN board \union {x}
          /\ board'[x].status = "QUEUED" /\ board'[x].label = go[g].row
          /\ \A i \in DOMAIN board : i # x => board'[i] = board[i]
      BY <2>6, <3>1, BoardShows
    <3>3. go[g].row \notin ToSet(Csv)
      <4>1. go[g].row \in DOMAIN spec /\ x = spec[go[g].row]
        BY DEF EngineInv, Numbered
      <4> QED
        BY <2>3, <2>6, <4>1 DEF Entered
    <3> HIDE DEF x
    <3>4. Late(board'[x])
      BY <3>2, <3>3 DEF Late
    <3>5. \A i \in DOMAIN board' : board'[i].status \in counts \/ Late(board'[i])
      BY <1>b, <2>3, <3>2, <3>4
    <3>6. counts \subseteq EndStates
      BY <1>b, <2>3
    <3> QED
      BY <1>d, <2>1, <3>5, <3>6
  <2> QED
    BY <2>4, <2>5, <2>6
<1>3. CASE Admits \/ AdmitFails \/ InstallHooks \/ SeeDone
  <2>1. main' \notin {"ended", "returned"}
    BY <1>3 DEF Admits, AdmitFails, InstallHooks, SeeDone
  <2> QED
    BY <2>1 DEF Counted
<1>4. CASE EndRun
  <2>1. /\ main = "drained" /\ UNCHANGED <<ctx, board>> /\ counts' = shown
        /\ \A g \in DOMAIN go : go[g].at = "gone"
    BY <1>4 DEF EndRun, AllDone, Unfinished
  <2>2. \A i \in DOMAIN board :
          /\ board[i].status = "QUEUED" /\ main \notin {"ended", "returned"} =>
               \E k \in DOMAIN go : go[k].at \in Waits /\ go[k].idx = i
          /\ board[i].status \in {"RUNNING", "RETRYING"} =>
               \E k \in DOMAIN go : go[k].at \in Running /\ go[k].idx = i
          /\ board[i].status = "CANCELLED" => ctx
    BY DEF Cared, InState
  <2>3. "gone" \notin Waits \union Running
    BY DEF Waits, Running
  <2>4. \A i \in DOMAIN board : board[i].status \in Statuses
    BY DEF EngineInv, EngineTypes
  <2>5. ASSUME ~ctx, NEW i \in DOMAIN board
        PROVE  board[i].status \in EndStates
    <3>1. board[i].status \notin {"QUEUED", "RUNNING", "RETRYING", "CANCELLED"}
      BY <2>1, <2>2, <2>3, <2>5
    <3> QED
      BY <2>4, <3>1 DEF Statuses, EndStates, Through
  <2>6. ~ctx => shown \subseteq EndStates
    BY <2>5
  <2> HIDE DEF shown
  <2>8. \A i \in DOMAIN board' : board'[i].status \in shown
    BY <2>1 DEF shown
  <2> QED
    BY <1>d, <2>1, <2>6, <2>8
<1>5. CASE Return
  <2>1. main = "ended" /\ UNCHANGED <<ctx, board, counts>>
    BY <1>5 DEF Return
  <2> QED
    BY <1>c, <2>1
<1>6. CASE Joins
  <2>1. UNCHANGED <<main, ctx, board, counts>>
    BY <1>6 DEF Joins
  <2> QED
    BY <1>c, <2>1
<1> QED
  BY <1>1, <1>2, <1>3, <1>4, <1>5, <1>6, KindsOfSteps, AdmitAdmits, RequeueJoins, ReloadJoins DEF Kinds

\* The exit status is 0 only when the engine has returned and nothing calls for another.
LEMMA ZeroStep ==
  ASSUME Counted, ZeroMeansDone, [Next]_allVars
  PROVE  ZeroMeansDone'
<1>1. CASE UNCHANGED allVars
  BY <1>1 DEF allVars, vars, console, ZeroMeansDone
<1>2. CASE Next
  <2> SUFFICES ASSUME exit' = 0
               PROVE  ZeroMeansDone'
    BY DEF ZeroMeansDone
  <2>1. exit # 0
    BY <1>2 DEF Next, Alive
  <2>2. exit' # exit
    BY <2>1
  <2>3. Leave
    <3>1. ~UNCHANGED console
      BY <2>2 DEF console
    <3>2. UI \/ Process
      BY <1>2, <3>1 DEF Next
    <3>3. ~UI
      BY <2>2, <3>1 DEF UI, CtrlC, DoneMsg, PhaseMsg, Home, View, Capture, EndCapture, KeyP, KeyRAll,
                        KeyR, KeyU
    <3>4. ~Signal /\ ~HangupTui
      BY <2>2, <3>1 DEF Signal, HangupTui
    <3>5. ~SecondSignal /\ ~LeaveUnfinished
      BY DEF SecondSignal, LeaveUnfinished
    <3> QED
      BY <3>2, <3>3, <3>4, <3>5 DEF Process
  <2>4. main = "returned" /\ ~ctx /\ counts \intersect Retryable = {} /\ UNCHANGED board
    BY <2>3 DEF Leave, ExitStatus, Over, engine
  <2>5. UNCHANGED counts
    BY <2>3 DEF Leave, engine, control
  <2>6. /\ counts \subseteq EndStates
        /\ \A i \in DOMAIN board :
             \/ board[i].status \in counts
             \/ board[i].status = "QUEUED" /\ board[i].label \notin ToSet(Csv)
    BY <2>4 DEF Counted
  <2>7. counts \subseteq Through
    BY <2>4, <2>6 DEF EndStates
  <2> QED
    BY <2>4, <2>5, <2>6, <2>7 DEF ZeroMeansDone
<1> QED
  BY <1>1, <1>2

\* ZeroMeansDone: exit status 0 says that every mailbox was through when the results were
\* drawn up and still is, rows apart that a reload has added since.  Why it does: a status
\* that is not final has a goroutine that will change it, so a run that has ended with
\* nobody left shows final ones only; who comes back finds the database closed, and
\* enters no row of the CSV, since those have had their entries from the beginning.
THEOREM Zero == ASSUME ~InTheGap PROVE Spec => []ZeroMeansDone
<1> DEFINE Inv == EngineInv /\ Closed /\ Cared /\ Entered /\ Counted /\ ZeroMeansDone
<1>1. ConsoleInit => Inv
  <2>1. ConsoleInit => main = "opening" /\ DOMAIN board = {} /\ exit # 0
    BY DEF ConsoleInit, Init, Alive
  <2>2. ConsoleInit => Closed /\ Cared /\ Entered
    BY <2>1 DEF Closed, Cared, Entered
  <2>3. ConsoleInit => Counted /\ ZeroMeansDone
    BY <2>1 DEF Counted, ZeroMeansDone
  <2> QED
    BY <2>2, <2>3, EngineInvHolds
<1>2. Inv /\ [Next]_allVars => Inv'
  BY EngineInvStep, ClosedStep, CaredStep, EnteredStep, CountedStep, ZeroStep
<1> QED
  BY <1>1, <1>2, PTL DEF Spec

-------------------------------------------------------------------------------
(* The entries of the board *)

LEMMA ReloadNumbers ==
  ASSUME LastGrows, EngineInv, OwnIndex, Reload
  PROVE  OwnIndex'
<1> DEFINE Single(b) == \A k \in DOMAIN Grown : k < b => Len(Grown[k]) <= 1
<1>1. PICK n, added : Adds(n, added)
  BY ReloadAdds
<1>2. /\ n \in Nat /\ n <= Len(Grown[budget.reload])
      /\ (\A k \in 1..n : added[k] \notin DOMAIN spec)
      /\ (\A k, l \in 1..n : added[k] = added[l] => k = l)
      /\ DOMAIN spec' = DOMAIN spec \union {added[k] : k \in 1..n}
      /\ spec' = [r \in DOMAIN spec' |-> spec'[r]]
      /\ \A r \in DOMAIN spec : spec'[r] = spec[r]
      /\ \A k \in 1..n : spec'[added[k]] = NewIndex(k, spec)
  BY <1>1 DEF Adds
<1>3. /\ budget.reload \in DOMAIN Grown /\ budget' = [budget EXCEPT !.reload = @ + 1]
      /\ budget \in [loss : Nat, hang : Nat, pause : Nat, requeue : Nat, reload : Nat \ {0}]
      /\ IsFiniteSet(DOMAIN spec)
  BY DEF Reload, EngineInv, EngineTypes
<1>4. Grown \in Seq(Seq(Row)) /\ \A k \in DOMAIN Grown : Len(Grown[k]) \in Nat
  BY SchedulerAssumption
<1>5. DOMAIN Grown = 1..Len(Grown) /\ Len(Grown) \in Nat
  BY <1>4
<1>6. PICK c \in Nat : c = Cardinality(DOMAIN spec)
  BY <1>3, FS_CardinalityType
<1>7. Single(budget.reload)
  BY <1>3, <1>4, <1>5 DEF LastGrows
<1>8. IsInjective(spec) /\ \A r \in DOMAIN spec : spec[r] \in 1..c
  BY <1>6, <1>7 DEF OwnIndex
<1>9. \A k \in 1..n : k \in Nat /\ k >= 1 /\ spec'[added[k]] = c + 2 * k - 1
  <2>1. ASSUME NEW k \in 1..n
        PROVE  k \in Nat /\ k >= 1 /\ NewIndex(k, spec) = c + 2 * k - 1
    <3>1. k \in Nat /\ k >= 1
      BY <1>2
    <3>2. NewIndex(k, spec) = (c + k - 1) + (k - 1) + 1
      BY <1>6 DEF NewIndex
    <3>3. (c + k - 1) + (k - 1) + 1 = c + 2 * k - 1
      BY <3>1
    <3> QED
      BY <3>1, <3>2, <3>3
  <2> QED
    BY <1>2, <2>1
<1>10. IsInjective(spec')
  <2>1. ASSUME NEW q \in DOMAIN spec', NEW r \in DOMAIN spec', spec'[q] = spec'[r]
        PROVE  q = r
    <3>1. CASE q \in DOMAIN spec /\ r \in DOMAIN spec
      BY <1>2, <1>8, <2>1, <3>1 DEF IsInjective
    <3>2. CASE q \in DOMAIN spec /\ r \notin DOMAIN spec
      <4>1. PICK k \in 1..n : r = added[k]
        BY <1>2, <3>2
      <4>2. spec'[q] \in 1..c /\ spec'[r] = c + 2 * k - 1 /\ k \in Nat /\ k >= 1
        BY <1>2, <1>8, <1>9, <3>2, <4>1
      <4> QED
        BY <2>1, <4>2
    <3>3. CASE q \notin DOMAIN spec /\ r \in DOMAIN spec
      <4>1. PICK k \in 1..n : q = added[k]
        BY <1>2, <3>3
      <4>2. spec'[r] \in 1..c /\ spec'[q] = c + 2 * k - 1 /\ k \in Nat /\ k >= 1
        BY <1>2, <1>8, <1>9, <3>3, <4>1
      <4> QED
        BY <2>1, <4>2
    <3>4. CASE q \notin DOMAIN spec /\ r \notin DOMAIN spec
      <4>1. PICK k \in 1..n, l \in 1..n : q = added[k] /\ r = added[l]
        BY <1>2, <3>4
      <4>2. k \in Nat /\ l \in Nat /\ c + 2 * k - 1 = c + 2 * l - 1
        BY <1>9, <2>1, <4>1
      <4> QED
        BY <4>1, <4>2
    <3> QED
      BY <3>1, <3>2, <3>3, <3>4
  <2> QED
    BY <2>1 DEF IsInjective
<1>11. ASSUME Single(budget'.reload)
       PROVE  \A r \in DOMAIN spec' : spec'[r] \in 1..Cardinality(DOMAIN spec')
  <2>1. n <= 1
    <3>1. Len(Grown[budget.reload]) <= 1
      BY <1>3, <1>11
    <3> QED
      BY <1>2, <1>3, <1>4, <3>1
  <2>2. CASE n = 0
    <3>1. DOMAIN spec' = DOMAIN spec
      BY <1>2, <2>2
    <3> QED
      BY <1>2, <1>6, <1>8, <3>1
  <2>3. CASE n = 1
    <3>1. 1 \in 1..n /\ added[1] \notin DOMAIN spec /\ DOMAIN spec' = DOMAIN spec \union {added[1]}
      BY <1>2, <2>3
    <3>2. Cardinality(DOMAIN spec') = c + 1
      BY <1>3, <1>6, <3>1, FS_AddElement
    <3>3. spec'[added[1]] = c + 1
      <4>1. spec'[added[1]] = c + 2 * 1 - 1
        BY <1>9, <3>1
      <4> QED
        BY <4>1
    <3>4. \A r \in DOMAIN spec' : spec'[r] \in 1..c + 1
      <4> TAKE r \in DOMAIN spec'
      <4>1. CASE r \in DOMAIN spec
        <5>1. spec'[r] = spec[r] /\ spec[r] \in 1..c
          BY <1>2, <1>8, <4>1
        <5> QED
          BY <5>1
      <4>2. CASE r = added[1]
        BY <3>3, <4>2
      <4> QED
        BY <3>1, <4>1, <4>2
    <3> QED
      BY <3>2, <3>4
  <2>4. n = 0 \/ n = 1
    <3>1. n \in Nat
      BY <1>2
    <3> QED
      BY <2>1, <3>1
  <2> QED
    BY <2>2, <2>3, <2>4
<1> QED
  BY <1>10, <1>11 DEF OwnIndex

LEMMA OwnIndexStep ==
  ASSUME LastGrows, EngineInv, OwnIndex, [Next]_allVars
  PROVE  OwnIndex'
<1>1. ASSUME UNCHANGED spec, budget'.reload = budget.reload
      PROVE  OwnIndex'
  BY <1>1 DEF OwnIndex
<1>2. CASE Rests
  BY <1>1, <1>2 DEF Rests
<1>3. ASSUME UNCHANGED <<control, budget>>
      PROVE  OwnIndex'
  BY <1>1, <1>3 DEF control
<1>4. CASE Admits
  BY <1>4 DEF Admits, OwnIndex
<1>5. CASE AdmitFails \/ InstallHooks \/ SeeDone \/ EndRun \/ Return
  BY <1>1, <1>5 DEF AdmitFails, InstallHooks, SeeDone, EndRun, Return
<1>6. ASSUME NEW labels \in SUBSET Row, Requeue(labels)
      PROVE  OwnIndex'
  <2>1. /\ spec' = spec /\ budget' = [budget EXCEPT !.requeue = @ - 1]
        /\ budget \in [loss : Nat, hang : Nat, pause : Nat, requeue : Nat, reload : Nat \ {0}]
    BY <1>6 DEF Requeue, control, EngineInv, EngineTypes
  <2> QED
    BY <1>1, <2>1
<1>7. CASE Reload
  BY <1>7, ReloadNumbers
<1> QED
  BY <1>2, <1>3, <1>4, <1>5, <1>6, <1>7, KindsOfSteps, AdmitAdmits DEF Kinds

\* OwnEntry: every mailbox is shown under an entry of its own, if only the last reload
\* adds several rows at once.  A reload numbers its rows from the table it is adding
\* them to, which leaves gaps: the invariant says that the next number is still free.
THEOREM Entries == ASSUME LastGrows PROVE Spec => []OwnEntry
<1> DEFINE Inv == EngineInv /\ OwnIndex
<1>1. ConsoleInit => Inv
  <2>1. ConsoleInit => DOMAIN spec = {}
    BY DEF ConsoleInit, Init
  <2> QED
    BY <2>1, EngineInvHolds DEF OwnIndex, IsInjective
<1>2. Inv /\ [Next]_allVars => Inv'
  BY EngineInvStep, OwnIndexStep
<1>3. Inv => OwnEntry
  <2> SUFFICES ASSUME Inv, NEW g \in DOMAIN go, go[g].idx \in DOMAIN board
               PROVE  board[go[g].idx].label = go[g].row
    BY DEF OwnEntry
  <2>1. /\ go[g].row \in DOMAIN spec /\ go[g].idx = spec[go[g].row]
        /\ board[go[g].idx].label \in DOMAIN spec /\ spec[board[go[g].idx].label] = go[g].idx
    BY DEF EngineInv, Numbered
  <2>2. IsInjective(spec)
    BY DEF OwnIndex
  <2> QED
    BY <2>1, <2>2 DEF IsInjective
<1> QED
  BY <1>1, <1>2, <1>3, PTL DEF Spec

-------------------------------------------------------------------------------
(* Slots and places *)

In(x, S) == IF x \in S THEN 1 ELSE 0

Is(x, y) == IF x = y THEN 1 ELSE 0

\* The places two members make in a set, when the rest of it stays.
LEMMA Recount ==
  ASSUME NEW H, IsFiniteSet(H), NEW K, NEW a, NEW b, a # b,
         \A x : x # a /\ x # b => (x \in K <=> x \in H)
  PROVE  /\ IsFiniteSet(K) /\ Cardinality(H) \in Nat /\ Cardinality(K) \in Nat
         /\ Cardinality(K) = Cardinality(H) - In(a, H) - In(b, H)
                                            + In(a, K) + In(b, K)
<1> DEFINE R == H \ {a, b}
<1>1. R = K \ {a, b} /\ R \subseteq H /\ a \notin R /\ b \notin R
  OBVIOUS
<1>2. IsFiniteSet(R) /\ Cardinality(R) \in Nat
  BY <1>1, FS_Subset, FS_CardinalityType
<1>3. ASSUME NEW S, S \ {a, b} = R
      PROVE  IsFiniteSet(S) /\ Cardinality(S) = Cardinality(R) + In(a, S) + In(b, S)
  <2> HIDE DEF R
  <2>1. IsFiniteSet(R \union {a}) /\ Cardinality(R \union {a}) = Cardinality(R) + 1
    BY <1>1, <1>2, FS_AddElement
  <2>2. IsFiniteSet(R \union {b}) /\ Cardinality(R \union {b}) = Cardinality(R) + 1
    BY <1>1, <1>2, FS_AddElement
  <2>3. b \notin R \union {a}
    BY <1>1
  <2>4. /\ IsFiniteSet((R \union {a}) \union {b})
        /\ Cardinality((R \union {a}) \union {b}) = Cardinality(R) + 2
    <3>1. /\ IsFiniteSet((R \union {a}) \union {b})
          /\ Cardinality((R \union {a}) \union {b}) = Cardinality(R \union {a}) + 1
      BY <2>1, <2>3, FS_AddElement
    <3> QED
      BY <1>2, <2>1, <3>1
  <2>5. CASE a \in S /\ b \in S
    <3>1. S = (R \union {a}) \union {b}
      BY <1>3, <2>5
    <3> QED
      BY <1>2, <2>4, <2>5, <3>1 DEF In, Is
  <2>6. CASE a \in S /\ b \notin S
    <3>1. S = R \union {a}
      BY <1>3, <2>6
    <3> QED
      BY <1>2, <2>1, <2>6, <3>1 DEF In, Is
  <2>7. CASE a \notin S /\ b \in S
    <3>1. S = R \union {b}
      BY <1>3, <2>7
    <3> QED
      BY <1>2, <2>2, <2>7, <3>1 DEF In, Is
  <2>8. CASE a \notin S /\ b \notin S
    <3>1. S = R
      BY <1>3, <2>8
    <3> QED
      BY <1>2, <2>8, <3>1 DEF In, Is
  <2> QED
    BY <2>5, <2>6, <2>7, <2>8
<1>4. Cardinality(H) = Cardinality(R) + In(a, H) + In(b, H)
  BY <1>3
<1>5. IsFiniteSet(K) /\ Cardinality(K) = Cardinality(R) + In(a, K) + In(b, K)
  BY <1>1, <1>3
<1>6. Cardinality(H) \in Nat /\ Cardinality(K) \in Nat
  BY <1>5, FS_CardinalityType
<1> HIDE DEF R
<1>7. /\ In(a, H) \in Nat /\ In(b, H) \in Nat
      /\ In(a, K) \in Nat /\ In(b, K) \in Nat
  BY DEF In, Is
<1> QED
  BY <1>2, <1>4, <1>5, <1>6, <1>7

\* A goroutine takes its places at the hosts of its row.
LEMMA SortedHosts ==
  ASSUME NEW r \in Row
  PROVE  /\ Sorted(r)[1] \in Hosts /\ Sorted(r)[2] \in Hosts
         /\ \A h \in Hosts : Cardinality({k \in 1..2 : Host[r][k] = h})
                               = Is(Sorted(r)[1], h) + Is(Sorted(r)[2], h)
<1>1. Host[r] \in Nat \X Nat
  BY SchedulerAssumption
<1>2. PICK a \in Nat, b \in Nat : Host[r] = <<a, b>> /\ Host[r][1] = a /\ Host[r][2] = b
  BY <1>1
<1>3. a \in Hosts /\ b \in Hosts
  BY <1>2 DEF Hosts
<1>4. (Sorted(r)[1] = a /\ Sorted(r)[2] = b) \/ (Sorted(r)[1] = b /\ Sorted(r)[2] = a)
  BY <1>2 DEF Sorted
<1>5. ASSUME NEW h
      PROVE  Cardinality({k \in 1..2 : Host[r][k] = h}) = Is(a, h) + Is(b, h)
  <2> DEFINE T == {k \in 1..2 : Host[r][k] = h}
  <2>1. (1 \in T <=> a = h) /\ (2 \in T <=> b = h) /\ T \subseteq {1, 2}
    BY <1>2
  <2>2. IsFiniteSet({}) /\ Cardinality({}) = 0
    BY FS_EmptySet
  <2> HIDE DEF T
  <2>e. PICK E : E = {}
    OBVIOUS
  <2>3. Cardinality(T) = Cardinality(E) - In(1, E) - In(2, E) + In(1, T) + In(2, T)
    <3>1. ASSUME NEW x, x # 1, x # 2
          PROVE  x \in T <=> x \in E
      BY <2>1, <2>e, <3>1
    <3>2. 1 # 2
      OBVIOUS
    <3>3. IsFiniteSet(E)
      BY <2>2, <2>e
    <3> QED
      BY <3>1, <3>2, <3>3, Recount
  <2>4. In(1, E) = 0 /\ In(2, E) = 0 /\ In(1, T) = Is(a, h) /\ In(2, T) = Is(b, h)
    BY <2>1, <2>e DEF In, Is
  <2>5. Is(a, h) \in Nat /\ Is(b, h) \in Nat
    BY DEF In, Is
  <2>6. Cardinality(T) = Is(a, h) + Is(b, h)
    BY <2>2, <2>3, <2>4, <2>5, <2>e
  <2> QED
    BY <2>6 DEF T
<1>6. ASSUME NEW h
      PROVE  Is(a, h) + Is(b, h) = Is(Sorted(r)[1], h) + Is(Sorted(r)[2], h)
  BY <1>4 DEF In, Is
<1>7. Sorted(r)[1] \in Hosts /\ Sorted(r)[2] \in Hosts
  BY <1>3, <1>4
<1>8. ASSUME NEW h
      PROVE  Cardinality({k \in 1..2 : Host[r][k] = h})
               = Is(Sorted(r)[1], h) + Is(Sorted(r)[2], h)
  <2>1. Cardinality({k \in 1..2 : Host[r][k] = h}) = Is(a, h) + Is(b, h)
    BY <1>5
  <2>2. Is(a, h) + Is(b, h) = Is(Sorted(r)[1], h) + Is(Sorted(r)[2], h)
    BY <1>6
  <2> QED
    BY <2>1, <2>2, Zenon
<1> QED
  BY <1>7, <1>8, Zenon

\* Whether somebody at x has a slot, and how many places at h if its row is r.
HasSlot(x) == IF x \in {"queued", "gone"} THEN 0 ELSE 1

Full == {"ready", "finish", "release"} \union Running

Has(x, r, h) == IF x = "second" THEN Is(Sorted(r)[1], h)
                ELSE IF x \in Full THEN Is(Sorted(r)[1], h) + Is(Sorted(r)[2], h)
                ELSE 0

Channels == slots \in Int /\ places \in [Hosts -> Int]

\* The channels follow what g does.
Pays(g) ==
  /\ slots' = slots - HasSlot(go[g].at) + HasSlot(go'[g].at)
  /\ places' = [h \in Hosts |-> places'[h]]
  /\ \A h \in Hosts :
       places'[h] = places[h] - Has(go[g].at, go[g].row, h) + Has(go'[g].at, go[g].row, h)

LEMMA HasType ==
  ASSUME NEW x, NEW r, NEW h
  PROVE  HasSlot(x) \in Nat /\ Has(x, r, h) \in Nat
BY DEF HasSlot, Has, Is

\* Nothing is taken or given back between two places that have the same.
LEMMA PaysNothing ==
  ASSUME EngineInv, Channels, NEW g \in DOMAIN go, UNCHANGED <<slots, places>>,
         \/ go[g].at = "slot" /\ go'[g].at = "first"
         \/ go[g].at = "queued" /\ go'[g].at = "gone"
         \/ go[g].at \in Full /\ go'[g].at \in Full
  PROVE  Pays(g)
<1>1. /\ HasSlot(go[g].at) = HasSlot(go'[g].at)
      /\ \A h : Has(go[g].at, go[g].row, h) = Has(go'[g].at, go[g].row, h)
  BY DEF HasSlot, Has, Full, Running
<1>2. /\ HasSlot(go[g].at) \in Nat
      /\ \A h \in Hosts : Has(go[g].at, go[g].row, h) \in Nat
  BY HasType
<1>3. slots \in Int /\ places = [h \in Hosts |-> places[h]] /\ \A h \in Hosts : places[h] \in Int
  BY DEF Channels
<1>4. slots' = slots - HasSlot(go[g].at) + HasSlot(go'[g].at)
  <2>1. slots' = slots /\ HasSlot(go'[g].at) = HasSlot(go[g].at)
    BY <1>1
  <2> QED
    BY <1>2, <1>3, <2>1
<1>5. ASSUME NEW h \in Hosts
      PROVE  places'[h] = places[h] - Has(go[g].at, go[g].row, h) + Has(go'[g].at, go[g].row, h)
  <2>1. places'[h] = places[h] /\ Has(go'[g].at, go[g].row, h) = Has(go[g].at, go[g].row, h)
    BY <1>1
  <2> QED
    BY <1>2, <1>3, <2>1
<1> QED
  BY <1>3, <1>4, <1>5 DEF Pays

LEMMA StepPays ==
  ASSUME EngineInv, Channels, NEW g \in DOMAIN go, Step(g)
  PROVE  Pays(g)
<1>0. /\ go[g].row \in Row
      /\ go[g].link # "none" => go[g].at \in Running
  BY ThreadFields
<1>a. slots \in Int /\ places = [h \in Hosts |-> places[h]] /\ \A h \in Hosts : places[h] \in Int
  BY DEF Channels
<1>b. Acts(g) /\ Deed(g)
  BY StepDeed
<1>c. \A place \in Place : Move(g, place) => go'[g].at = place
  <2>1. go \in Seq(Thread) /\ go[g] \in Thread
    BY ThreadFields
  <2> QED
    BY <2>1 DEF Move, Thread
<1> DEFINE one == Sorted(go[g].row)[1]
           two == Sorted(go[g].row)[2]
<1>d. one \in Hosts /\ two \in Hosts
  BY <1>0, SortedHosts
<1>1. CASE TakeSlot(g)
  <2>1. go[g].at = "queued" /\ go'[g].at = "slot" /\ slots' = slots + 1 /\ places' = places
    BY <1>1, <1>c DEF TakeSlot, Place, Waits
  <2>2. HasSlot("queued") = 0 /\ HasSlot("slot") = 1
        /\ \A h : Has("queued", go[g].row, h) = 0 /\ Has("slot", go[g].row, h) = 0
    BY DEF HasSlot, Has, Full, Running
  <2> QED
    BY <1>a, <2>1, <2>2 DEF Pays
<1>2. CASE CancelQueued(g)
  <2>1. go[g].at = "queued" /\ go'[g].at = "gone" /\ UNCHANGED <<slots, places>>
    BY <1>2, <1>c DEF CancelQueued, Place
  <2> QED
    BY <2>1, PaysNothing
<1>3. CASE CheckCancelled(g)
  <2>1. CASE ctx
    <3>1. go[g].at = "slot" /\ go'[g].at = "gone" /\ slots' = slots - 1 /\ places' = places
      BY <1>3, <1>c, <2>1 DEF CheckCancelled, Place
    <3>2. HasSlot("slot") = 1 /\ HasSlot("gone") = 0
          /\ \A h : Has("slot", go[g].row, h) = 0 /\ Has("gone", go[g].row, h) = 0
      BY DEF HasSlot, Has, Full, Running
    <3> QED
      BY <1>a, <3>1, <3>2 DEF Pays
  <2>2. CASE ~ctx
    <3>1. go[g].at = "slot" /\ go'[g].at = "first" /\ UNCHANGED <<slots, places>>
      BY <1>3, <1>c, <2>2 DEF CheckCancelled, Place, Waits
    <3> QED
      BY <3>1, PaysNothing
  <2> QED
    BY <2>1, <2>2
<1>4. CASE TakePlace(g)
  <2>1. CASE go[g].at = "first"
    <3>1. go'[g].at = "second" /\ slots' = slots /\ places' = [places EXCEPT ![one] = @ + 1]
      BY <1>4, <1>c, <2>1 DEF TakePlace, Place, Waits
    <3>2. HasSlot("first") = 1 /\ HasSlot("second") = 1
          /\ \A h : Has("first", go[g].row, h) = 0 /\ Has("second", go[g].row, h) = Is(one, h)
      BY DEF HasSlot, Has, Full, Running
    <3> HIDE DEF one
    <3>3. places' = [h \in Hosts |-> places'[h]] /\ \A h \in Hosts : places'[h] = places[h] + Is(one, h)
      BY <1>a, <1>d, <3>1 DEF Is
    <3>4. slots' = slots - 1 + 1 /\ \A h \in Hosts : places'[h] = places[h] - 0 + Is(one, h)
      BY <1>a, <3>1, <3>3
    <3> QED
      BY <2>1, <3>1, <3>2, <3>3, <3>4 DEF Pays
  <2>2. CASE go[g].at # "first"
    <3>1. /\ go[g].at = "second" /\ go'[g].at = "ready" /\ slots' = slots
          /\ places' = [places EXCEPT ![two] = @ + 1]
      BY <1>4, <1>c, <2>2 DEF TakePlace, Place, Waits
    <3>2. HasSlot("second") = 1 /\ HasSlot("ready") = 1
          /\ \A h : /\ Has("second", go[g].row, h) = Is(one, h)
                    /\ Has("ready", go[g].row, h) = Is(one, h) + Is(two, h)
      BY DEF HasSlot, Has, Full, Running
    <3> HIDE DEF one, two
    <3>3. places' = [h \in Hosts |-> places'[h]] /\ \A h \in Hosts : places'[h] = places[h] + Is(two, h)
      BY <1>a, <1>d, <3>1 DEF Is
    <3>4. /\ slots' = slots - 1 + 1
          /\ \A h \in Hosts : places'[h] = places[h] - Is(one, h) + (Is(one, h) + Is(two, h))
      BY <1>a, <3>1, <3>3 DEF Is
    <3> QED
      BY <3>1, <3>2, <3>3, <3>4 DEF Pays
  <2> QED
    BY <2>1, <2>2
<1>5. CASE LeaveHosts(g)
  <2>1. /\ go[g].at \in {"first", "second"} /\ go'[g].at = "gone" /\ slots' = slots - 1
        /\ places' = [h \in Hosts |-> IF h \in GivenUp(g) THEN places[h] - 1 ELSE places[h]]
    BY <1>5, <1>c DEF LeaveHosts, Place
  <2>2. /\ HasSlot("first") = 1 /\ HasSlot("second") = 1 /\ HasSlot("gone") = 0
        /\ \A h : /\ Has("first", go[g].row, h) = 0 /\ Has("second", go[g].row, h) = Is(one, h)
                  /\ Has("gone", go[g].row, h) = 0
    BY DEF HasSlot, Has, Full, Running
  <2>3. GivenUp(g) = IF go[g].at = "second" THEN {one} ELSE {}
    BY DEF GivenUp
  <2> HIDE DEF one
  <2>4. CASE go[g].at = "first"
    <3>1. \A h \in Hosts : places'[h] = places[h] - 0 + 0
      BY <1>a, <2>1, <2>3, <2>4
    <3> QED
      BY <1>a, <2>1, <2>2, <2>4, <3>1 DEF Pays
  <2>5. CASE go[g].at = "second"
    <3>1. \A h \in Hosts : places'[h] = places[h] - Is(one, h) + 0
      BY <1>a, <2>1, <2>3, <2>5 DEF Is
    <3> QED
      BY <1>a, <2>1, <2>2, <2>5, <3>1 DEF Pays
  <2> QED
    BY <2>1, <2>4, <2>5
<1>6. CASE Release(g)
  <2>1. /\ go[g].at = "release" /\ go'[g].at = "gone" /\ slots' = slots - 1
        /\ places' = [h \in Hosts |-> places[h] - Cardinality({k \in 1..2 : Host[go[g].row][k] = h})]
    BY <1>6, <1>c DEF Release, Place
  <2>2. /\ HasSlot("release") = 1 /\ HasSlot("gone") = 0
        /\ \A h : /\ Has("release", go[g].row, h) = Is(one, h) + Is(two, h)
                  /\ Has("gone", go[g].row, h) = 0
    BY DEF HasSlot, Has, Full, Running
  <2>3. \A h \in Hosts : places'[h] = places[h] - (Is(one, h) + Is(two, h))
    BY <1>0, <2>1, SortedHosts
  <2>4. \A h \in Hosts : Is(one, h) + Is(two, h) \in Nat
    BY DEF Is
  <2> HIDE DEF one, two
  <2>5. \A h \in Hosts : places'[h] = places[h] - (Is(one, h) + Is(two, h)) + 0
    BY <1>a, <2>3, <2>4
  <2> QED
    BY <1>a, <2>1, <2>2, <2>5 DEF Pays
<1>7. CASE StartRunner(g) \/ Unregister(g)
  <2>1. /\ go[g].at \in {"ready", "finish"} /\ go'[g].at \in {"opening", "release"}
        /\ UNCHANGED <<slots, places>>
    BY <1>7, <1>c DEF StartRunner, Unregister, Place, Running
  <2> QED
    BY <2>1, PaysNothing DEF Full, Running
<1>8. CASE \/ Dial(g) \/ Dialed(g) \/ Greeted(g) \/ LoseLink(g) \/ Backoff(g)
           \/ Gate(g) \/ EndWork(g) \/ Watchdog(g)
  <2>1. go[g].at \in Running /\ UNCHANGED <<slots, places>>
    BY <1>0, <1>8 DEF Dial, Dialed, Greeted, LoseLink, Backoff, Gate, EndWork, Watchdog, Running
  <2>2. go'[g].at \in Running \union {"finish"}
    BY <1>b, <2>1 DEF Deed, Advances, Quits, Starts, ComesLate, Runs, Stops, Leaves, GivesBack, Goes,
                      Waits, Running
  <2> QED
    BY <2>1, <2>2, PaysNothing DEF Full
<1> QED
  BY <1>1, <1>2, <1>3, <1>4, <1>5, <1>6, <1>7, <1>8 DEF Step

Balanced == Channels /\ PlacesAreBalanced

Takers == DOMAIN go \ InState({"queued", "gone"})

LEMMA FiniteCrew ==
  ASSUME EngineInv
  PROVE  /\ DOMAIN go \subseteq Nat \ {0}
         /\ IsFiniteSet(Takers)
         /\ \A h : IsFiniteSet(HoldersOf(h))
<1>1. PICK n \in Nat : DOMAIN go = 1..n
  <2>1. go \in Seq(Thread)
    BY DEF EngineInv, EngineTypes
  <2> QED
    BY <2>1
<1>2. IsFiniteSet(DOMAIN go) /\ IsFiniteSet(1..2)
  <2>1. n \in Int /\ 1 \in Int /\ 2 \in Int
    OBVIOUS
  <2>2. IsFiniteSet(1..n)
    BY <2>1, FS_Interval
  <2>3. IsFiniteSet(1..2)
    BY <2>1, FS_Interval
  <2> QED
    BY <1>1, <2>2, <2>3
<1>3. IsFiniteSet((DOMAIN go) \X (1..2))
  BY <1>2, FS_Product
<1>4. Takers \subseteq DOMAIN go /\ \A h : HoldersOf(h) \subseteq (DOMAIN go) \X (1..2)
  BY DEF Takers, HoldersOf
<1> QED
  BY <1>1, <1>2, <1>3, <1>4, FS_Subset

\* Who does not move, keeps what he has.
LEMMA BalancedStays ==
  ASSUME Balanced, UNCHANGED <<slots, places>>,
         DOMAIN go \subseteq DOMAIN go',
         \A k \in DOMAIN go : go'[k].at = go[k].at /\ go'[k].row = go[k].row,
         \A k \in DOMAIN go' \ DOMAIN go : go'[k].at = "queued"
  PROVE  Balanced'
<1>1. Takers' = Takers
  BY DEF Takers, InState
<1>2. ASSUME NEW h
      PROVE  HoldersOf(h)' = HoldersOf(h)
  <2> DEFINE H == HoldersOf(h)
             K == HoldersOf(h)'
  <2>1. ASSUME NEW k \in DOMAIN go', NEW i \in 1..2
        PROVE  <<k, i>> \in K <=> <<k, i>> \in H
    <3>1. CASE k \in DOMAIN go
      BY <3>1 DEF HoldersOf, Holds
    <3>2. CASE k \notin DOMAIN go
      <4>1. go'[k].at = "queued"
        BY <3>2
      <4> QED
        BY <3>2, <4>1 DEF HoldersOf, Holds, Running
    <3> QED
      BY <3>1, <3>2
  <2>2. K \subseteq (DOMAIN go') \X (1..2) /\ H \subseteq (DOMAIN go') \X (1..2)
    BY DEF HoldersOf
  <2> HIDE DEF H, K
  <2>3. ASSUME NEW t \in (DOMAIN go') \X (1..2)
        PROVE  t \in K <=> t \in H
    <3>1. PICK k \in DOMAIN go', i \in 1..2 : t = <<k, i>>
      OBVIOUS
    <3> QED
      BY <2>1, <3>1
  <2>4. K = H
    BY <2>2, <2>3
  <2> QED
    BY <2>4 DEF H, K
<1>3. Channels'
  BY DEF Balanced, Channels
<1>4. slots' = Cardinality(Takers')
  BY <1>1 DEF Balanced, PlacesAreBalanced, Takers
<1>5. \A h \in Hosts : places'[h] = Cardinality(HoldersOf(h)')
  BY <1>2 DEF Balanced, PlacesAreBalanced
<1> QED
  BY <1>3, <1>4, <1>5 DEF Balanced, PlacesAreBalanced, Takers

LEMMA BalancedMove ==
  ASSUME EngineInv, Balanced, NEW g \in DOMAIN go, Acts(g), Pays(g)
  PROVE  Balanced'
<1>1. /\ DOMAIN go' = DOMAIN go /\ g \in DOMAIN go'
      /\ \A k \in DOMAIN go : k # g => go'[k] = go[k]
      /\ go'[g].row = go[g].row
  BY DEF Acts
<1>2. /\ slots \in Int /\ slots = Cardinality(Takers)
      /\ \A h \in Hosts : places[h] \in Int /\ places[h] = Cardinality(HoldersOf(h))
  BY DEF Balanced, Channels, PlacesAreBalanced, Takers
<1>3. slots' = Cardinality(Takers') /\ Cardinality(Takers') \in Nat
  <2> DEFINE T == Takers
             U == Takers'
  <2>1. \A x : x # g /\ x # 0 => (x \in U <=> x \in T)
    BY <1>1 DEF Takers, InState
  <2>2. In(g, T) = HasSlot(go[g].at) /\ In(g, U) = HasSlot(go'[g].at)
    BY <1>1 DEF Takers, InState, In, HasSlot
  <2>3. In(0, T) = 0 /\ In(0, U) = 0 /\ g # 0
    BY <1>1, FiniteCrew DEF Takers, In
  <2>4. IsFiniteSet(T)
    BY FiniteCrew
  <2>5. HasSlot(go[g].at) \in Nat /\ HasSlot(go'[g].at) \in Nat
    BY HasType
  <2>6. slots' = slots - HasSlot(go[g].at) + HasSlot(go'[g].at) /\ slots = Cardinality(T)
    BY <1>2 DEF Pays
  <2> HIDE DEF T, U
  <2>7. /\ Cardinality(T) \in Nat /\ Cardinality(U) \in Nat
        /\ Cardinality(U) = Cardinality(T) - In(g, T) - In(0, T) + In(g, U) + In(0, U)
    BY <2>1, <2>3, <2>4, Recount
  <2>8. slots' = Cardinality(U)
    BY <2>2, <2>3, <2>5, <2>6, <2>7
  <2> QED
    BY <2>7, <2>8 DEF U
<1>4. ASSUME NEW h \in Hosts
      PROVE  places'[h] = Cardinality(HoldersOf(h)') /\ Cardinality(HoldersOf(h)') \in Nat
  <2> DEFINE H == HoldersOf(h)
             K == HoldersOf(h)'
             a == <<g, 1>>
             b == <<g, 2>>
  <2>1. ASSUME NEW x, x # a, x # b
        PROVE  x \in K <=> x \in H
    <3>1. CASE x \notin (DOMAIN go) \X (1..2)
      BY <1>1, <3>1 DEF HoldersOf
    <3>2. CASE x \in (DOMAIN go) \X (1..2)
      <4>1. PICK k \in DOMAIN go, i \in 1..2 : x = <<k, i>>
        BY <3>2
      <4>2. k # g
        BY <2>1, <4>1
      <4>3. go'[k] = go[k]
        BY <1>1, <4>2
      <4> QED
        BY <1>1, <4>1, <4>3 DEF HoldersOf, Holds
    <3> QED
      BY <3>1, <3>2
  <2>2. In(a, H) + In(b, H) = Has(go[g].at, go[g].row, h)
    <3>1. a \in H <=> Sorted(go[g].row)[1] = h /\ go[g].at \in Full \union {"second"}
      BY DEF HoldersOf, Holds, Full
    <3>2. b \in H <=> Sorted(go[g].row)[2] = h /\ go[g].at \in Full
      BY DEF HoldersOf, Holds, Full
    <3> HIDE DEF a, b, H
    <3>3. "second" \notin Full
      BY DEF Full, Running
    <3> QED
      BY <3>1, <3>2, <3>3 DEF In, Has, Is
  <2>3. In(a, K) + In(b, K) = Has(go'[g].at, go[g].row, h)
    <3>1. a \in K <=> Sorted(go[g].row)[1] = h /\ go'[g].at \in Full \union {"second"}
      BY <1>1 DEF HoldersOf, Holds, Full
    <3>2. b \in K <=> Sorted(go[g].row)[2] = h /\ go'[g].at \in Full
      BY <1>1 DEF HoldersOf, Holds, Full
    <3> HIDE DEF a, b, K
    <3>3. "second" \notin Full
      BY DEF Full, Running
    <3> QED
      BY <3>1, <3>2, <3>3 DEF In, Has, Is
  <2>4. IsFiniteSet(H) /\ a # b
    BY FiniteCrew
  <2>5. /\ places'[h] = places[h] - Has(go[g].at, go[g].row, h) + Has(go'[g].at, go[g].row, h)
        /\ places[h] = Cardinality(H)
    BY <1>2 DEF Pays
  <2> HIDE DEF H, K, a, b
  <2>6. /\ Cardinality(H) \in Nat /\ Cardinality(K) \in Nat
        /\ Cardinality(K) = Cardinality(H) - In(a, H) - In(b, H) + In(a, K) + In(b, K)
    BY <2>1, <2>4, Recount
  <2>7. /\ In(a, H) \in Nat /\ In(b, H) \in Nat /\ In(a, K) \in Nat /\ In(b, K) \in Nat
    BY DEF In
  <2>8. places'[h] = Cardinality(K)
    BY <2>2, <2>3, <2>5, <2>6, <2>7
  <2> QED
    BY <2>6, <2>8 DEF K
<1>5. Channels'
  <2>1. places' = [h \in Hosts |-> places'[h]]
    BY DEF Pays
  <2> QED
    BY <1>3, <1>4, <2>1 DEF Channels
<1> QED
  BY <1>3, <1>4, <1>5 DEF Balanced, PlacesAreBalanced, Takers

LEMMA BalancedStep ==
  ASSUME EngineInv, Balanced, [Next]_allVars
  PROVE  Balanced'
<1>1. CASE Rests
  <2>1. /\ DOMAIN go' = DOMAIN go /\ UNCHANGED <<slots, places>>
        /\ \A k \in DOMAIN go : go'[k].at = go[k].at /\ go'[k].row = go[k].row
    BY <1>1 DEF Rests
  <2> QED
    BY <2>1, BalancedStays
<1>2. ASSUME NEW g \in DOMAIN go, Step(g), Acts(g)
      PROVE  Balanced'
  BY <1>2, StepPays, BalancedMove DEF Balanced
<1>3. CASE Admits
  <2>1. DOMAIN go = {}
    BY <1>3 DEF Admits, EngineInv, Unborn
  <2>2. UNCHANGED <<slots, places>> /\ \A k \in DOMAIN go' : go'[k].at = "queued"
    BY <1>3 DEF Admits
  <2> QED
    BY <2>1, <2>2, BalancedStays
<1>4. CASE AdmitFails \/ InstallHooks \/ SeeDone \/ EndRun \/ Return
  <2>1. UNCHANGED <<go, slots, places>>
    BY <1>4 DEF AdmitFails, InstallHooks, SeeDone, EndRun, Return
  <2> QED
    BY <2>1, BalancedStays
<1>5. CASE Joins
  <2>1. /\ DOMAIN go \subseteq DOMAIN go' /\ UNCHANGED <<slots, places>>
        /\ \A k \in DOMAIN go : go'[k].at = go[k].at /\ go'[k].row = go[k].row
        /\ \A k \in DOMAIN go' \ DOMAIN go : go'[k].at = "queued"
    BY <1>5 DEF Joins
  <2> QED
    BY <2>1, BalancedStays
<1> QED
  BY <1>1, <1>2, <1>3, <1>4, <1>5, KindsOfSteps, AdmitAdmits, RequeueJoins, ReloadJoins DEF Kinds

\* PlacesAreBalanced: no slot and no place is lost or given back twice, wherever the run
\* is cut short.  The channels hold at every step what each goroutine has by where it is.
THEOREM NothingIsLost == Spec => []PlacesAreBalanced
<1>1. ConsoleInit => EngineInv /\ Balanced
  <2> SUFFICES ASSUME ConsoleInit
               PROVE  Balanced
    BY EngineInvHolds
  <2>1. DOMAIN go = {} /\ slots = 0 /\ places = [h \in Hosts |-> 0]
    BY DEF ConsoleInit, Init
  <2>2. Takers = {} /\ \A h : HoldersOf(h) = {}
    BY <2>1 DEF Takers, HoldersOf
  <2>3. Cardinality({}) = 0
    BY FS_EmptySet
  <2>4. Channels
    BY <2>1 DEF Channels
  <2>5. slots = Cardinality(Takers) /\ \A h \in Hosts : places[h] = Cardinality(HoldersOf(h))
    BY <2>1, <2>2, <2>3
  <2> QED
    BY <2>4, <2>5 DEF Balanced, PlacesAreBalanced, Takers
<1>2. EngineInv /\ Balanced /\ [Next]_allVars => (EngineInv /\ Balanced)'
  BY EngineInvStep, BalancedStep
<1>3. Balanced => PlacesAreBalanced
  BY DEF Balanced
<1> QED
  BY <1>1, <1>2, <1>3, PTL DEF Spec
===============================================================================
