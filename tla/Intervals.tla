------------------------------ MODULE Intervals ------------------------------
(***************************************************************************)
(* Sets of UIDs as merged intervals (internal/util/util.go), in the        *)
(* arithmetic of the code: a UID is an unsigned number of W bits.          *)
(***************************************************************************)
EXTENDS Integers, Sequences, FiniteSets, SequencesExt, FiniteSetsExt, Folds

CONSTANTS W,         \* bits of a UID
          MaxRanges  \* ranges in one command line

ASSUME IntervalsAssumption == W \in Nat \ {0} /\ MaxRanges \in Nat \ {0}

Uid == 0 .. 2^W - 1

\* The next and the previous UID, with the wrap-around of the type.
Inc(u) == (u + 1) % 2^W
Dec(u) == (u - 1) % 2^W

\* One more UID, not below those of out: it extends the last interval or begins one.
Merged(out, u) ==
  IF u \in {Last(out).hi, Inc(Last(out).hi)}
  THEN [out EXCEPT ![Len(out)].hi = u]
  ELSE Append(out, [lo |-> u, hi |-> u])

InOrder(uids) ==
  FoldLeft(LAMBDA out, u : SelectSeq(out, LAMBDA v : v <= u) \o <<u>>
                           \o SelectSeq(out, LAMBDA v : v > u), <<>>, uids)

\* uids come in any order, and one may come twice.
ToIntervals(uids) ==
  LET sorted == InOrder(uids)
  IN  IF uids = <<>> THEN <<>>
      ELSE FoldLeft(Merged, <<[lo |-> Head(sorted), hi |-> Head(sorted)]>>, Tail(sorted))

\* What remains of the interval i, from lo on, when the intervals of b are
\* taken away: state is the scan over b, lo and what it has found so far.
Cut(i, b) ==
  FoldLeft(LAMBDA s, j :
             IF s.done \/ j.hi < s.lo THEN s
             ELSE IF j.lo > i.hi
             THEN [s EXCEPT !.done = TRUE, !.out = Append(@, [lo |-> s.lo, hi |-> i.hi])]
             ELSE [out |-> IF j.lo > s.lo THEN Append(s.out, [lo |-> s.lo, hi |-> Dec(j.lo)])
                                          ELSE s.out,
                   done |-> j.hi >= i.hi,
                   lo |-> IF j.hi >= i.hi THEN s.lo ELSE Inc(j.hi)],
           [lo |-> i.lo, out |-> <<>>, done |-> FALSE], b)

\* a minus b.
IntervalsDiff(a, b) ==
  FlattenSeq([k \in DOMAIN a |->
    LET s == Cut(a[k], b)
    IN  IF s.done THEN s.out ELSE Append(s.out, [lo |-> s.lo, hi |-> a[k].hi])])

\* The intervals in lines of at most MaxRanges.
SetStrings(iv) ==
  [k \in 1 .. (Len(iv) + MaxRanges - 1) \div MaxRanges |->
     SubSeq(iv, (k - 1) * MaxRanges + 1, IF k * MaxRanges > Len(iv) THEN Len(iv) ELSE k * MaxRanges)]

\* The UIDs that intervals stand for, and a set of UIDs in their order.
UidsOf(iv) == UNION {iv[k].lo .. iv[k].hi : k \in DOMAIN iv}
Ascending(uids) ==
  [k \in 1 .. Cardinality(uids) |-> CHOOSE u \in uids : Cardinality({v \in uids : v < u}) = k - 1]
=============================================================================
