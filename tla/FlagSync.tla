------------------------------ MODULE FlagSync ------------------------------
(***************************************************************************)
(* The flags of one folder under mailferry run --sync-flags: what a scan   *)
(* records of them, what an APPEND gives the copy, and syncFlagsPass, which *)
(* brings later changes of the source over, session after session, while   *)
(* the owner of the destination sets flags too.                            *)
(*                                                                         *)
(* internal/engine/folder.go, internal/state/ops.go. How messages get to   *)
(* the destination, and which row knows the UID of its copy, is FolderSync. *)
(***************************************************************************)
EXTENDS Integers, FiniteSets, Sequences, SequencesExt

CONSTANTS
  Uid,           \* messages of the source folder
  System,        \* system flags a message may have
  Keyword,       \* other flags it may have
  Recent,        \* \Recent: a server adds it to an answer or does not
  Gone,          \* instead of the flags of a message: there is none
  First,         \* First[u]: the flags of source message u when the migration begins
  Present,       \* messages that the destination had before the migration
  KeywordsTaken, \* does the destination take keywords: the cases to consider
  Reverts,       \* may the source take a change of flags back
  MaxChange,     \* bound: changes of the source
  MaxOwner,      \* bound: changes by the owner of the destination
  MaxCut         \* bound: sessions that are cut short

ASSUME FlagAssumption == /\ System \intersect Keyword = {}
                         /\ Recent \notin System \union Keyword
                         /\ IsFiniteSet(System) /\ IsFiniteSet(Keyword)
                         /\ \A flags \in SUBSET (System \union Keyword) : flags # Gone
                         /\ Uid \subseteq Nat /\ IsFiniteSet(Uid) /\ Present \subseteq Uid
ASSUME FirstAssumption == First \in [Uid -> SUBSET (System \union Keyword)]
ASSUME SwitchAssumption == KeywordsTaken \subseteq BOOLEAN /\ Reverts \in BOOLEAN
ASSUME BoundAssumption == MaxChange \in Nat /\ MaxOwner \in Nat /\ MaxCut \in Nat

Flag == System \union Keyword

VARIABLES
  takes,   \* the destination takes keywords
  have,    \* have[u]: the flags of source message u, or Gone
  had,     \* history: had[u], all that have[u] has been
  row,     \* row[u]: its row; flags is a list, as a server or the code wrote it
  box,     \* box[u]: the flags of its copy on the destination, or Gone
  mirror,  \* history: copies whose flags were last set by mailferry, all of them
  news,    \* history: messages that have changed since their row was written
  pc,      \* where the session is
  changed, \* rows that the pass still has to do, with their new flags
  budget   \* counters of the bounds

vars == <<takes, have, had, row, box, mirror, news, pc, changed, budget>>

Least(S) == CHOOSE u \in S : \A v \in S : u <= v

-----------------------------------------------------------------------------
(* Lists of flags *)

\* FETCH names the flags in some order or another, and \Recent at the server's will.
Reported(S) == LET list == SetToSeq(S)
               IN  {list, Reverse(list), <<Recent>> \o list, Reverse(list) \o <<Recent>>}

\* cleanFlags: what APPEND and STORE are told
CleanFlags(list, stripKeywords) ==
  SelectSeq(list, LAMBDA f : f # Recent /\ (stripKeywords => f \in System))

\* Mutant: the lists are compared as the server wrote them.
CanonFlagsInOrder(list) == SelectSeq(list, LAMBDA f : f # Recent)

\* canonFlags: without \Recent, in one order
CanonFlags(list) == SetToSeq(Range(list) \ {Recent})

Refused(list) == ~takes /\ Range(list) \intersect Keyword # {}

-----------------------------------------------------------------------------
(* A session *)

NoRow == [st |-> "none", uid |-> FALSE, flags |-> <<>>]

Init ==
  /\ takes \in KeywordsTaken
  /\ have = First
  /\ had = [u \in Uid |-> {First[u]}]
  /\ row = [u \in Uid |-> NoRow]
  /\ box = [u \in Uid |-> IF u \in Present THEN {} ELSE Gone]
  /\ mirror = {} /\ news = {}
  /\ pc = "idle" /\ changed = {}
  /\ budget = [change |-> 0, owner |-> 0, cut |-> 0]

Start ==
  /\ pc = "idle"
  /\ pc' = "scan"
  /\ UNCHANGED <<takes, have, had, row, box, mirror, news, changed, budget>>

Unknown == {u \in Uid : have[u] # Gone /\ row[u].st = "none"}
Planned == {u \in Uid : row[u].st = "planned"}
WithDst == {u \in Uid : row[u].st = "done" /\ row[u].uid}

\* The source scan: a message that has no row yet gets one, with its flags.
Scan ==
  /\ pc = "scan"
  /\ IF Unknown = {}
     THEN pc' = "copy" /\ UNCHANGED <<row, news>>
     ELSE LET u == Least(Unknown)
          IN  /\ \E list \in Reported(have[u]) :
                   row' = [row EXCEPT ![u] = [st |-> "planned", uid |-> FALSE, flags |-> list]]
              /\ news' = news \ {u}
              /\ UNCHANGED pc
  /\ UNCHANGED <<takes, have, had, box, mirror, changed, budget>>

\* A row is confirmed, with the UID of the copy if the server says it: ...
Confirm(u) ==
  \E known \in BOOLEAN : row' = [row EXCEPT ![u].st = "done", ![u].uid = known]

\* ... the destination has the message already, with flags of its own, ...
Adopt ==
  /\ pc = "copy" /\ Planned # {}
  /\ LET u == Least(Planned)
     IN  /\ box[u] # Gone
         /\ row' = [row EXCEPT ![u].st = "done", ![u].uid = TRUE]
  /\ UNCHANGED <<takes, have, had, box, mirror, news, pc, changed, budget>>

\* ... or an APPEND brings it, with the flags of the row; from the second pass
\* on without keywords, whatever made the first pass fail.
AppendWith(u, stripKeywords) ==
  LET flags == CleanFlags(row[u].flags, stripKeywords)
  IN  /\ ~Refused(flags)
      /\ box' = [box EXCEPT ![u] = Range(flags)]
      /\ mirror' = IF Range(flags) = Range(row[u].flags) \ {Recent}
                   THEN mirror \union {u} ELSE mirror

Copy ==
  /\ pc = "copy" /\ Planned # {}
  /\ LET u == Least(Planned)
     IN  /\ box[u] = Gone
         /\ \E stripKeywords \in BOOLEAN : AppendWith(u, stripKeywords)
         /\ Confirm(u)
  /\ UNCHANGED <<takes, have, had, news, pc, changed, budget>>

Copied ==
  /\ pc = "copy" /\ Planned = {}
  /\ pc' = "fetch"
  /\ UNCHANGED <<takes, have, had, row, box, mirror, news, changed, budget>>

-----------------------------------------------------------------------------
(* syncFlagsPass *)

\* The messages that FETCH still finds on the source.
There == {u \in WithDst : have[u] # Gone}

\* Their flags are fetched and compared with the rows.
FetchFlags ==
  /\ pc = "fetch"
  /\ \E current \in [There -> UNION {Reported(have[u]) : u \in There}] :
       /\ \A u \in There : current[u] \in Reported(have[u])
       /\ changed' = {[uid |-> u, new |-> CanonFlags(current[u])] :
                        u \in {v \in There : CanonFlags(current[v]) # CanonFlags(row[v].flags)}}
  /\ pc' = "store"
  /\ UNCHANGED <<takes, have, had, row, box, mirror, news, budget>>

Change == CHOOSE c \in changed : \A d \in changed : c.uid <= d.uid

\* Mutant: STORE adds the flags.
AddFlags(u, flags) == box[u] \union Range(flags)

\* UID STORE n FLAGS (...) replaces the flags of the copy, if there is one.
StoreFlags(u, flags) == Range(flags)

\* The destination executes the STORE ...
Store ==
  /\ pc = "store" /\ changed # {}
  /\ LET u == Change.uid
         flags == CleanFlags(Change.new, FALSE)
     IN  /\ ~Refused(flags)
         /\ IF box[u] = Gone THEN UNCHANGED <<box, mirror>>
            ELSE /\ box' = [box EXCEPT ![u] = StoreFlags(u, flags)]
                 /\ mirror' = mirror \union {u}
  /\ pc' = "answer"
  /\ UNCHANGED <<takes, have, had, row, news, changed, budget>>

\* ... or refuses it, and the row stays as it is.
StoreFails ==
  /\ pc = "store" /\ changed # {}
  /\ Refused(CleanFlags(Change.new, FALSE))
  /\ changed' = changed \ {Change}
  /\ UNCHANGED <<takes, have, had, row, box, mirror, news, pc, budget>>

\* db.UpdateFlags
UpdateFlags ==
  /\ pc = "answer"
  /\ LET u == Change.uid
     IN  /\ row' = [row EXCEPT ![u].flags = Change.new]
         /\ news' = IF have[u] # Gone /\ Range(Change.new) = have[u] THEN news \ {u} ELSE news
  /\ changed' = changed \ {Change}
  /\ pc' = "store"
  /\ UNCHANGED <<takes, have, had, box, mirror, budget>>

Finish ==
  /\ pc = "store" /\ changed = {}
  /\ pc' = "idle"
  /\ UNCHANGED <<takes, have, had, row, box, mirror, news, changed, budget>>

\* A lost connection, a stop, a killed process: an executed STORE may be left
\* without its record.
Cut ==
  /\ pc # "idle" /\ budget.cut < MaxCut
  /\ pc' = "idle" /\ changed' = {}
  /\ budget' = [budget EXCEPT !.cut = @ + 1]
  /\ UNCHANGED <<takes, have, had, row, box, mirror, news>>

-----------------------------------------------------------------------------
(* The two mailboxes *)

\* A client of the source sets flags, or expunges the message.
SourceChanges ==
  /\ budget.change < MaxChange
  /\ \E u \in {v \in Uid : have[v] # Gone}, new \in (SUBSET Flag) \union {Gone} :
       /\ new # have[u]
       /\ Reverts \/ new \notin had[u]
       /\ have' = [have EXCEPT ![u] = new]
       /\ had' = [had EXCEPT ![u] = @ \union {new}]
       /\ news' = news \union {u}
  /\ budget' = [budget EXCEPT !.change = @ + 1]
  /\ UNCHANGED <<takes, row, box, mirror, pc, changed>>

\* A client of the destination sets flags of a copy, or expunges it.
OwnerChanges ==
  /\ budget.owner < MaxOwner
  /\ \E u \in {v \in Uid : row[v].st = "done" /\ box[v] # Gone},
        new \in (SUBSET Flag) \union {Gone} :
       /\ new # box[u]
       /\ new # Gone => (takes \/ new \intersect Keyword = {})
       /\ box' = [box EXCEPT ![u] = new]
       /\ mirror' = mirror \ {u}
  /\ budget' = [budget EXCEPT !.owner = @ + 1]
  /\ UNCHANGED <<takes, have, had, row, news, pc, changed>>

Step == \/ Start \/ Scan \/ Adopt \/ Copy \/ Copied
        \/ FetchFlags \/ Store \/ StoreFails \/ UpdateFlags \/ Finish

Next == Step \/ Cut \/ SourceChanges \/ OwnerChanges

\* A session goes on, and the operator runs the next one.
Spec == Init /\ [][Next]_vars /\ WF_vars(Step)

-----------------------------------------------------------------------------
(* Properties *)

\* The state is well formed.
TypeOK ==
  /\ takes \in BOOLEAN
  /\ have \in [Uid -> (SUBSET Flag) \union {Gone}]
  /\ \A u \in Uid : /\ row[u].st \in {"none", "planned", "done"} /\ row[u].uid \in BOOLEAN
                    /\ Range(row[u].flags) \subseteq Flag \union {Recent}
  /\ box \in [Uid -> (SUBSET Flag) \union {Gone}]
  /\ mirror \subseteq Uid /\ news \subseteq Uid
  /\ pc \in {"idle", "scan", "copy", "fetch", "store", "answer"}
  /\ \A c \in changed : c.uid \in Uid /\ Range(c.new) \subseteq Flag

\* The flags that the owner of the destination has set stay, as long as the flags
\* of the source have not changed since they were recorded: no order of a FLAGS
\* list, no \Recent, no rerun and no interrupted pass makes syncFlagsPass write
\* over them.
OwnersFlagsStay ==
  [][\A u \in Uid : box'[u] # box[u] /\ box[u] # Gone /\ budget' = budget => u \in news]_vars

\* The flags of the source arrive: once nothing changes any more, every row says
\* what the source has, and the copies that mailferry has set last have it too,
\* although each pass may be cut between its STORE and the record of it. A
\* keyword that the destination does not take keeps a message out.
FlagsConverge ==
  <>[](\A u \in There :
         takes \/ have[u] \intersect Keyword = {} =>
           /\ Range(row[u].flags) \ {Recent} = have[u]
           /\ u \in mirror /\ box[u] # Gone => box[u] = have[u])

\* The same whatever the destination takes ("optional --sync-flags re-applies flag
\* changes", CHANGELOG.md): a STORE with a keyword is refused as a whole each
\* time, unlike an APPEND, which is tried again without keywords.
AllFlagsConverge ==
  <>[](\A u \in There : /\ Range(row[u].flags) \ {Recent} = have[u]
                        /\ u \in mirror /\ box[u] # Gone => box[u] = have[u])
=============================================================================
