------------------------------- MODULE Dedup -------------------------------
(***************************************************************************)
(* mailferry dedup --execute on one destination mailbox: the analysis of a *)
(* folder, the relocation of its duplicates one by one, the rows that let  *)
(* a later run resume, and what goes on around it: several processes, lost *)
(* connections, Ctrl+C, a migration that delivers, a mail client.          *)
(*                                                                         *)
(* internal/engine/dedup.go, internal/state/dedup.go,                      *)
(* internal/imapx/quarantine.go and the loop of cmd/mailferry/dedup.go.    *)
(***************************************************************************)
EXTENDS Integers, Sequences, FiniteSets, Functions

CONSTANTS
  Folders,      \* selectable folders outside the quarantine tree, sorted
  Mail,         \* Mail[f]: the messages folder f ever gets, by UID
  NoMid,        \* the Message-ID of a message that has none
  Present,      \* Present[f]: how many of them are there at the start
  Flagged,      \* messages that carry \Deleted at the start
  Proc,         \* processes that run dedup --execute on the same database
  MoveOffered,  \* does the server offer MOVE: the cases to consider
  Client,       \* what the mailbox's owner may do meanwhile
  MaxCut,       \* bound: lost connections and killed processes
  MaxCancel,    \* bound: Ctrl+C
  MaxMigration  \* bound: migrations that claim the mailbox

Folder  == Range(Folders)
Message == UNION {{f} \X DOMAIN Mail[f] : f \in Folder}

MidOf(m)  == Mail[m[1]][m[2]].mid
SizeOf(m) == Mail[m[1]][m[2]].size
BodyOf(m) == Mail[m[1]][m[2]].body

ASSUME FoldersAssumption == Folders \in Seq(Folder)
ASSUME MailAssumption ==
  \A f \in Folder : Mail[f] \in Seq([mid : {Mail[f][i].mid : i \in DOMAIN Mail[f]},
                                     size : Nat,
                                     body : {Mail[f][i].body : i \in DOMAIN Mail[f]}])
ASSUME ProcAssumption == IsFiniteSet(Proc)
ASSUME BoundsAssumption == /\ MaxCut \in Nat /\ MaxCancel \in Nat /\ MaxMigration \in Nat
                           /\ MoveOffered \subseteq BOOLEAN
                           /\ Client \subseteq {"delete", "undelete", "compact"}

VARIABLES
  hasMove, \* the server offers MOVE
  box,     \* box[m]: absent, live, flagged (\Deleted) or gone
  copies,  \* copies[m]: how often m is in the quarantine folder
  rows,    \* dedup_state: absent, planned (done = 0) or done
  lease,   \* of the mailbox: none, fresh or stale
  pc, at, todo, made, link,   \* one run of each process
  listed,  \* history: what the run has grouped as duplicates
  taken,   \* history: what some run has moved away or flagged
  cuts, cancels, migrations   \* counters of the bounds

mailbox == <<box, copies, taken>>
bounds  == <<cuts, cancels, migrations, hasMove>>
vars == <<hasMove, box, copies, rows, lease, pc, at, todo, made, link, listed, taken,
          cuts, cancels, migrations>>

-----------------------------------------------------------------------------
(* Analysis *)

\* Mutant: messages without a Message-ID are grouped by their size.
EligibleWithoutMid(m) == box[m] = "live"

\* Mutant: a message that is flagged \Deleted is grouped like the others.
EligibleFlagged(m) == box[m] \in {"live", "flagged"} /\ MidOf(m) # NoMid

\* A message can be grouped: it has a Message-ID and is not flagged \Deleted.
Eligible(m) == box[m] = "live" /\ MidOf(m) # NoMid

\* Message-ID and size agree. The third factor, the fingerprint, is the
\* Message-ID again whenever there is one.
SameKey(m, n) == MidOf(m) = MidOf(n) /\ SizeOf(m) = SizeOf(n)

Group(m) == {n \in Message : n[1] = m[1] /\ Eligible(n) /\ SameKey(m, n)}

\* Of each group all but the lowest UID.
Duplicates(f) == {m \in Message : /\ m[1] = f
                                  /\ Eligible(m)
                                  /\ \E n \in Group(m) : n[2] < m[2]}

\* The order of the report, in which they are taken.  Groups of one size come there in
\* the order of their Message-IDs, here in that of their UIDs, which only decides which
\* of two unrelated messages is first.
Before(m, n) == \/ SizeOf(m) < SizeOf(n)
                \/ SizeOf(m) = SizeOf(n) /\ m[2] <= n[2]

-----------------------------------------------------------------------------
(* One run *)

Running(p) == pc[p] # "off"
Here(p)    == Folders[at[p]]
This(p)    == CHOOSE m \in todo[p] : \A n \in todo[p] : Before(m, n)

\* The run is over, with or without an error.
Stop(p) ==
  /\ pc' = [pc EXCEPT ![p] = "off"]
  /\ at' = [at EXCEPT ![p] = 1]
  /\ todo' = [todo EXCEPT ![p] = {}]
  /\ made' = [made EXCEPT ![p] = FALSE]
  /\ link' = [link EXCEPT ![p] = TRUE]
  /\ listed' = [listed EXCEPT ![p] = {}]

Goto(p, where) == pc' = [pc EXCEPT ![p] = where]

\* A mailbox under a fresh lease is skipped; dedup takes no lease itself.
Start(p) ==
  /\ pc[p] = "off"
  /\ lease # "fresh"
  /\ Goto(p, "scan")
  /\ UNCHANGED <<mailbox, rows, lease, at, todo, made, link, listed, bounds>>

\* The next folder. An error of the analysis skips the folder, whatever the
\* error is: a run whose connection is gone skips all that is left.
Advance(p) ==
  /\ at' = [at EXCEPT ![p] = @ + 1]
  /\ todo' = [todo EXCEPT ![p] = {}]
  /\ made' = [made EXCEPT ![p] = FALSE]
  /\ Goto(p, "scan")

Analyse(p) ==
  /\ pc[p] = "scan"
  /\ at[p] <= Len(Folders)
  /\ LET dups == Duplicates(Here(p))
     IN  IF link[p] /\ dups # {}
         THEN /\ todo' = [todo EXCEPT ![p] = dups]
              /\ listed' = [listed EXCEPT ![p] = @ \union dups]
              /\ Goto(p, "select")
              /\ UNCHANGED <<at, made>>
         ELSE Advance(p) /\ UNCHANGED listed
  /\ UNCHANGED <<mailbox, rows, lease, link, bounds>>

Select(p) ==
  /\ pc[p] = "select"
  /\ IF link[p] THEN Goto(p, "item") /\ UNCHANGED <<at, todo, made, link, listed>>
                ELSE Stop(p)
  /\ UNCHANGED <<mailbox, rows, lease, bounds>>

\* Mutant: a row that is only planned passes for done.
IsDonePlanned(m) == rows[m] # "absent"

\* Mutant: the row is not asked.
IsDoneNever(m) == FALSE

\* The resume-skip predicate.
IsDone(m) == rows[m] = "done"

\* One duplicate is dealt with: the next one, or the next folder.
NextItem(p) ==
  IF todo[p] # {This(p)}
  THEN /\ todo' = [todo EXCEPT ![p] = @ \ {This(p)}]
       /\ Goto(p, "item")
       /\ UNCHANGED <<at, made>>
  ELSE Advance(p)

SkipDone(p) ==
  /\ pc[p] = "item"
  /\ IsDone(This(p))
  /\ NextItem(p)
  /\ UNCHANGED <<mailbox, rows, lease, link, listed, bounds>>

\* The quarantine folder is created before the first duplicate of a folder
\* (that it exists is no error), then the row is there: INSERT OR IGNORE.
Plan(p) ==
  /\ pc[p] = "item"
  /\ ~IsDone(This(p))
  /\ IF made[p] \/ link[p]
     THEN /\ rows' = [rows EXCEPT ![This(p)] = IF @ = "absent" THEN "planned" ELSE @]
          /\ made' = [made EXCEPT ![p] = TRUE]
          /\ Goto(p, IF hasMove THEN "move" ELSE "copy")
          /\ UNCHANGED <<at, todo, link, listed>>
     ELSE Stop(p) /\ UNCHANGED rows
  /\ UNCHANGED <<mailbox, lease, bounds>>

\* UID MOVE, UID COPY and UID STORE are executed on a connection that is there,
\* and do nothing to a message that is gone.
Executed(p) == link[p] /\ box[This(p)] \in {"live", "flagged"}

MoveAway(p) ==
  IF Executed(p)
  THEN /\ box' = [box EXCEPT ![This(p)] = "gone"]
       /\ copies' = [copies EXCEPT ![This(p)] = @ + 1]
       /\ taken' = taken \union {This(p)}
  ELSE UNCHANGED mailbox

CopyAway(p) ==
  /\ copies' = [copies EXCEPT ![This(p)] = @ + (IF Executed(p) THEN 1 ELSE 0)]
  /\ UNCHANGED <<box, taken>>

FlagDeleted(p) ==
  IF Executed(p)
  THEN /\ box' = [box EXCEPT ![This(p)] = "flagged"]
       /\ taken' = taken \union {This(p)}
       /\ UNCHANGED copies
  ELSE UNCHANGED mailbox

\* Mutant: an error is logged and the run goes on.
AnswerUnchecked(p, next) ==
  Goto(p, next) /\ UNCHANGED <<at, todo, made, link, listed, cuts>>

\* The answer arrives or is lost, which ends the run.
Answer(p, next) ==
  \/ link[p] /\ Goto(p, next) /\ UNCHANGED <<at, todo, made, link, listed, cuts>>
  \/ link[p] /\ cuts < MaxCut /\ cuts' = cuts + 1 /\ Stop(p)
  \/ ~link[p] /\ Stop(p) /\ UNCHANGED cuts

UIDMove(p) == /\ pc[p] = "move"
              /\ MoveAway(p) /\ Answer(p, "record")
              /\ UNCHANGED <<rows, lease, cancels, migrations, hasMove>>

UIDCopy(p) == /\ pc[p] = "copy"
              /\ CopyAway(p) /\ Answer(p, "flag")
              /\ UNCHANGED <<rows, lease, cancels, migrations, hasMove>>

UIDStore(p) == /\ pc[p] = "flag"
               /\ FlagDeleted(p) /\ Answer(p, "record")
               /\ UNCHANGED <<rows, lease, cancels, migrations, hasMove>>

\* DedupDone: the row is done whatever it was before.
Record(p) ==
  /\ pc[p] = "record"
  /\ rows' = [rows EXCEPT ![This(p)] = "done"]
  /\ NextItem(p)
  /\ UNCHANGED <<mailbox, lease, link, listed, bounds>>

\* Every folder is behind the run: the report is printed, the exit status 0.
Finish(p) ==
  /\ pc[p] = "scan"
  /\ at[p] > Len(Folders)
  /\ Stop(p)
  /\ UNCHANGED <<mailbox, rows, lease, bounds>>

\* Ctrl+C is seen before a folder and before a duplicate, never inside one.
Cancel(p) ==
  /\ cancels < MaxCancel
  /\ \/ pc[p] = "scan" /\ at[p] <= Len(Folders)
     \/ pc[p] = "item"
  /\ Stop(p)
  /\ cancels' = cancels + 1
  /\ UNCHANGED <<mailbox, rows, lease, cuts, migrations, hasMove>>

-----------------------------------------------------------------------------
(* Around the run *)

\* The connection breaks; the run learns of it at its next command.
Cut(p) ==
  /\ Running(p) /\ link[p]
  /\ cuts < MaxCut
  /\ cuts' = cuts + 1
  /\ link' = [link EXCEPT ![p] = FALSE]
  /\ UNCHANGED <<mailbox, rows, lease, pc, at, todo, made, listed, cancels, migrations, hasMove>>

\* The process is killed between two of its steps.
Crash(p) ==
  /\ Running(p)
  /\ cuts < MaxCut
  /\ cuts' = cuts + 1
  /\ Stop(p)
  /\ UNCHANGED <<mailbox, rows, lease, cancels, migrations, hasMove>>

\* A migration claims the mailbox, whether or not dedup is at work on it, and
\* ends or dies; what it delivers gets the next UID of its folder.
MigrationStarts ==
  /\ lease # "fresh"
  /\ migrations < MaxMigration
  /\ lease' = "fresh"
  /\ migrations' = migrations + 1
  /\ UNCHANGED <<mailbox, rows, pc, at, todo, made, link, listed, cuts, cancels, hasMove>>

MigrationEnds ==
  /\ lease = "fresh"
  /\ lease' \in {"none", "stale"}
  /\ UNCHANGED <<mailbox, rows, pc, at, todo, made, link, listed, bounds>>

Arrive(m) ==
  /\ lease = "fresh"
  /\ box[m] = "absent"
  /\ \A n \in Message : n[1] = m[1] /\ n[2] < m[2] => box[n] # "absent"
  /\ box' = [box EXCEPT ![m] = "live"]
  /\ UNCHANGED <<copies, taken, rows, lease, pc, at, todo, made, link, listed, bounds>>

\* The owner of the mailbox, with any mail client: puts a message back, lets
\* the server expunge what is flagged, deletes a message.
Owner(m) ==
  /\ \/ "undelete" \in Client /\ box[m] = "flagged" /\ box' = [box EXCEPT ![m] = "live"]
     \/ "compact" \in Client /\ box[m] = "flagged" /\ box' = [box EXCEPT ![m] = "gone"]
     \/ "delete" \in Client /\ box[m] = "live" /\ box' = [box EXCEPT ![m] = "gone"]
  /\ UNCHANGED <<copies, taken, rows, lease, pc, at, todo, made, link, listed, bounds>>

-----------------------------------------------------------------------------

Init ==
  /\ hasMove \in MoveOffered
  /\ box = [m \in Message |-> IF m[2] > Present[m[1]] THEN "absent"
                              ELSE IF m \in Flagged THEN "flagged" ELSE "live"]
  /\ copies = [m \in Message |-> 0]
  /\ rows = [m \in Message |-> "absent"]
  /\ lease = "none"
  /\ pc = [p \in Proc |-> "off"]
  /\ at = [p \in Proc |-> 1]
  /\ todo = [p \in Proc |-> {}]
  /\ made = [p \in Proc |-> FALSE]
  /\ link = [p \in Proc |-> TRUE]
  /\ listed = [p \in Proc |-> {}]
  /\ taken = {}
  /\ cuts = 0 /\ cancels = 0 /\ migrations = 0

Step(p) ==
  \/ Analyse(p) \/ Select(p) \/ SkipDone(p) \/ Plan(p)
  \/ UIDMove(p) \/ UIDCopy(p) \/ UIDStore(p) \/ Record(p) \/ Finish(p)

Next ==
  \/ \E p \in Proc : Start(p) \/ Step(p) \/ Cancel(p) \/ Cut(p) \/ Crash(p)
  \/ MigrationStarts \/ MigrationEnds
  \/ \E m \in Message : Arrive(m) \/ Owner(m)

\* A run that is started goes on, a migration ends or its lease gets stale, and
\* the operator starts one run after the other.
Fairness ==
  /\ \A p \in Proc : WF_vars(Start(p) \/ Step(p))
  /\ WF_vars(MigrationEnds)

Spec == Init /\ [][Next]_vars /\ Fairness

-----------------------------------------------------------------------------
(* Properties *)

\* The variables have their types.
TypeOK ==
  /\ hasMove \in BOOLEAN
  /\ box \in [Message -> {"absent", "live", "flagged", "gone"}]
  /\ copies \in [Message -> Nat]
  /\ rows \in [Message -> {"absent", "planned", "done"}]
  /\ lease \in {"none", "fresh", "stale"}
  /\ pc \in [Proc -> {"off", "scan", "select", "item", "move", "copy", "flag", "record"}]
  /\ at \in [Proc -> 1 .. Len(Folders) + 1]
  /\ todo \in [Proc -> SUBSET Message]
  /\ made \in [Proc -> BOOLEAN]
  /\ link \in [Proc -> BOOLEAN]
  /\ listed \in [Proc -> SUBSET Message]
  /\ taken \subseteq Message
  /\ cuts \in 0 .. MaxCut /\ cancels \in 0 .. MaxCancel /\ migrations \in 0 .. MaxMigration

\* Of every message that some run has moved away or flagged, the folder still
\* shows a copy: "the keeper is always retained" (dedup.go:338, 370-372),
\* whatever processes overlap, connections break or runs resume in between.
KeepsOne ==
  \A m \in taken :
    \E n \in Message : n[1] = m[1] /\ box[n] = "live" /\ BodyOf(n) = BodyOf(m)

\* With MOVE a message is in quarantine at most once, whatever overlaps or breaks.
\* Without, it is there once, once more for every break between the COPY and the
\* done row, and once more for every further process, since the row is read long
\* before the COPY and nothing keeps a second process out of the same mailbox; not
\* once more for every run, or whenever its owner has put it back.
OneCopyPerBreak ==
  \A m \in Message : copies[m] <= IF hasMove THEN 1 ELSE Cardinality(Proc) + cuts

\* "the only residual edge is a genuine connection drop" (engine/dedup.go:368-369), as
\* "no message is ever quarantined twice" (state/dedup.go:17-18): without the processes.
OnlyBreaksCopyAgain == \A m \in Message : copies[m] <= 1 + cuts

\* When a run leaves a folder without an error, every duplicate it had listed
\* is one some run has really taken away: no row stands for a message that was
\* only planned (state/dedup.go:22-24, 35-36).
FolderIsClean == \A p \in Proc : pc[p] = "scan" => listed[p] \subseteq taken

\* Runs that are started again and again quarantine every duplicate in the
\* end; what the analysis still finds then is what the owner has put back.
RerunsFinish ==
  <>[](\A f \in Folder : Duplicates(f) \subseteq taken)
=============================================================================
