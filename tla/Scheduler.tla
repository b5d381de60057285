------------------------------- MODULE Scheduler -------------------------------
(***************************************************************************)
(* One MailFerry process and its batch of mailboxes (RunMigrationBus of    *)
(* engine/scheduler.go): who waits for a slot and for places at the hosts, *)
(* who runs, what re-queueing a mailbox and reloading the CSV add to a run *)
(* under way, and how a run is stopped (main.go, engine/bus.go).           *)
(*                                                                         *)
(* Each mailbox that is admitted gets a goroutine (runOne); what its       *)
(* runner does between Run and its status is modules Recovery and          *)
(* FolderSync, here it connects, works, may fail and try again.  Its two   *)
(* connections are one link.  Other processes are module Cluster.          *)
(***************************************************************************)
EXTENDS Integers, Sequences, FiniteSets, SequencesExt, FiniteSetsExt, Functions

CONSTANTS
  Csv,           \* the rows of the CSV, in order
  Grown,         \* the rows each reload finds added to it
  Host,          \* Host[r]: the hosts of source and destination, lower case
  Workers, PerHost,
  Completed,     \* the rows the State Database has as SUCCESS
  SkipCompleted, \* cfg.SkipCompleted, and not cfg.Force
  Outcomes,      \* how a mailbox that is not interrupted may end
  Hangs,         \* where a server may fall silent: "greeting", "work"
  Slow,          \* a dial, or the start of the run, may outlast the grace of a shutdown
  Patient,       \* nobody re-queues a mailbox that waits for its turn
  InTheGap,      \* a re-queue may hit the moment in which the run ends
  MaxLoss, MaxHang, MaxPause, MaxRequeue   \* bounds of the environment

Row == ToSet(Csv) \union UNION {ToSet(Grown[k]) : k \in DOMAIN Grown}
Hosts == UNION {{Host[r][1], Host[r][2]} : r \in Row}

ASSUME SchedulerAssumption ==
  /\ Csv \in Seq(Row) /\ IsInjective(Csv)
  /\ Grown \in Seq(Seq(Row)) /\ \A k \in DOMAIN Grown : IsInjective(Grown[k])
  /\ Row \subseteq DOMAIN Host /\ \A r \in Row : Host[r] \in Nat \X Nat
  /\ {Workers, PerHost} \subseteq Nat \ {0}
  /\ Completed \subseteq Row
  /\ Outcomes \subseteq {"SUCCESS", "WARNINGS", "PARTIAL", "FAILED", "STALE"}
  /\ Hangs \subseteq {"greeting", "work"}
  /\ {SkipCompleted, Slow, Patient, InTheGap} \subseteq BOOLEAN
  /\ {MaxLoss, MaxHang, MaxPause, MaxRequeue} \subseteq Nat

VARIABLES
  main,    \* where RunMigrationBus is
  ctx,     \* the context is cancelled
  go,      \* the goroutines of runOne, in the order they were started
  slots,   \* len(slots)
  places,  \* places[h]: len(h.sems[host])
  reg,     \* reg[r]: the goroutine whose runner the registry has, 0 if none
  lease,   \* the rows whose lease this process holds
  spec,    \* specByLabel: the index of every row that is known
  board,   \* Stats.Mailboxes: index -> label and status
  paused,  \* bus.Paused
  alarm,   \* the timer of escalate
  counts,  \* the statuses RunResult.Counts was made of
  budget

vars == <<main, ctx, go, slots, places, reg, lease, spec, board, paused, alarm,
          counts, budget>>

control == <<main, ctx, spec, paused, alarm, counts>>

Retryable == {"FAILED", "PARTIAL", "STALE"}
Statuses == {"QUEUED", "SKIPPED", "RUNNING", "RETRYING", "CANCELLED", "SUCCESS",
             "WARNINGS"} \union Retryable

-------------------------------------------------------------------------------
(***************************************************************************)
(* Goroutines.                                                             *)
(***************************************************************************)

Goroutine(r, i) == [row |-> r, idx |-> i, at |-> "queued", link |-> "none",
                    silent |-> FALSE]

InState(states) == {g \in DOMAIN go : go[g].at \in states}

\* The wait group: what was added and is not done.
Unfinished == {g \in DOMAIN go : go[g].at # "gone"}

\* The runner of g is in Run.
Running == {"opening", "work", "last", "backoff"}

\* What Stats.Mailbox finds under an index, or makes there.
Entry(b, i, r) ==
  [j \in DOMAIN b \union {i} |-> IF j \in DOMAIN b THEN b[j] ELSE [label |-> r, status |-> "QUEUED"]]

\* The status of g is shown under the index of its row.
Show(g, s) == board' = [Entry(board, go[g].idx, go[g].row)
                          EXCEPT ![go[g].idx].status = s]

Move(g, place) == go' = [go EXCEPT ![g].at = place]

\* Mutant: the places are taken in the order source, destination.
InOrder(r) == Host[r]

\* acquirePair: the order in which a goroutine takes its places.
Sorted(r) == IF Host[r][2] < Host[r][1] THEN <<Host[r][2], Host[r][1]>> ELSE Host[r]

\* runOne: it waits for a slot.
TakeSlot(g) ==
  /\ go[g].at = "queued"
  /\ slots < Workers
  /\ slots' = slots + 1
  /\ Move(g, "slot")
  /\ UNCHANGED <<places, reg, lease, board, budget, control>>

\* Whoever waits for a slot when the run is cancelled, leaves.
CancelQueued(g) ==
  /\ go[g].at = "queued"
  /\ ctx
  /\ Show(g, "CANCELLED")
  /\ Move(g, "gone")
  /\ UNCHANGED <<slots, places, reg, lease, budget, control>>

\* The context is looked at once more, then come the hosts.
CheckCancelled(g) ==
  /\ go[g].at = "slot"
  /\ IF ctx
     THEN Show(g, "CANCELLED") /\ Move(g, "gone") /\ slots' = slots - 1
     ELSE Move(g, "first") /\ UNCHANGED <<board, slots>>
  /\ UNCHANGED <<places, reg, lease, budget, control>>

\* acquirePair takes one place, then the other.
TakePlace(g) ==
  LET h == Sorted(go[g].row)[IF go[g].at = "first" THEN 1 ELSE 2]
  IN /\ go[g].at \in {"first", "second"}
     /\ places[h] < PerHost
     /\ places' = [places EXCEPT ![h] = @ + 1]
     /\ Move(g, IF go[g].at = "first" THEN "second" ELSE "ready")
     /\ UNCHANGED <<slots, reg, lease, board, budget, control>>

\* Mutant: the first place is not given back.
GivenUpNone(g) == {}

\* What a goroutine that gives up has taken.
GivenUp(g) == IF go[g].at = "second" THEN {Sorted(go[g].row)[1]} ELSE {}

\* acquirePair gives up when the run is cancelled.
LeaveHosts(g) ==
  /\ go[g].at \in {"first", "second"}
  /\ ctx
  /\ places' = [h \in Hosts |-> IF h \in GivenUp(g) THEN places[h] - 1 ELSE places[h]]
  /\ slots' = slots - 1
  /\ Show(g, "CANCELLED")
  /\ Move(g, "gone")
  /\ UNCHANGED <<reg, lease, budget, control>>

\* The runner is registered and Run claims the mailbox: TryLease refuses only
\* the lease of another process.  Once the database is closed it ends at once, and
\* leaves the mailbox with the status it has: QUEUED, if a reload has only now added it.
StartRunner(g) ==
  /\ go[g].at = "ready"
  /\ IF main = "returned"
     THEN /\ reg' = [reg EXCEPT ![go[g].row] = 0]
          /\ Move(g, "release")
          /\ board' = Entry(board, go[g].idx, go[g].row)
          /\ UNCHANGED lease
     ELSE /\ reg' = [reg EXCEPT ![go[g].row] = g]
          /\ Move(g, "opening")
          /\ lease' = lease \union {go[g].row}
          /\ Show(g, "RUNNING")
  /\ UNCHANGED <<slots, places, budget, control>>

\* Run has its status, and shows it.
Ends(g, s) ==
  /\ Show(g, s)
  /\ go' = [go EXCEPT ![g].at = "finish", ![g].link = "none", ![g].silent = FALSE]

\* openPair makes the clients; that the run is cancelled it does not ask.
Dial(g) ==
  /\ go[g].at = "opening" /\ go[g].link = "none"
  /\ go' = [go EXCEPT ![g].link = "dialing"]
  /\ UNCHANGED <<slots, places, reg, lease, board, budget, control>>

\* Connected, and waiting for the greeting; "deaf" is a client that was closed
\* before it had a connection to close.
Dialed(g) ==
  /\ go[g].link \in {"dialing", "closed dialing"}
  /\ go' = [go EXCEPT ![g].link = IF @ = "dialing" THEN "greeting" ELSE "deaf"]
  /\ UNCHANGED <<slots, places, reg, lease, board, budget, control>>

\* Greeted and logged in: the attempt looks whether it is to go on.
Greeted(g) ==
  /\ go[g].link = "greeting" /\ ~go[g].silent
  /\ IF ctx THEN Ends(g, "CANCELLED")
     ELSE /\ go' = [go EXCEPT ![g].link = "open", ![g].at = "work"]
          /\ UNCHANGED board
  /\ UNCHANGED <<slots, places, reg, lease, budget, control>>

\* The pair is gone, or its client finds itself closed: the attempt fails, and
\* is repeated after a pause unless the run is cancelled.
LoseLink(g) ==
  /\ go[g].at # "last"
  /\ \/ go[g].link = "closed"
     \/ go[g].link = "deaf" /\ ~go[g].silent
  /\ IF ctx THEN Ends(g, "CANCELLED")
     ELSE /\ go' = [go EXCEPT ![g].at = "backoff", ![g].link = "none", ![g].silent = FALSE]
          /\ Show(g, "RETRYING")
  /\ UNCHANGED <<slots, places, reg, lease, budget, control>>

\* sleepInterruptible.
Backoff(g) ==
  /\ go[g].at = "backoff"
  /\ IF ctx THEN Ends(g, "CANCELLED")
     ELSE Move(g, "opening") /\ Show(g, "RUNNING")
  /\ UNCHANGED <<slots, places, reg, lease, budget, control>>

\* The gate of a pause, between folders and between messages.
Held(g) == paused /\ ~ctx

\* Through the gate, and up to the end of the last folder.
Gate(g) ==
  /\ go[g].at = "work" /\ go[g].link = "open" /\ ~go[g].silent
  /\ ~Held(g)
  /\ Move(g, "last")
  /\ UNCHANGED <<slots, places, reg, lease, board, budget, control>>

\* The end of the attempt.
EndWork(g) ==
  /\ go[g].at = "last"
  /\ IF ctx THEN Ends(g, "CANCELLED") ELSE \E s \in Outcomes : Ends(g, s)
  /\ UNCHANGED <<slots, places, reg, lease, budget, control>>

\* A transfer that stays silent for cfg.Timeout is closed; a greeting is not
\* watched.
Watchdog(g) ==
  /\ go[g].at = "work" /\ go[g].link = "open" /\ go[g].silent
  /\ go' = [go EXCEPT ![g].link = "closed"]
  /\ UNCHANGED <<slots, places, reg, lease, board, budget, control>>

\* Run clears the lease on its way out, runOne the registry.
Unregister(g) ==
  /\ go[g].at = "finish"
  /\ lease' = lease \ {go[g].row}
  /\ reg' = [reg EXCEPT ![go[g].row] = 0]
  /\ Move(g, "release")
  /\ UNCHANGED <<slots, places, board, budget, control>>

\* Its deferred calls: the places, the slot, wg.Done.
Release(g) ==
  /\ go[g].at = "release"
  /\ places' = [h \in Hosts |-> places[h] - Cardinality({k \in 1..2 : Host[go[g].row][k] = h})]
  /\ slots' = slots - 1
  /\ Move(g, "gone")
  /\ UNCHANGED <<reg, lease, board, budget, control>>

Step(g) ==
  \/ TakeSlot(g) \/ CancelQueued(g) \/ CheckCancelled(g)
  \/ TakePlace(g) \/ LeaveHosts(g) \/ StartRunner(g)
  \/ Dial(g) \/ Dialed(g) \/ Greeted(g) \/ LoseLink(g) \/ Backoff(g)
  \/ Gate(g) \/ EndWork(g) \/ Watchdog(g)
  \/ Unregister(g) \/ Release(g)

-------------------------------------------------------------------------------
(***************************************************************************)
(* The servers.                                                            *)
(***************************************************************************)

\* A dial fails, a connection is lost.
Lose(g) ==
  /\ go[g].link \in {"dialing", "closed dialing", "greeting", "open"}
  /\ go[g].at # "last"
  /\ budget.loss > 0
  /\ budget' = [budget EXCEPT !.loss = @ - 1]
  /\ go' = [go EXCEPT ![g].link = "closed"]
  /\ UNCHANGED <<slots, places, reg, lease, board, control>>

\* A server falls silent.
Hang(g) ==
  /\ \/ go[g].link \in {"greeting", "deaf"} /\ "greeting" \in Hangs
     \/ go[g].link = "open" /\ go[g].at = "work" /\ "work" \in Hangs
  /\ ~go[g].silent
  /\ budget.hang > 0
  /\ budget' = [budget EXCEPT !.hang = @ - 1]
  /\ go' = [go EXCEPT ![g].silent = TRUE]
  /\ UNCHANGED <<slots, places, reg, lease, board, control>>

-------------------------------------------------------------------------------
(***************************************************************************)
(* RunMigrationBus.                                                        *)
(***************************************************************************)

Init ==
  /\ main = "opening"
  /\ ctx = FALSE
  /\ go = <<>>
  /\ slots = 0 /\ places = [h \in Hosts |-> 0]
  /\ reg = [r \in Row |-> 0]
  /\ lease = {}
  /\ spec = <<>> /\ board = <<>>
  /\ paused = FALSE
  /\ alarm = "off"
  /\ counts = {}
  /\ budget = [loss |-> MaxLoss, hang |-> MaxHang, pause |-> MaxPause,
               requeue |-> MaxRequeue, reload |-> 1]

\* The numbers of a set, in ascending order: what a loop with a "continue" visits.
Ascending(S) ==
  [k \in 1..Cardinality(S) |-> CHOOSE i \in S : Cardinality({j \in S : j <= i}) = k]

\* What was finished by an earlier run.
Skipped(r) == SkipCompleted /\ r \in Completed

\* The rows are entered and admitted, those that are finished only entered.
Admit ==
  LET pending == Ascending({i \in DOMAIN Csv : ~Skipped(Csv[i])})
  IN /\ main = "opening"
     /\ main' = "admitted"
     /\ spec' = [r \in ToSet(Csv) |-> CHOOSE i \in DOMAIN Csv : Csv[i] = r]
     /\ board' = [i \in DOMAIN Csv |->
          [label |-> Csv[i], status |-> IF Skipped(Csv[i]) THEN "SKIPPED" ELSE "QUEUED"]]
     /\ go' = [k \in DOMAIN pending |-> Goroutine(Csv[pending[k]], pending[k])]
     /\ UNCHANGED <<ctx, slots, places, reg, lease, paused, alarm, counts, budget>>

\* UpsertMailbox fails: the run ends before anybody was admitted.
AdmitFails ==
  /\ main = "opening"
  /\ main' = "failed"
  /\ UNCHANGED <<ctx, go, slots, places, reg, lease, spec, board, paused, alarm,
                 counts, budget>>

\* SetAborter, SetRequeue, SetReloader.
InstallHooks ==
  /\ main = "admitted"
  /\ main' = "waiting"
  /\ UNCHANGED <<ctx, go, slots, places, reg, lease, spec, board, paused, alarm,
                 counts, budget>>

\* The engine has returned: done is closed.
Over == main \in {"returned", "failed"}

Hooked == main \in {"waiting", "drained", "ended", "returned"}

\* The goroutine that waits for the group closes done; the wait loop sees it.
SeeDone ==
  /\ main = "waiting"
  /\ Unfinished = {}
  /\ main' = "drained"
  /\ UNCHANGED <<ctx, go, slots, places, reg, lease, spec, board, paused, alarm,
                 counts, budget>>

\* Mutant: that done is closed is enough.
AllDoneOnce == TRUE

\* wg.Wait, once more, after the wait loop.
AllDone == Unfinished = {}

\* The results are drawn up ...
EndRun ==
  /\ main = "drained"
  /\ AllDone
  /\ main' = "ended"
  /\ counts' = {board[i].status : i \in DOMAIN board}
  /\ UNCHANGED <<ctx, go, slots, places, reg, lease, spec, board, paused, alarm, budget>>

\* ... and the database is closed.
Return ==
  /\ main = "ended"
  /\ main' = "returned"
  /\ UNCHANGED <<ctx, go, slots, places, reg, lease, spec, board, paused, alarm,
                 counts, budget>>

-------------------------------------------------------------------------------
(***************************************************************************)
(* What an operator can do, from any console.                              *)
(***************************************************************************)

\* TogglePause.
TogglePause ==
  /\ budget.pause > 0
  /\ paused' = ~paused
  /\ budget' = [budget EXCEPT !.pause = @ - 1]
  /\ UNCHANGED <<main, ctx, go, slots, places, reg, lease, spec, board, alarm, counts>>

\* Mutant: the registry of runners is not asked.
IdleUnasked(r) == TRUE

\* reg.Get(label) = nil.
Idle(r) == reg[r] = 0

\* The entries RequeueFailed admits again, in the order of the board.
Again(labels) ==
  Ascending({i \in DOMAIN board : /\ board[i].status \in Retryable
                                  /\ board[i].label \in labels \intersect DOMAIN spec
                                  /\ Idle(board[i].label)})

\* RequeueFailed: one label or all; the console never needs it to wait.
Requeue(labels) ==
  LET entries == Again(labels)
  IN /\ Hooked
     /\ InTheGap \/ main # "ended"
     /\ Patient => \A g \in InState({"queued", "slot", "first", "second", "ready"}) :
                     go[g].row \notin {board[i].label : i \in ToSet(entries)}
     /\ entries # <<>>
     /\ budget.requeue > 0
     /\ budget' = [budget EXCEPT !.requeue = @ - 1]
     /\ go' = go \o [k \in DOMAIN entries |->
                       LET r == board[entries[k]].label IN Goroutine(r, spec[r])]
     /\ UNCHANGED <<slots, places, reg, lease, board, control>>

\* Mutant: new rows are numbered from the rows that were admitted.
NewIndexFromAdmitted(k, known) == Len(go) + k

\* The index a reload gives to the k-th row it adds; the table of the known rows
\* has grown by the rows before it.
NewIndex(k, known) == (Cardinality(DOMAIN known) + k - 1) + (k - 1) + 1

\* ReloadCSV: rows that are not known yet are admitted.
Reload ==
  LET rows == Grown[budget.reload]
      fresh == Ascending({i \in DOMAIN rows : rows[i] \notin DOMAIN spec})
      new == [k \in DOMAIN fresh |-> rows[fresh[k]]]
      index == [k \in DOMAIN new |-> NewIndex(k, spec)]
  IN /\ Hooked
     /\ InTheGap \/ main # "ended"
     /\ budget.reload \in DOMAIN Grown
     /\ budget' = [budget EXCEPT !.reload = @ + 1]
     /\ spec' = [r \in DOMAIN spec \union ToSet(new) |->
                  IF r \in DOMAIN spec THEN spec[r]
                  ELSE index[CHOOSE k \in DOMAIN new : new[k] = r]]
     /\ go' = go \o [k \in DOMAIN new |-> Goroutine(new[k], index[k])]
     /\ UNCHANGED <<main, ctx, slots, places, reg, lease, board, paused, alarm, counts>>

\* Mutant: a runner that waits to be greeted is left alone.
CutWhenOpen(link) == IF link = "open" THEN "closed" ELSE link

\* Client.Abort: there may be no connection yet that could be closed.
Cut(link) == CASE link \in {"greeting", "open"} -> "closed"
               [] link = "dialing" -> "closed dialing"
               [] OTHER -> link

\* AbortAllConnections: every runner in the registry.
AbortAll ==
  go' = [g \in DOMAIN go |-> IF Hooked /\ reg[go[g].row] = g
                             THEN [go[g] EXCEPT !.link = Cut(@)] ELSE go[g]]

\* The first Ctrl+C or SIGTERM: cancel, and a timer of six seconds.
Interrupt ==
  /\ ctx' = TRUE
  /\ alarm' = "set"
  /\ UNCHANGED <<main, go, slots, places, reg, lease, spec, board, paused, counts, budget>>

\* SIGHUP under the TUI cancels and sets no timer.
Hangup ==
  /\ ctx' = TRUE
  /\ UNCHANGED <<main, go, slots, places, reg, lease, spec, board, paused, alarm,
                 counts, budget>>

\* On its way to a connection: what takes longer than a dial has no part in it.
Starting(g) == \/ go[g].at \in {"queued", "slot", "first", "second", "ready"}
               \/ go[g].at = "opening" /\ go[g].link \in {"none", "dialing"}

\* escalate: whoever has not unwound in time loses its connections.
Escalate ==
  /\ alarm = "set"
  /\ Slow \/ ((Hooked \/ Over) /\ ~\E g \in DOMAIN go : Starting(g))
  /\ alarm' = "gone"
  /\ IF Over THEN go' = go ELSE AbortAll
  /\ UNCHANGED <<main, ctx, slots, places, reg, lease, spec, board, paused, counts, budget>>

\* The second Ctrl+C; the process is gone shortly after it.
HardStop ==
  /\ ctx' = TRUE
  /\ AbortAll
  /\ UNCHANGED <<main, slots, places, reg, lease, spec, board, paused, alarm, counts, budget>>
===============================================================================
