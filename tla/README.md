# MailFerry in TLA+

MailFerry copies IMAP mailboxes from one server to another. It keeps what it
knows about every message in a SQLite file, the State Database, so that a run
can be interrupted anywhere and started again without losing or duplicating
mail, and so that several processes can share one migration. This directory
specifies the parts of the program these promises rest on, checks them with TLC
on small instances, and proves the central results with TLAPS for instances of
any size.

    tlc -config FolderSyncCuts.cfg MCFolderSync      # a run of the folder sync
    tlc -config DedupReruns.cfg MCDedup              # a run of the deduplication
    tlapm FolderSyncProofs.tla                       # the proofs
    tlapm ClusterProofs.tla
    tlapm DedupProofs.tla
    tlapm ConsoleProofs.tla
    tlapm RecoveryProofs.tla
    tlapm FlagSyncProofs.tla
    tlapm TransferProofs.tla
    tlapm TransferCopyProofs.tla

`PROJECT.json` lists the components, the runs, the mutants (changes of a
definition that must break a property), the source lines each definition stands
for, and the hazards.

## The system

| Component | State it keeps | Operations | Talks to |
| --- | --- | --- | --- |
| folder sync (`engine/folder.go`) | locals of one `run`: fetch window, pending APPENDs, acknowledged batch; `poisonRec` across reconnects | select, reconcile, scan, adopt, transfer, isolate, record failures, finalize | State Database, both IMAP connections, Bus |
| State Database (`state/db.go`, `state/ops.go`) | tables mailboxes, folders, messages, failed_messages, run_ranges, workers | one transaction per operation but for a few (TryLease, SetFailedStatus), serialised by a mutex in one process and by SQLite between processes | everything |
| leases and workers (`db.go`, `cluster.go`, `mailbox.go`) | lease owner and time of a mailbox, heartbeat of a worker | TryLease, RefreshLease, ForceLease, ClearLease, heartbeat, deregister; the cluster monitor's watch list | mailbox runner, scheduler |
| mailbox runner (`mailbox.go`) | connection pair, attempt, lease flag | attempts with backoff, reconnect loop per folder, kick and abort | folder sync, leases, Bus |
| scheduler (`scheduler.go`) | worker slots, host semaphores, wait group, table of known rows | admit, requeue, reload, wait for peers, finish | runner, monitor, supervisor, console |
| stale supervisor (`recovery.go`) | a watch per mailbox: last progress, kicks, episode | observe, kick, hint, give up | Registry, Bus, runner |
| isolation ladder (`folder.go`, `recovery.go`) | suspects, ladder, counts per UID | note loss, split, probe, give up | folder sync |
| IMAP client (`imapx/client.go`) | pending commands, body FIFO, counters | pipelined commands, streamed FETCH and APPEND, watchdog, abort | folder sync, dedup |
| IMAP syntax (`imapx/parser.go`, `mutf7.go`) | none | tokens of a line, attributes, numbers; folder names to and from the wire | IMAP client |
| folder planner (`planner.go`), date window (`config/daterange.go`) | the stored window (run_ranges) | roles, mapping, filters, order, collisions; resolve, store and apply the window | runner, folder sync |
| UID intervals (`util.go`) | none | merge, subtract, split into command lines | folder sync |
| bus, console, shutdown (`bus.go`, `main.go`, `tui/`) | pause, the timer of a shutdown, the views | pause, requeue, reload, Ctrl+C, SIGHUP, exit status | scheduler, runner |
| deduplication (`engine/dedup.go`, `state/dedup.go`) | table dedup_state | scan, plan, move, record, resume | IMAP client, leases |
| registry commands (`main.go`) | table failed_messages | list, ignore, retry | State Database |
| statistics (`stats.go`) | counters per mailbox | count, reconcile, publish | all, display |

The views of the terminal interface, reports, the configuration files, the
account check, read-only attach and platform support hold no migration state and
are not modelled (see "Not modelled").

### What is hard, and what makes each part correct

* *Folder sync.* An APPEND whose answer is lost may or may not have been
  executed; the process may die between any two transactions; folders may be
  renumbered between runs; the operator's commands and the supervisor's kicks
  come at any moment. Correct means: no row is confirmed whose mail is not on
  the destination, no content arrives twice, no two rows are confirmed by one
  message, everything settles.
* *Leases.* Several processes share the database and judge each other by
  heartbeats that may merely be late. Correct means: at most one process works
  on a mailbox, and a mailbox whose owner died is taken over.
* *Scheduler and console.* Slots, host places, requeue, reload, the wait loop and
  a shutdown that escalates interleave. Correct means: no deadlock, one runner per
  mailbox, no place lost, final results, and Ctrl+C always ends the process.
* *Supervisor and ladder.* Correct means: a poison message is isolated after a
  bounded number of losses, the others get through, nothing innocent is given up,
  and the mailbox comes to an end.
* *IMAP client.* Answers are matched to commands by tag, bodies to fetches by
  order. Correct means: no body reaches the wrong message, every waiter is
  released when the connection dies.
* *Selection.* Window, plan and names are computed anew in every session from
  flags, clocks and servers that may have changed. Correct means: what is
  recorded is what the one stored window takes, no folder is lost, merged with
  another or moved elsewhere.
* *Deduplication.* Progress outlives a run, other processes overlap it. Correct
  means: no message loses its last copy, and every duplicate goes in the end.
* *Flags.* A STORE and the record of it are two steps, servers list flags as they
  like, and the owner of the destination sets flags too. Correct means: what the
  source changed arrives, and nothing else is overwritten.
* *Statistics.* Correct means: the counters shown add up on every resume.

## The modules

| Module | What it is |
| --- | --- |
| `FolderSync` | one folder of one mailbox: sessions, database rows, both folders, the connection |
| `Delivery` | what the migration of a folder promises, without any of these; `FolderSync` implements it |
| `Cluster` | several worker processes over one database: the life of a lease, of a worker and of a mailbox's run |
| `ImapServer` | the server's end of an IMAP connection |
| `ImapClient` | the client: commands, reader, bodies, watchdog, Abort; extends `ImapServer` |
| `Transfer` | the life of a pair of connections and one pass over it; extends `ImapClient` |
| `Recovery` | attempts, reconnects, the isolation ladder, the stale supervisor and the counters |
| `Scheduler` | the batch of one process: slots, host places, requeue, reload, stop |
| `Console` | the terminal interface and the process around the scheduler; extends `Scheduler` |
| `Dedup` | `mailferry dedup --execute` by several processes |
| `FlagSync` | the flags of one folder under `--sync-flags`: scan, APPEND, `syncFlagsPass`, the owners of both mailboxes |
| `Syntax` | IMAP lines and folder names, as operators over glyphs |
| `Intervals` | sets of UIDs as intervals, in W-bit arithmetic |
| `Planner` | from the folders of the source to their names at the destination; extends `Syntax` |
| `Selection` | window, plan and scan in every session; extends `Planner` and `Intervals` |
| `MC...` | instances of these for TLC |
| `FolderSyncProofs` | theorems about `FolderSync`: types, that what is confirmed is delivered, the rows through a session, nothing twice, and the refinement of `Delivery` |
| `ClusterProofs`, `DedupProofs`, `ConsoleProofs`, `RecoveryProofs`, `FlagSyncProofs`, `TransferProofs` | theorems about `Cluster`, `Dedup`, `Scheduler` with `Console`, `Recovery`, `FlagSync`, and `Transfer` with `ImapClient` and `ImapServer` |
| `TransferCopyProofs` | that what `Transfer` stores is what it fetched; extends `TransferProofs` |

The modules are views of one program that meet at their borders and share no
variables. `FolderSync` takes for granted that it is alone on its mailbox, which
is what `Cluster` establishes (`AtMostOneWorks`); what `Cluster` calls "sync" is a
sequence of sessions of `FolderSync`. The open choices of `FolderSync` (which
rows the ladder tries, when losses put them there) are made in `Recovery`, what
happens to the bytes of its APPENDs in `Transfer`, which messages its scan
records in `Selection`. The runner that `Scheduler` starts and stops is the one
`Recovery` drives.

### FolderSync

A *session* is one call of `folderSyncer.run`. `pc` is the place in it, and
"idle" when no session runs; `OpenFolder` starts one from what the database
holds, as do `syncFolderWithReconnect`, the next attempt and the next invocation
of the program. Every database transaction, every answer of a server and every
decision between two of them is an action:

| `pc` | Actions | Code |
| --- | --- | --- |
| idle | `OpenFolder` | SELECT, FolderRow, source UIDVALIDITY (`folder.go` 94-116) |
| status | `StatusDst` | destination STATUS and UIDVALIDITY (118-162) |
| reconcile, readopt, replan | `ReconcileScan`, `ReconcileAdopt`, `ReconcileReplan` | `reconcileInflight` (460-540) |
| scan, insert | `ScanSource`, `InsertChunk`, `RecordSource` | the source scan, chunk by chunk (164-220) |
| adopt, confirm, record, bracket | `AdoptScan`, `AdoptConfirm`, `RecordDst`, `RecordBracket` | adoption and the bracket (222-269) |
| transfer, ladder | `TakeHint`, `StartBatch`, `StartIsolation`, `LeaveIsolation` | `transfer`, `isolationPhase` |
| pass | `MarkIntent`, `Stream`, `Settle`, `TimedFlush`, `EndPass` | `transferPass` (596-769) |
| fail, recover, finalize | `RecordFailed`, `MarkFailed`, `AfterFailures`, `MarkRecoveries`, `Finalize` | `permanentFail` and the end of `run` |

`wire[u]` is the fate of the APPEND of row u: not sent, sent, answered OK with a
destination UID, answered NO, or cut by a kick. `batch` is `doneBatch`; MarkDone
is one transaction, as in the code. The environment loses the connection, kicks,
stops or kills the process at any place, renumbers or recreates folders between
sessions, and runs `retry-failed`, `failed --ignore` and `compact`. A `retry-failed` is
several statements of another process (`command`): it reads the entries
(`RetryFailed`), marks those that match by then (`MarkPending`), plans the rows of
those it had read one by one (`Replan`), and may be killed between any two
(`CommandEnds`). An APPEND that
was on a lost connection is in `limbo`: the destination executes it before the
next session looks, or never, or, with `LateCommit`, even later.

Abstractions: a message is its UID and a content; a fingerprint is a function of
the content. Which suspects the ladder tries next, and when losses put rows on
it, is left open, so the model allows every order the code may choose (`Recovery`
makes these choices). The date range is in `Selection`, flags are in `FlagSync`.

### Cluster

`at[w][m]` is what worker w is doing with mailbox m. The code never has runner
and monitor of one worker on one mailbox at the same time, so one variable
serves both:

| `at` | Actions | Code |
| --- | --- | --- |
| queued | `TryLease`, `Refused`, `Skip` | `runOne`, the first part of `Run` (`mailbox.go` 150-167) |
| claim | `Claim` | the UPDATE of `TryLease` on what its SELECT read (`db.go` 234-240) |
| held, condemned, reclaim | `JudgeOwner`, `ReadLease`, `Reclaim` | the owner's heartbeat, ReadLease, ForceLease (167-181) |
| start, connect, backoff, sync | `Begin`, `OpenPair`, `FailAttempt`, `Retry`, `Trouble` | attempts and reconnects (231-293, 543-616) |
| kicked | `LeaveDisplaced`, `Finish` | the pair was closed because the lease is lost |
| release | `Release` | the deferred ClearLease |
| remote, watched | `Watch`, `MonitorLook` | REMOTE, and an entry of the cluster monitor |
| looked, doomed, popped | `MonitorFinished`, `MonitorReleased`, `MonitorJudge`, `MonitorReclaim`, `Respawn` | one entry of the monitor's loop (`cluster.go` 98-172) |

Time is abstracted to the thresholds the code compares with: a heartbeat is
fresh or late (`--worker-timeout`), a lease fresh, old (150 s) or expired
(`--lock-timeout`). A worker that is awake heartbeats and refreshes every 15 s
and stays below all of them; one that sleeps, or whose process is dead, does
not. The time stamp that ForceLease compares is abstracted to `readers[m]`: the
workers whose last read of the lease is still what is stored. `proc[w]` is the
stage of RunMigrationBus: first runs under way, standing by for the mailboxes of
others, waiting for the last runs, left. Statuses are grouped (WARNINGS with
SUCCESS, PARTIAL and STALE with FAILED), except where the code tells them apart.

A restarted process has a new worker id and is another member of Worker. Slots,
host places and requeue are in `Scheduler`.

### ImapServer, ImapClient, Transfer

One life of a mailbox's pair of connections, from the greeting to the end of
`closePair`. `up[k]` and `down[k]` are the bytes under way on connection k as a
sequence of lines, chunks of literals and line ends, each marked with whether it
went through the deflate stream. `srv[k]` is what the goroutine of the test server
(`fakeimap/server.go`) knows, with the faults that server can be told to show;
`cli[k]` is a `Client`; `body[m]` a `BodyHandle`.

| Where | Actions | Code |
| --- | --- | --- |
| server | `Serve`: `ServeLine`, `RefuseLine`, `ServeAppend`, `ServeLiteral`, `ServeBody`, `RefuseBody`; `Trouble`: `Cut`, `Stall`; `Vanish` | `server.go` 303-643 |
| opening | `Open`: greeting, `Starttls`, `StarttlsDone`, `StartReader`, `Ask`, `Answered`, `OpenFails` | `Connect`, `Login`, `StartCompress` |
| reader | `ReadResponse`, `ReadChunk`, `EndLiteral`, `ReadEof` | `readerLoop`, `route`, `streamLiteral` |
| Abort | `Abort` and, later, `TellWaiters`: pending commands and bodies in one step each | `client.go` 1013-1047 |
| watchdog, supervisor | `Watchdog`, `Kick`, `KickOne`, `Pass` (time) | `watchdog`, `KickConnections` |
| the pass | `Select`, `StartMore`, `Filled`, `WaitSize`, `Begin`, `Continue`, `StreamChunk`, `StreamEnds`, `Finish`, `Room`, `SettleOne`, `Drain`, `ClosePair`, `LoggedOut` | `transferPass`, `drainBody`, `closePair` |

A chunk is 64 KiB of a body; a body has none, one or two. Time passes only while
every goroutine waits for a server (`Time`), because a timeout is long against
everything a process does. The two openers share nothing and are made to run one
after the other. SASL and the trace are left out.

### Recovery

`pc` is the place of the runner's goroutine from `connect` to the end of the
mailbox, `run` the `MailboxRunner`, `rec` the `poisonRec`, `pass` the locals of a
`transferPass`, `count` the `MBValues` of the dashboard, `watch` what the
supervisor remembers.

| Part | Actions | Code |
| --- | --- | --- |
| attempts | `OpenPair`, `Ready`, `FailAttempt`, `Retry`, `EndMailbox` | `mailbox.go` 231-293, 399-507 |
| reconnects | `Trouble`, with `Blamed` (noteTransportLoss) and `FreeOfCharge` | `mailbox.go` 543-616, `folder.go` 836-908 |
| a session | `Reconcile`, `RefreshTotals`, `OpenFolder`, `OpenFolderFails`, `StartPass`, `Fill`, `Take`, `Body`, `AppendItem`, `SettleOne`, `Room`, `Complete`, `MainPassEnds` | `folderSyncer.run`, `transferPass` |
| the ladder | `StartEntry`, `LadderPassEnds`, `PassBreaks`, `LeaveLadder`, with `Climbed`, `Tried`, `GivenUp`, `Noted` | `isolationPhase`, `permanentFail`, `notePass` |
| supervisor | `Observe`, `Elapse`, `Act` (reconnect, Recovery Mode, exhausted) | `recovery.go` 172-313 |
| around | `Serve`, `CutDst`, `CutSrc`, `WatchdogSrc`, `WatchdogDst`, `TogglePause`, `Requeue` | server, network, `bus.go` |

A message has a kind: the destination takes it, refuses it, drops the connection
at it, or falls silent at it. What the database records is `FolderSync`'s matter
and appears here as `row`; an answer counts at once, but its row waits in `pass.batch`
(`doneBatch`) until that is flushed. Between `Reconcile` and `RefreshTotals` the
session asks the source, which may fail, so `count` and `row` may part there.

### Scheduler and Console

`go` is the sequence of the goroutines of `runOne`, each with its place: waiting
for a slot, for the first or the second host, opening, working, in backoff, at its
end. `main` is the place of `RunMigrationBus`, `board` the entries of
`Stats.Mailboxes`, `reg` the registry of runners, `spec` the table of known rows.
`Console` adds the process: with a terminal (the keys, the shutdown dialog,
`doneMsg` and its phases) or without (signals), and the exit status. Of the ten
views those are told apart whose keys reach the engine. The mapping of actions to
lines is in `PROJECT.json`; their names are those of the functions
(`TakeSlot`, `TakePlace`, `StartRunner`, `Requeue`, `Reload`, `EndRun`,
`Escalate`, `HardStop`, `Interrupt`, `CtrlC`, `DoneMsg`, `LeaveUnfinished`).

`Patient`, `InTheGap` and `Slow` name the cases in which the code does not do what
its comments promise (below); the runs exclude them.

### Dedup

Every process p runs `dedup --execute` on the mailbox: `pc[p]` is its place in
`quarantineFolder`, `at[p]` the folder, `todo[p]` the duplicates of it that are left, taken in the order
of the report (`This`). `box[m]` is
what the folder shows of message m, `copies[m]` how often it is in quarantine,
`rows[m]` its row in `dedup_state`. `UIDMove`, `UIDCopy`, `UIDStore` are executed
by the server or not, and their answer arrives or is lost; `Plan` and `Record` are
database transactions. Around them a migration takes the lease and delivers
(`MigrationStarts`, `Arrive`), connections break, processes die, and the owner
restores or compacts (`Owner`).

### FlagSync

`have[u]` are the flags of a source message and `box[u]` those of its copy, as
sets; `row[u].flags` is the list that a server or the code wrote, because the
order of it and \Recent are what `canonFlags` must see through. A session records
new messages with their flags (`Scan`), adopts or appends what is planned (`Adopt`,
`Copy`, `folder.go` 178-214, 36-46), and ends with `syncFlagsPass` (376-456):
`FetchFlags` compares what the source says with the rows, then each change is a
STORE at the destination (`Store`, or `StoreFails`) and, as a step of its own, an
UPDATE of the row (`UpdateFlags`, `ops.go` 141-148). `Cut` ends a session between
any two of them. `SourceChanges` and `OwnerChanges` are mail clients. `news` and
`mirror` are history variables: which messages have changed since their row was
written, and whose flags mailferry was the last to set. How a message is
transferred, and when its row learns the UID of the copy, is `FolderSync`.

### Syntax, Intervals, Planner, Selection

`Syntax`, `Intervals` and `Planner` are operators. A text is a sequence of glyphs,
a glyph a character the grammar knows or a word without one, so that quoting,
brackets, literals, numbers and modified UTF-7 are what the code makes of them.
UIDs have W bits and wrap around as in the code. `Selection` is the state
machine that uses them: a process resolves its flags in its own time zone, stores
or loads the window (`Start`, `Load`), takes the lease and builds the plan from
what LIST, NAMESPACE and STATUS say (`Enter`), opens one folder after the other
(`OpenFolder`: SEARCH, `IntervalsDiff` with what is known), fetches set after set
(`FetchSet`: UIDFetchMeta, the window, INSERT OR IGNORE) and goes on; it may be
killed at any place, and mail arrives and goes. An instant counts half seconds,
so that whole seconds are told from fractions.

## The runs

| Run | Instance | Shows |
| --- | --- | --- |
| `folder_cuts` | 3 messages, windows 2 and 2, 2 passes, 1 refusable message, 2 cuts | interrupted sessions implement `Delivery`; every open APPEND has its intent row (`IntentCoversAppend`); what reached the destination unconfirmed is found again (`DeliveredIsCovered`); DONE means complete; everything settles |
| `folder_churn` | 2 messages, one renumbering of each side, 1 cut, destination not empty | rows of an old numbering are verified again, never trusted and never copied blindly |
| `folder_operator` | 2 messages, 2 commands (retry-failed of the folder or of one UID, or failed --ignore), 1 compact, 1 kick, 1 cut of a session or of a command, online, neither UIDPLUS nor LITERAL+ | no failed row is out of reach of retry-failed, whatever a session, a command or its half did before |
| `cluster_takeover` | 3 workers, 1 mailbox, 1 crash, 1 stop, 1 lost connection | two workers never process the mailbox; its status is only written by the holder of the lease |
| `cluster_failover` | 2 workers, 1 mailbox, 1 crash, 1 sleep, racy TryLease | a survivor finishes every mailbox |
| `transfer_pair` | 3 messages of 2, 1 and no chunks, windows of 2, body channels of 1, STARTTLS on one side, with and without LITERAL+, 1 fault: a cut, a silence, a refusal, a kick or the deletion of the last message | what is stored is exact and what is counted is stored; no reader sends on a closed channel; both ends change to deflate at the same place; a pass always ends |
| `recovery` | a killer, a good and a refused message, 1 trouble, 4 kicks, 1 requeue, budgets of 2 | the ladder gives up the bad messages and no other; no poison message traps a mailbox; the counters agree with rows and batch, and MsgsDone with both once a session has read its totals; the mailbox comes to its end |
| `console_batch` | 3 rows (1 finished earlier) and 1 reloaded, 2 hosts in both directions with 1 place each, 2 slots, 1 silent server, 1 requeue, Ctrl+C or SIGHUP, with and without terminal | slots and places are balanced at every step; every mailbox has its own entry; exit 0 means that every row of the CSV is through; the run ends |
| `console_stop` | 1 mailbox, all keys, with and without terminal, Ctrl+C, SIGHUP, 1 pause, 1 loss, 1 silent server, 2 requeues | one runner at a time; results are final; Ctrl+C always ends |
| `dedup_reruns` | 2 processes, 3 copies of a mail (1 arrives later, 1 carries \Deleted until its owner undeletes it), 2 look-alikes, with and without MOVE, 1 break, 1 Ctrl+C, 1 migration, an owner who restores and compacts | one copy always stays; a message is in quarantine once with MOVE, else at most once per process plus once per break; every duplicate goes in the end |
| `selection_window` | 2 processes in 2 time zones, 5 pairs of flags, 8 folders, 11 messages, 2 starts, 1 kill | what is recorded is what the stored window takes; the plan is complete, free of collisions and the same in every session |
| `flag_sync` | 2 messages, 1 of them on the destination already, 2 changes of the source, 1 by the owner of the destination, 1 cut, with and without keywords | changes of the source arrive in the end; flags the owner set are not overwritten |

Why the bounds are enough to be of interest:

* Three messages with a window of two give a pass with one message confirmed,
  one on the wire and one not yet fetched. Two cuts let the recovery from the
  first be interrupted as well, which is what moves the bracket wrongly if
  anything does. The refusable message goes through the passes, the ladder and
  the registry.
* Renumbering, requeue and compact act between two sessions or on one, so one of
  each next to one cut meets every place of a session.
* Three workers are an owner that dies and two that compete for its mailbox.
  Mailboxes interact only through slots and the wait of a process, so one is
  enough for the lease. The stop lets a worker leave while it is judged.
* A channel of one chunk under a body of two blocks a reader while the pass waits
  for an answer; three rows keep a fetch queued behind it. One fault at any point
  meets every wait, and the watchdog adds its own.
* Four kicks are an episode from the first reconnect over Recovery Mode to
  exhaustion. A killer next to an innocent message is what the ladder must tell
  apart; the refused one competes for its passes.
* Two hosts used in opposite directions with one place each is the deadlock that
  the order of `acquirePair` avoids. One requeue and one reload next to a stop meet
  every place of a goroutine.
* The copy with the lowest UID carries \Deleted until its owner restores or compacts it, so
  two processes that list the folder at different times keep different copies while a
  third arrives; one break falls between any two commands.
* The eight folders need quoting, a literal, brackets, modified UTF-7, a role by
  name, a mapped name, a name that differs in case only, and two that are not to be
  migrated; the UIDs lie at the top of their range, where intervals wrap.
  `IntervalsAreSets` in `MCSelection` compares the interval operators with sets for
  all pairs of subsets of the upper half of the UIDs.
* Two changes of the source let one arrive while the pass for the other is cut
  between STORE and UPDATE. `Reverts = FALSE` keeps the source from taking a change
  back, see the disagreements.
* Every property has a mutant in `PROJECT.json`: a change of one mapped definition
  (a guard dropped, a reset left out, an order swapped) that breaks the property
  in this very run, so that none of them holds because its case never happens.

All runs but those of the folders and of the flags switch the check for deadlock off: a cluster
whose workers have left, a process that has exited, a pair that is closed, a
mailbox at its end and processes that may not start again have nothing left to do.
Where that must not happen early a property says so (`NeverStuck`, `Terminates`,
`RunEnds`, `CtrlCEnds`).

### Fairness

*FolderSync* assumes weak fairness of `Step` (the session goes on, and an
interrupted one is started again) and of `Server` (the destination answers). The
first is what `syncFolderWithReconnect`, the retries and the operator's next run
provide; the second is what the watchdog's timeout turns into a lost connection.
Cuts are bounded, so "settles" means: once trouble has ended.

*Cluster* assumes that every goroutine of a process that is awake goes on, that
heartbeats of one that is not become late, and that leases which nobody
refreshes age. No worker has to join, and nothing has to fail. Go's scheduler
and the tickers justify the first, the clock the others. `SurvivorFinishes` is
about a worker that joins and is never stopped, suspended or killed; about
nobody else anything is claimed.

*Recovery* assumes that the runner goes on, that a server which has not fallen
silent answers, that the watchdogs' clocks run, and that a paused run is resumed.
The supervisor may look at any time or never: `Terminates` does not need it.

*Console* assumes that goroutines, the main goroutine, the timer and the messages
of the terminal interface are scheduled. Servers, signals and keys are free.
`RunEnds` therefore excludes a run left paused, and a greeting that never comes
(the watchdog starts after it); `CtrlCEnds` excludes neither.

*FlagSync* assumes that a session goes on and that the operator runs the next one.
Refused STOREs, cuts and changes of flags are not fair; the last two are bounded,
so "converge" means: once the flags have come to rest.

*Dedup* assumes that a run goes on and is started again, and that a migration ends
or its lease becomes stale. *Transfer* and *Selection* have safety properties only;
`NeverStuck` says with ENABLED what fairness would otherwise be needed for.

### Disagreements between code and documentation

Each is shown by the property and the constants named, all else as in the run of
the same module. The passing runs give these constants the other value, which says
that the case is not there.

| Code | Documented | Shown by |
| --- | --- | --- |
| a plan is computed from the destination as the session before left it: of two folders of sent mail the other takes the role (`planner.go:113`) | "running the same migration twice never produces two copies of the same message" (`CONTRIBUTING.md:94`) | `DestinationsStay`, 1 process started twice, `Source <- FoldersSent`, `Mail <- MailSent`, `Destination0 <- OnlyInbox`, `Mapping <- NoMapping`, `Flags <- NoFlags`, `WindowFirst = FALSE`, `Arriving = {}`, `Leaving = {}`, `MaxDeaths = 0`; also a refused STATUS or growing sizes turn the order round (`StatusMayFail = TRUE`, `Source <- FoldersClash`, `Mail <- MailClash`) |
| three folders of one name get two names (`planner.go:214`) | "dedupe destination-name collisions" | `PlanKeepsApart` with `Source <- FoldersThree` |
| a process without flags that starts first goes on unrestricted after another has stored a window (`scheduler.go:107`) | "every worker in a cluster converges on one window" (`scheduler.go:100`) | `PlansTheWindow` with `WindowFirst = FALSE` |
| an unsolicited FETCH amid the metadata is recorded with size 0 and no date | | `RowsAreWhole` with `Updates = TRUE`, `WindowFirst = FALSE` |
| a single given up on the ladder after lost answers may have been delivered; after retry-failed it is appended again (`folder.go:960`) | "duplicates are impossible by design" (`folder.go:20`) | `NoDuplicates`, FolderSync: 2 messages, `Refusable <- First`, `MaxCut = 2`, `MaxRequeue = 1` |
| `failed --ignore` marks the entry and leaves the row: a message that retry-failed has planned is copied all the same (`main.go:1568`) | "Mark the selection IGNORED (still skipped, no longer outstanding)" (`main.go:1554`) | `IgnoredIsSkipped`, FolderSync as in `folder_operator` |
| with one Message-ID in two source messages, reconcile confirms both by one destination message (`folder.go:518`) | "an ambiguous window can never produce a duplicate or a silent loss" (`CONTRIBUTING.md:102`) | `DoneIsInjective`, `FP <- SharedFp`, `MaxCut = 1` |
| without LITERAL+ the NO before the literal ends the pass each time, and the messages after it never get their turn (`folder.go:727`) | a refused message is isolated "without blocking ... every other message" (`CONTRIBUTING.md:110`) | `EverythingSettles`, `LiteralPlus = FALSE`, `Refusable <- First`, `MaxCut = 0` |
| TryLease is a SELECT and an UPDATE; two processes can both succeed (`db.go:234`) | "mailboxes are claimed atomically" (`README.md:71`) | `AtMostOneWorks`, `RacyClaim = TRUE` |
| a displaced worker with no connection open migrates on (`mailbox.go:570`) | it "stops that mailbox immediately" (`CHANGELOG.md:499`) | `DisplacedWorkerStops`, 2 workers, `MaxSuspend = 1`, `MaxTrouble = 1` |
| the monitor takes CANCELLED for finished (`cluster.go:108`) | "peers resume unfinished jobs" after a graceful exit (`CHANGELOG.md:500`) | `SurvivorFinishes`, `MaxStop = 1` |
| a run that comes back REMOTE after the wait loop has ended leaves nobody standing by (`scheduler.go:314`) | "stay alive ... stand by as a hot failover" (`scheduler.go:297`) | `StandsBy`, 3 workers, `MaxCrash = 1` |
| a fetch that answers OK without a literal shifts the bodies behind it (`client.go:410`) | "duplicates are impossible by design" | `CopiesAreExact`, `Fleeting <- First` |
| the reader may still send on a body that Abort has closed (`client.go:430`, `856`) | "every waiter unwinds" | `NeverSendsOnClosed`, `LateBuffer = TRUE` |
| the last pass of an exhausted budget says LOGOUT into a literal that is cut short | | `CopiesAreExact`, `MayGiveUp = TRUE` |
| a kick fails the messages on the wire (`client.go:1137`) | "never blames a message" | `KickBlamesNobody`, `Faults <- Kicking` |
| losses of the source are noted against messages (`folder.go:838`) | only losses of the destination are evidence (`CHANGELOG.md:452`) | `SourceIsNoEvidence`, `Troubles <- {"src"}`, `MaxTrouble = 2` |
| a kick while folders are listed costs an attempt (`mailbox.go:404`) | "Recovery kicks never consume the normal retry budget" (`CHANGELOG.md:532`) | `KicksAreFree` |
| two cuts that no message caused can give up an innocent one: what is left of a probed entry keeps its tries (`folder.go:982`) | "pure connection losses retry the same batch (up to `batch_attempts`, default 3)", "3 attempts per level" (`CHANGELOG.md:445`) | `InnocentNeverFails`, a killer, a good message and two killers, `Window = 4`, `BatchAttempts = 3`, `Troubles = {"dst"}`, `MaxTrouble = 2`, `TroubleCost = 0`, `MaxKick = 0`, `ReconnectAttempts = 6` |
| rows confirmed before the first RefreshTotals count twice (`mailbox.go:127`) | the identity in `stats.go:53-58` | the term `Cardinality(Resumed)` of `TotalsReconcile`: without it, with `Resumed` not empty |
| what reconcileInflight adopts raises Adopted at once and MsgsDone with the next RefreshTotals; if the source fails in between (`folder.go:166-233`), MsgsDone is too small into the next session or the end of the mailbox, which is then FAILED and not PARTIAL (`mailbox.go:446`) | "MsgsDone == Appended + Adopted + PriorDone + Planned" (`stats.go:53-58`) | `TotalsReconcile` without `TotalsAreFresh`; two good messages, `MaxTrouble = 2`, `MaxKick = 0`, `ReconnectAttempts = 1` |
| a STALE mailbox need not have used up its recovery attempts (`recovery.go:258`) | | `StaleIsExhausted`, `MaxKick = 5` |
| a mailbox that waits for a slot can be re-queued again and runs twice (`scheduler.go:257`) | | `OneRunnerPerMailbox`, `Patient = FALSE` |
| the second of two reloads that add several rows gives out an index twice (`scheduler.go:279`) | | `OwnEntry`, `Grown <- TwoThenOne` |
| a mailbox whose source and destination are one host with one place waits for itself (`scheduler.go:57`) | | `RunEnds`, `Host <- Within` |
| escalation happens once; a runner that connects after it is not cut (`bus.go:125`, `main.go:743`) | | `CtrlCEnds`, `Slow = TRUE` |
| a row that `u` adds on the Results screen gets a QUEUED entry and nothing else, its runner fails at the closed database without a status (`scheduler.go:209`, `mailbox.go:152`), and the exit status stays 0 | | `ZeroMeansAll` in `console_batch` |
| a re-queue between the results and the closed database (`scheduler.go:263`) | | `ResultsAreFinal`, `InTheGap = TRUE` |
| two dedup runs that overlap copy one message to quarantine twice, without a break: the row is read before the COPY and written after it (`dedup.go:381`, `405`) | "no message is ever quarantined twice" (`state/dedup.go:17-18`); "the only residual edge is a genuine connection drop" (`engine/dedup.go:366-369`) | `OnlyBreaksCopyAgain` in `dedup_reruns` |
| dedup moves a duplicate away whose keeper a mail client has deleted meanwhile (`dedup.go:338`) | "the keeper is always retained" | `KeepsOne`, `Client <- Deletes` |
| a STORE is executed, the session is cut before the row is updated and the source takes the change back: rows and source agree, the copy keeps the flags for ever (`folder.go:451`) | | `FlagsConverge`, `Reverts = TRUE` |
| a STORE with a keyword is refused as a whole in every run, unlike an APPEND, which is tried again without keywords (`folder.go:440`) | "optional `--sync-flags` re-applies flag changes" (`CHANGELOG.md:644`) | `AllFlagsConverge` |

Smaller ones that a reading of the code shows and no module states: `compact` leaves
`adopt_done` set, so a later run copies a compacted folder again (FolderSync has it,
`NoDuplicates` in `folder_operator`); a source renumbered before `uv_src` was
recorded (`EarlyChurn`); an entry removed from the watch before its run is added
to the wait group (`MainLoopRace`); no watchdog runs during greeting and STARTTLS;
the isolation state does not survive a restart (CHANGELOG says it does); undatable
messages are fetched again by every resume, because `last_uidnext_src` is never
read; two equal rows in one CSV are accepted; dedup skips what is left of a mailbox
whose connection breaks during analysis and exits with 0, and does not compare
UIDVALIDITY. And one no client can exclude: a destination that executes an APPEND
only after the next session has looked for it (`LateCommit`).

## The proofs

| Theorem | States | Assumes |
| --- | --- | --- |
| `FolderSyncProofs!TypeCorrect` | `TypeOK`, and every destination UID is below UIDNEXT | |
| `FolderSyncProofs!ConfirmedIsDelivered` | `DoneIsDelivered` | `~EarlyChurn` |
| `FolderSyncProofs!IntentIsOnRecord` | `IntentCoversAppend` | |
| `FolderSyncProofs!FailedIsSelected` | `FailedCanBeRetried` | |
| `FolderSyncProofs!ConfirmedStaysConfirmed` | `ConfirmedStays` | `MaxCompact = 0` |
| `FolderSyncProofs!DoneFolderHasEverything` | `DoneFolderIsComplete` | `Offline` |
| `FolderSyncProofs!ConfirmedApart` | `DoneIsInjective` | `~EarlyChurn`, `SourceApart` |
| `FolderSyncProofs!MessagesOnce` | `NoDuplicates` | `Undisturbed`, `SourceApart` |
| `FolderSyncProofs!DeliveredIsSought` | `DeliveredIsCovered` | `Undisturbed`, `SourceApart` |
| `FolderSyncProofs!MigrationDelivers` | `ImplementsDelivery` | `Undisturbed`, `SourceApart`, `FpTellsApart`, `Steady` |
| `ClusterProofs!ClusterTypes` | `TypeOK` | |
| `ClusterProofs!OneWorkerPerMailbox` | `AtMostOneWorks`, until a living worker has been silent for a timeout or a claim has overwritten a lease it had not read | |
| `ClusterProofs!OnlyOwnersWrite` | `OwnerWritesStatus`, likewise | |
| `DedupProofs!DedupTypes` | `TypeOK` | |
| `DedupProofs!OneCopyStays` | `KeepsOne` | `KeysTellBodies`, no client deletes |
| `DedupProofs!FoldersAreClean` | `FolderIsClean` | no client deletes |
| `DedupProofs!CopiesArePaid` | `OneCopyPerBreak`: one copy with MOVE, else one per process and one per break | |
| `ConsoleProofs!NothingIsLost` | `PlacesAreBalanced` | |
| `ConsoleProofs!OneRunner` | `OneRunnerPerMailbox` | `Patient` |
| `ConsoleProofs!Final` | `ResultsAreFinal` | `~InTheGap` |
| `ConsoleProofs!Zero` | `ZeroMeansDone` | `~InTheGap` |
| `ConsoleProofs!Entries` | `OwnEntry` | `LastGrows` |
| `RecoveryProofs!LadderIsSoundAlways` | `LadderIsSound` | |
| `RecoveryProofs!EndsSettledAlways` | SUCCESS: everything delivered and confirmed; WARNINGS: that, or given up | |
| `RecoveryProofs!TotalsReconcileAlways` | `TotalsReconcile` | |
| `RecoveryProofs!InnocentNeverFailsWhenCalm` | `InnocentNeverFails`, as long as `budget.trouble = MaxTrouble` | |
| `FlagSyncProofs!OwnersFlagsStayAlways` | `OwnersFlagsStay` | |
| `TransferProofs!CodingAgreesHolds` | `CodingAgrees` | |
| `TransferProofs!AckedIsStoredHolds` | `AckedIsStored` | |
| `TransferProofs!NeverSendsOnClosedHolds` | `NeverSendsOnClosed`, except, with `LateBuffer`, on a closed source whose pass has been left | |
| `TransferCopyProofs!CopiesAreExactHolds` | `CopiesAreExact`, as long as the rows but the last are in the source and LOGOUT is said only after a finished pass | |

All hold for every set of messages, contents, folders, workers, mailboxes, rows and
hosts, for all limits, and for every number of crashes, cuts and other events; the
constants satisfy the assumptions named in `FolderSync`, `Cluster`, `Dedup`,
`Scheduler`, `Recovery`, `FlagSync`, `ImapServer`, `ImapClient` and `Transfer`, which TLC evaluates in every run. One of these is more than a type:
`SchedulerAssumption` says that a CSV names a row once, which the code does not
check.

The assumptions in the table are conditions on constants that decide which events a
behaviour may contain; where the code itself has the event, the theorem says instead up
to when, or in which states, it holds. Each marks a border at which TLC has a counterexample, or
which the code takes for granted; what lies beyond it is told with the argument.

*ConfirmedIsDelivered.* `DoneIsDelivered` is not inductive: a row is confirmed by
evidence found earlier (a match of fingerprints, an answer on the wire, an
acknowledged batch) about folders that may be renumbered between sessions. `IInv`
follows the evidence: recorded UIDVALIDITYs are past or current
(`RecordedIsPast`), a session only goes on with current ones
(`SessionIsCurrent`), nothing found in a session outlives it in memory
(`NothingKept`), stored fingerprints belong to the messages their rows name
(`FingerprintIsCurrent`), and every triple or answer names a destination message
that carries the source message (`EvidenceIsTrue`). Most steps are `Gentle`: they
change neither UIDVALIDITYs nor the record of them, only add mail to the
destination, and confirm only what is in evidence; one lemma shows that a gentle
step keeps `IInv`, and one per group of actions that its steps are gentle.
`OpenFolder`, `StatusDst` and the renumberings have proofs of their own.
`~EarlyChurn` is needed: without a recorded UIDVALIDITY a renumbering cannot be
noticed, and TLC finds the counterexample.

*OneWorkerPerMailbox.* `AtMostOneWorks` follows from `OwnersWork` (whoever works
on a mailbox owns its lease), which survives a takeover because an owner judged dead
is gone (`CondemnedAreGone`), which in turn holds because whoever is alive has a
heartbeat on record (`HeartsBeat`) and an owner on record has joined (`OwnersJoined`).
The claim may race and workers may sleep, as in the code; the theorem is about every
behaviour up to the first of two events. `Timely`: no worker that is alive is silent
for longer than `--worker-timeout`, nor for longer than `LeaseFresh` about a mailbox it
works on. `Unraced`: no UPDATE of TryLease overwrites a lease that another process has
written since its SELECT. Either event alone puts two workers on one mailbox: two claims that
race (`RacyClaim`), or a sleeper that is displaced and wakes up amid its work. `OnlyOwnersWrite` is a consequence of the same invariant.

*OneCopyStays.* Processes that overlap do not agree on the keeper of a group:
what one has planned to keep another may take away, because a message that arrived
or was put back has changed the group in between. `HasKeeper` is what makes it
safe all the same: every message that any process has still to take has, at this
very moment, a live message of its key with a lower UID in its folder. When a
keeper is taken, it was itself planned by somebody, so it had a keeper below it,
which now serves for both. All steps fall into three kinds (`KindsOfSteps`): a
plan shrinks or is made anew from what is live, mail arrives or is put back, one
planned message is taken. `KeysTellBodies` is what the code takes for granted
about Message-ID and size; that no client deletes is needed because the code
never looks at the keeper again.

*FoldersAreClean.* `CleanInv` ties the rows to what happened: a done row stands
for a message that was taken (`DoneIsTaken`), a process about to record has taken
its message (`RecordIsTaken`), what a run has listed is planned or taken
(`ListedIsPlanned`), and what is planned is live unless some other run took it
(`LiveOrTaken`), without which a command on a vanished message could answer OK.
The order of the report enters through CHOOSE: that there is a first message is
proved from the well-foundedness of the naturals (`LeastNatural`, `FirstExists`).

*CopiesArePaid.* `OneCopyPerBreak` bounds the copies of a message in the target
folder by the processes and the connections that break, and by one where the server has MOVE. The invariant is
a ledger
(`PaidFor`): until the row of a message is done, every copy has been paid for by a
cut or by a process that has copied and is about to record; once it is done, the
processes that are about to copy it still have a claim. Recording turns the first
entry into the second, and `Account` says what one process can change of it while
the others stay as they are. With MOVE nobody copies and a message that is gone stays
gone (`MoveInv`). That the processes are in the bound is a disagreement, see above.

*The rows through a session* (the second part of `FolderSyncProofs`). A session holds lists of
rows: the ladder, the pass, what is copied, what is in flight, what permanentFail is
going through. `SInv` says that what is in them has the state the code expects of it
when it gets there (`PassRows`, `FailRows`, `CopiedRows`, `PlanRows`), that they have
no row in common (`Parted`), and that without a session they are empty
(`NothingPending`). `ConfirmedStaysConfirmed` follows, because a confirmed row is in
none of them; it needs `MaxCompact = 0` since `compact` deletes confirmed rows by
design. For `DoneFolderHasEverything`, `WInv` turns the same relation around: a
planned row, and one in flight, is held by one of the lists (`PlannedHeld`,
`InflightHeld`), so when the session gets to its end none is left (`NoneLeft`).
`Offline` leaves out an operator whose `requeue` or `compact` changes the rows of a
running session behind its back.

*Nothing twice, and the refinement* (`FolderSyncProofs`). `ConfirmedApart`
and `MessagesOnce` rest on the same question: may a message that has been delivered,
or is on its way, be sent again? `DInv` says what the state knows about it. What is
in limbo on a dead connection, or sent and unanswered, is not at the destination yet
(`LimboFresh`, `SentFresh`); a message that has been delivered is settled, or in flight
above the bracket that the next session scans, or to be found by the adoption scan
(`Covered`, `BracketPast`); what has been found is what the session is going to act on
(`SessionSees`, `Found`); and what a pass has still to send has not been delivered
(`Untried`). `DeliveredIsSought` is one conjunct of it. The assumptions exclude what is
known to break it, all of it listed among the hazards or the disagreements above:
`SourceApart` that two messages of the source have one fingerprint; `Undisturbed` an
APPEND that is executed after the scan (`LateCommit`), a renumbering before the
UIDVALIDITY is recorded (`EarlyChurn`), `--no-dedup-scan`, and an operator who requeues
or compacts. `MigrationDelivers` says that every step of `FolderSync` is a step of
`Delivery` or leaves its state alone; only the execution of an APPEND and its kind are
steps (`AppendImplements`), all else stutters (`OthersImplement`). It adds
`FpTellsApart` (no mail of others at the destination has the fingerprint of a message)
and `Steady`, because a renumbering moves what `Delivery` identifies.

*Scheduler and Console.* The steps of goroutines, operator, terminal and process come
down to a few kinds (`KindsOfSteps`): one goroutine does one of eight deeds, all rest, one is admitted, some
join, a reload adds rows. Every invariant is proved over the kinds. `EngineInv` is what
all share: a goroutine works for the row and the entry it was made for. `OneRunner`:
the registry knows every runner that is active (`Alone`), and only what it does not
know is requeued. `Patient` is needed since a goroutine that waits for its
turn is not in the registry yet: requeue the mailbox then, and TLC shows two runners. `Final` and `Zero`: a
status that is not final has a goroutine that will change it (`Cared`), so when the
engine returns, every entry of the board is final (`Closed`) and the exit code has
counted it (`Counted`), unless it is that of a row reloaded since, which stays QUEUED
and counts for nothing (`ZeroMeansDone` names it); `InTheGap` is the requeue or reload
between the last look at the crew and the return. `Entries`: rows are numbered without gaps as long as a reload adds one
(`OwnIndex`); when an earlier reload may add two, a later row is given a number that
is taken. `NothingIsLost` holds without any assumption: what has been drawn from the
slots and the places of each host is what the goroutines have, each by where it is,
and a step of one changes only its own share (`Recount`, `StepPays`).

*Recovery.* `RInv` says for each place of the runner what the lists in memory have to
do with the rows of the database. The rows of a pass are apart, and each is on the wire,
answered or still to be sent (`PassRows`, `BrokenRows`); the entries of the ladder have
no message in common and hold only rows that are not settled (`LadderApart`,
`LadderRows`); a row that is planned or in flight is on the ladder, in the pass, or the
next session loads it (`Held`), and when a folder is through none is left (`NoneLeft`).
`LadderIsSoundAlways` follows, since a message is given up where it is taken off the
ladder. `EndsSettledAlways` adds that a done row stands for a message in the destination
folder (`Stored`, `DoneIsGood`) and that every failed row has been counted
(`FailedIsCounted`), so that a mailbox with failures cannot end as SUCCESS.
`TotalsReconcileAlways` is a sum over rows and batch (`Balanced`): each step moves a
message from one term to another and the counters with it. Before the first
`RefreshTotals` the same sum holds without the baseline (`Uncounted`), and what an earlier
process had left in flight is then in two terms, hence `Cardinality(Resumed)`. MsgsDone is
bounded by the sum; each place from `RefreshTotals` to the end of the session keeps it equal,
and `Reconcile` is where the two part.

*InnocentNeverFailsWhenCalm.* A message that breaks connections takes down all that are
in flight with it, so the blame of a loss falls on a message that may have done
nothing. `Innocence` says why no harm comes of it as long as nothing else disturbs a
connection: a connection in use that is lost or hangs is explained by the first
message that has no answer, which is a killer or a silent one (`Accounted`), and by the
time the pass has broken some message of the pass is such a one (`Culprit`). So a
ladder entry that is one message long and breaks is guilty, and a batch is only ever
split or probed. What a pass refuses was refused by the server (`Refusals`). The
theorem is about every state of every behaviour up to the first disturbance from
outside (`budget.trouble = MaxTrouble`: the network, the source or a pause have not
struck yet); after it the statement is false for some constants, see the disagreements
(an entry keeps its tries), and the run checks it for its own.

*OwnersFlagsStay.* A row that is not news says what the source has
(`RowsAreCurrent`), and what a pass has still to do is news, each message once
(`ChangesAreNews`). The second is where `canonFlags` matters: lists of the same flags
have the same canonical form (`CanonIgnoresOrder`), and what FETCH reports, in
whatever order, with `\Recent` or without, are the flags the source has
(`ReportOfFlags`, from what `SetToSeq` and `Reverse` do), so a message whose row is
current never differs. The first needs that `UpdateFlags` takes a message off the news
only if the source has not changed again between FETCH and the record. `IInv` holds with
`Reverts = TRUE` too.

*Transfer.* Four goroutines and a server act on a connection in dozens of ways; as far
as commands and their answers go, every step is for each connection one of thirteen
moves (`Moves`): it rests, writes a command or a part of a literal, opens, hears
something, takes an answer, closes, tells its waiters, or the server does something
(`ServerCases`). What is proved is proved move by move.

*CodingAgreesHolds.* What is on the wire was encoded when it was written and is decoded
when it is read, and in between one end may have changed. `Coding` says at each stage of
COMPRESS what the other end can be in: it is still on its way, last in its queue
(`Asked`), answered, with the answer last in the other queue (`Told`), or the answer is
read and the writer not yet wrapped (`Known`). For that, the answer must be told from
others by its tag, so tags are fresh and in order (`TagsFresh`); nothing else may be
written meanwhile, so the runner starts when both connections are open (`OpenFirst`) and
until then neither bodies nor literals are under way (`Quiet`). `PeerKnows` lets what a
dead connection holds be out of step.

*AckedIsStoredHolds.* `Traced` follows the tag of an APPEND through the line, the
literal the server has in hand, the answer on the wire and the channel of its
command: wherever an OK with that tag is, the message has been stored. The moves change
one of these at a time, and a tag is never given twice, so what `Abort` and the waiters
it releases do cannot turn into an OK.

*NeverSendsOnClosedHolds.* A body is closed by its reader at its end, by `Abort` while
nobody reads it, and by a fetch on a closed connection. `FifoInv` says whose bodies the
queue holds: those of the rows fetched last, in the order of the fetches; and that the
body being read is one of an earlier row, and open. Rows are different messages
(`RowsApart`, from the finite-set theorems), so what closes one body leaves the other
alone. `BodySteps` sorts all steps by what they do to bodies and readers: a fetch, a chunk
taken, the start of a reader, a body announced, received, completed or broken, a queue
cleared. The reader goes on with what is in its buffer when `Abort` has closed the
connection and not yet cleared the queue (`LateBuffer`), and finds open bodies there: those
that are fetched later are closed at once, but a fetch on a closed connection ends the
pass. So a body that is closed is only reached on a source whose pass has been left
(`Gone`), and there TLC reaches it.

*CopiesAreExactHolds* (`TransferCopyProofs`). The invariant `CopyInv` follows a body from
one end to the other. On the way from the source: the queue is a sequence of bodies, each
its size and all of its chunks, except that the last may be broken off
once a side is gone (`ChunkInv`), and the bodies are those of the rows behind the one
being read, in the order of the fetches, with what is missing still asked for
(`OrderInv`). In the hands of the reader and the runner: `Held(m, y)` says that y chunks
of a body are taken, that its channel has the next ones and the reader the rest, and that
a channel that is closed without an error has had all of them (`HeldInv`). On the way to
the destination: the queue and the literal the server has in hand are lines and whole or
unfinished literals (`LiteralInv`), and where the runner copies, what is written last is
chunk y of its item (`InPlace`). So an APPEND ends either whole (`Clean`) or, if the body
failed with its connection, short (`Torn`). The second is the delicate one, because the
literal swallows whatever is written next. `Torn` carries what rules that out: the reader
of the source is silent (`Silent`: closed, and at its end or with nobody left to tell), so no
row behind has a size (`Sizes`: sizes are announced in order), so the runner cannot begin another APPEND; the short
one is the last of the window and has no answer, so the pass cannot end well; and
closing it says no LOGOUT (`~graceful`).

The two conditions are those the code does not keep, and they are part of the statement
(`Fair`), so that the theorem holds of the code as it is, in every state up to their breach:
LOGOUT is said although the pass is not through (the last session of an exhausted budget),
and a row that is not the last is deleted between SEARCH and FETCH, which shifts the bodies
behind it. TLC has the counterexample for each (see the disagreements). What a reader still
finds in its buffer after `Abort` does no harm here: `ChunkInv`, `OrderInv` and `Sizes` hold as
long as somebody listens.

The invariants were checked as invariants of TLC runs before they were proved.

What stays with TLC: liveness (`EverythingSettles`, `SurvivorFinishes`,
`Terminates`, `RunEnds`, `CtrlCEnds`, `RerunsFinish`, `FlagsConverge`) and
`NeverStuck`, because TLAPS can prove neither liveness under fairness nor ENABLED;
what the functions of `Syntax`, `Intervals` and `Planner` compute for every input,
which needs induction over data; of `Recovery`, `PoisonNeverTraps`, which needs an
account of all losses of an attempt, and `InnocentNeverFails` once there has been
trouble; and everything about `Selection`.

## Not modelled

* *Read-only attach, account check, status and listing commands*: they read the
  database or connect and report; no state of a migration depends on them.
* *Configuration files*: pure functions from the text of a CSV or TOML file; what
  the scheduler does with a reloaded one is in `Scheduler`.
* *Views of the terminal interface, progress lines, reports*: presentation. The
  keys that reach the engine and the life of the program around it are in
  `Console`.
* *Platform support* (paths, terminal modes, system load, host identity) and the
  decoding of headers for display.
* *SASL and the trace* of the IMAP client: one more exchange of lines before a
  session, and a copy of what is sent.
* *Dry runs*: they confirm nothing and copy nothing.
* *The listings of `failed`, Ephemeral runs, `ImportWrapperState`, the tables runs and
  events, the roster of a cluster*: written for display, for a file thrown away, or
  once before the first run.
* *Rates and ring buffers* of the statistics, backoff times: numbers nobody
  decides anything by, or waits whose length is left open.
* *Writes to the database that fail*: the code mostly ignores such errors, and what
  SQLite does on a full disk is not something the source says.

## Plan

What is left, in this order:

1. Proofs of `PlansTheWindow` and `PlanKeepsApart`, taking what `Syntax` and `Intervals`
   compute as given.
2. `PoisonNeverTraps` with an account of the losses.
