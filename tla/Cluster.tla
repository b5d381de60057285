-------------------------------- MODULE Cluster --------------------------------
(***************************************************************************)
(* Several MailFerry processes (workers) over one State Database: how a    *)
(* mailbox is claimed, kept, lost, released and taken over                 *)
(* (internal/engine/cluster.go, scheduler.go, mailbox.go and the tables    *)
(* workers and mailboxes of internal/state/db.go).                         *)
(*                                                                         *)
(* A worker runs one goroutine per mailbox (runOne, then MailboxRunner.Run *)
(* while it works on it), one goroutine that refreshes the lease, one that *)
(* heartbeats and one cluster monitor.  Runner and monitor never have the  *)
(* same mailbox in hand at the same time, so at[w][m] is the place of      *)
(* whichever of the two has it.  The monitor goes through its entries one  *)
(* by one; here they may overlap, which only adds interleavings.           *)
(*                                                                         *)
(* Time is abstracted to the thresholds the code compares with:            *)
(*   heart  "late"     silent for more than --worker-timeout (60 s)        *)
(*   lease  "old"      not refreshed for more than 150 s                   *)
(*          "expired"  not refreshed for LeaseFresh (300 s) or more        *)
(* A worker that is awake heartbeats and refreshes every 15 s and stays    *)
(* below all of them; one that is asleep (a stopped process, a machine     *)
(* that sleeps, writes that keep failing) or dead does not.                *)
(*                                                                         *)
(* A process restarted after a crash registers under a new id: it is       *)
(* another member of Worker.  Slots, host connection budgets and manual    *)
(* requeues belong to the scheduler and are left out here.                 *)
(***************************************************************************)
EXTENDS Naturals, FiniteSets

CONSTANTS
  Worker, Mailbox,
  NoOne,           \* the empty lease_owner
  SkipCompleted,   \* --skip-completed
  RacyClaim,       \* another process may write between TryLease's statements
  MainLoopRace,    \* the wait loop may look between watch.Remove and respawn
  MaxCrash, MaxStop, MaxSuspend, MaxTrouble   \* bounds of the environment

ASSUME WorkerAssumption == NoOne \notin Worker

ASSUME SwitchAssumption ==
  SkipCompleted \in BOOLEAN /\ RacyClaim \in BOOLEAN /\ MainLoopRace \in BOOLEAN

ASSUME BoundAssumption == /\ MaxCrash \in Nat   /\ MaxStop \in Nat
                          /\ MaxSuspend \in Nat /\ MaxTrouble \in Nat

VARIABLES
  proc,     \* proc[w]: where RunMigrationBus is
  stopping, \* the workers whose context is cancelled
  asleep,   \* the workers that are alive but do not run
  heart,    \* heart[w]: the row of w in table workers, by age
  lease,    \* lease[m]: lease_owner of the mailbox and its age
  readers,  \* readers[m]: workers whose last ReadLease still is the lease
  status,   \* status[m]: mailboxes.status
  at,       \* at[w][m]: what w is doing with m
  saw,      \* saw[w][m]: the owner w read, and whether the lease was old
  lost,     \* lost[w][m]: MailboxRunner.leaseLost
  budget    \* what the environment may still do

vars == <<proc, stopping, asleep, heart, lease, readers, status, at, saw, lost, budget>>

dbVars == <<lease, status>>
readVars == <<saw, readers>>
lifeVars == <<proc, stopping, asleep, heart, budget>>

\* SUCCESS also stands for WARNINGS, FAILED for PARTIAL and STALE.
Final == {"SUCCESS", "FAILED", "CANCELLED"}
Status == {"NEW", "RUNNING"} \union Final

\* Its first runs are under way; they are done and it waits for the mailboxes of
\* others; the wait loop is over and only runs under way are waited for.
Alive == {"running", "standby", "ending"}
Life == {"new", "left", "crashed"} \union Alive

\* MailboxRunner.Run between the claim and its return: the refresher of the
\* lease is running, unless it found the lease lost.
Active == {"start", "connect", "backoff", "sync", "kicked", "release"}

\* MailboxRunner.Run before the claim is decided: refused by TryLease, the
\* owner's heartbeat judged, the lease read again; "claim" is between the two
\* statements of TryLease, "remote" the return of REMOTE.
Claiming == {"claim", "held", "condemned", "reclaim", "remote"}

\* In the hands of the cluster monitor: an entry of the watch, its lease read,
\* its owner judged dead, removed from the watch and not yet respawned.
Monitored == {"watched", "looked", "doomed", "popped"}

Place == {"off", "queued"} \union Active \union Claiming \union Monitored

Lease == [owner : Worker \union {NoOne}, age : {"fresh", "old", "expired"}]
Sight == [owner : Worker \union {NoOne}, old : BOOLEAN]

Free == [owner |-> NoOne, age |-> "fresh"]
Nothing == [owner |-> NoOne, old |-> FALSE]

Budget == [crash : Nat, stop : Nat, suspend : Nat, trouble : Nat]

-------------------------------------------------------------------------------
Init ==
  /\ proc = [w \in Worker |-> "new"]
  /\ stopping = {}
  /\ asleep = {}
  /\ heart = [w \in Worker |-> "none"]
  /\ lease = [m \in Mailbox |-> Free]
  /\ readers = [m \in Mailbox |-> {}]
  /\ status = [m \in Mailbox |-> "NEW"]
  /\ at = [w \in Worker |-> [m \in Mailbox |-> "off"]]
  /\ saw = [w \in Worker |-> [m \in Mailbox |-> Nothing]]
  /\ lost = [w \in Worker |-> [m \in Mailbox |-> FALSE]]
  /\ budget = [crash |-> MaxCrash, stop |-> MaxStop, suspend |-> MaxSuspend,
               trouble |-> MaxTrouble]

Awake(w) == proc[w] \in Alive /\ w \notin asleep

Go(w, m, p) == at' = [at EXCEPT ![w][m] = p]
From(w, m, p) == Awake(w) /\ at[w][m] = p

-------------------------------------------------------------------------------
(* The lease: one UPDATE or SELECT each *)

\* The lease of m is written: no earlier read of it is current any more.
WriteLease(m, owner) ==
  /\ lease' = [lease EXCEPT ![m] = [owner |-> owner, age |-> "fresh"]]
  /\ readers' = [readers EXCEPT ![m] = {}]

\* ClearLease, guarded by the owner
ClearLease(w, m) ==
  IF lease[m].owner = w THEN WriteLease(m, NoOne) ELSE UNCHANGED <<lease, readers>>

\* Mutant: the takeover does not compare what it read.
CanForceBlindly(w, m) == saw[w][m].owner # NoOne

\* The UPDATE of ForceLease applies: nobody wrote the lease since it was read.
CanForce(w, m) == lease[m].owner = saw[w][m].owner /\ w \in readers[m]

\* What TryLease finds claimable
Claimable(w, m) == lease[m].owner \in {NoOne, w} \/ lease[m].age = "expired"

\* What w read is in its local variables ...
Look(w, m) ==
  saw' = [saw EXCEPT ![w][m] = [owner |-> lease[m].owner, old |-> lease[m].age # "fresh"]]

\* ... and out of use.
Forget(w, m) == saw' = [saw EXCEPT ![w][m] = Nothing]

Discard(w, m) == Forget(w, m) /\ readers' = [readers EXCEPT ![m] = @ \ {w}]

\* The owner w saw is dead: silent for too long, or without a row and its
\* lease old when it was read.
Dead(w, m) ==
  LET v == saw[w][m].owner
  IN  v \in Worker /\ (heart[v] = "late" \/ (heart[v] = "none" /\ saw[w][m].old))

-------------------------------------------------------------------------------
(* MailboxRunner.Run: the claim *)

\* runOne reaches Run and TryLease claims the mailbox.
TryLease(w, m) ==
  /\ From(w, m, "queued") /\ w \notin stopping
  /\ Claimable(w, m)
  /\ IF RacyClaim
     THEN Go(w, m, "claim") /\ UNCHANGED <<lease, readers>>
     ELSE Go(w, m, "start") /\ WriteLease(m, w)
  /\ UNCHANGED <<lifeVars, status, saw, lost>>

\* The UPDATE of TryLease, on what its SELECT read
Claim(w, m) ==
  /\ From(w, m, "claim")
  /\ Go(w, m, "start")
  /\ WriteLease(m, w)
  /\ UNCHANGED <<lifeVars, status, saw, lost>>

\* TryLease refuses: another worker holds the lease.
Refused(w, m) ==
  /\ From(w, m, "queued") /\ w \notin stopping
  /\ ~Claimable(w, m)
  /\ Look(w, m)
  /\ Go(w, m, "held")
  /\ UNCHANGED <<lifeVars, dbVars, readers, lost>>

\* The heartbeat of the owner decides.
JudgeOwner(w, m) ==
  /\ From(w, m, "held")
  /\ IF Dead(w, m)
     THEN Go(w, m, "condemned") /\ UNCHANGED readVars
     ELSE Go(w, m, "remote") /\ Discard(w, m)
  /\ UNCHANGED <<lifeVars, dbVars, lost>>

\* Only now the lease is read for the compare-and-swap.
ReadLease(w, m) ==
  /\ From(w, m, "condemned")
  /\ IF lease[m].owner = saw[w][m].owner
     THEN /\ Go(w, m, "reclaim")
          /\ readers' = [readers EXCEPT ![m] = @ \union {w}]
          /\ UNCHANGED saw
     ELSE Go(w, m, "remote") /\ Discard(w, m)
  /\ UNCHANGED <<lifeVars, dbVars, lost>>

\* ForceLease
Reclaim(w, m) ==
  /\ From(w, m, "reclaim")
  /\ IF CanForce(w, m)
     THEN Go(w, m, "start") /\ WriteLease(m, w) /\ Forget(w, m)
     ELSE Go(w, m, "remote") /\ Discard(w, m) /\ UNCHANGED lease
  /\ UNCHANGED <<lifeVars, status, lost>>

-------------------------------------------------------------------------------
(* MailboxRunner.Run: the work *)

Begin(w, m) ==
  /\ From(w, m, "start")
  /\ status' = [status EXCEPT ![m] = "RUNNING"]
  /\ Go(w, m, "connect")
  /\ UNCHANGED <<lifeVars, lease, readVars, lost>>

\* attempt and syncFolderWithReconnect: the pair is open.
OpenPair(w, m) ==
  /\ From(w, m, "connect")
  /\ Go(w, m, "sync")
  /\ UNCHANGED <<lifeVars, dbVars, readVars, lost>>

Spend(what) ==
  /\ budget[what] > 0
  /\ budget' = [budget EXCEPT ![what] = @ - 1]

\* The attempt fails: the next one follows after a delay, or it was the last.
FailAttempt(w, m) ==
  /\ From(w, m, "connect")
  /\ Spend("trouble")
  /\ \/ Go(w, m, "backoff") /\ UNCHANGED status
     \/ Go(w, m, "release") /\ status' = [status EXCEPT ![m] = "FAILED"]
  /\ UNCHANGED <<proc, stopping, asleep, heart, lease, readVars, lost>>

Retry(w, m) ==
  /\ From(w, m, "backoff")
  /\ Go(w, m, "connect")
  /\ UNCHANGED <<lifeVars, dbVars, readVars, lost>>

\* Run returns REMOTE: its deferred ClearLease, and the end of the runner.
ReturnRemote(w, m) ==
  /\ ClearLease(w, m)
  /\ lost' = [lost EXCEPT ![w][m] = FALSE]
  /\ Go(w, m, "remote")

\* Connection trouble in a folder: reconnect, unless the lease is lost.
Trouble(w, m) ==
  /\ From(w, m, "sync")
  /\ Spend("trouble")
  /\ IF lost[w][m]
     THEN ReturnRemote(w, m)
     ELSE Go(w, m, "connect") /\ UNCHANGED <<lease, readers, lost>>
  /\ UNCHANGED <<proc, stopping, asleep, heart, status, saw>>

\* The folder fails on the connection the refresher closed.
LeaveDisplaced(w, m) ==
  /\ From(w, m, "kicked")
  /\ ReturnRemote(w, m)
  /\ UNCHANGED <<lifeVars, status, saw>>

\* The mailbox is done, or has failed for good; SetMailbox is not guarded by
\* the lease.  A kick may come after the last folder.
Finish(w, m) ==
  /\ Awake(w) /\ at[w][m] \in {"sync", "kicked"}
  /\ \E s \in {"SUCCESS", "FAILED"} : status' = [status EXCEPT ![m] = s]
  /\ Go(w, m, "release")
  /\ UNCHANGED <<lifeVars, lease, readVars, lost>>

\* The context is cancelled.
Cancel(w, m) ==
  /\ Awake(w) /\ w \in stopping
  /\ at[w][m] \in {"connect", "backoff", "sync", "kicked"}
  /\ status' = [status EXCEPT ![m] = "CANCELLED"]
  /\ Go(w, m, "release")
  /\ UNCHANGED <<lifeVars, lease, readVars, lost>>

\* Run returns: the refresher ends and the lease is cleared.
Release(w, m) ==
  /\ From(w, m, "release")
  /\ ClearLease(w, m)
  /\ lost' = [lost EXCEPT ![w][m] = FALSE]
  /\ Go(w, m, "off")
  /\ UNCHANGED <<lifeVars, status, saw>>

-------------------------------------------------------------------------------
(* The refresher *)

\* Mutant: the refresher starts once the pair is open.
RefreshingOnceOpen(w, m) == at[w][m] \in {"sync", "release"} /\ ~lost[w][m]

Refreshing(w, m) == at[w][m] \in Active \ {"kicked"} /\ ~lost[w][m]

RefreshLease(w, m) ==
  /\ Awake(w) /\ Refreshing(w, m)
  /\ lease[m].owner = w
  /\ WriteLease(m, w)
  /\ UNCHANGED <<lifeVars, status, at, saw, lost>>

\* Another worker has taken the mailbox: KickConnections closes what is open.
LoseLease(w, m) ==
  /\ Awake(w) /\ Refreshing(w, m)
  /\ lease[m].owner # w
  /\ lost' = [lost EXCEPT ![w][m] = TRUE]
  /\ \/ at[w][m] = "sync" /\ Go(w, m, "kicked")
     \/ at[w][m] = "connect" /\ Go(w, m, "backoff")    \* while folders are listed
     \/ at[w][m] # "sync" /\ UNCHANGED at              \* nothing was open
  /\ UNCHANGED <<lifeVars, dbVars, readVars>>

-------------------------------------------------------------------------------
(* runOne and the cluster monitor *)

\* Run returned REMOTE: the mailbox is watched, unless the run is stopping.
Watch(w, m) ==
  /\ From(w, m, "remote")
  /\ Go(w, m, IF w \in stopping THEN "off" ELSE "watched")
  /\ UNCHANGED <<lifeVars, dbVars, readVars, lost>>

\* runOne gives way to a stop before it reaches Run.
Skip(w, m) ==
  /\ From(w, m, "queued") /\ w \in stopping
  /\ Go(w, m, "off")
  /\ UNCHANGED <<lifeVars, dbVars, readVars, lost>>

\* The monitor reads the lease of an entry.
MonitorLook(w, m) ==
  /\ From(w, m, "watched")
  /\ Look(w, m)
  /\ readers' = [readers EXCEPT ![m] = @ \union {w}]
  /\ Go(w, m, "looked")
  /\ UNCHANGED <<lifeVars, dbVars, lost>>

Unowned(w, m) == saw[w][m].owner \in {NoOne, w}

\* Nobody owns it and it has a final status: finished elsewhere.
MonitorFinished(w, m) ==
  /\ From(w, m, "looked") /\ Unowned(w, m)
  /\ status[m] \in Final
  /\ Go(w, m, "off")
  /\ Discard(w, m)
  /\ UNCHANGED <<lifeVars, dbVars, lost>>

\* Nobody owns it and it is unfinished: resume it here.
MonitorReleased(w, m) ==
  /\ From(w, m, "looked") /\ Unowned(w, m)
  /\ status[m] \notin Final
  /\ Go(w, m, "popped")
  /\ Discard(w, m)
  /\ UNCHANGED <<lifeVars, dbVars, lost>>

\* Somebody owns it: is that worker alive?
MonitorJudge(w, m) ==
  /\ From(w, m, "looked") /\ ~Unowned(w, m)
  /\ IF Dead(w, m)
     THEN Go(w, m, "doomed") /\ UNCHANGED readVars
     ELSE Go(w, m, "watched") /\ Discard(w, m)
  /\ UNCHANGED <<lifeVars, dbVars, lost>>

\* ForceLease, with the lease read before the heartbeat
MonitorReclaim(w, m) ==
  /\ From(w, m, "doomed")
  /\ IF CanForce(w, m)
     THEN Go(w, m, "popped") /\ WriteLease(m, w) /\ Forget(w, m)
     ELSE Go(w, m, "watched") /\ Discard(w, m) /\ UNCHANGED lease
  /\ UNCHANGED <<lifeVars, status, lost>>

Respawn(w, m) ==
  /\ From(w, m, "popped")
  /\ Go(w, m, "queued")
  /\ UNCHANGED <<lifeVars, dbVars, readVars, lost>>

-------------------------------------------------------------------------------
(* The life of a worker *)

\* RunMigrationBus: register, drop rows silent for a day, admit the mailboxes;
\* of those with status SUCCESS here, WARNINGS are not skipped.
Join(w) ==
  /\ proc[w] = "new"
  /\ proc' = [proc EXCEPT ![w] = "running"]
  /\ \E purged \in SUBSET {v \in Worker : heart[v] = "late"} :
       heart' = [v \in Worker |-> IF v = w THEN "fresh"
                                  ELSE IF v \in purged THEN "none" ELSE heart[v]]
  /\ \E skipped \in SUBSET {m \in Mailbox : SkipCompleted /\ status[m] = "SUCCESS"} :
       at' = [at EXCEPT ![w] = [m \in Mailbox |->
                IF m \in skipped THEN "off" ELSE "queued"]]
  /\ UNCHANGED <<stopping, asleep, dbVars, readVars, lost, budget>>

Heartbeat(w) ==
  /\ Awake(w)
  /\ heart[w] = "late"
  /\ heart' = [heart EXCEPT ![w] = "fresh"]
  /\ UNCHANGED <<proc, stopping, asleep, dbVars, at, readVars, lost, budget>>

\* No goroutine of runOne is left (wg.Wait).
NoRuns(w) == \A m \in Mailbox : at[w][m] \in {"off"} \union Monitored

\* The first runs are done.
RunsDone(w) ==
  /\ Awake(w) /\ proc[w] = "running" /\ NoRuns(w)
  /\ proc' = [proc EXCEPT ![w] = "standby"]
  /\ UNCHANGED <<stopping, asleep, heart, dbVars, at, readVars, lost, budget>>

\* What the wait loop waits for: watch.Len() > 0
Watches(w) ==
  \E m \in Mailbox :
    at[w][m] \in IF MainLoopRace THEN Monitored \ {"popped"} ELSE Monitored

\* Mutant: the wait loop does not stand by for the mailboxes of others.
EndWaitAtOnce(w) ==
  /\ Awake(w) /\ proc[w] = "standby"
  /\ proc' = [proc EXCEPT ![w] = "ending"]
  /\ UNCHANGED <<stopping, asleep, heart, dbVars, at, readVars, lost, budget>>

\* The wait loop ends, whether or not a respawned run is under way.
EndWait(w) ==
  /\ Awake(w) /\ proc[w] = "standby"
  /\ w \in stopping \/ ~Watches(w)
  /\ proc' = [proc EXCEPT ![w] = "ending"]
  /\ UNCHANGED <<stopping, asleep, heart, dbVars, at, readVars, lost, budget>>

\* RunMigrationBus returns: DeregisterWorker.
Leave(w) ==
  /\ Awake(w) /\ proc[w] = "ending" /\ NoRuns(w)
  /\ proc' = [proc EXCEPT ![w] = "left"]
  /\ heart' = [heart EXCEPT ![w] = "none"]
  /\ lease' = [m \in Mailbox |-> IF lease[m].owner = w THEN Free ELSE lease[m]]
  /\ readers' = [m \in Mailbox |-> IF lease[m].owner = w THEN {} ELSE readers[m] \ {w}]
  /\ at' = [at EXCEPT ![w] = [m \in Mailbox |-> "off"]]
  /\ saw' = [saw EXCEPT ![w] = [m \in Mailbox |-> Nothing]]
  /\ UNCHANGED <<stopping, asleep, status, lost, budget>>

-------------------------------------------------------------------------------
(* The environment *)

\* The context of the run is cancelled.
Stop(w) ==
  /\ proc[w] \in Alive /\ w \notin stopping
  /\ Spend("stop")
  /\ stopping' = stopping \union {w}
  /\ UNCHANGED <<proc, asleep, heart, dbVars, at, readVars, lost>>

\* kill -9, power loss
Crash(w) ==
  /\ proc[w] \in Alive
  /\ Spend("crash")
  /\ proc' = [proc EXCEPT ![w] = "crashed"]
  /\ asleep' = asleep \ {w}
  /\ at' = [at EXCEPT ![w] = [m \in Mailbox |-> "off"]]
  /\ saw' = [saw EXCEPT ![w] = [m \in Mailbox |-> Nothing]]
  /\ readers' = [m \in Mailbox |-> readers[m] \ {w}]
  /\ lost' = [lost EXCEPT ![w] = [m \in Mailbox |-> FALSE]]
  /\ UNCHANGED <<stopping, heart, dbVars>>

Suspend(w) ==
  /\ Awake(w)
  /\ Spend("suspend")
  /\ asleep' = asleep \union {w}
  /\ UNCHANGED <<proc, stopping, heart, dbVars, at, readVars, lost>>

Resume(w) ==
  /\ w \in asleep
  /\ asleep' = asleep \ {w}
  /\ UNCHANGED <<proc, stopping, heart, dbVars, at, readVars, lost, budget>>

\* --worker-timeout passes without a heartbeat.
GoLate(w) ==
  /\ ~Awake(w)
  /\ heart[w] = "fresh"
  /\ heart' = [heart EXCEPT ![w] = "late"]
  /\ UNCHANGED <<proc, stopping, asleep, dbVars, at, readVars, lost, budget>>

Older(age) == IF age = "fresh" THEN "old" ELSE "expired"

\* A threshold passes without a refresh.
AgeLease(m) ==
  /\ lease[m].owner # NoOne
  /\ lease[m].age # "expired"
  /\ ~\E w \in Worker : lease[m].owner = w /\ Awake(w) /\ Refreshing(w, m)
  /\ lease' = [lease EXCEPT ![m].age = Older(@)]
  /\ UNCHANGED <<lifeVars, status, at, readVars, lost>>

-------------------------------------------------------------------------------
Runner(w, m) ==
  \/ TryLease(w, m) \/ Claim(w, m) \/ Refused(w, m) \/ JudgeOwner(w, m)
  \/ ReadLease(w, m) \/ Reclaim(w, m) \/ Begin(w, m) \/ OpenPair(w, m)
  \/ Retry(w, m) \/ Finish(w, m) \/ Cancel(w, m) \/ Release(w, m)
  \/ LeaveDisplaced(w, m) \/ Watch(w, m) \/ Skip(w, m)

Refresher(w, m) == RefreshLease(w, m) \/ LoseLease(w, m)

Monitor(w, m) ==
  \/ MonitorLook(w, m) \/ MonitorFinished(w, m) \/ MonitorReleased(w, m)
  \/ MonitorJudge(w, m) \/ MonitorReclaim(w, m) \/ Respawn(w, m)

Process(w) == Join(w) \/ Heartbeat(w) \/ RunsDone(w) \/ EndWait(w) \/ Leave(w)

Environment(w) == Stop(w) \/ Crash(w) \/ Suspend(w) \/ Resume(w) \/ GoLate(w)

Next ==
  \/ \E w \in Worker, m \in Mailbox :
       \/ Runner(w, m) \/ Refresher(w, m) \/ Monitor(w, m)
       \/ FailAttempt(w, m) \/ Trouble(w, m)
  \/ \E w \in Worker : Process(w) \/ Environment(w)
  \/ \E m \in Mailbox : AgeLease(m)

Spec == Init /\ [][Next]_vars

\* A process that is awake goes on, and time passes.  Nobody has to join, and
\* nothing has to fail.
Fairness ==
  /\ \A w \in Worker, m \in Mailbox :
       WF_vars(Runner(w, m)) /\ WF_vars(Monitor(w, m)) /\ WF_vars(LoseLease(w, m))
  /\ \A w \in Worker :
       /\ WF_vars(Heartbeat(w)) /\ WF_vars(GoLate(w))
       /\ WF_vars(RunsDone(w)) /\ WF_vars(EndWait(w)) /\ WF_vars(Leave(w))
  /\ \A m \in Mailbox : WF_vars(AgeLease(m))

FairSpec == Spec /\ Fairness

-------------------------------------------------------------------------------
(* Properties *)

\* Every variable has its type, and only a process that is alive has a mailbox
\* in hand.
TypeOK ==
  /\ proc \in [Worker -> Life]
  /\ stopping \subseteq Worker
  /\ asleep \subseteq Worker
  /\ heart \in [Worker -> {"none", "fresh", "late"}]
  /\ lease \in [Mailbox -> Lease]
  /\ readers \in [Mailbox -> SUBSET Worker]
  /\ status \in [Mailbox -> Status]
  /\ at \in [Worker -> [Mailbox -> Place]]
  /\ saw \in [Worker -> [Mailbox -> Sight]]
  /\ lost \in [Worker -> [Mailbox -> BOOLEAN]]
  /\ budget \in Budget
  /\ \A w \in Worker, m \in Mailbox : at[w][m] # "off" => proc[w] \in Alive

\* Two workers never process the same mailbox (MailboxRunner.Run between the
\* claim and its return), whoever crashes and whoever takes over.
AtMostOneWorks ==
  \A m \in Mailbox, v, w \in Worker :
    at[v][m] \in Active /\ at[w][m] \in Active => v = w

\* The status of a mailbox is written only by the worker that holds its lease,
\* although SetMailbox and SetMailboxStatus do not check it.
OwnerWritesStatus ==
  [][\A m \in Mailbox : status'[m] # status[m] =>
       \E w \in Worker : at'[w][m] # at[w][m] /\ lease[m].owner = w]_vars

Survives(w) ==
  /\ <>(proc[w] = "running")
  /\ [](proc[w] # "crashed" /\ w \notin stopping /\ w \notin asleep)

\* Hot failover: as long as one worker stays, no mailbox is forgotten; each of
\* them is eventually migrated or has failed, whoever crashed while working on
\* it.
SurvivorFinishes ==
  \A w \in Worker, m \in Mailbox :
    Survives(w) => <>(status[m] \in {"SUCCESS", "FAILED"})

\* "while peers still hold project mailboxes, stay alive ... and stand by as a hot
\* failover" (scheduler.go): a worker that was not stopped does not end its run
\* with a mailbox in its watch.
StandsBy ==
  \A w \in Worker, m \in Mailbox :
    proc[w] = "ending" /\ w \notin stopping => at[w][m] # "watched"

\* A worker that knows it was displaced does not go on with open connections.
DisplacedWorkerStops ==
  \A w \in Worker, m \in Mailbox : ~(lost[w][m] /\ at[w][m] = "sync")
===============================================================================
