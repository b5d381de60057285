-------------------------------- MODULE Recovery --------------------------------
(***************************************************************************)
(* How a mailbox gets through trouble: the runner with its attempts and    *)
(* reconnects (engine/mailbox.go), the isolation ladder of a folder        *)
(* (engine/folder.go) and the supervisor of stalled transfers              *)
(* (engine/recovery.go), which share the connections, the bus and the      *)
(* counters of the dashboard.  One mailbox with one folder; what the       *)
(* database records is module FolderSync, what happens on the wire module  *)
(* Transfer.                                                               *)
(*                                                                         *)
(* A message is its UID, and a kind: some the destination refuses, at some *)
(* it drops the connection, at some it falls silent.                       *)
(***************************************************************************)
EXTENDS Integers, Sequences, FiniteSets, SequencesExt, FiniteSetsExt

CONSTANTS
  Kind,               \* Kind[u]: what the destination does with message u
  Resumed,            \* delivered and left in flight by an earlier process
  Window,             \* cfg.FetchWindow, cfg.AppendWindow
  BatchAttempts, MsgRetries, ReconnectAttempts, Retries, RecoveryRetries,
  IsoBudget,          \* losses the ladder may cost before they count (60)
  Troubles, MaxTrouble, \* what may go wrong besides, and how often
  MaxKick,            \* looks of the supervisor that end in a kick
  TroubleCost,        \* how many of those a trouble uses up (a bound)
  MaxRequeue

Kinds == {"good", "refused", "killer", "silent"}
UID == DOMAIN Kind

ASSUME RecoveryAssumption ==
  /\ Kind \in Seq(Kinds)
  /\ Resumed \subseteq {u \in UID : Kind[u] = "good"}
  /\ {Window, BatchAttempts, MsgRetries, RecoveryRetries} \subseteq Nat \ {0}
  /\ Troubles \subseteq {"dst", "src", "pause"}
  /\ {ReconnectAttempts, Retries, IsoBudget, MaxTrouble, MaxKick, TroubleCost,
      MaxRequeue}
       \subseteq Nat

VARIABLES
  pc,      \* where the runner's goroutine is
  err,     \* the error on its way up: "lost", "kick" or "none"
  run,     \* MailboxRunner: attempt, rc, gaveUp (failedFolders), status
  row,     \* row[u]: the state of the message in the database
  box,     \* the messages that are on the destination
  count,   \* MBValues: msgsDone, appended, adopted, prior, failed; priorSet
  rec,     \* poisonRec: losses, suspects, ladder, noCounts, isoLosses
  pass,    \* the pass of transferPass under way
  src,     \* the connections of the pair: "up", "lost", "kick", "off"
  dst,
  hung,    \* the destination has fallen silent on this connection
  watch,   \* watchState
  bus,     \* Paused, RecoveryHint, StaleFailed
  budget   \* what may still go wrong

vars == <<pc, err, run, row, box, count, rec, pass, src, dst, hung, watch, bus, budget>>

net == <<src, dst, hung>>
work == <<pc, err, run, row, count, rec, pass>>
outside == <<watch, bus, budget>>

NewRec == [losses |-> 0, suspects |-> {}, ladder |-> <<>>,
           noCounts |-> [u \in UID |-> 0], isoLosses |-> 0]
NoPass == [iso |-> FALSE, no |-> 1, rows |-> <<>>, taken |-> 0, fetched |-> 0,
           pend |-> <<>>, replies |-> <<>>, fails |-> <<>>, batch |-> {}, last |-> 0,
           phase |-> ""]
NoWatch == [on |-> FALSE, seen |-> <<>>, quiet |-> FALSE, spaced |-> TRUE,
            episode |-> FALSE, attempts |-> 0, tried |-> FALSE]

RowStates == {"planned", "inflight", "done", "failed"}
In(states) == {u \in UID : row[u] \in states}

\* The numbers of a set, in ascending order.
Sorted(us) ==
  [k \in 1..Cardinality(us) |-> CHOOSE u \in us : Cardinality({v \in us : v <= u}) = k]

\* What a sequence has of a set, in its order.
Those(s, us) ==
  LET at == Sorted({i \in DOMAIN s : s[i] \in us})
  IN [k \in DOMAIN at |-> s[at[k]]]

Init ==
  /\ pc = "connect"
  /\ err = "none"
  /\ run = [attempt |-> 1, rc |-> 0, gaveUp |-> FALSE, status |-> "RUNNING"]
  /\ row = [u \in UID |-> IF u \in Resumed THEN "inflight" ELSE "planned"]
  /\ box = Resumed
  /\ count = [msgsDone |-> 0, appended |-> 0, adopted |-> 0, prior |-> 0,
              failed |-> 0, priorSet |-> FALSE]
  /\ rec = NewRec
  /\ pass = NoPass
  /\ src = "off" /\ dst = "off" /\ hung = FALSE
  /\ watch = NoWatch
  /\ bus = [paused |-> FALSE, hint |-> FALSE, staleFailed |-> FALSE]
  /\ budget = [trouble |-> MaxTrouble, kick |-> MaxKick, requeue |-> MaxRequeue]

-------------------------------------------------------------------------------
(***************************************************************************)
(* The runner: attempts and reconnects.                                    *)
(***************************************************************************)

\* Mutant: a connection that we have closed ourselves is no error.
BrokenByPeer(link) == link = "lost"

Broken(link) == link \in {"lost", "kick"}

\* openPair: both connections; until they are logged in a kick or a loss ends
\* whatever wanted them.
OpenPair ==
  /\ pc \in {"connect", "reconnect"}
  /\ src' = "up" /\ dst' = "up" /\ hung' = FALSE
  /\ pc' = IF pc = "connect" THEN "list" ELSE "reopened"
  /\ UNCHANGED <<err, run, row, box, count, rec, pass, outside>>

\* The attempt goes on to its folder: a new folderSyncer, a new budget of
\* reconnects in an attempt that begins.
Ready ==
  /\ pc \in {"list", "reopened"}
  /\ src = "up" /\ dst = "up"
  /\ run' = IF pc = "list" THEN [run EXCEPT !.rc = 0, !.gaveUp = FALSE] ELSE run
  /\ pc' = "open"
  /\ pass' = NoPass
  /\ UNCHANGED <<err, row, box, count, rec, net, outside>>

\* Run: an attempt that could not connect or list is repeated after a delay.
FailAttempt ==
  /\ pc \in {"list", "reopened"}
  /\ Broken(src) \/ Broken(dst)
  /\ src' = "off" /\ dst' = "off"
  /\ IF run.attempt > Retries
     THEN pc' = "ended" /\ run' = [run EXCEPT !.status = "FAILED"]
     ELSE pc' = "retry" /\ run' = [run EXCEPT !.status = "RETRYING"]
  /\ UNCHANGED <<err, row, box, count, rec, pass, hung, outside>>

Retry ==
  /\ pc = "retry"
  /\ pc' = "connect"
  /\ run' = [run EXCEPT !.status = "RUNNING", !.attempt = @ + 1]
  /\ UNCHANGED <<err, row, box, count, rec, pass, net, outside>>

\* Mutant: the ladder has no budget of its own.
FreeOfChargeKickOnly == err = "kick"

\* What a loss may cost: kicks nothing, nor what the ladder needs.
FreeOfCharge == err = "kick" \/ (rec.ladder # <<>> /\ rec.isoLosses <= IsoBudget)

\* syncFolderWithReconnect, after run has returned an error.
Trouble ==
  /\ pc = "trouble"
  /\ IF err = "kick" /\ bus.staleFailed
     THEN pc' = "ended" /\ run' = [run EXCEPT !.status = "STALE"]
     ELSE IF FreeOfCharge THEN pc' = "reconnect" /\ run' = run
     ELSE IF run.rc >= ReconnectAttempts
          THEN pc' = "last" /\ run' = [run EXCEPT !.rc = @ + 1, !.gaveUp = TRUE]
     ELSE pc' = "reconnect" /\ run' = [run EXCEPT !.rc = @ + 1]
  /\ src' = "off" /\ dst' = "off"
  /\ err' = "none"
  /\ pass' = NoPass
  /\ UNCHANGED <<row, box, count, rec, hung, outside>>

\* attempt, after its folders, and the end of Run.
EndMailbox ==
  /\ pc = "last"
  /\ pc' = "ended"
  /\ run' = [run EXCEPT !.status =
       IF run.gaveUp THEN IF count.msgsDone > 0 THEN "PARTIAL" ELSE "FAILED"
       ELSE IF count.failed > 0 \/ In({"failed"}) # {} THEN "WARNINGS" ELSE "SUCCESS"]
  /\ src' = "off" /\ dst' = "off"
  /\ UNCHANGED <<err, row, box, count, rec, pass, hung, outside>>

\* RequeueFailed: another runner, whose poisonRec and baseline are new; the
\* counters of the dashboard stay.
Requeue ==
  /\ pc = "ended"
  /\ run.status \in {"FAILED", "PARTIAL", "STALE"}
  /\ budget.requeue > 0
  /\ budget' = [budget EXCEPT !.requeue = @ - 1]
  /\ bus' = [bus EXCEPT !.staleFailed = FALSE]
  /\ pc' = "connect"
  /\ run' = [attempt |-> 1, rc |-> 0, gaveUp |-> FALSE, status |-> "RUNNING"]
  /\ rec' = NewRec
  /\ pass' = NoPass
  /\ count' = [count EXCEPT !.priorSet = FALSE]
  /\ UNCHANGED <<err, row, box, net, watch>>

-------------------------------------------------------------------------------
(***************************************************************************)
(* A session of the folder.                                                *)
(***************************************************************************)

\* Fails with the error of a connection that is broken.
FailsWith(link) ==
  /\ Broken(link)
  /\ err' = link

\* Mutant: the baseline is taken again in each session.
BaselineOfSession(c, md) ==
  [c EXCEPT !.prior = md, !.msgsDone = md, !.priorSet = TRUE]

\* RefreshTotals.
Baseline(c, md) ==
  [c EXCEPT !.prior = IF c.priorSet THEN @ ELSE md, !.msgsDone = md, !.priorSet = TRUE]

\* run up to the scan of the source: what was in flight is reconciled.  What has
\* arrived counts as adopted at once, in MsgsDone only with the next RefreshTotals.
Reconcile ==
  LET arrived == In({"inflight"}) \intersect box
  IN /\ pc = "open"
     /\ src = "up" /\ dst = "up"
     /\ row' = [u \in UID |-> IF u \in arrived THEN "done"
                              ELSE IF row[u] = "inflight" THEN "planned" ELSE row[u]]
     /\ count' = [count EXCEPT !.adopted = @ + Cardinality(arrived)]
     /\ pc' = "scan"
     /\ UNCHANGED <<err, run, box, rec, pass, net, outside>>

\* The source is scanned; then the totals are read from the database.
RefreshTotals ==
  /\ pc = "scan"
  /\ src = "up"
  /\ count' = Baseline(count, Cardinality(In({"done"})))
  /\ pc' = "adopt"
  /\ UNCHANGED <<err, run, row, box, rec, pass, net, outside>>

\* run up to the transfer.  The scan for adoption, if there is one, finds nothing:
\* what is planned has never arrived.  A recovery hint puts the front of the queue
\* on the ladder.
OpenFolder ==
  LET queue == Sorted(In({"planned"}))
      front == SubSeq(queue, 1, Min({Window, Len(queue)}))
      hinted == rec.ladder = <<>> /\ bus.hint
  IN /\ pc = "adopt"
     /\ bus' = [bus EXCEPT !.hint = @ /\ ~hinted]
     /\ rec' = IF hinted /\ queue # <<>>
               THEN [rec EXCEPT !.ladder = <<[uids |-> front, tries |-> 0]>>] ELSE rec
     /\ pc' = IF rec'.ladder # <<>> THEN "ladder" ELSE "main"
     /\ UNCHANGED <<err, run, row, box, count, pass, net, watch, budget>>

\* Any of these commands may fail; no message is blamed.
OpenFolderFails ==
  /\ \/ pc \in {"open", "scan"} /\ FailsWith(src)
     \/ pc \in {"open", "adopt"} /\ FailsWith(dst)
  /\ pc' = "trouble"
  /\ UNCHANGED <<run, row, box, count, rec, pass, net, outside>>

StartPass(iso, no, rows) ==
  /\ pass' = [NoPass EXCEPT !.iso = iso, !.no = no, !.rows = rows,
                            !.last = pass.last, !.phase = pass.phase]
  /\ pc' = "fill"

\* isolationPhase: the next entry of the ladder.
StartEntry ==
  LET live == Those(Head(rec.ladder).uids, In({"planned", "inflight"}))
  IN /\ pc = "ladder"
     /\ rec.ladder # <<>>
     /\ IF live = <<>>
        THEN rec' = [rec EXCEPT !.ladder = Tail(@)] /\ UNCHANGED <<pc, pass>>
        ELSE StartPass(TRUE, 1, live) /\ rec' = rec
     /\ UNCHANGED <<err, run, row, box, count, net, outside>>

\* The end of isolationPhase.
LeaveLadder ==
  /\ pc = "ladder"
  /\ rec.ladder = <<>>
  /\ rec' = [rec EXCEPT !.losses = 0, !.suspects = {}]
  /\ pc' = "main"
  /\ UNCHANGED <<err, run, row, box, count, pass, net, outside>>

\* run: what is planned is transferred, if there is any.
StartMain ==
  LET queue == Sorted(In({"planned"}))
  IN /\ pc = "main"
     /\ IF queue = <<>> THEN pc' = "last" /\ pass' = pass ELSE StartPass(FALSE, 1, queue)
     /\ UNCHANGED <<err, run, row, box, count, rec, net, outside>>

-------------------------------------------------------------------------------
(***************************************************************************)
(* transferPass.  pass.phase and pass.last (lossPhase, lastAppUID) belong  *)
(* to the session and keep what an earlier pass has left in them.          *)
(***************************************************************************)

p == pass

\* startMore, before the loop and in it.
Fill ==
  /\ pc = "fill"
  /\ \/ /\ src = "up"
        /\ pass' = [p EXCEPT !.fetched = Min({Window, Len(p.rows)})]
        /\ pc' = "head" /\ err' = err
     \/ /\ FailsWith(src)
        /\ pc' = "broken" /\ pass' = pass
  /\ UNCHANGED <<run, row, box, count, rec, net, outside>>

Item == p.rows[p.taken]

\* The head of the loop: what was fetched is marked; a pause waits here.  One
\* item is taken and one more fetched.
Take ==
  LET more == p.fetched < Len(p.rows)
      fetched == {p.rows[i] : i \in 1..p.fetched}
  IN /\ pc = "head"
     /\ ~bus.paused
     /\ p.taken < p.fetched
     /\ row' = [u \in UID |-> IF u \in fetched /\ row[u] = "planned" THEN "inflight"
                              ELSE row[u]]
     /\ \/ /\ more => src = "up"
           /\ pass' = [p EXCEPT !.taken = @ + 1, !.fetched = IF more THEN @ + 1 ELSE @]
           /\ pc' = "body" /\ err' = err
        \/ /\ more /\ FailsWith(src)
           /\ pc' = "broken" /\ pass' = [p EXCEPT !.taken = @ + 1]
     /\ UNCHANGED <<run, box, count, rec, net, outside>>

\* WaitSize.  A body that has arrived is there even if the connection no longer is.
\* A kick fails the message.
Body ==
  /\ pc = "body"
  /\ \/ pc' = "append" /\ pass' = [p EXCEPT !.phase = "fetch"] /\ err' = err
     \/ FailsWith(src) /\ src = "lost" /\ pc' = "broken"
          /\ pass' = [p EXCEPT !.phase = "fetch"]
     \/ src = "kick" /\ pc' = "head" /\ err' = err
          /\ pass' = [p EXCEPT !.phase = "fetch", !.fails = Append(@, Item)]
  /\ UNCHANGED <<run, row, box, count, rec, net, outside>>

\* AppendBegin, the stream, Finish.  From here on a loss blames the message.
AppendItem ==
  LET q == [p EXCEPT !.last = Item, !.phase = "append"]
  IN /\ pc = "append"
     /\ \/ dst = "up" /\ pc' = "settle" /\ pass' = [q EXCEPT !.pend = Append(@, Item)]
             /\ err' = err
        \/ (FailsWith(src) \/ FailsWith(dst)) /\ pc' = "broken" /\ pass' = q
     /\ UNCHANGED <<run, row, box, count, rec, net, outside>>

Full == Len(p.pend) >= Window

\* Everything is sent, and some of it not answered.
Drained == pc = "head" /\ p.taken = p.fetched /\ p.pend # <<>>

\* settleOne: the answer to the oldest APPEND.  What was accepted is counted, and
\* goes into doneBatch for the database.  A lost connection ends the pass; a
\* kick, like a NO, fails the message.
SettleOne ==
  LET u == Head(p.pend)
      answered == p.replies # <<>>
      q == [p EXCEPT !.pend = Tail(@), !.replies = IF answered THEN Tail(@) ELSE @]
  IN /\ \/ pc = "settle" /\ Full
        \/ Drained
     /\ \/ /\ answered /\ Head(p.replies) = "OK"
           /\ count' = [count EXCEPT !.msgsDone = @ + 1, !.appended = @ + 1]
           /\ pass' = [q EXCEPT !.batch = @ \union {u}] /\ UNCHANGED <<pc, err>>
        \/ /\ IF answered THEN Head(p.replies) = "NO" ELSE dst = "kick"
           /\ pass' = [q EXCEPT !.fails = Append(@, u)]
           /\ UNCHANGED <<pc, err, count>>
        \/ /\ ~answered /\ dst = "lost" /\ FailsWith(dst)
           /\ pc' = "broken" /\ pass' = [p EXCEPT !.pend = Tail(@)]
           /\ UNCHANGED count
     /\ UNCHANGED <<run, row, box, rec, net, outside>>

\* flush: what is in doneBatch is done in the database.
Flushed == [u \in UID |-> IF u \in p.batch THEN "done" ELSE row[u]]
Emptied == [p EXCEPT !.batch = {}]

\* There is room for the next item.  The batch is written if enough time has passed.
Room ==
  /\ pc = "settle"
  /\ ~Full
  /\ pc' = "head"
  /\ \/ UNCHANGED <<row, pass>>
     \/ row' = Flushed /\ pass' = Emptied
  /\ UNCHANGED <<err, run, box, count, rec, net, outside>>

-------------------------------------------------------------------------------
(***************************************************************************)
(* What a pass says about its messages.                                    *)
(***************************************************************************)

\* flush(true) at the end of a pass, then permanentFail for all of us.
GivenUp(us) ==
  /\ row' = [u \in UID |-> IF u \in us THEN "failed" ELSE Flushed[u]]
  /\ count' = [count EXCEPT !.failed = @ + Cardinality(us)]

\* notePass: a refusal is counted until a pass gets the message through.
Noted(r, rows, fails) ==
  [r EXCEPT !.noCounts = [u \in UID |-> IF u \in fails THEN @[u] + 1
                                        ELSE IF u \in rows THEN 0 ELSE @[u]],
            !.losses = IF fails = {} THEN 0 ELSE @,
            !.suspects = IF fails = {} THEN {} ELSE @]

Forgotten(r, us) == [r EXCEPT !.noCounts = [u \in UID |-> IF u \in us THEN 0 ELSE @[u]]]

Complete == pc = "head" /\ p.taken = Len(p.rows) /\ p.pend = <<>>

\* run: what fails is tried again, MsgRetries times in all, and then given up.
MainPassEnds ==
  LET fails == ToSet(p.fails)
      r == Noted(rec, ToSet(p.rows), fails)
  IN /\ Complete
     /\ ~p.iso
     /\ IF fails # {} /\ p.no < MsgRetries
        THEN /\ StartPass(FALSE, p.no + 1, p.fails)
             /\ rec' = r
             /\ row' = Flushed
             /\ UNCHANGED count
        ELSE /\ GivenUp(fails)
             /\ rec' = Forgotten(r, fails)
             /\ pc' = "last" /\ pass' = Emptied
     /\ UNCHANGED <<err, run, box, net, outside>>

Single(u) == [uids |-> <<u>>, tries |-> 0]

\* isolationPhase: a message that is refused alone or too often is given up; what
\* was refused among others is tried alone.
LadderPassEnds ==
  LET fails == ToSet(p.fails)
      r == Noted(rec, ToSet(p.rows), fails)
      lost == {u \in fails : Len(p.rows) = 1 \/ r.noCounts[u] >= MsgRetries}
      again == Those(p.fails, fails \ lost)
  IN /\ Complete
     /\ p.iso
     /\ GivenUp(lost)
     /\ rec' = [Forgotten(r, lost) EXCEPT
                  !.ladder = Tail(@) \o [i \in 1..Len(again) |-> Single(again[i])]]
     /\ pc' = "ladder"
     /\ pass' = Emptied
     /\ UNCHANGED <<err, run, box, net, outside>>

\* Mutant: the message stays in the batch.
WithIt(us, u) == us

Without(us, u) == Those(us, ToSet(us) \ {u})

\* Mutant: one loss counts as two tries.
TriedTwice(e) == [e EXCEPT !.tries = @ + 2]

\* isolationPhase: an entry of the ladder that has cost a connection once more: it
\* is given up, split in halves, or its last message is probed first.
Tried(e) == [e EXCEPT !.tries = @ + 1]

Climbed(entry, above) ==
  LET e == Tried(entry)
      half == Max({1, Len(e.uids) \div 2})
  IN IF Len(p.rows) = 1
     THEN IF e.tries >= BatchAttempts THEN above ELSE <<e>> \o above
     ELSE IF e.tries >= BatchAttempts
     THEN <<[uids |-> SubSeq(e.uids, 1, half), tries |-> 0],
            [uids |-> SubSeq(e.uids, half + 1, Len(e.uids)), tries |-> 0]>> \o above
     ELSE IF Len(e.uids) > 1 /\ p.last \in ToSet(e.uids)
     THEN <<Single(p.last), [e EXCEPT !.uids = Without(@, p.last)]>> \o above
     ELSE <<e>> \o above

\* noteTransportLoss: the suspects are those in flight at every loss so far; after
\* BatchAttempts losses, or when all of them were refused before, they form the
\* first entry of the ladder, the last one sent before the others.
Blamed(r, inflight) ==
  LET window == inflight \union ({p.last} \ {0})
      common == IF r.suspects = {} THEN window ELSE r.suspects \intersect window
      q == IF common # {} THEN [r EXCEPT !.losses = @ + 1, !.suspects = common]
           ELSE [r EXCEPT !.losses = 1, !.suspects = window]
      refused == common # {} /\ \A u \in common : r.noCounts[u] >= 1
      all == Sorted(q.suspects)
  IN IF window = {} THEN r
     ELSE IF q.ladder # <<>> \/ ~(q.losses >= BatchAttempts \/ refused) THEN q
     ELSE [q EXCEPT !.ladder =
             IF p.last \in q.suspects /\ Len(all) > 1
             THEN <<Single(p.last), [uids |-> Without(all, p.last), tries |-> 0]>>
             ELSE <<[uids |-> all, tries |-> 0]>>]

\* Whether a loss is evidence against messages.
Blames == p.phase = "append"

\* A pass that has ended in an error.
PassBreaks ==
  LET entry == Head(rec.ladder)
      spent == /\ Blames /\ p.iso /\ Len(p.rows) = 1
               /\ Tried(entry).tries >= BatchAttempts
      lost == IF spent THEN {p.rows[1]} ELSE {}
      r == IF ~p.iso THEN rec
           ELSE [Forgotten(rec, lost) EXCEPT
                   !.isoLosses = @ + 1,
                   !.ladder = IF Blames THEN Climbed(entry, Tail(@)) ELSE @]
  IN /\ pc = "broken"
     /\ GivenUp(lost)
     /\ rec' = IF Blames THEN Blamed(r, In({"inflight"}) \ (p.batch \union lost)) ELSE r
     /\ pc' = "trouble"
     /\ pass' = Emptied
     /\ UNCHANGED <<err, run, box, net, outside>>

Runner ==
  \/ OpenPair \/ Ready \/ FailAttempt \/ Retry \/ Trouble \/ EndMailbox
  \/ Reconcile \/ RefreshTotals \/ OpenFolder \/ OpenFolderFails
  \/ StartEntry \/ LeaveLadder \/ StartMain
  \/ Fill \/ Take \/ Body \/ AppendItem \/ SettleOne \/ Room
  \/ MainPassEnds \/ LadderPassEnds \/ PassBreaks

-------------------------------------------------------------------------------
(***************************************************************************)
(* The destination, and connections that break.                            *)
(***************************************************************************)

\* The destination executes the next APPEND of the connection.
Serve ==
  LET k == Len(p.replies) + 1
      u == p.pend[k]
      answer == Append(p.replies, IF Kind[u] = "good" THEN "OK" ELSE "NO")
  IN /\ dst = "up" /\ ~hung
     /\ k <= Len(p.pend)
     /\ hung' = (Kind[u] = "silent")
     /\ dst' = IF Kind[u] = "killer" THEN "lost" ELSE dst
     /\ box' = IF Kind[u] = "good" THEN box \union {u} ELSE box
     /\ pass' = IF Kind[u] \in {"good", "refused"} THEN [p EXCEPT !.replies = answer]
                ELSE pass
     /\ UNCHANGED <<pc, err, run, row, count, rec, src, outside>>

Happens(what) ==
  /\ what \in Troubles /\ budget.trouble > 0
  /\ budget.kick >= TroubleCost
  /\ budget' = [budget EXCEPT !.trouble = @ - 1, !.kick = @ - TroubleCost]

\* A connection breaks; answers on the way may be lost.
CutDst ==
  /\ dst = "up" /\ Happens("dst")
  /\ dst' = "lost"
  /\ \E n \in 0..Len(p.replies) : pass' = [p EXCEPT !.replies = SubSeq(@, 1, n)]
  /\ UNCHANGED <<pc, err, run, row, box, count, rec, src, hung, watch, bus>>

CutSrc ==
  /\ src = "up" /\ Happens("src")
  /\ src' = "lost"
  /\ UNCHANGED <<pc, err, run, row, box, count, rec, pass, dst, hung, watch, bus>>

\* The watchdogs of the client: while the runner waits for an answer that does not
\* come, or for the end of a pause, the source has nothing to say either.
Waits ==
  \/ hung /\ p.replies = <<>> /\ (Drained \/ (pc = "settle" /\ Full))
  \/ bus.paused /\ pc = "head" /\ p.taken < p.fetched

WatchdogSrc ==
  /\ src = "up" /\ Waits
  /\ src' = "lost"
  /\ UNCHANGED <<work, box, dst, hung, outside>>

WatchdogDst ==
  /\ dst = "up" /\ Waits
  /\ dst' = "lost"
  /\ UNCHANGED <<work, box, src, hung, outside>>

Breaks == CutDst \/ CutSrc \/ WatchdogSrc \/ WatchdogDst

-------------------------------------------------------------------------------
(***************************************************************************)
(* The supervisor, and the operator's pause.                               *)
(***************************************************************************)

\* hardSig.  (Bodies are smaller than the 64 KiB that would count by themselves.)
Signature == <<count.msgsDone, count.appended, count.adopted, run.status, run.attempt>>

HasLiveClients == src = "up" \/ dst = "up"

KickConnections ==
  /\ src' = IF src = "up" THEN "kick" ELSE src
  /\ dst' = IF dst = "up" THEN "kick" ELSE dst

\* StaleTimeout, or RecoveryInterval, passes without progress.
Elapse ==
  /\ watch.on
  /\ watch.seen = Signature
  /\ ~bus.paused
  /\ ~watch.quiet \/ ~watch.spaced
  /\ watch' = [watch EXCEPT !.quiet = TRUE, !.spaced = TRUE]
  /\ UNCHANGED <<work, box, net, bus, budget>>

\* A tick that only observes: a pause and progress reset the clock, progress ends
\* the episode, a mailbox that does not run is not watched.
Observe ==
  LET fresh == [NoWatch EXCEPT !.on = TRUE, !.seen = Signature]
  IN /\ watch' = CASE bus.paused -> [watch EXCEPT !.quiet = FALSE]
                   [] ~bus.paused /\ (run.status # "RUNNING" \/ pc = "ended") -> NoWatch
                   [] ~bus.paused /\ run.status = "RUNNING" /\ pc # "ended" ->
                        IF ~watch.on THEN fresh
                        ELSE IF watch.seen # Signature
                        THEN [watch EXCEPT !.seen = Signature, !.quiet = FALSE,
                                           !.episode = FALSE,
                                           !.attempts = IF watch.episode THEN 0 ELSE @]
                        ELSE IF ~watch.episode /\ watch.quiet /\ ~HasLiveClients
                        THEN [watch EXCEPT !.quiet = FALSE] ELSE watch
     /\ watch' # watch
     /\ bus' = [bus EXCEPT !.staleFailed =
                  @ /\ ~(~bus.paused /\ watch.on /\ watch.episode /\ run.status = "RUNNING"
                         /\ watch.seen # Signature)]
     /\ UNCHANGED <<work, box, net, budget>>

\* A tick that acts on a stall: reconnect; then Recovery Mode; then give up.
Act ==
  LET begins == ~watch.episode
      w == [watch EXCEPT !.episode = TRUE, !.attempts = IF begins THEN 0 ELSE @]
  IN /\ ~bus.paused
     /\ run.status = "RUNNING" /\ pc # "ended"
     /\ watch.on /\ watch.seen = Signature
     /\ IF begins THEN watch.quiet /\ HasLiveClients ELSE watch.spaced
     /\ budget.kick > 0
     /\ budget' = [budget EXCEPT !.kick = @ - 1]
     /\ IF w.attempts < RecoveryRetries
        THEN watch' = [w EXCEPT !.attempts = @ + 1, !.spaced = FALSE] /\ bus' = bus
        ELSE IF ~w.tried
        THEN /\ watch' = [w EXCEPT !.tried = TRUE, !.attempts = 0, !.spaced = FALSE]
             /\ bus' = [bus EXCEPT !.hint = TRUE]
        ELSE /\ watch' = [w EXCEPT !.episode = FALSE]
             /\ bus' = [bus EXCEPT !.staleFailed = TRUE]
     /\ KickConnections
     /\ UNCHANGED <<work, box, hung>>

TogglePause ==
  /\ bus' = [bus EXCEPT !.paused = ~@]
  /\ IF bus.paused THEN budget' = budget ELSE Happens("pause")
  /\ UNCHANGED <<work, box, net, watch>>

Supervisor == Elapse \/ Observe \/ Act

Next == Runner \/ Requeue \/ Serve \/ Breaks \/ Supervisor \/ TogglePause

Spec == Init /\ [][Next]_vars

\* The runner goes on, the destination answers unless it is silent, the watchdogs
\* notice what is, and a pause ends.  The supervisor need not do anything.
Unpause == bus.paused /\ TogglePause

Fairness ==
  /\ WF_vars(Runner)
  /\ WF_vars(Serve)
  /\ WF_vars(WatchdogSrc)
  /\ WF_vars(WatchdogDst)
  /\ WF_vars(Unpause)

FairSpec == Spec /\ Fairness

-------------------------------------------------------------------------------
\* Every variable has its type; an entry of the ladder is never empty.
TypeOK ==
  /\ pc \in {"connect", "list", "reconnect", "reopened", "retry", "open", "scan", "adopt",
             "ladder", "main", "fill", "head", "body", "append", "settle", "broken",
             "trouble", "last", "ended"}
  /\ err \in {"none", "lost", "kick"}
  /\ run.status \in {"RUNNING", "RETRYING", "SUCCESS", "WARNINGS", "PARTIAL", "FAILED",
                     "STALE"}
  /\ row \in [UID -> RowStates] /\ box \subseteq UID
  /\ p.batch \subseteq In({"inflight"})
  /\ {src, dst} \subseteq {"off", "up", "lost", "kick"}
  /\ Len(p.pend) <= Window /\ Len(p.replies) <= Len(p.pend)
  /\ p.taken <= p.fetched /\ p.fetched <= Len(p.rows)
  /\ \A i \in DOMAIN rec.ladder : rec.ladder[i].uids # <<>>

Kicks == MaxKick - budget.kick - TroubleCost * (MaxTrouble - budget.trouble)

\* The losses that a mailbox has to survive before its ladder takes over: each
\* message that breaks connections costs BatchAttempts.
Expected ==
  BatchAttempts * Cardinality({u \in UID : Kind[u] \in {"killer", "silent"}})
    + MaxTrouble - budget.trouble

\* "a small batch of poison messages can no longer trap a migration": when nobody
\* kicks, and the reconnects allow for the losses until the messages are on the
\* ladder, a mailbox ends with every good message copied and exactly the others
\* given up, however many connections the ladder then needs.
PoisonNeverTraps ==
  pc = "ended" /\ Kicks = 0 /\ run.attempt = 1 /\ run.status # "FAILED"
    /\ Expected <= ReconnectAttempts =>
    \A u \in UID : row[u] = IF Kind[u] = "good" THEN "done" ELSE "failed"

\* "pure connection losses retry the same batch": no message that the destination
\* would take is given up unless the supervisor has kicked.
InnocentNeverFails ==
  Kicks = 0 => \A u \in UID : Kind[u] = "good" => row[u] # "failed"

\* A message is on the ladder once, so it is given up once, and the dashboard counts
\* it once.
LadderIsSound ==
  /\ \A i, j \in DOMAIN rec.ladder : \A a \in DOMAIN rec.ladder[i].uids :
       \A b \in DOMAIN rec.ladder[j].uids :
         rec.ladder[i].uids[a] = rec.ladder[j].uids[b] => i = j /\ a = b
  /\ count.failed = Cardinality(In({"failed"}))

\* Confirmed: in the database, or in the batch that goes there next.
Confirmed == Cardinality(In({"done"})) + Cardinality(p.batch)

\* The session has read its totals, or a session that had has brought the mailbox to
\* its end.
TotalsAreFresh ==
  \/ pc \in {"adopt", "ladder", "main", "fill", "head", "body", "append", "settle", "broken"}
  \/ pc = "last" /\ ~run.gaveUp
  \/ pc = "ended" /\ run.status \in {"SUCCESS", "WARNINGS"}

\* "MsgsDone == Appended + Adopted + PriorDone" (stats.go), until the operator queues
\* the mailbox again: whatever cuts, kicks and reconciliations come in between,
\* every confirmed message is counted in exactly one way - what an earlier process
\* has left in flight in two, as adopted and as done before - and MsgsDone counts
\* them all from the time a session has read its totals.  Before that, and so in
\* the report of a mailbox that then gives up, MsgsDone may be too small: what
\* reconcileInflight has adopted is not in it yet.
TotalsReconcile ==
  count.priorSet /\ budget.requeue = MaxRequeue =>
    /\ count.appended + count.adopted + count.prior = Confirmed + Cardinality(Resumed)
    /\ count.msgsDone <= Confirmed
    /\ TotalsAreFresh => count.msgsDone = Confirmed

\* "Source-side losses never blame a message" (noteTransportLoss).
SourceIsNoEvidence ==
  Kicks = 0 /\ Troubles = {"src"} /\ (\A u \in UID : Kind[u] = "good") =>
    rec.suspects = {} /\ rec.ladder = <<>>

\* "Recovery exhausted appears only when nothing else can be done": a mailbox is
\* called STALE only by the kick that gave it up.
StaleIsExhausted ==
  run.status = "STALE" => ~watch.episode

\* "Recovery kicks never consume the normal retry budget."
KicksAreFree ==
  budget.trouble = MaxTrouble /\ (\A u \in UID : Kind[u] = "good") =>
    run.attempt = 1 /\ run.rc = 0 /\ run.status # "FAILED"

\* The mailbox always comes to an end.
Terminates == <>(pc = "ended")
===============================================================================
