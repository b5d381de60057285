------------------------------ MODULE FolderSync ------------------------------
(***************************************************************************)
(* The migration of one folder (internal/engine/folder.go) over its part   *)
(* of the State Database (internal/state/db.go), a source folder, a        *)
(* destination folder and the connection between them.                     *)
(*                                                                         *)
(* A session is one call of folderSyncer.run: select -> reconcile -> scan  *)
(* -> adopt -> transfer -> finalize.  It ends when run returns: finished,  *)
(* on a lost connection, on a stop request, or because the process died;   *)
(* syncFolderWithReconnect, a retry of the mailbox or the next invocation  *)
(* then starts another one from what the database holds.                   *)
(*                                                                         *)
(* Data is abstracted to what the properties tell apart: a message is its  *)
(* UID, its content (a member of Body) and the fingerprint of its content. *)
(* Which of the suspect messages the isolation ladder tries next, and when *)
(* repeated losses put messages on it, is left open here.                  *)
(***************************************************************************)
EXTENDS Integers, FiniteSets

CONSTANTS
  Uid,            \* UIDs of the source folder
  Body,           \* message contents
  Fingerprint,    \* values of FingerprintFromHeaders
  NoFp,           \* the NULL fingerprint of a row
  FP,             \* FP[b]: the fingerprint of content b
  SrcBody,        \* SrcBody[u]: content of source message u at the start
  Preloaded,      \* contents on the destination before the first session
  Refusable,      \* source UIDs whose APPEND the destination may refuse
  AppendWindow, FetchWindow, MsgRetries,   \* --append-window and so on
  IsolateFailed, NoDedupScan, RescanDest,  \* switches of the run
  UidPlus,        \* the destination answers APPEND with APPENDUID
  LiteralPlus,    \* ... and takes literals without a continuation
  LateCommit,     \* the destination may execute an APPEND after the
                  \* client has lost the connection and reconnected
  EarlyChurn,     \* UIDVALIDITY may change before a session recorded it
  OnlineRequeue,  \* retry-failed and compact may run during a session
  MaxCut, MaxKick, MaxSrcChurn, MaxDstChurn, MaxRequeue, MaxCompact

ASSUME UidAssumption == Uid \subseteq Nat \ {0} /\ IsFiniteSet(Uid)

ASSUME FpAssumption == /\ FP \in [Body -> Fingerprint]
                       /\ NoFp \notin Fingerprint

ASSUME SrcAssumption == SrcBody \in [Uid -> Body]

ASSUME PreloadAssumption == Preloaded \subseteq Body /\ IsFiniteSet(Preloaded)

ASSUME WindowAssumption == /\ AppendWindow \in Nat \ {0}
                           /\ FetchWindow \in Nat \ {0}
                           /\ MsgRetries \in Nat \ {0}

ASSUME SwitchAssumption ==
  /\ IsolateFailed \in BOOLEAN /\ NoDedupScan \in BOOLEAN
  /\ RescanDest \in BOOLEAN    /\ UidPlus \in BOOLEAN
  /\ LateCommit \in BOOLEAN    /\ EarlyChurn \in BOOLEAN
  /\ OnlineRequeue \in BOOLEAN /\ LiteralPlus \in BOOLEAN

ASSUME BoundAssumption ==
  /\ MaxCut \in Nat      /\ MaxKick \in Nat
  /\ MaxSrcChurn \in Nat /\ MaxDstChurn \in Nat
  /\ MaxRequeue \in Nat  /\ MaxCompact \in Nat

VARIABLES
  src,        \* source folder: UIDVALIDITY and the content of each UID
  dst,        \* destination folder: UIDVALIDITY, UIDNEXT and its messages
  limbo,      \* contents whose APPEND outlived its connection
  rows,       \* table messages: one row for each source UID
  folder,     \* the row of table folders
  registry,   \* table failed_messages: status for each source UID
  pc,         \* where the session is; "idle" between sessions
  link,       \* the connection pair: "up", "kicked" (StaleKick) or "lost"
  sess,       \* locals of run: what it read when it started
  plan,       \* DoneTriples computed by a scan and not yet committed
  ladder,     \* UIDs on the isolation ladder (poisonRec, in memory)
  hint,       \* the supervisor's recovery hint for this mailbox (Bus)
  pass,       \* the running transferPass: mode, attempt and its rows
  todo,       \* UIDs not yet inserted (scan) or not yet fetched (pass)
  win,        \* fetchQ: bodies requested and not yet appended
  fresh,      \* newlyWindowed: requested, intent not yet recorded
  wire,       \* pend: the APPENDs sent and what became of each
  batch,      \* doneBatch: acknowledged and not yet flushed
  failures,   \* rows this pass could not deliver
  failing,    \* row between RecordFailed and MarkState, or 0
  copied,     \* s.copied: rows acknowledged in this session
  command,    \* a retry-failed under way: its selection, what it has to replan
  budget      \* how many of each environment event have happened

dbVars   == <<rows, folder, registry>>
passVars == <<pass, todo, win, fresh, wire, batch, failures, failing, copied>>
sessVars == <<sess, plan>>
memVars  == <<ladder, hint>>
vars == <<src, dst, limbo, dbVars, pc, link, sessVars, memVars, passVars, command,
          budget>>

-------------------------------------------------------------------------------
(* Values *)

Row == [st  : {"none", "planned", "inflight", "done", "failed"},
        dst : Nat,                       \* destination UID, 0 = NULL
        fp  : Fingerprint \union {NoFp}]

NoRow == [st |-> "none", dst |-> 0, fp |-> NoFp]

Folder == [uvSrc : Nat, uvDst : Nat, bracket : Nat, adopt : BOOLEAN,
           status : {"", "DONE", "WARNINGS"}]

Mail == [uid : Nat \ {0}, body : Body]

Triple == [src : Uid, dst : Nat]

Session == [bracket : Nat, adoptDone : BOOLEAN, occupied : BOOLEAN,
            next : Nat, adopt : BOOLEAN, known : SUBSET Uid]

NoSession == [bracket |-> 0, adoptDone |-> FALSE, occupied |-> FALSE,
              next |-> 0, adopt |-> FALSE, known |-> {}]

Ack == [ack : {"off", "sent", "ok", "no", "kicked"}, dst : Nat]

Off == [ack |-> "off", dst |-> 0]

Idle == [u \in Uid |-> Off]

Pass == [mode : {"batch", "isolate"}, n : Nat, rows : SUBSET Uid]

NoPass == [mode |-> "batch", n |-> 0, rows |-> {}]

Command == [stage : {"none", "mark", "replan"}, sel : SUBSET Uid, keys : SUBSET Uid]

NoCommand == [stage |-> "none", sel |-> {}, keys |-> {}]

Places == {"idle", "status", "reconcile", "readopt", "replan", "scan", "insert",
           "adopt", "confirm", "record", "bracket", "transfer", "ladder", "pass",
           "fail", "recover", "finalize"}

Least(S) == CHOOSE u \in S : \A v \in S : u <= v

\* The first n elements of S
Front(S, n) == {u \in S : Cardinality({v \in S : v < u}) < n}

With(st) == {u \in Uid : rows[u].st = st}

\* db.FolderCounts, the messages of a state
Count(st) == Cardinality(With(st))

Pending == {u \in Uid : wire[u].ack # "off"}

Unanswered == {u \in Uid : wire[u].ack = "sent"}

-------------------------------------------------------------------------------
(* The State Database operations the session uses *)

\* db.InsertPlanned: INSERT OR IGNORE, with a fingerprint if adoption is to come
InsertPlanned(us) ==
  [u \in Uid |-> IF u \in us /\ rows[u].st = "none"
                 THEN [st |-> "planned", dst |-> 0,
                       fp |-> IF sess.adopt THEN FP[src.body[u]] ELSE NoFp]
                 ELSE rows[u]]

\* db.SetFP for the rows of us that have no fingerprint yet
FillFp(us) ==
  [u \in Uid |-> IF u \in us /\ rows[u].fp = NoFp
                 THEN [rows[u] EXCEPT !.fp = FP[src.body[u]]] ELSE rows[u]]

\* db.MarkState
MarkState(us, st) ==
  [u \in Uid |-> IF u \in us /\ rows[u].st # "none"
                 THEN [rows[u] EXCEPT !.st = st] ELSE rows[u]]

\* db.MarkDone: a missing fingerprint is filled from the streamed header
MarkDone(ts) ==
  [u \in Uid |->
     IF rows[u].st # "none" /\ \E t \in ts : t.src = u
     THEN [st |-> "done", dst |-> (CHOOSE t \in ts : t.src = u).dst,
           fp |-> IF rows[u].fp = NoFp THEN FP[src.body[u]] ELSE rows[u].fp]
     ELSE rows[u]]

\* The pairing of reconcileInflight and adopt: the destination messages of a
\* fingerprint form a queue, and the rows of that fingerprint, in UID order,
\* take its elements one after the other.
Match(us, r, mail) ==
  {t \in [src : us, dst : {e.uid : e \in mail}] :
     \E e \in mail :
       /\ e.uid = t.dst
       /\ FP[e.body] = r[t.src].fp
       /\ Cardinality({v \in us : v < t.src /\ r[v].fp = r[t.src].fp})
            = Cardinality({m \in mail : m.uid < t.dst /\ FP[m.body] = FP[e.body]})}

\* APPEND as the destination executes it
Deliver(b) ==
  [dst EXCEPT !.next = @ + 1,
              !.mail = @ \union {[uid |-> dst.next, body |-> b]}]

-------------------------------------------------------------------------------
Init ==
  /\ src = [uv |-> 1, body |-> SrcBody]
  /\ \E number \in [Preloaded -> 1..Cardinality(Preloaded)] :
       /\ \A a, b \in Preloaded : number[a] = number[b] => a = b
       /\ dst = [uv |-> 1, next |-> Cardinality(Preloaded) + 1,
                 mail |-> {[uid |-> number[b], body |-> b] : b \in Preloaded}]
  /\ limbo = {}
  /\ rows = [u \in Uid |-> NoRow]
  /\ folder = [uvSrc |-> 0, uvDst |-> 0, bracket |-> 0, adopt |-> FALSE,
               status |-> ""]
  /\ registry = [u \in Uid |-> "none"]
  /\ pc = "idle"
  /\ link = "lost"
  /\ sess = NoSession
  /\ plan = {}
  /\ ladder = {}
  /\ hint = FALSE
  /\ pass = NoPass
  /\ todo = {} /\ win = {} /\ fresh = {}
  /\ wire = Idle
  /\ batch = {} /\ failures = {} /\ failing = 0 /\ copied = {}
  /\ command = NoCommand
  /\ budget = [cut |-> 0, kick |-> 0, srcChurn |-> 0, dstChurn |-> 0,
               requeue |-> 0, compact |-> 0]

-------------------------------------------------------------------------------
(* run: select, status, reconcile *)

\* Mutant: a renumbered source goes unnoticed.
SrcChurnedNever == FALSE

\* A UIDVALIDITY on record is no longer the folder's.
SrcChurned == folder.uvSrc # 0 /\ folder.uvSrc # src.uv

\* Mutant: the recorded UIDVALIDITY is compared with the source's.
DstChurnedFromSource == folder.uvDst # 0 /\ folder.uvDst # src.uv

DstChurned == folder.uvDst # 0 /\ folder.uvDst # dst.uv

\* FolderRow, then SELECT of the source: a changed UIDVALIDITY drops the rows.
OpenFolder ==
  /\ pc = "idle"
  /\ IF SrcChurned
     THEN /\ rows' = [u \in Uid |-> NoRow]
          /\ folder' = [folder EXCEPT !.adopt = FALSE, !.uvSrc = 0]
     ELSE UNCHANGED <<rows, folder>>
  /\ sess' = [NoSession EXCEPT !.bracket = folder.bracket,
                               !.adoptDone = folder.adopt /\ ~SrcChurned]
  /\ limbo' = IF LateCommit THEN limbo ELSE {}
  /\ link' = "up"
  /\ pc' = "status"
  /\ UNCHANGED <<command, src, dst, registry, plan, memVars, passVars, budget>>

\* Mutant: only the rows in flight are reset.
ResetInflightRow(r) ==
  IF r.st = "inflight" THEN [r EXCEPT !.st = "planned", !.dst = 0] ELSE r

\* ResetFolderMessages(fid, true): what the destination confirmed, or was about
\* to, goes back to verification.
ResetRow(r) ==
  IF r.st \in {"done", "inflight"} THEN [r EXCEPT !.st = "planned", !.dst = 0] ELSE r

\* Mutant: the bracket moves up before reconcile has used it.
NoteStatusAndBracket(f) == [f EXCEPT !.bracket = dst.next]

\* What STATUS of the destination leaves in the folder's row
NoteStatus(f) == IF DstChurned THEN [f EXCEPT !.adopt = FALSE, !.uvDst = 0] ELSE f

\* Mutant: adoption is not repeated when the destination was renumbered.
StatusDstKeepsAdopted ==
  /\ pc = "status" /\ link = "up"
  /\ rows' = [u \in Uid |-> IF DstChurned THEN ResetRow(rows[u]) ELSE rows[u]]
  /\ sess' = [sess EXCEPT !.occupied = dst.mail # {}, !.next = dst.next]
  /\ pc' = IF {u \in Uid : rows'[u].st = "inflight"} # {} THEN "reconcile" ELSE "scan"
  /\ UNCHANGED <<command, src, dst, limbo, folder, registry, link, plan, memVars, passVars,
                 budget>>

\* STATUS of the destination: a changed UIDVALIDITY resets the folder's rows.
StatusDst ==
  /\ pc = "status" /\ link = "up"
  /\ rows' = [u \in Uid |-> IF DstChurned THEN ResetRow(rows[u]) ELSE rows[u]]
  /\ folder' = NoteStatus(folder)
  /\ sess' = [sess EXCEPT !.occupied = dst.mail # {},
                          !.next = dst.next,
                          !.adoptDone = @ /\ ~DstChurned,
                          !.bracket = IF DstChurned THEN 0 ELSE @]
  /\ pc' = IF {u \in Uid : rows'[u].st = "inflight"} # {} THEN "reconcile" ELSE "scan"
  /\ UNCHANGED <<command, src, dst, limbo, registry, link, plan, memVars, passVars, budget>>

\* Mutant: the tail starts at the UIDNEXT of this session.
TailFromNext == {e \in dst.mail : e.uid >= sess.next}

\* The destination's messages at or above the bracket
Tail == {e \in dst.mail : e.uid >= sess.bracket}

\* reconcileInflight, up to the scan of the destination's tail
ReconcileScan ==
  /\ pc = "reconcile" /\ link = "up"
  /\ rows' = FillFp(With("inflight"))
  /\ plan' = Match(With("inflight"), rows', Tail)
  /\ pc' = "readopt"
  /\ UNCHANGED <<command, src, dst, limbo, folder, registry, link, sess, memVars, passVars,
                 budget>>

\* reconcileInflight: db.MarkDone(done, "adopted")
ReconcileAdopt ==
  /\ pc = "readopt"
  /\ rows' = MarkDone(plan)
  /\ plan' = {}
  /\ pc' = "replan"
  /\ UNCHANGED <<command, src, dst, limbo, folder, registry, link, sess, memVars, passVars,
                 budget>>

\* Mutant: what was not delivered is not queued again.
ReconcileReplanNone ==
  /\ pc = "replan"
  /\ UNCHANGED rows
  /\ pc' = "scan"
  /\ UNCHANGED <<command, src, dst, limbo, folder, registry, link, sessVars, memVars,
                 passVars, budget>>

\* reconcileInflight: db.MarkState(back, "planned")
ReconcileReplan ==
  /\ pc = "replan"
  /\ rows' = MarkState(With("inflight"), "planned")
  /\ pc' = "scan"
  /\ UNCHANGED <<command, src, dst, limbo, folder, registry, link, sessVars, memVars,
                 passVars, budget>>

-------------------------------------------------------------------------------
(* run: source scan and adoption *)

ScanSource ==
  /\ pc = "scan" /\ link = "up"
  /\ todo' = With("none")
  /\ sess' = [sess EXCEPT !.adopt = /\ sess.occupied /\ ~NoDedupScan
                                    /\ ~sess.adoptDone \/ RescanDest]
  /\ pc' = "insert"
  /\ UNCHANGED <<command, src, dst, limbo, dbVars, link, plan, memVars, pass, win, fresh,
                 wire, batch, failures, failing, copied, budget>>

\* One UIDFetchMeta chunk and its InsertPlanned
InsertChunk ==
  /\ pc = "insert" /\ link = "up" /\ todo # {}
  /\ \E last \in todo :
       LET chunk == {u \in todo : u <= last}
       IN  /\ rows' = InsertPlanned(chunk)
           /\ todo' = todo \ chunk
  /\ UNCHANGED <<command, src, dst, limbo, folder, registry, pc, link, sessVars, memVars,
                 pass, win, fresh, wire, batch, failures, failing, copied, budget>>

\* The scan is complete: UpdateFolder(uv_src)
RecordSource ==
  /\ pc = "insert" /\ todo = {}
  /\ folder' = [folder EXCEPT !.uvSrc = src.uv]
  /\ pc' = IF sess.adopt THEN "adopt" ELSE "record"
  /\ UNCHANGED <<command, src, dst, limbo, rows, registry, link, sessVars, memVars, passVars,
                 budget>>

\* Fingerprints of older planned rows, then adopt's scan of the destination
AdoptScan ==
  /\ pc = "adopt" /\ link = "up"
  /\ rows' = FillFp(With("planned"))
  /\ plan' = Match(With("planned"), rows', dst.mail)
  /\ pc' = "confirm"
  /\ UNCHANGED <<command, src, dst, limbo, folder, registry, link, sess, memVars, passVars,
                 budget>>

\* adopt: db.MarkDone(triples, "adopted")
AdoptConfirm ==
  /\ pc = "confirm"
  /\ rows' = MarkDone(plan)
  /\ plan' = {}
  /\ pc' = "record"
  /\ UNCHANGED <<command, src, dst, limbo, folder, registry, link, sess, memVars, passVars,
                 budget>>

\* UpdateFolder(adopt_done, uv_dst)
RecordDst ==
  /\ pc = "record"
  /\ folder' = [folder EXCEPT !.uvDst = dst.uv, !.adopt = @ \/ sess.adopt]
  /\ pc' = "bracket"
  /\ UNCHANGED <<command, src, dst, limbo, rows, registry, link, sessVars, memVars, passVars,
                 budget>>

\* db.RegistryUIDs: the entries that markRecoveries may settle
RegistryUIDs == {u \in Uid : registry[u] \in {"FAILED", "RETRY_PENDING"}}

\* UpdateFolder(last_uidnext_dst), then RegistryUIDs
RecordBracket ==
  /\ pc = "bracket"
  /\ folder' = [folder EXCEPT !.bracket = sess.next]
  /\ sess' = [sess EXCEPT !.known = RegistryUIDs]
  /\ pc' = "transfer"
  /\ UNCHANGED <<command, src, dst, limbo, rows, registry, link, plan, memVars, passVars,
                 budget>>

-------------------------------------------------------------------------------
(* transferPass *)

\* The pass ahead starts over the rows of us: the first FetchWindow bodies are
\* requested, their rows are newlyWindowed.
StartPass(us, mode, n) ==
  LET window == Front(us, FetchWindow)
  IN  /\ pass' = [mode |-> mode, n |-> n, rows |-> us]
      /\ win' = window
      /\ fresh' = window
      /\ todo' = us \ window
      /\ failures' = {}
      /\ pc' = "pass"

\* isolationPhase takes rows of the ladder that are planned or in flight
StartIsolation ==
  /\ pc \in {"transfer", "ladder"} /\ link = "up" /\ IsolateFailed
  /\ \E us \in SUBSET (ladder \intersect (With("planned") \union With("inflight"))) :
       us # {} /\ StartPass(us, "isolate", 1)
  /\ UNCHANGED <<command, src, dst, limbo, dbVars, link, sessVars, memVars, wire, batch,
                 failing, copied, budget>>

\* The ladder names no live row any more: isolationPhase returns
LeaveIsolation ==
  /\ pc \in {"transfer", "ladder"} /\ ladder # {}
  /\ ladder \intersect (With("planned") \union With("inflight")) = {}
  /\ ladder' = {}
  /\ pc' = "ladder"
  /\ UNCHANGED <<command, src, dst, limbo, dbVars, link, sessVars, hint, passVars, budget>>

\* TakeRecoveryHint, before the ladder is worked: the head of the queue goes on it
TakeHint ==
  /\ pc = "transfer" /\ ladder = {} /\ hint /\ IsolateFailed
  /\ hint' = FALSE
  /\ ladder' = Front(With("planned"), AppendWindow)
  /\ pc' = "ladder"
  /\ UNCHANGED <<command, src, dst, limbo, dbVars, link, sessVars, passVars, budget>>

\* All planned rows, first pass
StartBatch ==
  /\ pc \in {"transfer", "ladder"} /\ ladder = {}
  /\ pc = "transfer" => ~(hint /\ IsolateFailed)
  /\ IF With("planned") # {}
     THEN link = "up" /\ StartPass(With("planned"), "batch", 1)
     ELSE pc' = "recover" /\ UNCHANGED <<pass, win, fresh, todo, failures>>
  /\ UNCHANGED <<command, src, dst, limbo, dbVars, link, sessVars, memVars, wire, batch,
                 failing, copied, budget>>

\* Top of the loop: intent rows before any of their appends can start
MarkIntent ==
  /\ pc = "pass" /\ fresh # {}
  /\ rows' = MarkState(fresh, "inflight")
  /\ fresh' = {}
  /\ UNCHANGED <<command, src, dst, limbo, folder, registry, pc, link, sessVars, memVars,
                 pass, todo, win, wire, batch, failures, failing, copied, budget>>

\* Mutant: streaming does not wait for MarkState.
IntentsNotAwaited == TRUE

\* The loop streams a body only after MarkState has recorded the intents.
IntentsRecorded == fresh = {}

\* One body is streamed from the source into an APPEND; the window refills.
Stream ==
  /\ pc = "pass" /\ link = "up" /\ IntentsRecorded /\ win # {}
  /\ Cardinality(Pending) < AppendWindow
  /\ LET u    == Least(win)
         more == IF todo = {} THEN {} ELSE {Least(todo)}
     IN  /\ win' = (win \ {u}) \union more
         /\ fresh' = fresh \union more
         /\ todo' = todo \ more
         /\ wire' = [wire EXCEPT ![u] = [ack |-> "sent", dst |-> 0]]
  /\ UNCHANGED <<command, src, dst, limbo, dbVars, pc, link, sessVars, memVars, pass, batch,
                 failures, failing, copied, budget>>

\* The source connection was kicked: WaitSize returns StaleKick, which is not
\* ConnLost, so the row counts as failed and the pass goes on.
StreamKicked ==
  /\ pc = "pass" /\ link = "kicked" /\ fresh = {} /\ win # {} /\ todo = {}
  /\ Cardinality(Pending) < AppendWindow
  /\ win' = win \ {Least(win)}
  /\ failures' = failures \union {Least(win)}
  /\ UNCHANGED <<command, src, dst, limbo, dbVars, pc, link, sessVars, memVars, pass, todo,
                 fresh, wire, batch, failing, copied, budget>>

\* The destination executes the oldest outstanding APPEND of the connection.
ServerAppend ==
  /\ link = "up" /\ Unanswered # {}
  /\ LET u == Least(Unanswered)
     IN  /\ wire' = [wire EXCEPT ![u] =
                       [ack |-> "ok", dst |-> IF UidPlus THEN dst.next ELSE 0]]
         /\ dst' = Deliver(src.body[u])
  /\ UNCHANGED <<command, src, limbo, dbVars, pc, link, sessVars, memVars, pass, todo, win,
                 fresh, batch, failures, failing, copied, budget>>

ServerRefuse ==
  /\ link = "up" /\ Unanswered # {}
  /\ LET u == Least(Unanswered)
     IN  /\ u \in Refusable
         /\ wire' = [wire EXCEPT ![u].ack = "no"]
  /\ UNCHANGED <<command, src, dst, limbo, dbVars, pc, link, sessVars, memVars, pass, todo,
                 win, fresh, batch, failures, failing, copied, budget>>

\* Wait returned without an error
Acknowledged(a) == a.ack = "ok"

\* settleOne: the oldest APPEND, when the window is full or the fetches are done
Settle ==
  /\ pc = "pass" /\ Pending # {}
  /\ Cardinality(Pending) >= AppendWindow \/ win = {}
  /\ LET u == Least(Pending)
     IN  /\ wire[u].ack # "sent"
         /\ wire' = [wire EXCEPT ![u] = Off]
         /\ IF Acknowledged(wire[u])
            THEN /\ batch' = batch \union {[src |-> u, dst |-> wire[u].dst]}
                 /\ copied' = copied \union {u}
                 /\ UNCHANGED failures
            ELSE /\ failures' = failures \union {u}
                 /\ UNCHANGED <<batch, copied>>
  /\ UNCHANGED <<command, src, dst, limbo, dbVars, pc, link, sessVars, memVars, pass, todo,
                 win, fresh, failing, budget>>

\* flush(false): 200 acknowledged rows or 1.5 seconds
TimedFlush ==
  /\ pc = "pass" /\ batch # {} /\ Cardinality(Pending) < AppendWindow
  /\ rows' = MarkDone(batch)
  /\ batch' = {}
  /\ UNCHANGED <<command, src, dst, limbo, folder, registry, pc, link, sessVars, memVars,
                 pass, todo, win, fresh, wire, failures, failing, copied, budget>>

\* The pass is over: flush(true), then what run or isolationPhase do with the
\* rows that failed.  The next pass needs a live connection for its fetches.
EndPass ==
  /\ pc = "pass" /\ win = {} /\ Pending = {}
  /\ rows' = MarkDone(batch)
  /\ batch' = {}
  /\ IF pass.mode = "batch"
     THEN /\ UNCHANGED ladder
          /\ \/ /\ failures = {}
                /\ pc' = "recover"
                /\ UNCHANGED <<pass, win, fresh, todo, failures>>
             \/ /\ failures # {} /\ pass.n < MsgRetries /\ link = "up"
                /\ StartPass(failures, "batch", pass.n + 1)
             \/ /\ failures # {} /\ pass.n >= MsgRetries
                /\ pc' = "fail"
                /\ UNCHANGED <<pass, win, fresh, todo, failures>>
     ELSE \E given \in SUBSET failures :
            /\ Cardinality(pass.rows) = 1 => given = failures
            /\ failures' = given
            /\ ladder' = (ladder \ pass.rows) \union (failures \ given)
            /\ pc' = "fail"
            /\ UNCHANGED <<pass, win, fresh, todo>>
  /\ UNCHANGED <<command, hint, src, dst, limbo, folder, registry, link, sessVars, wire,
                 failing, copied, budget>>

-------------------------------------------------------------------------------
(* permanentFail, one row after the other: the registry first, the row second *)

\* Mutant: INSERT .. ON CONFLICT DO NOTHING.
FirstEntry(u) == [registry EXCEPT ![u] = IF @ = "none" THEN "FAILED" ELSE @]

\* db.RecordFailed: INSERT .. ON CONFLICT DO UPDATE
Entry(u) == [registry EXCEPT ![u] = "FAILED"]

RecordFailed ==
  /\ pc = "fail" /\ failing = 0 /\ failures # {}
  /\ failing' = Least(failures)
  /\ registry' = Entry(Least(failures))
  /\ UNCHANGED <<command, src, dst, limbo, rows, folder, pc, link, sessVars, memVars, pass,
                 todo, win, fresh, wire, batch, failures, copied, budget>>

MarkFailed ==
  /\ pc = "fail" /\ failing # 0
  /\ rows' = MarkState({failing}, "failed")
  /\ failures' = failures \ {failing}
  /\ failing' = 0
  /\ UNCHANGED <<command, src, dst, limbo, folder, registry, pc, link, sessVars, memVars,
                 pass, todo, win, fresh, wire, batch, copied, budget>>

AfterFailures ==
  /\ pc = "fail" /\ failures = {} /\ link # "lost"
  /\ pc' = IF pass.mode = "batch" THEN "recover" ELSE "ladder"
  /\ UNCHANGED <<command, src, dst, limbo, dbVars, link, sessVars, memVars, passVars, budget>>

\* db.MarkRecovered, whatever the entry says by now
MarkRecovered(us) ==
  [u \in Uid |-> IF u \in us /\ registry[u] # "none" THEN "RECOVERED" ELSE registry[u]]

\* markRecoveries: only rows this session copied
MarkRecoveries ==
  /\ pc = "recover"
  /\ registry' = MarkRecovered(copied \intersect sess.known)
  /\ pc' = "finalize"
  /\ UNCHANGED <<command, src, dst, limbo, rows, folder, link, sessVars, memVars, passVars,
                 budget>>

\* Everything a session keeps in memory, when it ends
EndSession ==
  /\ pc' = "idle"
  /\ link' = "lost"
  /\ sess' = NoSession
  /\ plan' = {}
  /\ pass' = NoPass
  /\ todo' = {} /\ win' = {} /\ fresh' = {}
  /\ wire' = Idle
  /\ batch' = {} /\ failures' = {} /\ failing' = 0 /\ copied' = {}
  /\ limbo' = limbo \union {src.body[u] : u \in Unanswered}

\* Mutant: only the failures of the last pass count.
SessionStatus == IF failures = {} THEN "DONE" ELSE "WARNINGS"

\* The counts of the folder's rows decide its status, not this session's outcome.
FinalStatus == IF Count("failed") = 0 THEN "DONE" ELSE "WARNINGS"

\* The end of run.  WARNINGS re-arms adoption unless it just ran
Finalize ==
  /\ pc = "finalize"
  /\ folder' = [folder EXCEPT !.status = FinalStatus,
                              !.adopt = FinalStatus = "DONE" \/ sess.adopt]
  /\ EndSession
  /\ UNCHANGED <<command, src, dst, rows, registry, memVars, budget>>

-------------------------------------------------------------------------------
(* How a session is cut short *)

\* noteTransportLoss: repeated losses in the append phase put rows that are in
\* flight on the ladder.
NoteLoss ==
  \E suspects \in SUBSET {u \in Uid : rows'[u].st = "inflight"} :
    /\ suspects # {} => pc \in {"pass", "ladder"} /\ ladder = {} /\ IsolateFailed
    /\ ladder' = ladder \union suspects

\* The connection is lost, or a command on it fails, where run waits for the
\* network; transferPass flushes what was acknowledged.
LoseConnection ==
  /\ link = "up" /\ budget.cut < MaxCut
  /\ \/ pc \in {"status", "reconcile", "scan", "insert", "adopt"}
     \/ pc = "pass" /\ (win # {} \/ Pending # {})
  /\ rows' = MarkDone(batch)
  /\ NoteLoss
  /\ EndSession
  /\ budget' = [budget EXCEPT !.cut = @ + 1]
  /\ UNCHANGED <<command, src, dst, folder, registry, hint>>

\* Without LITERAL+ the destination may refuse an APPEND before its literal.
\* That is neither ConnLost nor StaleKick: run returns it, and noteTransportLoss
\* does not look at it.
RefuseLiteral ==
  /\ pc = "pass" /\ link = "up" /\ fresh = {} /\ win # {} /\ ~LiteralPlus
  /\ Cardinality(Pending) < AppendWindow
  /\ Least(win) \in Refusable
  /\ pass.mode = "isolate" => Cardinality(pass.rows) > 1
  /\ rows' = MarkDone(batch)
  /\ EndSession
  /\ UNCHANGED <<command, src, dst, folder, registry, memVars, budget>>

\* isolationPhase: the last try of a single loses the connection
LoseOnSingle ==
  /\ pc = "pass" /\ budget.cut < MaxCut
  /\ \/ link = "up" /\ (win # {} \/ Pending # {})
     \/ link = "kicked" /\ win # {}
  /\ pass.mode = "isolate" /\ Cardinality(pass.rows) = 1
  /\ ladder' = ladder \ pass.rows
  /\ failures' = pass.rows
  /\ limbo' = limbo \union {src.body[u] : u \in Unanswered}
  /\ todo' = {} /\ win' = {} /\ fresh' = {} /\ wire' = Idle
  /\ link' = "lost"
  /\ pc' = "fail"
  /\ budget' = [budget EXCEPT !.cut = @ + 1]
  /\ UNCHANGED <<command, src, dst, dbVars, sessVars, hint, pass, batch, failing, copied>>

\* ... and isolationPhase returns the error once the row is recorded
Hangup ==
  /\ pc = "fail" /\ failures = {} /\ link = "lost"
  /\ EndSession
  /\ UNCHANGED <<command, src, dst, dbVars, memVars, budget>>

\* KickConnections by the stale supervisor while the pass waits.  Answers the
\* reader has not read yet are lost with the connection.
Kick ==
  /\ pc = "pass" /\ link = "up" /\ (win # {} \/ Pending # {})
  /\ budget.kick < MaxKick
  /\ \E unread \in SUBSET Pending :
       /\ Unanswered \subseteq unread
       /\ \A u \in unread, v \in Pending : v > u => v \in unread
       /\ wire' = [u \in Uid |-> IF u \in unread
                                 THEN [ack |-> "kicked", dst |-> 0] ELSE wire[u]]
  /\ limbo' = limbo \union {src.body[u] : u \in Unanswered}
  /\ link' = "kicked"
  /\ hint' \in {hint, TRUE}
  /\ budget' = [budget EXCEPT !.kick = @ + 1]
  /\ UNCHANGED <<command, src, dst, dbVars, pc, sessVars, ladder, pass, todo, win, fresh,
                 batch, failures, failing, copied>>

\* The first command on a kicked connection returns the StaleKick: transferPass
\* flushes, run returns it, and the runner reconnects.
Unwind ==
  /\ link = "kicked"
  /\ \/ pc = "pass" /\ fresh = {} /\ win # {}
     \/ /\ pc = "pass" /\ win = {} /\ Pending = {}
        /\ pass.mode = "batch" /\ failures # {} /\ pass.n < MsgRetries
     \/ /\ pc \in {"transfer", "ladder"}
        /\ IF ladder = {} THEN With("planned") # {}
           ELSE ladder \intersect (With("planned") \union With("inflight")) # {}
  /\ rows' = MarkDone(batch)
  /\ NoteLoss
  /\ EndSession
  /\ UNCHANGED <<command, src, dst, folder, registry, hint, budget>>

\* A stop request: flush, do not wait for the outstanding answers, exit
Stop ==
  /\ budget.cut < MaxCut
  /\ \/ pc \in {"insert", "adopt", "transfer", "ladder"}
     \/ pc = "pass" /\ fresh = {} /\ win # {}
  /\ rows' = MarkDone(batch)
  /\ ladder' = {} /\ hint' = FALSE
  /\ EndSession
  /\ budget' = [budget EXCEPT !.cut = @ + 1]
  /\ UNCHANGED <<command, src, dst, folder, registry>>

\* The process dies: what is not in the database is gone
Crash ==
  /\ pc # "idle" /\ budget.cut < MaxCut
  /\ ladder' = {} /\ hint' = FALSE
  /\ EndSession
  /\ budget' = [budget EXCEPT !.cut = @ + 1]
  /\ UNCHANGED <<command, src, dst, dbVars>>

-------------------------------------------------------------------------------
(* The servers and the operator's other commands *)

\* An APPEND whose connection is gone is executed all the same
ServerLate ==
  /\ \E b \in limbo : dst' = Deliver(b) /\ limbo' = limbo \ {b}
  /\ UNCHANGED <<command, src, dbVars, pc, link, sessVars, memVars, passVars, budget>>

\* The source folder is renumbered between two sessions
ChurnSource ==
  /\ pc = "idle" /\ budget.srcChurn < MaxSrcChurn
  /\ folder.uvSrc = 0 => EarlyChurn
  /\ \E body \in [Uid -> Body] :
       /\ {body[u] : u \in Uid} = {src.body[u] : u \in Uid}
       /\ src' = [uv |-> src.uv + 1, body |-> body]
  /\ budget' = [budget EXCEPT !.srcChurn = @ + 1]
  /\ UNCHANGED <<command, dst, limbo, dbVars, pc, link, sessVars, memVars, passVars>>

\* The destination folder is renumbered, or deleted and created again empty
ChurnDestination ==
  /\ pc = "idle" /\ budget.dstChurn < MaxDstChurn
  /\ folder.uvDst = 0 => EarlyChurn
  /\ \E mail \in {{}, {[e EXCEPT !.uid = dst.next - @] : e \in dst.mail}} :
       dst' = [dst EXCEPT !.uv = @ + 1, !.mail = mail]
  /\ budget' = [budget EXCEPT !.dstChurn = @ + 1]
  /\ UNCHANGED <<command, src, limbo, dbVars, pc, link, sessVars, memVars, passVars>>

\* The entries of us that a command selects: all that are not RECOVERED
Selected(us) == {u \in us : registry[u] \notin {"none", "RECOVERED"}}

\* mailferry retry-failed, of the folder or of one UID.  SetFailedStatus reads
\* the entries it is about, ...
RetryFailed ==
  /\ command.stage = "none"
  /\ pc = "idle" \/ OnlineRequeue
  /\ budget.requeue < MaxRequeue
  /\ \E us \in {Uid} \union {{u} : u \in Uid} :
       /\ Selected(us) # {}
       /\ command' = [stage |-> "mark", sel |-> us, keys |-> Selected(us)]
  /\ budget' = [budget EXCEPT !.requeue = @ + 1]
  /\ UNCHANGED <<src, dst, limbo, dbVars, pc, link, sessVars, memVars, passVars>>

\* ... sets the status of those that match by now, ...
MarkPending ==
  /\ command.stage = "mark"
  /\ pc = "idle" \/ OnlineRequeue
  /\ registry' = [u \in Uid |-> IF u \in Selected(command.sel)
                                THEN "RETRY_PENDING" ELSE registry[u]]
  /\ command' = [command EXCEPT !.stage = "replan"]
  /\ UNCHANGED <<src, dst, limbo, rows, folder, pc, link, sessVars, memVars, passVars,
                 budget>>

\* ... and plans the rows of those it has read, one after the other, if they
\* are failed.
Replan ==
  /\ command.stage = "replan" /\ command.keys # {}
  /\ pc = "idle" \/ OnlineRequeue
  /\ LET u == Least(command.keys)
     IN  /\ rows' = IF rows[u].st = "failed" THEN MarkState({u}, "planned") ELSE rows
         /\ command' = [command EXCEPT !.keys = @ \ {u}]
  /\ UNCHANGED <<src, dst, limbo, folder, registry, pc, link, sessVars, memVars,
                 passVars, budget>>

\* The command returns, or it is killed half-way.
CommandEnds ==
  /\ \/ command.stage = "replan" /\ command.keys = {} /\ UNCHANGED budget
     \/ /\ command.stage # "none" /\ budget.cut < MaxCut
        /\ budget' = [budget EXCEPT !.cut = @ + 1]
  /\ command' = NoCommand
  /\ UNCHANGED <<src, dst, limbo, dbVars, pc, link, sessVars, memVars, passVars>>

\* mailferry failed --ignore: the entries of the mailbox, the rows stay as they are
IgnoreFailed ==
  /\ pc = "idle" \/ OnlineRequeue
  /\ budget.requeue < MaxRequeue
  /\ Selected(Uid) # {}
  /\ registry' = [u \in Uid |-> IF u \in Selected(Uid) THEN "IGNORED" ELSE registry[u]]
  /\ budget' = [budget EXCEPT !.requeue = @ + 1]
  /\ UNCHANGED <<command, src, dst, limbo, rows, folder, pc, link, sessVars, memVars,
                 passVars>>

\* mailferry compact: confirmed rows of finished folders are deleted
Compact ==
  /\ pc = "idle" \/ OnlineRequeue
  /\ budget.compact < MaxCompact /\ folder.status = "DONE"
  /\ rows' = [u \in Uid |-> IF rows[u].st = "done" THEN NoRow ELSE rows[u]]
  /\ budget' = [budget EXCEPT !.compact = @ + 1]
  /\ UNCHANGED <<command, src, dst, limbo, folder, registry, pc, link, sessVars, memVars,
                 passVars>>

-------------------------------------------------------------------------------
Step ==
  \/ OpenFolder \/ StatusDst \/ ReconcileScan \/ ReconcileAdopt \/ ReconcileReplan
  \/ ScanSource \/ InsertChunk \/ RecordSource \/ AdoptScan \/ AdoptConfirm
  \/ RecordDst \/ RecordBracket
  \/ StartIsolation \/ LeaveIsolation \/ TakeHint \/ StartBatch
  \/ MarkIntent \/ Stream \/ StreamKicked \/ Settle \/ EndPass
  \/ RecordFailed \/ MarkFailed \/ AfterFailures
  \/ MarkRecoveries \/ Finalize \/ Hangup \/ Unwind

Server == ServerAppend \/ ServerRefuse

Next ==
  \/ Step
  \/ Server \/ ServerLate
  \/ TimedFlush
  \/ LoseConnection \/ RefuseLiteral \/ LoseOnSingle \/ Kick \/ Stop \/ Crash
  \/ ChurnSource \/ ChurnDestination
  \/ RetryFailed \/ MarkPending \/ Replan \/ CommandEnds \/ IgnoreFailed \/ Compact

Spec == Init /\ [][Next]_vars

\* The session's own steps are taken as long as they can be, the server answers,
\* and an interrupted session is started again.
Fairness == WF_vars(Step) /\ WF_vars(Server)

FairSpec == Spec /\ Fairness

-------------------------------------------------------------------------------
(* Type invariant *)

\* Every variable has its type; what a session, the servers and the operator do
\* never leaves a value outside of it.
TypeOK ==
  /\ src \in [uv : Nat \ {0}, body : [Uid -> Body]]
  /\ dst \in [uv : Nat \ {0}, next : Nat \ {0}, mail : SUBSET Mail]
  /\ limbo \subseteq Body
  /\ rows \in [Uid -> Row]
  /\ folder \in Folder
  /\ registry \in [Uid -> {"none", "FAILED", "RETRY_PENDING", "IGNORED", "RECOVERED"}]
  /\ pc \in Places
  /\ link \in {"up", "kicked", "lost"}
  /\ sess \in Session
  /\ plan \subseteq Triple
  /\ ladder \subseteq Uid
  /\ hint \in BOOLEAN
  /\ pass \in Pass
  /\ todo \subseteq Uid /\ win \subseteq Uid /\ fresh \subseteq Uid
  /\ wire \in [Uid -> Ack]
  /\ batch \subseteq Triple
  /\ failures \subseteq Uid
  /\ failing \in Uid \union {0}
  /\ copied \subseteq Uid
  /\ command \in Command
  /\ budget \in [cut : Nat, kick : Nat, srcChurn : Nat, dstChurn : Nat,
                 requeue : Nat, compact : Nat]

-------------------------------------------------------------------------------
(* Safety *)

\* The database speaks of the folders as they are now: neither UIDVALIDITY has
\* changed since a session recorded it.
SameEpoch == folder.uvSrc \in {0, src.uv} /\ folder.uvDst \in {0, dst.uv}

\* Destination UID d (0: unknown) carries what source message u carries.
Carries(d, u) ==
  \E e \in dst.mail : d \in {0, e.uid} /\ FP[e.body] = FP[src.body[u]]

\* A confirmed row is on the destination, under the UID it names, across
\* crashes, lost answers and UIDVALIDITY changes ("no done without APPENDUID or
\* a positive destination probe", engine/folder.go).
DoneIsDelivered ==
  SameEpoch => \A u \in With("done") : Carries(rows[u].dst, u)

\* Each content is on the destination at most once ("duplicates are impossible
\* by design", engine/folder.go).
NoDuplicates ==
  \A e, f \in dst.mail : e.body = f.body => e.uid = f.uid

\* Two source messages are never confirmed by one destination message, which
\* would silently lose one of them (reconcileInflight and adopt).
DoneIsInjective ==
  SameEpoch =>
    \A u, v \in With("done") :
      rows[u].dst = rows[v].dst /\ rows[u].dst # 0 => u = v

\* While the fate of an APPEND is open, its row is on record as in flight ("no
\* APPEND without an inflight intent row"), so whatever ends the session, the
\* next one reconciles it.
IntentCoversAppend ==
  \A u \in Uid : wire[u].ack # "off" \/ (\E t \in batch : t.src = u)
                   => rows[u].st = "inflight"

\* Between sessions, a message that reached the destination without being
\* confirmed is one the next session looks for: it is in flight and above the
\* bracket, or was given up, or adoption is still to come.
DeliveredIsCovered ==
  pc = "idle" /\ SameEpoch =>
    \A u \in Uid, e \in dst.mail :
      e.body = src.body[u] =>
        \/ rows[u].st \in {"done", "failed"}
        \/ rows[u].st = "inflight" /\ e.uid >= folder.bracket
        \/ ~folder.adopt

\* A failed message can be queued again: it has a registry entry, and the entry
\* is not one that retry-failed passes over (RECOVERED).
FailedCanBeRetried ==
  \A u \in With("failed") : u \in Selected(Uid)

\* What "failed --ignore" has silenced stays skipped ("still skipped, no longer
\* outstanding", cmd/mailferry/main.go). The code only changes the entry: one
\* that is RETRY_PENDING has a planned row, and the message is copied.
IgnoredIsSkipped ==
  \A u \in Uid : registry[u] = "IGNORED" => rows[u].st \in {"failed", "done"}

\* Confirmed mail stays confirmed: only a changed UIDVALIDITY takes a row out of
\* "done", and no step moves it to another destination message.
ConfirmedStays ==
  [][\A u \in With("done") :
        \/ rows'[u].st = "done" /\ rows'[u].dst = rows[u].dst
        \/ folder.uvSrc # src.uv \/ folder.uvDst # dst.uv]_vars

\* The folder's own end: the step after which run has returned without error
Finished == pc = "finalize" /\ pc' = "idle" /\ budget' = budget

\* A folder is only recorded DONE when every source message is confirmed.
DoneFolderIsComplete ==
  [][Finished /\ folder'.status = "DONE" => \A u \in Uid : rows[u].st = "done"]_vars

-------------------------------------------------------------------------------
(* Refinement and liveness *)

\* How a session's state shows as the abstract one
Verdict ==
  [u \in Uid |-> CASE rows[u].st = "done"   -> "confirmed"
                   [] rows[u].st = "failed" -> "given up"
                   [] OTHER                 -> "open"]

Copies ==
  [u \in Uid |-> Cardinality({e \in dst.mail : e.body = src.body[u]})]

Promise == INSTANCE Delivery WITH Message <- Uid, copies <- Copies, verdict <- Verdict

\* Sessions cut short at any step, in any number, deliver every message at most
\* once and confirm none that is not there (CONTRIBUTING.md, "Safe resume").
ImplementsDelivery == Promise!Spec

\* Every source message ends up confirmed or in the registry, whatever cut the
\* sessions short ("a message a server refuses must be isolated and recorded
\* without blocking ... the transfer of every other message").
EverythingSettles ==
  <>[](\A u \in Uid : rows[u].st \in {"done", "failed"})
===============================================================================
