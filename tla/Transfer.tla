-------------------------------- MODULE Transfer --------------------------------
(***************************************************************************)
(* One life of a mailbox's pair of connections: opened (openPair), used by *)
(* one transferPass of internal/engine/folder.go, closed (closePair).      *)
(* Module FolderSync sees a pass as what happens to its rows; here it is   *)
(* what happens on the wire: bodies that are fetched ahead stream from the *)
(* reader of the source into APPENDs on the destination, whose answers are *)
(* collected later.                                                        *)
(***************************************************************************)
EXTENDS ImapClient

CONSTANTS
  src, dst,
  Rows,           \* the rows of the pass, in order
  FetchWindow, AppendWindow,
  MayGiveUp       \* the pass may be the last of an exhausted reconnect budget

ASSUME TransferAssumption ==
  /\ Conn = {src, dst} /\ src # dst
  /\ Rows \in Seq(Msg) /\ Cardinality(ToSet(Rows)) = Len(Rows)
  /\ FetchWindow \in Nat \ {0} /\ AppendWindow \in Nat \ {0}
  /\ MayGiveUp \in BOOLEAN

VARIABLES
  pc,        \* where the runner's goroutine is
  next,      \* rows that are fetched
  fetchQ,    \* fetchQ: fetched and not yet taken
  item,      \* the row whose body is being copied
  pendQ,     \* pend: rows whose APPEND is complete, with the tag to wait for
  acked,     \* doneBatch, all of it: rows with the destination UID they got
  failures,  \* rows the pass calls failed
  drained,   \* handles a goroutine of drainBody empties
  graceful,  \* closePair may say LOGOUT
  closing    \* connections that closePair has still to close

worker == <<pc, next, fetchQ, item, pendQ, acked, failures, drained, graceful, closing>>
vars == <<peer, client, worker>>

rest == <<box, here, faults, kicking>>   \* what the worker never touches

Init ==
  /\ ServerInit
  /\ ClientInit
  /\ pc = "open"
  /\ next = 1
  /\ fetchQ = <<>>
  /\ item = None
  /\ pendQ = <<>>
  /\ acked = {}
  /\ failures = {}
  /\ drained = {}
  /\ graceful = FALSE
  /\ closing = <<>>

-------------------------------------------------------------------------------
\* openPair has both results; a failure closes both connections.
Opened ==
  /\ pc = "open"
  /\ \A k \in Conn : cli[k].phase \in {"ready", "failed"}
  /\ IF \E k \in Conn : cli[k].phase = "failed"
     THEN pc' = "close" /\ closing' = <<src, dst>>
     ELSE pc' = "select" /\ closing' = closing
  /\ UNCHANGED <<peer, client, next, fetchQ, item, pendQ, acked, failures, drained, graceful>>

\* Mutant: an interrupted pass says LOGOUT like any other.
LeavePolitely(polite) ==
  /\ pc' = "close"
  /\ graceful' = TRUE
  /\ closing' = <<src, dst>>

\* A pass that ends in an error: what is acknowledged is flushed, the pair closed
\* without LOGOUT (unless the reconnect budget is exhausted: then the mailbox
\* goes on to its end, and closePair is graceful).
Leave(polite) ==
  /\ pc' = "close"
  /\ graceful' \in (IF polite THEN {TRUE} ELSE {FALSE, MayGiveUp})
  /\ closing' = <<src, dst>>

\* Cmd: SELECT on the source before its rows are fetched.
Select ==
  /\ pc = "select"
  /\ CmdNowait(src, "SELECT")
  /\ pc' = "selected"
  /\ UNCHANGED <<down, srv, rest, body, late, next, fetchQ, item, pendQ, acked, failures,
                 drained, graceful, closing>>

Selected ==
  LET r == cli[src].result[LastTag(src)]
  IN /\ pc = "selected"
     /\ r # "wait"
     /\ IF r = "OK" THEN pc' = "fill" /\ UNCHANGED <<graceful, closing>> ELSE Leave(FALSE)
     /\ UNCHANGED <<peer, client, next, fetchQ, item, pendQ, acked, failures, drained>>

\* The condition of startMore's loop.
WantsMore == next <= Len(Rows) /\ Len(fetchQ) < FetchWindow

\* startMore, one BodyFetch at a time.
StartMore ==
  /\ pc = "fill"
  /\ WantsMore
  /\ BodyFetch(src, Rows[next])
  /\ next' = next + 1
  /\ fetchQ' = Append(fetchQ, Rows[next])
  /\ IF cli[src].closed THEN Leave(FALSE) ELSE UNCHANGED <<pc, graceful, closing>>
  /\ UNCHANGED <<down, srv, rest, late, item, pendQ, acked, failures, drained>>

\* The window is full: with an item in hand its size is waited for, else one is
\* taken, or the answers that are left are collected.
Filled ==
  /\ pc = "fill"
  /\ ~WantsMore
  /\ IF item = None /\ fetchQ # <<>>
     THEN item' = Head(fetchQ) /\ fetchQ' = Tail(fetchQ) /\ pc' = pc
     ELSE /\ pc' = IF item = None THEN "drain" ELSE "size"
          /\ UNCHANGED <<item, fetchQ>>
  /\ late' = FALSE
  /\ UNCHANGED <<peer, cli, body, kicking, next, pendQ, acked, failures, drained,
                 graceful, closing>>

\* WaitSize: the size, an error or the timeout, whichever select takes.  Only an
\* error that is no lost connection is the message's fault.
WaitSize ==
  LET b == body[item]
  IN /\ pc = "size"
     /\ \/ b.size >= 0 /\ pc' = "begin" /\ UNCHANGED <<item, failures, graceful, closing>>
        \/ b.err = "kick" /\ pc' = "fill" /\ item' = None
             /\ failures' = failures \union {item} /\ UNCHANGED <<graceful, closing>>
        \/ (b.err = "lost" \/ late) /\ Leave(FALSE) /\ UNCHANGED <<item, failures>>
     /\ UNCHANGED <<peer, client, next, fetchQ, pendQ, acked, drained>>

\* AppendBegin.  If it fails its body is drained.
Begin ==
  /\ pc = "begin"
  /\ AppendBegin(dst, item, body[item].size)
  /\ IF cli[dst].closed
     THEN Leave(FALSE) /\ drained' = drained \union {item}
     ELSE /\ pc' = IF NonSync(cli[dst]) THEN "stream" ELSE "cont"
          /\ UNCHANGED <<drained, graceful, closing>>
  /\ late' = FALSE
  /\ UNCHANGED <<down, srv, rest, body, next, fetchQ, item, pendQ, acked, failures>>

\* "+", a completion before the literal, or the timeout.
Continue ==
  LET c == cli[dst]
  IN /\ pc = "cont"
     /\ \/ /\ c.cont = 1
           /\ cli' = [cli EXCEPT ![dst].cont = 0]
           /\ pc' = "stream"
           /\ UNCHANGED <<drained, graceful, closing>>
        \/ /\ c.result[LastTag(dst)] # "wait" \/ late
           /\ cli' = [cli EXCEPT ![dst] = AppendDone(@)]
           /\ Leave(FALSE)
           /\ drained' = drained \union {item}
     /\ UNCHANGED <<peer, body, late, kicking, next, fetchQ, item, pendQ, acked, failures>>

\* One chunk from the reader of the source to the destination.  On a closed
\* connection the write fails, or is buffered and lost.
StreamChunk ==
  /\ pc = "stream"
  /\ body[item].ch # <<>>
  /\ body' = [body EXCEPT ![item].ch = Tail(@)]
  /\ up' = Write(dst, Data(Head(body[item].ch), cli[dst].zout))
  /\ \/ UNCHANGED <<pc, graceful, closing>>
     \/ cli[dst].closed /\ Leave(FALSE)
  /\ cli' = [cli EXCEPT ![dst].idle = 0]
  /\ UNCHANGED <<down, srv, rest, late, next, fetchQ, item, pendQ, acked, failures, drained>>

\* The channel is closed, or there is an error: if both, select takes either.
StreamEnds ==
  LET b == body[item]
  IN /\ pc = "stream"
     /\ \/ b.ch = <<>> /\ b.shut /\ pc' = "finish" /\ UNCHANGED <<graceful, closing>>
        \/ b.err # "none" /\ Leave(FALSE)
     /\ UNCHANGED <<peer, client, next, fetchQ, item, pendQ, acked, failures, drained>>

\* Finish: the line of the APPEND ends; its answer is collected later.
Finish ==
  /\ pc = "finish"
  /\ up' = Write(dst, LineEnd(cli[dst].zout))
  /\ IF cli[dst].closed
     THEN Leave(FALSE) /\ UNCHANGED <<item, pendQ>>
     ELSE /\ pendQ' = Append(pendQ, [row |-> item, tag |-> LastTag(dst)])
          /\ item' = None
          /\ pc' = "room"
          /\ UNCHANGED <<graceful, closing>>
  /\ cli' = [cli EXCEPT ![dst].idle = 0]
  /\ UNCHANGED <<down, srv, rest, body, late, next, fetchQ, acked, failures, drained>>

\* The window of APPENDs has room, or everything is collected.
Room ==
  /\ \/ pc = "room" /\ Len(pendQ) < AppendWindow
     \/ pc = "drain" /\ pendQ = <<>>
  /\ IF pc = "room" THEN pc' = "fill" /\ UNCHANGED <<graceful, closing>> ELSE Leave(TRUE)
  /\ UNCHANGED <<peer, client, next, fetchQ, item, pendQ, acked, failures, drained>>

\* Mutant: whatever answer comes, the message is counted as copied.
CountsAnyAnswer(r) == r # "lost"

\* The answer to an APPEND that makes its row one of doneBatch.
Counts(r) == r = "OK"

\* settleOne, for the oldest APPEND.
SettleOne ==
  LET p == Head(pendQ)
      r == cli[dst].result[p.tag]
  IN /\ \/ pc = "room" /\ Len(pendQ) >= AppendWindow
        \/ pc = "drain" /\ pendQ # <<>>
     /\ r # "wait"
     /\ cli' = [cli EXCEPT ![dst] = AppendDone(@)]
     /\ pendQ' = Tail(pendQ)
     /\ acked' = acked \union (IF Counts(r) THEN {p.row} ELSE {})
     /\ failures' = failures \union (IF r \in {"NO", "kick"} THEN {p.row} ELSE {})
     /\ IF r = "lost" THEN Leave(FALSE) ELSE UNCHANGED <<pc, graceful, closing>>
     /\ UNCHANGED <<peer, body, late, kicking, next, fetchQ, item, drained>>

\* The goroutine of drainBody.
Drain(m) ==
  /\ m \in drained
  /\ body[m].ch # <<>>
  /\ body' = [body EXCEPT ![m].ch = Tail(@)]
  /\ UNCHANGED <<peer, cli, late, kicking, worker>>

-------------------------------------------------------------------------------
\* closePair: LOGOUT if the connection still lives and all went well, else Abort.
ClosePair ==
  LET k == Head(closing)
  IN /\ pc = "close"
     /\ closing # <<>>
     /\ late' = FALSE
     /\ IF graceful /\ ~cli[k].closed
        THEN CmdNowait(k, "LOGOUT") /\ pc' = "logout" /\ UNCHANGED <<down, srv, closing>>
        ELSE Abort(k, "lost") /\ closing' = Tail(closing) /\ pc' = pc
     /\ UNCHANGED <<rest, body, next, fetchQ, item, pendQ, acked, failures, drained, graceful>>

\* Logout: the answer or five seconds, then Abort.
LoggedOut ==
  LET k == Head(closing)
  IN /\ pc = "logout"
     /\ cli[k].result[LastTag(k)] # "wait" \/ late
     /\ Abort(k, "lost")
     /\ closing' = Tail(closing)
     /\ pc' = "close"
     /\ UNCHANGED <<rest, body, late, next, fetchQ, item, pendQ, acked, failures, drained,
                    graceful>>

Ended ==
  /\ pc = "close"
  /\ closing = <<>>
  /\ pc' = "closed"
  /\ UNCHANGED <<peer, client, next, fetchQ, item, pendQ, acked, failures, drained,
                 graceful, closing>>

Work ==
  \/ Opened \/ Select \/ Selected
  \/ StartMore \/ Filled \/ WaitSize
  \/ Begin \/ Continue \/ StreamChunk \/ StreamEnds \/ Finish
  \/ Room \/ SettleOne
  \/ ClosePair \/ LoggedOut \/ Ended

Server(k) == (Serve(k) \/ Trouble(k)) /\ UNCHANGED <<client, worker>>

\* The waits with a timeout of their own.
Timed == pc \in {"size", "cont", "logout"}

\* The two openers run side by side and share nothing; the second is made to wait
\* for the first, which changes nothing but the number of interleavings.
Opener(k) == (k = dst => cli[src].phase \in {"ready", "failed"}) /\ Open(k)

Goroutines(k) == Opener(k) \/ Reader(k) \/ TellWaiters(k) \/ Watchdog(k) \/ KickOne(k)

Busy ==
  \/ Work
  \/ \E m \in Msg : Drain(m)
  \/ \E k \in Conn : Goroutines(k) /\ UNCHANGED worker

\* Timeouts are long: they pass only while every goroutine waits for a server.
Time == ~ENABLED Busy /\ Pass(Timed) /\ UNCHANGED worker

\* What the process does by itself.
Process == Busy \/ Time

Next ==
  \/ Process
  \/ \E k \in Conn : Server(k)
  \/ \E m \in Msg : Vanish(m) /\ UNCHANGED <<client, worker>>
  \/ Kick /\ UNCHANGED worker

Spec == Init /\ [][Next]_vars

-------------------------------------------------------------------------------
\* Every variable has its type: queues hold what the two ends write, windows and
\* channels are never overfull, and no counter of pending APPENDs is negative.
TypeOK ==
  /\ pc \in {"open", "select", "selected", "fill", "size", "begin", "cont", "stream",
             "finish", "room", "drain", "close", "logout", "closed"}
  /\ next \in 1..(Len(Rows) + 1)
  /\ item \in Msg \union {None}
  /\ fetchQ \in Seq(Msg) /\ Len(fetchQ) <= FetchWindow
  /\ Len(pendQ) <= AppendWindow
  /\ acked \union failures \union drained \subseteq Msg
  /\ \A m \in Msg : Len(body[m].ch) <= BodyCap
  /\ \A k \in Conn : /\ cli[k].owed \in Nat /\ cli[k].cont \in 0..1
                     /\ \A t \in DOMAIN cli[k].result : cli[k].result[t] \in Outcome
                     /\ cli[k].reader \in {"off", "line", "literal"}

\* "duplicates are impossible by design" (folder.go), and so is a wrong copy: what
\* is stored for a row is the body of that row's message and all of it.  Bodies
\* are matched to rows by the order of the fetches (streamLiteral), a lost source
\* looks like the end of a body (fail closes the channel), and a literal that was
\* cut short waits on the destination for whatever is written next.
CopiesAreExact ==
  \A k \in Conn : \A i \in DOMAIN box[k] : box[k][i].body = Body(box[k][i].row)

\* A row counts as copied only if the destination stores it; acknowledgements are
\* collected in order behind a window of APPENDs (settleOne).
AckedIsStored ==
  \A m \in acked : \E i \in DOMAIN box[dst] : box[dst][i].row = m

\* The reader never sends on the channel of a body that Abort or a failed
\* BodyFetch has closed, which would end the process (streamLiteral, fail).
NeverSendsOnClosed ==
  \A k \in Conn : cli[k].reader = "literal" /\ cli[k].to # None => ~body[cli[k].to].shut

\* Both ends change to the deflate stream at the same place in both directions,
\* also when the server refuses COMPRESS (route, StartCompress).
CodingAgrees ==
  \A k \in Conn :
    /\ srv[k].on /\ up[k] # <<>> => Head(up[k]).z = srv[k].zip
    /\ cli[k].reader # "off" /\ down[k] # <<>> => NextResponse(k).z = cli[k].zin

\* "every waiter unwinds" (Abort): a pass that has started is never stuck, whatever
\* the servers do or leave undone: until its pair is closed some goroutine can go
\* on, or time passes and lets it.  Nothing the process does can be repeated
\* without end, so the pass ends.
NeverStuck == pc \in {"open", "closed"} \/ ENABLED Process

\* "never blames a message" (StaleKick): only messages the server refused fail.
KickBlamesNobody == "refuse" \notin Faults => failures = {}

\* "connection readers can never wedge on a full body queue" (CHANGELOG): every
\* reader ends after its connection is closed.
ReadersEnd == \A k \in Conn : [](cli[k].closed => <>(cli[k].reader = "off"))
===============================================================================
