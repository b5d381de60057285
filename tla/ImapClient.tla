------------------------------- MODULE ImapClient -------------------------------
(***************************************************************************)
(* The IMAP client of internal/imapx/client.go: connections with pipelined *)
(* commands, bodies that stream from a reader goroutine to whoever fetched *)
(* them, a watchdog, and Abort, which may come from anywhere.              *)
(*                                                                         *)
(* The goroutines: the caller (module Transfer), one that opens each       *)
(* connection (Connect, Login, StartCompress), the reader and the watchdog *)
(* of each connection, and the stale supervisor.  They share pending and   *)
(* order (here one set, pend: the order only says whose data a response    *)
(* is), bodyFIFO and the channels.  result[t] is the channel of the        *)
(* command with tag t and the answer once taken out of it.                 *)
(*                                                                         *)
(* Time is abstracted to what the code compares with: idle is 1 after      *)
(* Timeout without socket activity and 2 after three times that; late      *)
(* means that the timeout of the caller's own wait has passed.             *)
(***************************************************************************)
EXTENDS ImapServer, SequencesExt

CONSTANTS
  Secure,       \* the connections that use STARTTLS
  BodyCap,      \* capacity of the channel of a body
  Baseline,     \* --baseline: no LITERAL+, no COMPRESS
  Literals,     \* whether the servers offer LITERAL+: one or both of TRUE, FALSE
  LateBuffer    \* the reader may hold unread input when a connection is closed

ASSUME ClientAssumption ==
  /\ Secure \subseteq Conn
  /\ BodyCap \in Nat \ {0}
  /\ Literals \subseteq BOOLEAN /\ Literals # {}
  /\ {Baseline, LateBuffer} \subseteq BOOLEAN

VARIABLES
  cli,     \* cli[k]: the Client of connection k
  body,    \* body[m]: the BodyHandle of message m
  late,    \* the caller has waited for its timeout
  kicking  \* the connections the kick under way has not reached yet

client == <<cli, body, late, kicking>>

Outcome == {"wait", "void", "OK", "NO", "lost", "kick"}

NewClient(plus) ==
  [phase |-> "greeting", plus |-> plus, sent |-> FALSE, caps |-> "none", tls |-> FALSE,
   zin |-> FALSE, zout |-> FALSE,
   closed |-> FALSE, why |-> "none", told |-> FALSE,
   pend |-> {}, result |-> <<>>, fifo |-> <<>>, cont |-> 0, owed |-> 0, idle |-> 0,
   reader |-> "off", to |-> None, left |-> 0]

\* sizeCh (-1: empty), ch, errCh; whether ch is closed, and failed.
NewHandle == [size |-> -1, ch |-> <<>>, err |-> "none", shut |-> FALSE, failed |-> FALSE]

ClientInit ==
  /\ \E plus \in Literals : cli = [k \in Conn |-> NewClient(plus)]
  /\ body = [m \in Msg |-> NewHandle]
  /\ late = FALSE
  /\ kicking = {}

-------------------------------------------------------------------------------
(***************************************************************************)
(* Commands.                                                               *)
(***************************************************************************)

\* writeLine refuses once the connection is closed; then the command is dropped
\* again and only its tag is used up.
Issue(c, verb) ==
  IF c.closed THEN [c EXCEPT !.result = Append(@, "void")]
  ELSE [c EXCEPT !.pend = @ \union {[tag |-> Len(c.result) + 1, verb |-> verb]},
                 !.result = Append(@, "wait"),
                 !.idle = 0]

LastTag(k) == Len(cli[k].result)

Write(k, e) == IF cli[k].closed THEN up ELSE [up EXCEPT ![k] = Append(@, e)]

Command(k, verb, m) == Line(verb, LastTag(k) + 1, m, 0, FALSE, cli[k].zout)

CmdNowait(k, verb) ==
  /\ cli' = [cli EXCEPT ![k] = Issue(@, verb)]
  /\ up' = Write(k, Command(k, verb, None))

\* fail: only the first one counts.
Fail(b, why) ==
  IF b.failed THEN b ELSE [b EXCEPT !.failed = TRUE, !.err = why, !.shut = TRUE]

\* The handle joins the queue before the command is written, and stays in it if
\* the command cannot be written.
BodyFetch(k, m) ==
  /\ cli' = [cli EXCEPT ![k] = [Issue(cli[k], "UID FETCH") EXCEPT !.fifo = Append(@, m)]]
  /\ up' = Write(k, Command(k, "UID FETCH", m))
  /\ body' = [body EXCEPT ![m] = IF cli[k].closed THEN Fail(NewHandle, cli[k].why)
                                 ELSE NewHandle]

NonSync(c) == c.plus /\ ~Baseline

AppendBegin(k, m, size) ==
  /\ cli' = [cli EXCEPT ![k] = IF cli[k].closed THEN Issue(cli[k], "APPEND")
                               ELSE [Issue(cli[k], "APPEND") EXCEPT !.owed = @ + 1]]
  /\ up' = Write(k, Line("APPEND", LastTag(k) + 1, m, size, ~NonSync(cli[k]), cli[k].zout))

AppendDone(c) == [c EXCEPT !.owed = @ - 1]

-------------------------------------------------------------------------------
(***************************************************************************)
(* Connect, Login, StartCompress.  Until the reader runs, the opener reads *)
(* for itself, and no watchdog looks after it.                             *)
(***************************************************************************)

NextResponse(k) == Head(down[k])
Readable(k) == down[k] # <<>>
Eof(k) == down[k] = <<>> /\ (cli[k].closed \/ ~srv[k].on)

\* What the capabilities are worth: those heard before STARTTLS are not.
Heard(c, k) == IF k \in Secure /\ ~c.tls THEN "clear" ELSE "safe"

ReadGreeting(k) ==
  /\ cli[k].phase = "greeting"
  /\ Readable(k)
  /\ cli' = [cli EXCEPT ![k].phase = IF k \in Secure THEN "starttls" ELSE "open",
                        ![k].caps = Heard(cli[k], k)]
  /\ down' = [down EXCEPT ![k] = Tail(@)]
  /\ UNCHANGED <<up, srv, box, here, faults, body, late, kicking>>

Starttls(k) ==
  /\ cli[k].phase = "starttls"
  /\ ~cli[k].sent
  /\ cli' = [cli EXCEPT ![k].sent = TRUE, ![k].result = Append(@, "void")]
  /\ up' = Write(k, Command(k, "STARTTLS", None))
  /\ UNCHANGED <<down, srv, box, here, faults, body, late, kicking>>

\* The handshake: what was heard in the clear is forgotten.
StarttlsDone(k) ==
  /\ cli[k].phase = "starttls"
  /\ cli[k].sent
  /\ Readable(k)
  /\ cli' = [cli EXCEPT ![k].phase = "open", ![k].sent = FALSE,
                        ![k].tls = TRUE, ![k].caps = "none"]
  /\ down' = [down EXCEPT ![k] = Tail(@)]
  /\ UNCHANGED <<up, srv, box, here, faults, body, late, kicking>>

StartReader(k) ==
  /\ cli[k].phase = "open"
  /\ cli' = [cli EXCEPT ![k].reader = "line",
                        ![k].phase = IF cli[k].caps = "none" THEN "capability"
                                     ELSE "login"]
  /\ UNCHANGED <<peer, body, late, kicking>>

Verb(phase) == CASE phase = "capability" -> "CAPABILITY"
                 [] phase = "login" -> "LOGIN"
                 [] phase = "id" -> "ID"
                 [] phase = "compress" -> "COMPRESS"

Asking == {"capability", "login", "id", "compress"}

Ask(k) ==
  /\ cli[k].phase \in Asking
  /\ ~cli[k].sent
  /\ cli' = [cli EXCEPT ![k] = [Issue(@, Verb(@.phase)) EXCEPT !.sent = TRUE]]
  /\ up' = Write(k, Command(k, Verb(cli[k].phase), None))
  /\ UNCHANGED <<down, srv, box, here, faults, body, late, kicking>>

\* Mutant: the writer deflates although the server has refused to.
DeflatesAnyway(phase, r) == phase = "compress"

\* deflateOut is wrapped when COMPRESS is answered OK.
Deflates(phase, r) == phase = "compress" /\ r = "OK"

\* The answers to ID and COMPRESS do not matter, not even a lost connection.  The
\* writer is wrapped once the reader has been.
Answered(k) ==
  LET c == cli[k]
      r == c.result[LastTag(k)]
      follow == CASE c.phase \in {"capability", "login"} /\ r # "OK" -> "failed"
                  [] c.phase = "capability" -> "login"
                  [] c.phase = "login" -> "id"
                  [] c.phase = "id" -> IF Baseline THEN "ready" ELSE "compress"
                  [] c.phase = "compress" -> "ready"
  IN /\ c.phase \in Asking
     /\ c.sent
     /\ r # "wait"
     /\ cli' = [cli EXCEPT ![k].phase = follow, ![k].sent = FALSE,
                           ![k].zout = @ \/ Deflates(c.phase, r)]
     /\ UNCHANGED <<peer, body, late, kicking>>

\* EOF while the opener reads.
OpenFails(k) ==
  /\ cli[k].phase \in {"greeting", "starttls"}
  /\ cli[k].phase = "starttls" => cli[k].sent
  /\ Eof(k)
  /\ cli' = [cli EXCEPT ![k].phase = "failed", ![k].closed = TRUE,
                        ![k].why = IF @ = "none" THEN "lost" ELSE @]
  /\ UNCHANGED <<peer, body, late, kicking>>

Open(k) ==
  \/ ReadGreeting(k)
  \/ Starttls(k)
  \/ StarttlsDone(k)
  \/ StartReader(k)
  \/ Ask(k)
  \/ Answered(k)
  \/ OpenFails(k)

-------------------------------------------------------------------------------
(***************************************************************************)
(* The reader.                                                             *)
(***************************************************************************)

Settle(c, tag, outcome) ==
  IF \E p \in c.pend : p.tag = tag
  THEN [c EXCEPT !.pend = {p \in @ : p.tag # tag},
                 !.result[tag] = outcome]
  ELSE c

VerbOf(c, tag) == {p.verb : p \in {q \in c.pend : q.tag = tag}}

\* route, and the start of streamLiteral: the handle at the front of the queue
\* gets the size of the literal and will get the literal.
Routed(c, k, e) ==
  CASE e.kind = "+" -> [c EXCEPT !.cont = 1]
    [] e.kind \in {"OK", "NO"} ->
         [Settle(c, e.tag, e.kind) EXCEPT
            !.zin = @ \/ (e.kind = "OK" /\ "COMPRESS" \in VerbOf(c, e.tag))]
    [] e.kind = "CAPABILITY" -> [c EXCEPT !.caps = Heard(c, k)]
    [] e.kind = "BODY" ->
         [c EXCEPT !.reader = "literal", !.left = e.part,
                   !.to = IF c.fifo = <<>> THEN None ELSE Head(c.fifo),
                   !.fifo = IF c.fifo = <<>> THEN <<>> ELSE Tail(@)]
    [] OTHER -> c

ReadResponse(k) ==
  LET e == NextResponse(k)
      c == Routed([cli[k] EXCEPT !.idle = 0], k, e)
  IN /\ cli[k].reader = "line"
     /\ Readable(k)
     /\ cli' = [cli EXCEPT ![k] = c]
     /\ body' = IF e.kind = "BODY" /\ c.to # None
                THEN [body EXCEPT ![c.to].size = e.part] ELSE body
     /\ down' = [down EXCEPT ![k] = Tail(@)]
     /\ UNCHANGED <<up, srv, box, here, faults, late, kicking>>

\* One chunk.  The reader waits while the channel is full; sending on a closed
\* channel would end the process.
ReadChunk(k) ==
  LET c == cli[k]
      e == NextResponse(k)
  IN /\ c.reader = "literal"
     /\ c.left > 0
     /\ Readable(k)
     /\ c.to # None => Len(body[c.to].ch) < BodyCap /\ ~body[c.to].shut
     /\ body' = IF c.to = None THEN body
                ELSE [body EXCEPT ![c.to].ch = Append(@, <<e.msg, e.part>>)]
     /\ cli' = [cli EXCEPT ![k].left = @ - 1, ![k].idle = 0]
     /\ down' = [down EXCEPT ![k] = Tail(@)]
     /\ UNCHANGED <<up, srv, box, here, faults, late, kicking>>

\* The literal is complete: the channel is closed and fail has no effect any more.
EndLiteral(k) ==
  LET c == cli[k]
  IN /\ c.reader = "literal"
     /\ c.left = 0
     /\ c.to # None => ~body[c.to].shut
     /\ body' = IF c.to = None THEN body
                ELSE [body EXCEPT ![c.to].shut = TRUE, ![c.to].failed = TRUE]
     /\ cli' = [cli EXCEPT ![k].reader = "line", ![k].to = None]
     /\ UNCHANGED <<peer, late, kicking>>

\* Abort, first part: only the first call has an effect.
Closed(c, why) ==
  IF c.closed THEN c ELSE [c EXCEPT !.closed = TRUE, !.why = why, !.idle = 0]

\* EOF: the body under way fails, then the connection.
ReadEof(k) ==
  LET c == cli[k]
  IN /\ c.reader # "off"
     /\ c.reader = "literal" => c.left > 0
     /\ Eof(k)
     /\ body' = IF c.to = None THEN body ELSE [body EXCEPT ![c.to] = Fail(@, "lost")]
     /\ cli' = [cli EXCEPT ![k] = [Closed(@, "lost") EXCEPT !.reader = "off", !.to = None]]
     /\ UNCHANGED <<peer, late, kicking>>

Reader(k) == ReadResponse(k) \/ ReadChunk(k) \/ EndLiteral(k) \/ ReadEof(k)

-------------------------------------------------------------------------------
(***************************************************************************)
(* Abort.                                                                  *)
(***************************************************************************)

\* An APPEND the server has not finished reading; it is the only command that has
\* an effect when nobody hears the answer.
Appending(k) == srv[k].cmd # NoLine \/ \E i \in DOMAIN up[k] : up[k][i].verb = "APPEND"

\* The socket is closed.  Of what was on the way to the server a beginning still
\* arrives; of what came from it the reader has a beginning in its buffer.
Sever(k) ==
  /\ srv' = [srv EXCEPT ![k].peer = FALSE]
  /\ \E n \in 0..(IF Appending(k) THEN Len(up[k]) ELSE 0) :
       up' = [up EXCEPT ![k] = SubSeq(@, 1, n)]
  /\ \E n \in 0..(IF LateBuffer THEN Len(down[k]) ELSE 0) :
       down' = [down EXCEPT ![k] = SubSeq(@, 1, n)]

Abort(k, why) ==
  IF cli[k].closed THEN UNCHANGED <<cli, up, down, srv>>
  ELSE cli' = [cli EXCEPT ![k] = Closed(@, why)] /\ Sever(k)

\* Mutant: the body that is being read fails as well.
FailedByAnyBody(c) == ToSet(c.fifo) \union {c.to}

\* The bodies that Abort fails: those nobody reads yet.
FailedBy(c) == ToSet(c.fifo)

\* Mutant: pending is emptied and nobody told.
ReleasedUntold(c) == c.result

\* What the waiters of pending get.
Released(c) ==
  [t \in DOMAIN c.result |->
     IF \E p \in c.pend : p.tag = t THEN c.why ELSE c.result[t]]

\* Abort, second part: pending and bodyFIFO are emptied, and everybody in them
\* is told.
TellWaiters(k) ==
  LET c == cli[k]
  IN /\ c.closed
     /\ ~c.told
     /\ cli' = [cli EXCEPT ![k].told = TRUE, ![k].pend = {}, ![k].fifo = <<>>,
                           ![k].result = Released(c)]
     /\ body' = [m \in Msg |-> IF m \in FailedBy(c) THEN Fail(body[m], c.why)
                               ELSE body[m]]
     /\ UNCHANGED <<peer, late, kicking>>

\* The limit of the watchdog: three times the timeout while an APPEND waits for
\* its answer.
Limit(c) == IF c.owed > 0 THEN 2 ELSE 1

Watched(k) == cli[k].reader # "off" /\ ~cli[k].closed

Watchdog(k) ==
  /\ Watched(k)
  /\ cli[k].idle >= Limit(cli[k])
  /\ Abort(k, "lost")
  /\ UNCHANGED <<box, here, faults, body, late, kicking>>

\* KickConnections: one connection after the other.
Kick ==
  /\ Fault("kick")
  /\ kicking = {}
  /\ kicking' = {k \in Conn : ~cli[k].closed}
  /\ UNCHANGED <<up, down, srv, box, here, cli, body, late>>

KickOne(k) ==
  /\ k \in kicking
  /\ kicking' = kicking \ {k}
  /\ Abort(k, "kick")
  /\ UNCHANGED <<box, here, faults, body, late>>

\* The time of a timeout passes; the caller is in a wait with a timeout or not.
Pass(waits) ==
  /\ cli' = [k \in Conn |-> [cli[k] EXCEPT !.idle = IF Watched(k) /\ @ < 2 THEN @ + 1 ELSE @]]
  /\ late' = (late \/ waits)
  /\ <<cli, late>>' # <<cli, late>>
  /\ UNCHANGED <<peer, body, kicking>>
===============================================================================
