-------------------------- MODULE TransferCopyProofs --------------------------
(***************************************************************************)
(* What Transfer stores is what it fetched: the bodies of the rows,        *)
(* followed chunk by chunk from the answer to FETCH through the reader of  *)
(* the source, the channel, the runner and the literal of an APPEND to the *)
(* folder of the destination.                                              *)
(***************************************************************************)
EXTENDS TransferProofs

-----------------------------------------------------------------------------
(* The invariants *)

\* The rows that must not vanish are there: all but the last.
Kept == \A r \in 1..(Len(Rows) - 1) : Rows[r] \in here
\* Everything is fetched, copied and collected.
Finished == next > Len(Rows) /\ fetchQ = <<>> /\ item = None /\ pendQ = <<>>
\* LOGOUT is said only after a pass that is through.
Fair == Kept /\ (graceful => Finished)

\* The pass goes on, and the reader of the source may still announce a body, or is
\* reading one: a connection that is closed has its waiters told, but its buffer is
\* read on.
Listening == Running /\ ~(cli[src].closed /\ cli[src].fifo = <<>>)
Attending == Running /\ ~(cli[src].closed /\ cli[src].fifo = <<>> /\ cli[src].to = None)
\* Nobody will be announced a body any more.
Silent == cli[src].closed /\ (cli[src].reader = "off" \/ cli[src].fifo = <<>>)

\* What comes from the source: bodies, each as its size and all of its chunks.
Upto(e) == IF e.kind = "BODY" THEN 0 ELSE e.part
Partial(e) == e.kind \in {"BODY", "CHUNK"} /\ Upto(e) < Size[e.msg]
IsChunk(e, m, i) == e.kind = "CHUNK" /\ e.msg = m /\ e.part = i
Continues(e, f) == IF Partial(e) THEN IsChunk(f, e.msg, Upto(e) + 1) ELSE f.kind # "CHUNK"
Proper(e) ==
  /\ e.kind \in {"BODY", "CHUNK"} => e.msg \in Msg
  /\ e.kind = "BODY" => e.part = Size[e.msg]
  /\ e.kind = "CHUNK" => e.part \in 1..Size[e.msg]
Flowing(d) == /\ \A i \in DOMAIN d : Proper(d[i])
              /\ \A i \in 1..(Len(d) - 1) : Continues(d[i], d[i + 1])
Midst == cli[src].reader = "literal" /\ cli[src].left > 0
ChunkInv ==
  LET d == down[src]
      c == cli[src]
  IN /\ Flowing(d)
     /\ c.reader = "literal" => c.to # None /\ c.left \in 0..Size[c.to]
     /\ d # <<>> => IF Midst THEN IsChunk(d[1], c.to, Size[c.to] - c.left + 1) ELSE d[1].kind # "CHUNK"
     /\ Alive(src) => IF d = <<>> THEN ~Midst ELSE ~Partial(d[Len(d)])

\* The source is not written to.
SourceInv ==
  /\ box[src] = <<>> /\ srv[src].cmd = NoLine
  /\ \A i \in DOMAIN up[src] : up[src][i].verb # "APPEND"

\* The bodies on their way from the source are those of the rows from Front1 on,
\* in order, and as long as both ends live each is on its way or asked for.
BodyAt(d, i, r) == d[i].kind = "BODY" /\ d[i].msg = Rows[r]
FetchAt(u, i, r) == u[i].verb = "UID FETCH" /\ u[i].msg = Rows[r]
InOrder(d, a, n) ==
  /\ \A i \in DOMAIN d : d[i].kind = "BODY" => \E r \in a..n : d[i].msg = Rows[r]
  /\ \A i \in DOMAIN d, r \in (a + 1)..n : BodyAt(d, i, r) => \E j \in 1..(i - 1) : BodyAt(d, j, r - 1)
  /\ \A i, j \in DOMAIN d, r, q \in 1..n : i < j /\ BodyAt(d, i, r) /\ BodyAt(d, j, q) => r < q
\* The bodies on their way end before row b, and b to f - 1 are asked for, in order.
UpToRow(d, a, b) ==
  /\ b = a \/ \E j \in DOMAIN d : BodyAt(d, j, b - 1)
  /\ \A j \in DOMAIN d, r \in 1..Len(Rows) : BodyAt(d, j, r) => r < b
Asks(u, b, f) ==
  /\ \A i \in DOMAIN u : u[i].verb = "UID FETCH" => \E r \in b..(f - 1) : u[i].msg = Rows[r]
  /\ \A r \in b..(f - 1) : \E j \in DOMAIN u : FetchAt(u, j, r)
  /\ \A i, j \in DOMAIN u, r, q \in 1..Len(Rows) : i < j /\ FetchAt(u, i, r) /\ FetchAt(u, j, q) => r < q
\* The server has no answer for the last row if that is deleted.
Pending(d, u, a, n) ==
  \E b \in a..n : \E f \in b..n : /\ f = n \/ f = Len(Rows)
                               /\ UpToRow(d, a, b) /\ Asks(u, b, f)
OrderInv ==
  /\ InOrder(down[src], Front1, next - 1)
  /\ Alive(src) => Pending(down[src], up[src], Front1, next)

\* The rows in hand are the last ones.
Next1 == next - Len(fetchQ)
QueueInv ==
  /\ Next1 \in 1..next
  /\ \A i \in DOMAIN fetchQ : fetchQ[i] = Rows[Next1 + i - 1]
  /\ item # None => Next1 > 1 /\ item = Rows[Next1 - 1]
  /\ pc = "room" => item = None
  /\ Running => drained = {}
  /\ pc \in Copying \union {"begin", "size"} => item # None

\* Nothing is fetched before the pass.
Unread == pc = "open" => cli[src].fifo = <<>>

\* Sizes are announced in the order of the rows, nothing is announced after a body
\* that broke, and the runner has been told the size of what it copies.
Sizes ==
  /\ \A m \in Msg : body[m].err # "none" => Silent /\ body[m].shut
  /\ \A r \in 1..(next - 1) : r >= Front1 => body[Rows[r]].size = -1
  /\ \A r, q \in 1..(next - 1) : r < q /\ (cli[src].to = Rows[r] \/ body[Rows[r]].err # "none")
        => body[Rows[q]].size = -1
\* All of it, as long as it matters.
Inflow == (Attending => ChunkInv) /\ (Listening => OrderInv) /\ (Running => Sizes)
SizesTold ==
  /\ pc \in Copying \union {"begin"} => body[item].size # -1
  /\ pc = "finish" => body[item].ch = <<>> /\ body[item].shut

\* y chunks of the body of m are taken, and its channel holds the next ones.
Held(m, y) ==
  LET b == body[m]
  IN /\ b.size \in {-1, Size[m]}
     /\ b.size = -1 => y = 0 /\ b.ch = <<>>
     /\ y + Len(b.ch) <= Size[m]
     /\ \A j \in DOMAIN b.ch : b.ch[j] = <<m, y + j>>
     /\ cli[src].to = m => b.size # -1 /\ y + Len(b.ch) = Size[m] - cli[src].left
     /\ b.shut /\ b.err = "none" => y + Len(b.ch) = Size[m]
HeldInv ==
  Running =>
    /\ \A i \in DOMAIN fetchQ : Held(fetchQ[i], 0)
    /\ item # None /\ pc \notin Copying => Held(item, 0)

\* On the way to the destination: lines, and literals.
Within(e) == e.verb \in {"APPEND", "DATA"}
Written(e) == IF e.verb = "APPEND" THEN 0 ELSE e.part
Fits(m, y, e) == \/ e.verb = "DATA" /\ e.msg = m /\ e.part = y + 1 /\ y < Size[m]
                 \/ e.verb = "CRLF"
Prefix(m, y) == [i \in 1..y |-> <<m, i>>]
Sound(e) ==
  /\ Within(e) => e.msg \in Msg /\ Written(e) \in 0..Size[e.msg]
  /\ e.verb = "APPEND" => e.part = Size[e.msg]
Follows(e, f) == IF Within(e) THEN Fits(e.msg, Written(e), f) ELSE f.verb \notin Parts
\* Is the line that ends with the i-th element one whose literal is complete?
Whole(s, u, i) == IF i = 1 THEN s.cmd # NoLine /\ Len(s.got) = Size[s.cmd.msg]
                  ELSE Written(u[i - 1]) = Size[u[i - 1].msg]
Lit(s, u) ==
     /\ \A i \in DOMAIN u : Sound(u[i])
     /\ \A i \in 1..(Len(u) - 1) : Follows(u[i], u[i + 1]) /\ (u[i].verb = "CRLF" => Whole(s, u, i))
     /\ u # <<>> => IF s.cmd = NoLine THEN u[1].verb \notin Parts
                    ELSE /\ Fits(s.cmd.msg, Len(s.got), u[1])
                         /\ s.got = Prefix(s.cmd.msg, Len(s.got))
     /\ s.cmd # NoLine => /\ s.cmd.msg \in Msg /\ s.cmd.part = Size[s.cmd.msg]
                          /\ Len(s.got) <= Size[s.cmd.msg]
LiteralInv == srv[dst].on => Lit(srv[dst], up[dst])

Inside(s, u, m, y) ==
  IF u # <<>> THEN Within(u[Len(u)]) /\ u[Len(u)].msg = m /\ Written(u[Len(u)]) = y
  ELSE s.cmd # NoLine /\ s.cmd.msg = m /\ Len(s.got) = y /\ s.got = Prefix(m, y)
Clean(s, u) ==
  IF u = <<>> THEN s.cmd = NoLine
  ELSE ~Within(u[Len(u)]) /\ (u[Len(u)].verb = "CRLF" => Whole(s, u, Len(u)))
CutShort(s, u) == u # <<>> => u[Len(u)].verb = "CRLF" /\ ~Whole(s, u, Len(u))
Unanswered ==
  /\ LastTag(dst) >= 1 /\ cli[dst].result[LastTag(dst)] = "wait"
  /\ \A i \in DOMAIN down[dst] : down[dst][i].tag # LastTag(dst)
Torn ==
  /\ Unanswered
  /\ CutShort(srv[dst], up[dst])
  /\ pendQ # <<>> /\ pendQ[Len(pendQ)].tag = LastTag(dst)
  /\ Silent
  /\ \A i \in DOMAIN fetchQ : body[fetchQ[i]].size = -1
  /\ item # None => body[item].size = -1
\* A copy that goes on: y chunks of its body are taken, and are on their way.
InPlace ==
  /\ Unanswered
  /\ \E y \in 0..Size[item] : Held(item, y) /\ Inside(srv[dst], up[dst], item, y)

\* What the destination is left with where no body is copied: whole literals; one
\* that is cut short, on a pair that will be given up; or no more than an Abort.
Settling == {"room", "fill", "size", "drain"}
Left ==
  \/ Clean(srv[dst], up[dst])
  \/ pc \in Settling /\ Torn
  \/ ~Running /\ pc # "logout" /\ ~graceful
StreamInv == Alive(dst) => IF pc \in Copying THEN InPlace ELSE Left

-----------------------------------------------------------------------------
(* What a step does to the connection of the source *)

Unmoved == /\ SameReader(src) /\ next' = next
           /\ cli'[src].closed = cli[src].closed
SameEnd == up'[src] = up[src] /\ SameServer(src)

\* Nothing; the connection may be found closed.
SourceRests ==
  /\ SameWire(src) /\ SameReader(src) /\ next' = next
  /\ cli[src].closed => cli'[src].closed

\* A command that is no FETCH, and FETCH.
SourceAsks ==
  /\ ~cli[src].closed /\ Unmoved
  /\ SameServer(src) /\ down'[src] = down[src]
  /\ \E e \in Lines : /\ e.verb \notin {"UID FETCH", "APPEND", "DATA", "CRLF"}
                      /\ up'[src] = Append(up[src], e)
SourceFetches ==
  /\ Fetched
  /\ cli'[src].closed = cli[src].closed
  /\ SameServer(src) /\ down'[src] = down[src]
  /\ IF cli[src].closed THEN up'[src] = up[src]
     ELSE \E e \in Lines : /\ e.verb = "UID FETCH" /\ e.msg = Rows[next]
                           /\ up'[src] = Append(up[src], e)

\* Something is read: no body, or a body.
SourceTakes == down[src] # <<>> /\ down'[src] = Tail(down[src]) /\ SameEnd
SourceSkips ==
  /\ SourceTakes /\ Unmoved
  /\ cli[src].reader # "literal" /\ Head(down[src]).kind # "BODY"
SourceReads == /\ Announced(src) \/ Received(src)
               /\ SourceTakes
               /\ cli'[src].closed = cli[src].closed

\* The reader goes on without reading, or the waiters are told.
SourceTurns == /\ Completed(src) \/ Broken(src) \/ Begun(src) \/ Cleared(src)
               /\ SameWire(src)
               /\ cli[src].closed => cli'[src].closed

SourceCloses ==
  /\ ~cli[src].closed /\ cli'[src].closed
  /\ SameReader(src) /\ next' = next
  /\ \E n \in 0..Len(down[src]) : down'[src] = SubSeq(down[src], 1, n)
  /\ \E n \in 0..Len(up[src]) : up'[src] = SubSeq(up[src], 1, n)
  /\ srv'[src].on = srv[src].on /\ srv'[src].cmd = srv[src].cmd /\ box'[src] = box[src]

SourceServes == Unmoved /\ (Serve(src) \/ Trouble(src))

SourceStep ==
  /\ \/ SourceRests \/ SourceAsks \/ SourceFetches \/ SourceSkips \/ SourceReads
     \/ SourceTurns \/ SourceCloses \/ SourceServes
  /\ here' = here \/ \E m \in Msg \cap Fleeting : here' = here \ {m}

Elsewhere(j) == cli'[j] = cli[j] /\ SameWire(j)

LEMMA OtherEnd ==
  ASSUME Typed, NEW k \in Conn, NEW j \in Conn \ {k},
         Open(k) \/ Reader(k) \/ TellWaiters(k) \/ Server(k)
           \/ (box' = box /\ \E why \in Causes : Abort(k, why))
  PROVE  Elsewhere(j)
<1>0. /\ DOMAIN cli = Conn /\ DOMAIN up = Conn /\ DOMAIN down = Conn /\ DOMAIN srv = Conn
      /\ DOMAIN box = Conn
  BY DEF Typed, ClientsTyped, WireTyped, ServersTyped, BoxTyped
<1>w. \A e : Write(k, e)[j] = up[j]
  BY <1>0 DEF Write
<1>s. \A es : Send(k, es)[j] = down[j]
  BY <1>0 DEF Send
<1>1. CASE Open(k)
  <2>1. CASE ReadGreeting(k) \/ StarttlsDone(k) \/ StartReader(k) \/ Answered(k) \/ OpenFails(k)
    BY <1>0, <2>1 DEF ReadGreeting, StarttlsDone, StartReader, Answered, OpenFails, peer,
       Elsewhere, SameWire, SameServer
  <2>2. CASE Starttls(k) \/ Ask(k)
    BY <1>0, <1>w, <2>2 DEF Starttls, Ask, Elsewhere, SameWire, SameServer
  <2> QED
    BY <1>1, <2>1, <2>2 DEF Open
<1>2. CASE Reader(k)
  BY <1>0, <1>2 DEF Reader, ReadResponse, ReadChunk, EndLiteral, ReadEof, peer,
     Elsewhere, SameWire, SameServer
<1>3. CASE TellWaiters(k)
  BY <1>0, <1>3 DEF TellWaiters, peer, Elsewhere, SameWire, SameServer
<1>4. CASE Server(k)
  <2>1. cli' = cli
    BY <1>4 DEF Server, client
  <2>2. CASE ServeLine(k) \/ ServeAppend(k) \/ ServeLiteral(k) \/ RefuseLine(k)
    BY <1>0, <1>s, <2>1, <2>2 DEF ServeLine, ServeAppend, ServeLiteral, RefuseLine, Elsewhere, SameWire, SameServer
  <2>3. CASE ServeBody(k) \/ RefuseBody(k)
    BY <1>0, <1>s, <2>1, <2>3 DEF ServeBody, RefuseBody, Elsewhere, SameWire, SameServer
  <2>4. CASE Cut(k) \/ Stall(k)
    BY <1>0, <2>1, <2>4 DEF Cut, Stall, Elsewhere, SameWire, SameServer
  <2> QED
    BY <1>4, <2>2, <2>3, <2>4 DEF Server, Serve, Trouble
<1>5. CASE box' = box /\ \E why \in Causes : Abort(k, why)
  BY <1>0, <1>5 DEF Abort, Sever, Elsewhere, SameWire, SameServer
<1> QED
  BY <1>1, <1>2, <1>3, <1>4, <1>5

LEMMA ElsewhereRests ==
  ASSUME Elsewhere(src), next' = next
  PROVE  SourceRests
  BY DEF Elsewhere, SourceRests, SameReader

LEMMA CommandSource ==
  ASSUME Typed, NEW k \in Conn, NEW verb \in {"SELECT", "LOGOUT"}, CmdNowait(k, verb),
         UNCHANGED <<down, srv, box>>, next' = next
  PROVE  SourceRests \/ SourceAsks
<1> USE Constants
<1> DEFINE c == Issue(cli[k], verb)
           e == Command(k, verb, None)
<1>1. cli' = [cli EXCEPT ![k] = c] /\ up' = Write(k, e)
  BY DEF CmdNowait
<1>2. c.closed = cli[k].closed
  BY Local DEF Issue, Clients
<1>3. e \in Lines /\ e.verb = verb
  BY Local, CommandTyped DEF Verbs, Command, Line
<1> HIDE DEF c, e
<1>4. SameReader(src)
  BY CommandReader DEF Verbs
<1>5. SameServer(src) /\ down'[src] = down[src]
  BY DEF SameServer
<1>6. cli'[src].closed = cli[src].closed
  BY <1>1, <1>2, OneClient
<1>7. CASE k = src /\ ~cli[src].closed
  <2>1. up'[src] = Append(up[src], e)
    BY <1>1, <1>7, OneWire
  <2> QED
    BY <1>3, <1>4, <1>5, <1>6, <1>7, <2>1 DEF SourceAsks, Unmoved
<1>8. CASE ~(k = src /\ ~cli[src].closed)
  <2>1. up'[src] = up[src]
    BY <1>1, <1>8, OneWire
  <2> QED
    BY <1>4, <1>5, <1>6, <2>1 DEF SourceRests, SameWire
<1> QED
  BY <1>7, <1>8

LEMMA AbortSource ==
  ASSUME Typed, NEW k \in Conn, NEW why \in Causes, Abort(k, why), box' = box, next' = next
  PROVE  SourceRests \/ SourceCloses
<1> USE Constants
<1>0. SameReader(src) /\ cli \in [Conn -> Clients]
  BY AbortReader DEF Typed, ClientsTyped
<1>1. CASE k # src
  BY <1>1, OtherEnd, ElsewhereRests
<1>2. CASE k = src /\ cli[k].closed
  BY <1>0, <1>2 DEF Abort, SourceRests, SameWire, SameServer
<1>3. CASE k = src /\ ~cli[k].closed
  <2>1. cli' = [cli EXCEPT ![k] = Closed(@, why)] /\ Sever(k)
    BY <1>3 DEF Abort
  <2>2. Closed(cli[k], why).closed
    BY <1>0, <1>3 DEF Closed, Clients
  <2>3. cli'[src].closed
    BY <1>0, <1>3, <2>1, <2>2
  <2>4. /\ srv' = [srv EXCEPT ![src].peer = FALSE]
        /\ \E n \in 0..(IF Appending(src) THEN Len(up[src]) ELSE 0) : up' = [up EXCEPT ![src] = SubSeq(@, 1, n)]
        /\ \E n \in 0..(IF LateBuffer THEN Len(down[src]) ELSE 0) : down' = [down EXCEPT ![src] = SubSeq(@, 1, n)]
    BY <1>3, <2>1 DEF Sever
  <2>5. srv'[src].on = srv[src].on /\ srv'[src].cmd = srv[src].cmd
    BY <2>4 DEF Typed, ServersTyped, Servers
  <2>6. \E n \in 0..Len(up[src]) : up'[src] = SubSeq(up[src], 1, n)
    <3>1. PICK n \in 0..(IF Appending(src) THEN Len(up[src]) ELSE 0) : up' = [up EXCEPT ![src] = SubSeq(@, 1, n)]
      BY <2>4
    <3>2. n \in 0..Len(up[src])
      BY <3>1, Local
    <3>3. up'[src] = SubSeq(up[src], 1, n)
      BY <3>1 DEF Typed, WireTyped
    <3> QED
      BY <3>2, <3>3
  <2>7. \E n \in 0..Len(down[src]) : down'[src] = SubSeq(down[src], 1, n)
    <3>1. PICK n \in 0..(IF LateBuffer THEN Len(down[src]) ELSE 0) : down' = [down EXCEPT ![src] = SubSeq(@, 1, n)]
      BY <2>4
    <3>2. n \in 0..Len(down[src])
      BY <3>1, Local
    <3>3. down'[src] = SubSeq(down[src], 1, n)
      BY <3>1 DEF Typed, WireTyped
    <3> QED
      BY <3>2, <3>3
  <2> QED
    BY <1>0, <1>3, <2>3, <2>5, <2>6, <2>7 DEF SourceCloses
<1> QED
  BY <1>1, <1>2, <1>3

\* StartMore, and what else the runner does.
LEMMA FetchSource ==
  ASSUME Typed, StartMore
  PROVE  SourceFetches
<1> USE Constants
<1> DEFINE i == Issue(cli[src], "UID FETCH")
           f == Append(i.fifo, Rows[next])
           e == Command(src, "UID FETCH", Rows[next])
<1>1. cli' = [cli EXCEPT ![src] = [i EXCEPT !.fifo = f]] /\ up' = Write(src, e)
  BY DEF StartMore, BodyFetch
<1>2. i \in Clients /\ i.closed = cli[src].closed
  <2>1. i \in Clients
    BY Local, IssueTyped DEF Verbs
  <2>2. i.closed = cli[src].closed
    BY Local DEF Issue, Clients
  <2> QED
    BY <2>1, <2>2
<1>3. Rows[next] \in Msg
  BY DEF StartMore, WantsMore, Typed, WorkerTyped
<1>4. e \in Lines /\ e.verb = "UID FETCH" /\ e.msg = Rows[next]
  BY <1>3, Local, CommandTyped DEF Verbs, Command, Line
<1> HIDE DEF i, f, e
<1>5. [i EXCEPT !.fifo = f].closed = i.closed
  BY <1>2 DEF Clients
<1>6. cli'[src].closed = cli[src].closed
  BY <1>1, <1>2, <1>5, OneClient
<1>7. SameServer(src) /\ down'[src] = down[src]
  BY DEF StartMore, rest, SameServer
<1>8. IF cli[src].closed THEN up'[src] = up[src] ELSE up'[src] = Append(up[src], e)
  BY <1>1, OneWire
<1> QED
  BY <1>4, <1>6, <1>7, <1>8, StartMoreFetches DEF SourceFetches

LEMMA WorkSource ==
  ASSUME Typed, Work
  PROVE  (SourceRests \/ SourceAsks \/ SourceFetches \/ SourceCloses) /\ here' = here
<1> USE Constants
<1>0. here' = here /\ box' = box /\ (~StartMore => next' = next)
  BY DEF Work, Opened, Select, Selected, StartMore, Filled, WaitSize, Begin, Continue, StreamChunk,
     StreamEnds, Finish, Room, SettleOne, ClosePair, LoggedOut, Ended, peer, rest
<1>1. CASE StartMore
  BY <1>0, <1>1, FetchSource
<1>2. CASE Opened \/ Selected \/ Filled \/ WaitSize \/ StreamEnds \/ Room \/ Ended
  <2>1. UNCHANGED <<cli, up, down, srv, box>> /\ next' = next
    BY <1>2 DEF Opened, Selected, Filled, WaitSize, StreamEnds, Room, Ended, peer, client
  <2> QED
    BY <1>0, <2>1 DEF SourceRests, SameWire, SameServer, SameReader
<1>3. CASE Select
  BY <1>0, <1>3, CommandSource DEF Select, StartMore
<1>4. CASE Begin \/ Continue \/ StreamChunk \/ Finish \/ SettleOne
  <2>1. /\ \E c : cli' = [cli EXCEPT ![dst] = c]
        /\ up' = up \/ \E e : up' = Write(dst, e)
        /\ UNCHANGED <<down, srv, box, next>>
    <3>1. CASE Begin
      BY <3>1 DEF Begin, AppendBegin, rest
    <3>2. CASE Continue \/ SettleOne
      BY <3>2, Local DEF Continue, SettleOne, peer, Typed, ClientsTyped
    <3>3. CASE StreamChunk
      BY <3>3, Local DEF StreamChunk, rest, Typed, ClientsTyped
    <3>4. CASE Finish
      BY <3>4, Local DEF Finish, rest, Typed, ClientsTyped
    <3> QED
      BY <1>4, <3>1, <3>2, <3>3, <3>4
  <2>2. cli'[src] = cli[src] /\ up'[src] = up[src]
    BY <2>1, OneClient, OneWire
  <2> QED
    BY <1>0, <2>1, <2>2 DEF SourceRests, SameWire, SameServer, SameReader
<1>5. CASE ClosePair \/ LoggedOut
  <2>1. Head(closing) \in Conn
    BY <1>5 DEF ClosePair, LoggedOut, Typed, WorkerTyped
  <2>2. next' = next
    BY <1>5 DEF ClosePair, LoggedOut
  <2>3. \/ CmdNowait(Head(closing), "LOGOUT") /\ UNCHANGED <<down, srv>>
        \/ Abort(Head(closing), "lost")
    BY <1>5 DEF ClosePair, LoggedOut
  <2> QED
    BY <1>0, <2>1, <2>2, <2>3, CommandSource, AbortSource DEF Causes
<1> QED
  BY <1>1, <1>2, <1>3, <1>4, <1>5 DEF Work

LEMMA OpenSource ==
  ASSUME Typed, OpenFirst, Quiet, Open(src), ~StartReader(src), UNCHANGED worker
  PROVE  SourceRests \/ SourceAsks \/ SourceSkips
<1> USE Constants
<1>0. cli[src] \in Clients /\ cli \in [Conn -> Clients] /\ up \in [Conn -> Seq(Lines)]
      /\ down \in [Conn -> Seq(Replies)]
  BY Local DEF Typed, ClientsTyped, WireTyped
<1>1. SameReader(src) /\ next' = next
  BY OpenReader DEF worker
<1>2. cli[src].phase \notin {"ready", "failed"} => pc = "open"
  BY DEF OpenFirst
<1>3. CASE ReadGreeting(src) \/ StarttlsDone(src)
  <2>1. /\ down[src] # <<>> /\ down' = [down EXCEPT ![src] = Tail(@)]
        /\ UNCHANGED <<up, srv, box>> /\ cli[src].phase \in {"greeting", "starttls"}
    BY <1>3 DEF ReadGreeting, StarttlsDone, Readable
  <2>2. down[src] \in Seq(Bodiless) /\ cli[src].reader # "literal"
    BY <1>2, <2>1 DEF Quiet
  <2>3. Head(down[src]).kind # "BODY"
    BY <2>1, <2>2, SeqTail DEF Bodiless
  <2>4. cli'[src].closed = cli[src].closed
    BY <1>0, <1>3 DEF ReadGreeting, StarttlsDone, Clients
  <2> QED
    BY <1>0, <1>1, <2>1, <2>2, <2>3, <2>4 DEF SourceSkips, SourceTakes, SameEnd, SameServer, Unmoved
<1>4. CASE Starttls(src) \/ Ask(src)
  <2>1. PICK verb \in {"STARTTLS", "CAPABILITY", "LOGIN", "ID", "COMPRESS"} :
          up' = Write(src, Command(src, verb, None))
    BY <1>4 DEF Starttls, Ask, Asking, Verb
  <2>2. Command(src, verb, None) \in Lines /\ Command(src, verb, None).verb = verb
    BY Local, CommandTyped DEF Verbs, Command, Line
  <2>3. SameServer(src) /\ down'[src] = down[src]
    BY <1>4 DEF Starttls, Ask, SameServer
  <2>4. cli'[src].closed = cli[src].closed
    <3>1. CASE Starttls(src)
      BY <1>0, <3>1 DEF Starttls, Clients
    <3>2. CASE Ask(src)
      <4> DEFINE i == Issue(cli[src], Verb(cli[src].phase))
                 c == [i EXCEPT !.sent = TRUE]
      <4>1. cli' = [cli EXCEPT ![src] = c]
        BY <1>0, <3>2 DEF Ask
      <4>2. i \in Clients
        BY <1>0, <3>2, IssueTyped DEF Ask, Asking, Verb, Verbs
      <4>3. i.closed = cli[src].closed
        BY <1>0 DEF Issue, Clients
      <4> HIDE DEF i
      <4>4. c.closed = i.closed
        BY <4>2 DEF Clients
      <4> HIDE DEF c
      <4> QED
        BY <1>0, <4>1, <4>3, <4>4
    <3> QED
      BY <1>4, <3>1, <3>2
  <2>5. CASE cli[src].closed
    BY <1>1, <2>1, <2>3, <2>4, <2>5, OneWire DEF SourceRests, SameWire
  <2>6. CASE ~cli[src].closed
    <3>1. up'[src] = Append(up[src], Command(src, verb, None))
      BY <2>1, <2>6, OneWire
    <3> QED
      BY <1>1, <2>2, <2>3, <2>4, <2>6, <3>1 DEF SourceAsks, Unmoved
  <2> QED
    BY <2>5, <2>6
<1>5. CASE Answered(src) \/ OpenFails(src)
  <2>1. UNCHANGED <<up, down, srv, box>>
    BY <1>5 DEF Answered, OpenFails, peer
  <2>2. cli[src].closed => cli'[src].closed
    <3>1. CASE Answered(src)
      <4>1. PICK f, z : cli' = [cli EXCEPT ![src].phase = f, ![src].sent = FALSE, ![src].zout = z]
        BY <3>1 DEF Answered
      <4> QED
        BY <1>0, <4>1 DEF Clients
    <3>2. CASE OpenFails(src)
      BY <1>0, <3>2 DEF OpenFails, Clients
    <3> QED
      BY <1>5, <3>1, <3>2
  <2> QED
    BY <1>1, <2>1, <2>2 DEF SourceRests, SameWire, SameServer
<1> QED
  BY <1>3, <1>4, <1>5 DEF Open

LEMMA ReaderSource ==
  ASSUME Typed, Reader(src) \/ StartReader(src) \/ TellWaiters(src), next' = next
  PROVE  SourceRests \/ SourceSkips \/ SourceReads \/ SourceTurns
<1> USE Constants
<1>0. cli[src] \in Clients /\ cli \in [Conn -> Clients] /\ down \in [Conn -> Seq(Replies)]
  BY Local DEF Typed, ClientsTyped, WireTyped
<1>c. cli[src].closed => cli'[src].closed
  <2>1. Move(src)
    BY ReaderMoves, TellMoves, OpenMoves DEF Open
  <2> QED
    BY <2>1 DEF Move, Rests, Feeds, Calls, CallsInVain, Greets, Opens1, Proceeds, Hears, IsAnswered,
       Finds, Closes, Tells, Serves, SameVoice
<1>1. CASE ReadResponse(src)
  <2>1. SourceTakes
    BY <1>0, <1>1 DEF ReadResponse, Readable, SourceTakes, SameEnd, SameServer
  <2>2. cli[src].reader # "literal"
    BY <1>1 DEF ReadResponse
  <2>h. Head(down[src]) \in Replies
    BY <1>0, <2>1, SeqTail DEF SourceTakes
  <2>3. cli'[src].closed = cli[src].closed
    <3> DEFINE a == [cli[src] EXCEPT !.idle = 0]
               e == Head(down[src])
               r == Routed(a, src, e)
    <3>1. cli' = [cli EXCEPT ![src] = r]
      BY <1>1 DEF ReadResponse, NextResponse
    <3>2. a \in Clients /\ e \in Replies /\ a.closed = cli[src].closed
      BY <1>0, <2>h DEF Clients
    <3> HIDE DEF a, e
    <3>3. Takes(a, e, r)
      BY <3>2, RoutedVoice
    <3> QED
      BY <1>0, <3>1, <3>2, <3>3 DEF Takes
  <2>4. PICK e : e = Head(down[src])
    OBVIOUS
  <2>5. CASE e.kind = "BODY"
    <3>1. \/ body' = body /\ AllSame
          \/ Begun(src) \/ Announced(src) \/ Received(src) \/ Completed(src) \/ Broken(src) \/ Cleared(src)
      BY ReaderBodies
    <3>2. cli'[src].reader = "literal"
      <4> DEFINE a == [cli[src] EXCEPT !.idle = 0]
                 r == Routed(a, src, e)
      <4>1. cli' = [cli EXCEPT ![src] = r]
        BY <1>1, <2>4 DEF ReadResponse, NextResponse
      <4>2. a \in Clients /\ e \in Replies
        BY <1>0, <2>h, <2>4 DEF Clients
      <4> HIDE DEF a
      <4>3. r.reader = "literal"
        BY <2>5, <4>2, RoutedReader
      <4> QED
        BY <1>0, <4>1, <4>3
    <3>3. cli[src].reader = "line"
      BY <1>1 DEF ReadResponse
    <3>4. Announced(src)
      BY <3>1, <3>2, <3>3 DEF AllSame, SameReader, Begun, Received, Completed, Broken, Cleared
    <3> QED
      BY <2>1, <2>3, <3>4 DEF SourceReads
  <2>6. CASE e.kind # "BODY"
    <3> DEFINE a == [cli[src] EXCEPT !.idle = 0]
               r == Routed(a, src, e)
    <3>1. cli' = [cli EXCEPT ![src] = r]
      BY <1>1, <2>4 DEF ReadResponse, NextResponse
    <3>2. a \in Clients /\ e \in Replies /\ a.reader = cli[src].reader /\ a.to = cli[src].to
          /\ a.left = cli[src].left /\ a.fifo = cli[src].fifo
      BY <1>0, <2>h, <2>4 DEF Clients
    <3> HIDE DEF a
    <3>3. r.reader = a.reader /\ r.to = a.to /\ r.left = a.left /\ r.fifo = a.fifo
      BY <2>6, <3>2, RoutedReader
    <3>4. SameReader(src)
      BY <1>0, <3>1, <3>2, <3>3 DEF SameReader
    <3> QED
      BY <2>1, <2>2, <2>3, <2>4, <2>6, <3>4 DEF SourceSkips, Unmoved
  <2> QED
    BY <2>5, <2>6
<1>2. CASE ReadChunk(src)
  <2>1. SourceTakes
    BY <1>0, <1>2 DEF ReadChunk, Readable, SourceTakes, SameEnd, SameServer
  <2>2. cli'[src].closed = cli[src].closed /\ cli'[src].reader = "literal" /\ cli'[src].left # cli[src].left
    BY <1>0, <1>2 DEF ReadChunk, Clients
  <2>3. cli[src].reader = "literal"
    BY <1>2 DEF ReadChunk
  <2>4. Received(src)
    <3>1. \/ body' = body /\ AllSame
          \/ Begun(src) \/ Announced(src) \/ Received(src) \/ Completed(src) \/ Broken(src) \/ Cleared(src)
      BY ReaderBodies
    <3> QED
      BY <2>2, <2>3, <3>1 DEF AllSame, SameReader, Begun, Announced, Completed, Broken, Cleared
  <2> QED
    BY <2>1, <2>2, <2>4 DEF SourceReads
<1>3. CASE EndLiteral(src) \/ ReadEof(src) \/ TellWaiters(src) \/ StartReader(src)
  <2>1. SameWire(src)
    BY <1>3 DEF EndLiteral, ReadEof, TellWaiters, StartReader, peer, SameWire, SameServer
  <2>2. \/ body' = body /\ AllSame
        \/ Begun(src) \/ Announced(src) \/ Received(src) \/ Completed(src) \/ Broken(src) \/ Cleared(src)
    BY ReaderBodies
  <2>3. cli[src].left \in Int
    BY <1>0 DEF Clients
  <2>4. ~Announced(src) /\ ~Received(src)
    <3>1. cli'[src].left = cli[src].left
      <4>1. CASE EndLiteral(src) \/ StartReader(src)
        BY <1>0, <4>1 DEF EndLiteral, StartReader, Clients
      <4>2. CASE ReadEof(src)
        BY <1>0, <2>2, <4>2 DEF ReadEof, Eof, AllSame, SameReader, Begun, Announced, Received, Completed, Broken, Cleared, Clients
      <4>3. CASE TellWaiters(src)
        BY <1>0, <4>3 DEF TellWaiters, Clients
      <4> QED
        BY <1>3, <4>1, <4>2, <4>3
    <3>2. cli'[src].reader = "literal" => cli[src].reader = "literal"
      <4>1. CASE EndLiteral(src) \/ StartReader(src)
        BY <1>0, <4>1 DEF EndLiteral, StartReader, Clients
      <4>2. CASE ReadEof(src)
        BY <1>0, <4>2 DEF ReadEof, Clients
      <4>3. CASE TellWaiters(src)
        BY <1>0, <4>3 DEF TellWaiters, Clients
      <4> QED
        BY <1>3, <4>1, <4>2, <4>3
    <3> QED
      BY <2>3, <3>1, <3>2 DEF Announced, Received
  <2> QED
    BY <1>c, <2>1, <2>2, <2>4 DEF SourceRests, SourceTurns, AllSame
<1> QED
  BY <1>1, <1>2, <1>3 DEF Reader

\* Every step is one of these for the source.
LEMMA SourceSteps ==
  ASSUME Typed, OpenFirst, Quiet, [Next]_vars
  PROVE  SourceStep
<1> USE Constants
<1> DEFINE Kinds1 == \/ SourceRests \/ SourceAsks \/ SourceFetches \/ SourceSkips \/ SourceReads
                     \/ SourceTurns \/ SourceCloses \/ SourceServes
<1>r. UNCHANGED <<cli, up, down, srv, box, next>> => SourceRests
  BY DEF SourceRests, SameWire, SameServer, SameReader
<1>1. CASE Work
  BY <1>1, WorkSource DEF SourceStep
<1>2. CASE \E m \in Msg : Drain(m)
  BY <1>2, <1>r DEF Drain, peer, worker, SourceStep
<1>3. ASSUME NEW k \in Conn, Goroutines(k), UNCHANGED worker
      PROVE  SourceStep
  <2>1. next' = next
    BY <1>3 DEF worker
  <2>2. here' = here
    BY <1>3 DEF Goroutines, Opener, Open, ReadGreeting, Starttls, StarttlsDone, StartReader, Ask,
       Answered, OpenFails, Reader, ReadResponse, ReadChunk, EndLiteral, ReadEof, TellWaiters,
       Watchdog, KickOne, peer
  <2>3. CASE Watchdog(k) \/ KickOne(k)
    <3>1. box' = box /\ \E why \in Causes : Abort(k, why)
      BY <2>3 DEF Watchdog, KickOne, Causes
    <3> QED
      BY <2>1, <2>2, <3>1, AbortSource DEF SourceStep
  <2>4. CASE (Open(k) \/ Reader(k) \/ TellWaiters(k)) /\ k # src
    BY <2>1, <2>2, <2>4, OtherEnd, ElsewhereRests DEF SourceStep
  <2>5. CASE (Open(k) \/ Reader(k) \/ TellWaiters(k)) /\ k = src
    BY <1>3, <2>1, <2>2, <2>5, OpenSource, ReaderSource DEF SourceStep
  <2> QED
    BY <1>3, <2>3, <2>4, <2>5 DEF Goroutines, Opener
<1>4. CASE Time
  <2>1. Pass(Timed) /\ UNCHANGED worker
    BY <1>4, TimeIs
  <2>2. UNCHANGED <<up, down, srv, box, here, next>>
    BY <2>1 DEF Pass, peer, worker
  <2> DEFINE i == IF Watched(src) /\ cli[src].idle < 2 THEN cli[src].idle + 1 ELSE cli[src].idle
  <2>3. cli'[src] = [cli[src] EXCEPT !.idle = i]
    BY <2>1 DEF Pass
  <2> HIDE DEF i
  <2>4. SameReader(src) /\ cli'[src].closed = cli[src].closed
    BY <2>3, Local DEF SameReader, Clients
  <2> QED
    BY <2>2, <2>4 DEF SourceStep, SourceRests, SameWire, SameServer
<1>5. ASSUME NEW k \in Conn, Server(k)
      PROVE  SourceStep
  <2>1. here' = here /\ cli' = cli /\ next' = next
    BY <1>5 DEF Server, Serve, Trouble, ServeLine, ServeAppend, ServeLiteral, ServeBody, RefuseLine,
       RefuseBody, Cut, Stall, client, worker
  <2>2. CASE k = src
    BY <1>5, <2>1, <2>2 DEF Server, SourceServes, Unmoved, SameReader, SourceStep
  <2>3. CASE k # src
    BY <1>5, <2>1, <2>3, OtherEnd, ElsewhereRests DEF SourceStep
  <2> QED
    BY <2>2, <2>3
<1>6. ASSUME NEW m \in Msg, Vanish(m), UNCHANGED <<client, worker>>
      PROVE  SourceStep
  <2>1. UNCHANGED <<cli, up, down, srv, box, next>> /\ m \in Msg \cap Fleeting /\ here' = here \ {m}
    BY <1>6 DEF Vanish, client, worker
  <2> QED
    BY <1>r, <2>1 DEF SourceStep
<1>7. CASE (Kick /\ UNCHANGED worker) \/ UNCHANGED vars
  BY <1>7, <1>r DEF Kick, vars, client, peer, worker, SourceStep
<1> QED
  BY <1>1, <1>2, <1>3, <1>4, <1>5, <1>6, <1>7 DEF Next, Process, Busy

-----------------------------------------------------------------------------
(* The source is only read from *)

LEMMA SourceQuiet ==
  ASSUME Typed, Typed', SourceInv, SourceStep
  PROVE  SourceInv'
<1> USE Constants
<1>0. /\ up[src] \in Seq(Lines) /\ DOMAIN up[src] = 1..Len(up[src]) /\ Len(up[src]) \in Nat
      /\ srv[src] \in Servers
  BY Local DEF Servers
<1>2. CASE SourceServes
  <2>1. srv[src].cmd = NoLine /\ box[src] = <<>> /\ \A i \in DOMAIN up[src] : up[src][i].verb # "APPEND"
    BY DEF SourceInv
  <2>2. Lined(src) \/ Refused(src) \/ Begins(src) \/ Fills(src) \/ Stores(src) \/ Rejects(src)
        \/ Breaks(src) \/ Hangs(src)
    BY <1>2, ServerCases DEF SourceServes
  <2>3. ~Begins(src)
    <3>1. ASSUME up[src] # <<>>
          PROVE  Head(up[src]).verb # "APPEND"
      BY <1>0, <2>1, <3>1, SeqTail
    <3> QED
      BY <3>1 DEF Begins, Reads
  <2>4. srv'[src].cmd = NoLine /\ box'[src] = <<>>
    BY <2>1, <2>2, <2>3 DEF Lined, Refused, Fills, Stores, Rejects, Breaks, Hangs, SameServer
  <2>5. up'[src] = up[src] \/ (up[src] # <<>> /\ up'[src] = Tail(up[src]))
    BY <2>2 DEF Lined, Refused, Begins, Fills, Stores, Rejects, Breaks, Hangs, Reads
  <2>6. \A i \in DOMAIN up'[src] : up'[src][i].verb # "APPEND"
    <3>1. CASE up[src] # <<>> /\ up'[src] = Tail(up[src])
      BY <1>0, <2>1, <3>1, SeqTail
    <3> QED
      BY <2>1, <2>5, <3>1
  <2> QED
    BY <2>4, <2>6 DEF SourceInv
<1>3. CASE SourceAsks \/ SourceFetches
  <2>1. SameServer(src)
    BY <1>3 DEF SourceAsks, SourceFetches
  <2>2. up'[src] = up[src] \/ \E e \in Lines : e.verb # "APPEND" /\ up'[src] = Append(up[src], e)
    BY <1>3 DEF SourceAsks, SourceFetches
  <2>3. \A i \in DOMAIN up'[src] : up'[src][i].verb # "APPEND"
    <3>1. ASSUME NEW e \in Lines, e.verb # "APPEND", up'[src] = Append(up[src], e)
          PROVE  \A i \in DOMAIN up'[src] : up'[src][i].verb # "APPEND"
      BY <1>0, <3>1, SeqAppend DEF SourceInv
    <3> QED
      BY <2>2, <3>1 DEF SourceInv
  <2> QED
    BY <2>1, <2>3 DEF SourceInv, SameServer
<1>4. CASE SourceCloses
  <2>1. PICK n \in 0..Len(up[src]) : up'[src] = SubSeq(up[src], 1, n)
    BY <1>4 DEF SourceCloses
  <2>2. \A i \in DOMAIN up'[src] : up'[src][i].verb # "APPEND"
    BY <1>0, <2>1, SeqPrefix DEF SourceInv
  <2> QED
    BY <1>4, <2>2 DEF SourceInv, SourceCloses
<1>5. CASE SourceRests \/ SourceSkips \/ SourceReads \/ SourceTurns
  BY <1>5 DEF SourceInv, SourceRests, SourceSkips, SourceReads, SourceTurns, SourceTakes,
     SameEnd, SameWire, SameServer
<1> QED
  BY <1>2, <1>3, <1>4, <1>5 DEF SourceStep

-----------------------------------------------------------------------------
(* Bodies come as a whole: ChunkInv *)

LEMMA FlowTail ==
  ASSUME NEW d \in Seq(Replies), d # <<>>, Flowing(d)
  PROVE  /\ Flowing(Tail(d)) /\ Proper(d[1])
         /\ Tail(d) # <<>> => /\ Continues(d[1], Tail(d)[1])
                              /\ Tail(d)[Len(Tail(d))] = d[Len(d)]
         /\ Tail(d) = <<>> => d[1] = d[Len(d)]
<1> DEFINE t == Tail(d)
<1>1. /\ t \in Seq(Replies) /\ Len(t) = Len(d) - 1 /\ Len(d) \in Nat \ {0}
      /\ DOMAIN t = 1..(Len(d) - 1) /\ DOMAIN d = 1..Len(d)
      /\ \A i \in 1..(Len(d) - 1) : t[i] = d[i + 1]
  BY SeqTail
<1> HIDE DEF t
<1>2. t = <<>> <=> Len(d) = 1
  BY <1>1, SeqDomain
<1>3. \A i \in DOMAIN t : Proper(t[i])
  BY <1>1 DEF Flowing
<1>4. \A i \in 1..(Len(t) - 1) : Continues(t[i], t[i + 1])
  <2>1. ASSUME NEW i \in 1..(Len(t) - 1)
        PROVE  t[i] = d[i + 1] /\ t[i + 1] = d[(i + 1) + 1] /\ i + 1 \in 1..(Len(d) - 1)
    BY <1>1
  <2> QED
    BY <2>1 DEF Flowing
<1>5. Proper(d[1])
  BY <1>1 DEF Flowing
<1>6. ASSUME t # <<>>
      PROVE  Continues(d[1], t[1]) /\ t[Len(t)] = d[Len(d)]
  <2>1. 1 \in 1..(Len(d) - 1) /\ t[1] = d[1 + 1]
    BY <1>1, <1>2, <1>6
  <2>2. Continues(d[1], d[1 + 1])
    BY <2>1 DEF Flowing
  <2>3. t[Len(t)] = d[Len(d)]
    BY <1>1, <1>2, <1>6
  <2> QED
    BY <2>1, <2>2, <2>3
<1>7. Flowing(t)
  BY <1>3, <1>4 DEF Flowing
<1> QED
  BY <1>2, <1>5, <1>6, <1>7 DEF t

LEMMA FlowPrefix ==
  ASSUME NEW d \in Seq(Replies), NEW n \in 0..Len(d), Flowing(d)
  PROVE  /\ Flowing(SubSeq(d, 1, n))
         /\ SubSeq(d, 1, n) # <<>> => d # <<>> /\ SubSeq(d, 1, n)[1] = d[1]
<1> DEFINE t == SubSeq(d, 1, n)
<1>1. t \in Seq(Replies) /\ Len(t) = n /\ DOMAIN t = 1..n /\ \A i \in 1..n : t[i] = d[i]
  BY SeqPrefix
<1>2. DOMAIN d = 1..Len(d) /\ Len(d) \in Nat
  OBVIOUS
<1> HIDE DEF t
<1>3. \A i \in DOMAIN t : Proper(t[i])
  BY <1>1, <1>2 DEF Flowing
<1>4. \A i \in 1..(Len(t) - 1) : Continues(t[i], t[i + 1])
  <2>1. ASSUME NEW i \in 1..(Len(t) - 1)
        PROVE  t[i] = d[i] /\ t[i + 1] = d[i + 1] /\ i \in 1..(Len(d) - 1)
    BY <1>1, <1>2
  <2> QED
    BY <2>1 DEF Flowing
<1>5. ASSUME t # <<>>
      PROVE  d # <<>> /\ t[1] = d[1]
  <2>1. n >= 1
    BY <1>1, <1>5
  <2> QED
    BY <1>1, <1>2, <2>1
<1> QED
  BY <1>3, <1>4, <1>5 DEF Flowing, t

LEMMA FlowCat ==
  ASSUME NEW d \in Seq(Replies), NEW a \in Seq(Replies), Flowing(d), Flowing(a), a # <<>>,
         IF d = <<>> THEN TRUE ELSE Continues(d[Len(d)], a[1])
  PROVE  /\ Flowing(d \o a) /\ d \o a # <<>> /\ (d \o a)[Len(d \o a)] = a[Len(a)]
         /\ (d \o a)[1] = IF d = <<>> THEN a[1] ELSE d[1]
<1> DEFINE t == d \o a
<1>1. /\ t \in Seq(Replies) /\ Len(t) = Len(d) + Len(a) /\ Len(d) \in Nat /\ Len(a) \in Nat
      /\ DOMAIN t = 1..(Len(d) + Len(a))
      /\ \A i \in 1..Len(d) : t[i] = d[i]
      /\ \A i \in 1..Len(a) : t[Len(d) + i] = a[i]
      /\ \A i \in (Len(d) + 1)..(Len(d) + Len(a)) : t[i] = a[i - Len(d)]
  BY SeqCat
<1>2. DOMAIN d = 1..Len(d) /\ DOMAIN a = 1..Len(a) /\ (d = <<>> <=> Len(d) = 0) /\ Len(a) >= 1
  BY SeqDomain
<1> HIDE DEF t
<1>3. \A i \in DOMAIN t : Proper(t[i])
  <2>1. ASSUME NEW i \in DOMAIN t
        PROVE  \/ i \in DOMAIN d /\ t[i] = d[i]
               \/ i - Len(d) \in DOMAIN a /\ t[i] = a[i - Len(d)]
    BY <1>1, <1>2
  <2> QED
    BY <2>1 DEF Flowing
<1>4. ASSUME NEW i \in 1..(Len(t) - 1)
      PROVE  Continues(t[i], t[i + 1])
  <2>1. CASE i < Len(d)
    <3>1. t[i] = d[i] /\ t[i + 1] = d[i + 1] /\ i \in 1..(Len(d) - 1)
      BY <1>1, <2>1
    <3> QED
      BY <3>1 DEF Flowing
  <2>2. CASE i = Len(d)
    <3>1. t[i] = d[Len(d)] /\ t[i + 1] = a[1] /\ d # <<>>
      BY <1>1, <1>2, <2>2
    <3> QED
      BY <3>1
  <2>3. CASE i > Len(d)
    <3>1. PICK j : j = i - Len(d)
      OBVIOUS
    <3>2. t[i] = a[j] /\ t[i + 1] = a[j + 1] /\ j \in 1..(Len(a) - 1)
      BY <1>1, <2>3, <3>1
    <3> QED
      BY <3>2 DEF Flowing
  <2> QED
    BY <1>1, <2>1, <2>2, <2>3
<1>5. t # <<>> /\ t[Len(t)] = a[Len(a)]
  BY <1>1, <1>2
<1>6. t[1] = IF d = <<>> THEN a[1] ELSE d[1]
  BY <1>1, <1>2
<1> QED
  BY <1>3, <1>4, <1>5, <1>6 DEF Flowing, t

\* The answer to a FETCH is a body and its completion, any other one has no body.
LEMMA AnswerFlows ==
  ASSUME Typed, NEW k \in Conn, NEW e \in Lines
  PROVE  LET a == Answer(k, e)
         IN /\ Flowing(a) /\ a # <<>> /\ a[1].kind # "CHUNK" /\ ~Partial(a[Len(a)])
            /\ \A i \in DOMAIN a : a[i].kind = "BODY" <=> i = 1 /\ e.verb = "UID FETCH" /\ e.msg \in here
            /\ e.verb = "UID FETCH" /\ e.msg \in here => a[1].msg = e.msg
<1> DEFINE z == srv[k].zip
           ok == Reply("OK", e.tag, None, 0, z)
<1>0. z \in BOOLEAN /\ e.tag \in Nat /\ here \subseteq Msg
  BY Local DEF Lines, Typed, WorkerTyped
<1>1. CASE e.verb = "UID FETCH" /\ e.msg \in here
  <2> DEFINE n == Size[e.msg]
             hd == Reply("BODY", 0, e.msg, n, z)
             Chs == [i \in 1..n |-> Reply("CHUNK", 0, e.msg, i, z)]
  <2>0. n \in Nat /\ e.msg \in Msg
    BY <1>0, <1>1, Constants
  <2>1. Answer(k, e) = (<<hd>> \o Chs) \o <<ok>>
    BY <1>1 DEF Answer
  <2>2. Chs \in Seq(Replies) /\ Len(Chs) = n /\ \A i \in 1..n : Chs[i] = Reply("CHUNK", 0, e.msg, i, z)
    <3>1. \A i \in 1..n : Reply("CHUNK", 0, e.msg, i, z) \in Replies
      BY <1>0, <2>0 DEF Replies, Reply, Kinds
    <3> QED
      BY <2>0, <3>1
  <2>3. hd \in Replies /\ ok \in Replies
    BY <1>0, <2>0 DEF Replies, Reply, Kinds
  <2>4. hd.kind = "BODY" /\ hd.msg = e.msg /\ hd.part = n /\ ok.kind = "OK"
    BY DEF Reply
  <2> HIDE DEF n, hd, ok, Chs
  <2>5. PICK a : a = (<<hd>> \o Chs) \o <<ok>>
    OBVIOUS
  <2>6. /\ a \in Seq(Replies) /\ Len(a) = n + 2 /\ DOMAIN a = 1..(n + 2)
        /\ a[1] = hd /\ a[n + 2] = ok /\ \A i \in 1..n : a[i + 1] = Chs[i]
    BY <2>0, <2>2, <2>3, <2>5
  <2>7. \A i \in 2..(n + 1) : a[i] = Reply("CHUNK", 0, e.msg, i - 1, z)
    <3> SUFFICES ASSUME NEW i \in 2..(n + 1)
                 PROVE  a[i] = Reply("CHUNK", 0, e.msg, i - 1, z)
      OBVIOUS
    <3>1. PICK j : j = i - 1
      OBVIOUS
    <3>2. j \in 1..n /\ i = j + 1
      BY <2>0, <3>1
    <3> QED
      BY <2>2, <2>6, <3>1, <3>2
  <2>8. \A i \in 2..(n + 1) : a[i].kind = "CHUNK" /\ a[i].msg = e.msg /\ a[i].part = i - 1
    <3> SUFFICES ASSUME NEW i \in 2..(n + 1)
                 PROVE  a[i].kind = "CHUNK" /\ a[i].msg = e.msg /\ a[i].part = i - 1
      OBVIOUS
    <3>1. a[i] = Reply("CHUNK", 0, e.msg, i - 1, z)
      BY <2>7
    <3> QED
      BY <3>1 DEF Reply
  <2>9. \A i \in DOMAIN a : i = 1 \/ i = n + 2 \/ i \in 2..(n + 1)
    BY <2>0, <2>6
  <2>10. \A i \in DOMAIN a : Proper(a[i])
    <3>1. Proper(hd) /\ Proper(ok)
      BY <2>0, <2>4 DEF Proper, n
    <3>2. ASSUME NEW i \in 2..(n + 1)
          PROVE  Proper(a[i])
      <4>1. i - 1 \in 1..n
        BY <2>0
      <4> QED
        BY <2>0, <2>8, <4>1 DEF Proper, n
    <3> QED
      BY <2>6, <2>9, <3>1, <3>2
  <2>11. ASSUME NEW i \in 1..(n + 1)
         PROVE  Continues(a[i], a[i + 1])
    <3>1. Partial(a[i]) <=> i - 1 < n
      <4>1. CASE i = 1
        BY <2>0, <2>4, <2>6, <4>1 DEF Partial, Upto, n
      <4>2. CASE i # 1
        <5>1. i \in 2..(n + 1)
          BY <2>0, <4>2
        <5> QED
          BY <2>0, <2>8, <5>1 DEF Partial, Upto, n
      <4> QED
        BY <4>1, <4>2
    <3>2. CASE i - 1 < n
      <4>1. i + 1 \in 2..(n + 1) /\ (i + 1) - 1 = i /\ i = (i - 1) + 1
        BY <2>0, <3>2
      <4>2. a[i + 1].kind = "CHUNK" /\ a[i + 1].msg = e.msg /\ a[i + 1].part = i
        BY <2>8, <4>1
      <4>3. a[i].msg = e.msg /\ Upto(a[i]) = i - 1
        <5>1. CASE i = 1
          BY <2>4, <2>6, <5>1 DEF Upto
        <5>2. CASE i # 1
          <6>1. i \in 2..(n + 1)
            BY <2>0, <5>2
          <6> QED
            BY <2>8, <6>1 DEF Upto
        <5> QED
          BY <5>1, <5>2
      <4>4. Upto(a[i]) + 1 = i
        BY <4>1, <4>3
      <4> QED
        BY <3>1, <3>2, <4>2, <4>3, <4>4 DEF Continues, IsChunk
    <3>3. CASE ~(i - 1 < n)
      <4>1. i + 1 = n + 2
        BY <2>0, <3>3
      <4> QED
        BY <2>4, <2>6, <3>1, <3>3, <4>1 DEF Continues
    <3> QED
      BY <3>2, <3>3
  <2>12. Flowing(a)
    <3>1. Len(a) - 1 = n + 1
      BY <2>0, <2>6
    <3> QED
      BY <2>10, <2>11, <3>1 DEF Flowing
  <2>13. a # <<>> /\ ~Partial(a[Len(a)]) /\ a[1].kind # "CHUNK"
    BY <2>0, <2>4, <2>6 DEF Partial
  <2>14. \A i \in DOMAIN a : a[i].kind = "BODY" <=> i = 1
    <3>1. n + 2 # 1 /\ \A i \in 2..(n + 1) : i # 1
      BY <2>0
    <3> QED
      BY <2>4, <2>6, <2>8, <2>9, <3>1
  <2> QED
    BY <1>1, <2>1, <2>4, <2>5, <2>6, <2>12, <2>13, <2>14
<1>2. CASE ~(e.verb = "UID FETCH" /\ e.msg \in here)
  <2>1. PICK a : a = Answer(k, e)
    OBVIOUS
  <2>2. \/ a = <<ok>>
        \/ \E kind \in {"CAPABILITY", "UIDVALIDITY", "BYE"} : a = <<Reply(kind, 0, None, 0, z)>> \o <<ok>>
    BY <1>2, <2>1 DEF Answer
  <2>3. a # <<>> /\ DOMAIN a = 1..Len(a) /\ Len(a) \in Nat \ {0}
        /\ \A i \in DOMAIN a : a[i].kind \notin {"BODY", "CHUNK"}
    <3>1. CASE a = <<ok>>
      BY <3>1 DEF Reply
    <3>2. ASSUME NEW kind \in {"CAPABILITY", "UIDVALIDITY", "BYE"}, a = <<Reply(kind, 0, None, 0, z)>> \o <<ok>>
          PROVE  a # <<>> /\ DOMAIN a = 1..Len(a) /\ Len(a) \in Nat \ {0}
                 /\ \A i \in DOMAIN a : a[i].kind \notin {"BODY", "CHUNK"}
      <4>1. PICK x : x = Reply(kind, 0, None, 0, z)
        OBVIOUS
      <4>2. x \in Replies /\ ok \in Replies
        BY <1>0, <4>1 DEF Replies, Reply, Kinds
      <4>3. x.kind \notin {"BODY", "CHUNK"} /\ ok.kind \notin {"BODY", "CHUNK"}
        BY <4>1 DEF Reply
      <4>4. PICK y : y = ok
        OBVIOUS
      <4> HIDE DEF ok
      <4>5. a = <<x>> \o <<y>>
        BY <3>2, <4>1, <4>4
      <4>6. Len(a) = 2 /\ a[1] = x /\ a[2] = y /\ DOMAIN a = 1..2
        BY <4>2, <4>4, <4>5
      <4>7. a # <<>> /\ \A i \in DOMAIN a : i = 1 \/ i = 2
        BY <4>6
      <4> QED
        BY <4>3, <4>4, <4>6, <4>7
    <3> QED
      BY <2>2, <3>1, <3>2
  <2>4. \A i \in DOMAIN a : Proper(a[i]) /\ ~Partial(a[i])
    BY <2>3 DEF Proper, Partial
  <2>5. \A i \in 1..(Len(a) - 1) : Continues(a[i], a[i + 1])
    <3>1. \A i \in 1..(Len(a) - 1) : i \in DOMAIN a /\ i + 1 \in DOMAIN a
      BY <2>3
    <3> QED
      BY <2>3, <2>4, <3>1 DEF Continues
  <2>6. 1 \in DOMAIN a /\ Len(a) \in DOMAIN a
    BY <2>3
  <2> QED
    BY <1>2, <2>1, <2>3, <2>4, <2>5, <2>6 DEF Flowing
<1> QED
  BY <1>1, <1>2

\* The server of the source answers with a.
Bodied(e) == e.verb = "UID FETCH" /\ e.msg \in here
SourceAnswers(a) ==
  LET e == Head(up[src])
  IN /\ srv[src].on /\ up[src] # <<>> /\ up'[src] = Tail(up[src])
     /\ a \in Seq(Replies) /\ a # <<>> /\ Flowing(a)
     /\ a[1].kind # "CHUNK" /\ ~Partial(a[Len(a)])
     /\ \A i \in DOMAIN a : a[i].kind = "BODY" <=> i = 1 /\ Bodied(e)
     /\ Bodied(e) => a[1].msg = e.msg
     /\ down'[src] = IF cli[src].closed THEN down[src] ELSE down[src] \o a

LEMMA SourceServed ==
  ASSUME Typed, SourceInv, PeerKnows(src), SourceServes
  PROVE  \/ up'[src] = up[src] /\ down'[src] = down[src] /\ srv'[src].on = srv[src].on
         \/ /\ ~srv'[src].on /\ up'[src] = up[src]
            /\ \E n \in 0..Len(down[src]) : down'[src] = SubSeq(down[src], 1, n)
         \/ \E a \in Seq(Replies) : SourceAnswers(a)
<1> USE Constants
<1>0. up[src] \in Seq(Lines) /\ down[src] \in Seq(Replies) /\ srv[src].cmd = NoLine
      /\ srv[src].zip \in BOOLEAN
  BY Local DEF SourceInv
<1>1. Lined(src) \/ Refused(src) \/ Begins(src) \/ Breaks(src) \/ Hangs(src)
  BY <1>0, ServerCases DEF SourceServes, Fills, Stores, Rejects
<1>2. PICK e : e = Head(up[src])
  OBVIOUS
<1>3. ASSUME up[src] # <<>>
      PROVE  e \in Lines /\ e.verb # "APPEND"
  BY <1>0, <1>2, <1>3, SeqTail, SeqDomain DEF SourceInv
<1>4. ~Begins(src)
  BY <1>2, <1>3 DEF Begins, Reads
<1>5. CASE Lined(src)
  <2>1. PICK a : a = Answer(src, e)
    OBVIOUS
  <2>2. up[src] # <<>> /\ srv[src].on /\ up'[src] = Tail(up[src]) /\ Sends(src, a)
    BY <1>2, <1>5, <2>1 DEF Lined, Reads
  <2>3. e \in Lines
    BY <1>3, <2>2
  <2>4. a \in Seq(Replies)
    BY <2>1, <2>3, AnswerIs
  <2>5. /\ Flowing(a) /\ a # <<>> /\ a[1].kind # "CHUNK" /\ ~Partial(a[Len(a)])
        /\ \A i \in DOMAIN a : a[i].kind = "BODY" <=> i = 1 /\ e.verb = "UID FETCH" /\ e.msg \in here
        /\ e.verb = "UID FETCH" /\ e.msg \in here => a[1].msg = e.msg
    BY <2>1, <2>3, AnswerFlows
  <2>6. down'[src] = IF cli[src].closed THEN down[src] ELSE down[src] \o a
    BY <2>2 DEF Sends, PeerKnows
  <2> QED
    BY <1>2, <2>2, <2>4, <2>5, <2>6 DEF SourceAnswers, Bodied
<1>6. CASE Refused(src)
  <2>1. PICK x : x = Reply("NO", e.tag, None, 0, srv[src].zip)
    OBVIOUS
  <2>2. up[src] # <<>> /\ srv[src].on /\ up'[src] = Tail(up[src]) /\ Sends(src, <<x>>)
        /\ e.verb \in {"LOGIN", "COMPRESS"}
    BY <1>2, <1>6, <2>1 DEF Refused, Reads
  <2>3. x \in Replies /\ x.kind = "NO"
    BY <1>0, <1>3, <2>1, <2>2 DEF Replies, Reply, Kinds, Lines
  <2>4. PICK a : a = <<x>>
    OBVIOUS
  <2>5. a \in Seq(Replies) /\ a # <<>> /\ Len(a) = 1 /\ a[1] = x /\ DOMAIN a = 1..1
    BY <2>3, <2>4
  <2>6. Flowing(a)
    <3>1. Proper(x)
      BY <2>3 DEF Proper
    <3>2. \A i \in DOMAIN a : i = 1
      BY <2>5
    <3>3. 1..(Len(a) - 1) = {}
      BY <2>5
    <3> QED
      BY <2>5, <3>1, <3>2, <3>3 DEF Flowing
  <2>7. ~Partial(a[Len(a)]) /\ a[1].kind # "CHUNK"
    BY <2>3, <2>5 DEF Partial
  <2>8. ~Bodied(e)
    BY <2>2 DEF Bodied
  <2>9. \A i \in DOMAIN a : a[i].kind = "BODY" <=> i = 1 /\ Bodied(e)
    <3>1. \A i \in DOMAIN a : i = 1
      BY <2>5
    <3> QED
      BY <2>3, <2>5, <2>8, <3>1
  <2>10. down'[src] = IF cli[src].closed THEN down[src] ELSE down[src] \o a
    BY <2>2, <2>4 DEF Sends, PeerKnows
  <2>11. SourceAnswers(a)
    BY <1>2, <2>2, <2>5, <2>6, <2>7, <2>8, <2>9, <2>10 DEF SourceAnswers
  <2> QED
    BY <2>5, <2>11
<1>7. CASE Breaks(src) \/ Hangs(src)
  BY <1>7 DEF Breaks, Hangs
<1> QED
  BY <1>1, <1>4, <1>5, <1>6, <1>7

LEMMA ChunkNext ==
  ASSUME Typed, Typed', OpenFirst, Quiet, SourceInv, ChunkInv, PeerKnows(src), FifoInv,
         Listening => InOrder(down[src], Front1, next - 1),
         Running, Attending', SourceStep
  PROVE  ChunkInv'
<1> USE Constants
<1> DEFINE d == down[src]
           d2 == down'[src]
           Ends(q, mid) == IF q = <<>> THEN ~mid ELSE ~Partial(q[Len(q)])
<1>0. /\ d \in Seq(Replies) /\ d2 \in Seq(Replies) /\ cli[src] \in Clients /\ cli'[src] \in Clients
      /\ srv[src] \in Servers /\ srv'[src] \in Servers
  BY Local DEF Typed, ClientsTyped, WireTyped, ServersTyped
<1>1. /\ Flowing(d)
      /\ cli[src].reader = "literal" => cli[src].to # None /\ cli[src].left \in 0..Size[cli[src].to]
      /\ d # <<>> => IF Midst THEN IsChunk(d[1], cli[src].to, Size[cli[src].to] - cli[src].left + 1)
                     ELSE d[1].kind # "CHUNK"
      /\ Alive(src) => IF d = <<>> THEN ~Midst ELSE ~Partial(d[Len(d)])
  BY DEF ChunkInv
<1>s. ASSUME SameReader(src)
      PROVE  /\ Midst' = Midst
             /\ cli'[src].reader = "literal" => cli'[src].to # None /\ cli'[src].left \in 0..Size[cli'[src].to]
             /\ cli'[src].to = cli[src].to /\ cli'[src].left = cli[src].left
  BY <1>1, <1>s DEF SameReader, Midst
<1>a. srv'[src].on /\ ~cli'[src].closed <=> Alive(src)'
  BY DEF Alive
<1>2. CASE SourceRests \/ SourceAsks
  <2>1. d2 = d /\ SameReader(src) /\ (Alive(src)' => Alive(src))
    BY <1>0, <1>2 DEF SourceRests, SourceAsks, Unmoved, SameWire, SameServer, Alive, Clients
  <2> QED
    BY <1>1, <1>s, <2>1 DEF ChunkInv
<1>3. CASE SourceFetches
  <2>1. d2 = d /\ cli'[src].reader = cli[src].reader /\ cli'[src].to = cli[src].to
        /\ cli'[src].left = cli[src].left /\ (Alive(src)' => Alive(src))
    BY <1>3 DEF SourceFetches, Fetched, SameServer, Alive
  <2>2. Midst' = Midst
    BY <2>1 DEF Midst
  <2> QED
    BY <1>1, <2>1, <2>2 DEF ChunkInv
<1>t. ASSUME SourceTakes
      PROVE  /\ d # <<>> /\ d2 = Tail(d) /\ Flowing(d2) /\ Proper(d[1]) /\ Head(d) = d[1] /\ d[1] \in Replies
             /\ d2 # <<>> => Continues(d[1], d2[1]) /\ d2[Len(d2)] = d[Len(d)]
             /\ d2 = <<>> => d[1] = d[Len(d)]
  <2>1. d # <<>> /\ d2 = Tail(d)
    BY <1>t DEF SourceTakes
  <2> QED
    BY <1>0, <1>1, <2>1, FlowTail, SeqTail
<1>4. CASE SourceSkips
  <2>1. /\ SourceTakes /\ SameReader(src) /\ cli[src].reader # "literal" /\ Head(d).kind # "BODY"
        /\ (Alive(src)' => Alive(src))
    BY <1>4 DEF SourceSkips, Unmoved, SourceTakes, SameEnd, SameServer, Alive
  <2>2. ~Midst
    BY <2>1 DEF Midst
  <2>3. d # <<>> /\ d2 = Tail(d) /\ Flowing(d2) /\ Head(d) = d[1]
        /\ (d2 # <<>> => Continues(d[1], d2[1]) /\ d2[Len(d2)] = d[Len(d)])
    BY <1>t, <2>1
  <2>4. ~Partial(d[1])
    BY <1>1, <2>1, <2>2, <2>3 DEF Partial
  <2>5. d2 # <<>> => d2[1].kind # "CHUNK"
    BY <2>3, <2>4 DEF Continues
  <2> QED
    BY <1>1, <1>s, <2>1, <2>2, <2>3, <2>5 DEF ChunkInv
<1>5. CASE SourceReads
  <2>1. SourceTakes /\ (Alive(src)' => Alive(src))
    BY <1>5 DEF SourceReads, SourceTakes, SameEnd, SameServer, Alive
  <2>2. /\ d # <<>> /\ d2 = Tail(d) /\ Flowing(d2) /\ Proper(d[1]) /\ Head(d) = d[1] /\ d[1] \in Replies
        /\ d2 # <<>> => Continues(d[1], d2[1]) /\ d2[Len(d2)] = d[Len(d)]
        /\ d2 = <<>> => d[1] = d[Len(d)]
    BY <1>t, <2>1
  <2> DEFINE c2 == cli'[src]
  <2>3. /\ c2.reader = "literal" /\ c2.to # None /\ c2.to \in Msg /\ c2.left \in 0..Size[c2.to]
        /\ Partial(d[1]) <=> c2.left > 0
        /\ Partial(d[1]) => d[1].msg = c2.to /\ Upto(d[1]) + 1 = Size[c2.to] - c2.left + 1
    <3>1. CASE Announced(src)
      <4> DEFINE f == cli[src].fifo
      <4>1. Head(d).kind = "BODY" /\ c2.reader = "literal" /\ c2.left = d[1].part
            /\ (f # <<>> => c2.to = Head(f))
        BY <2>2, <3>1 DEF Announced
      <4>2. 1 \in DOMAIN d
        BY <1>0, <2>2
      <4>3. d[1].msg \in Msg /\ d[1].part = Size[d[1].msg] /\ Size[d[1].msg] \in Nat
        BY <2>2, <4>1 DEF Proper
      <4>4. f \in Seq(Msg) /\ Front1 = next - Len(f) /\ next \in Nat
        BY <1>0 DEF Front1, Clients, Typed, WorkerTyped
      <4>o. InOrder(d, Front1, next - 1)
        <5>1. CASE cli[src].closed /\ cli[src].fifo = <<>>
          <6>1. cli'[src].closed /\ cli'[src].fifo = <<>> /\ cli'[src].to = None
            BY <1>5, <3>1, <5>1 DEF SourceReads, Announced
          <6> QED
            BY <6>1 DEF Attending
        <5> QED
          BY <5>1 DEF Listening
      <4>5. \E r \in Front1..(next - 1) : d[1].msg = Rows[r]
        BY <2>2, <4>1, <4>2, <4>o DEF InOrder
      <4>6. f # <<>>
        <5>1. Len(f) \in Nat
          BY <4>4
        <5>2. Len(f) # 0
          BY <4>4, <4>5, <5>1
        <5> QED
          BY <4>4, <5>2
      <4>7. Head(f) = d[1].msg
        <5>1. Len(f) \in Nat /\ 1 \in DOMAIN f /\ Head(f) = f[1] /\ Len(f) >= 1
          BY <4>4, <4>6, SeqDomain, SeqTail
        <5>2. f[1] = Rows[Front1 + 1 - 1]
          BY <5>1 DEF FifoInv
        <5>3. Front1 \in Nat /\ Front1 + 1 - 1 = Front1
          BY <4>4, <5>1 DEF FifoInv
        <5>4. PICK r \in Front1..(next - 1) : d[1].msg = Rows[r]
          BY <4>5
        <5>5. ~(r > Front1)
          <6> SUFFICES ASSUME r > Front1
                       PROVE  FALSE
            OBVIOUS
          <6>1. r \in (Front1 + 1)..(next - 1)
            BY <4>4, <5>3, <5>4
          <6>2. BodyAt(d, 1, r)
            BY <2>2, <4>1, <5>4 DEF BodyAt
          <6>3. \E j \in 1..(1 - 1) : BodyAt(d, j, r - 1)
            BY <4>2, <4>o, <6>1, <6>2 DEF InOrder
          <6> QED
            BY <6>3
        <5>6. r = Front1
          <6>1. PICK a, n : a = Front1 /\ n = next
            OBVIOUS
          <6>2. a \in Nat /\ n \in Nat /\ r \in a..(n - 1) /\ ~(r > a)
            BY <4>4, <5>3, <5>4, <5>5, <6>1
          <6>3. r = a
            BY <6>2
          <6> QED
            BY <6>1, <6>3
        <5> QED
          BY <5>1, <5>2, <5>3, <5>4, <5>6
      <4>8. c2.to = d[1].msg
        BY <4>1, <4>6, <4>7
      <4>9. Upto(d[1]) = 0 /\ (Partial(d[1]) <=> 0 < Size[d[1].msg])
        BY <2>2, <4>1 DEF Upto, Partial
      <4> QED
        BY <4>1, <4>3, <4>8, <4>9
    <3>2. CASE Received(src)
      <4> DEFINE c == cli[src]
      <4>1. c.reader = "literal" /\ c.left > 0 /\ c2.reader = c.reader /\ c2.to = c.to /\ c2.left = c.left - 1
        BY <3>2 DEF Received
      <4>2. Midst
        BY <4>1 DEF Midst
      <4>3. IsChunk(d[1], c.to, Size[c.to] - c.left + 1) /\ c.to # None /\ c.left \in 0..Size[c.to]
        BY <1>1, <2>2, <4>1, <4>2
      <4>4. c.to \in Msg
        BY <1>0, <4>3 DEF Clients
      <4>5. Size[c.to] \in Nat
        BY <4>4
      <4>6. Upto(d[1]) = Size[c.to] - c.left + 1 /\ (Partial(d[1]) <=> Size[c.to] - c.left + 1 < Size[c.to])
            /\ d[1].msg = c.to
        BY <4>3 DEF IsChunk, Upto, Partial
      <4> HIDE DEF c, c2, d
      <4>7. PICK n, l : n = Size[c.to] /\ l = c.left
        OBVIOUS
      <4>8. n \in Nat /\ l \in 1..n /\ c2.left = l - 1 /\ Upto(d[1]) = n - l + 1 /\ (Partial(d[1]) <=> n - l + 1 < n)
        BY <4>1, <4>3, <4>5, <4>6, <4>7
      <4>9. c2.left \in 0..n /\ (Partial(d[1]) <=> c2.left > 0) /\ Upto(d[1]) + 1 = n - c2.left + 1
        BY <4>8
      <4> QED
        BY <4>1, <4>3, <4>4, <4>6, <4>7, <4>9
    <3> QED
      BY <1>5, <3>1, <3>2 DEF SourceReads
  <2>4. Midst' <=> Partial(d[1])
    BY <2>3 DEF Midst
  <2>5. d2 # <<>> => IF Midst' THEN IsChunk(d2[1], c2.to, Size[c2.to] - c2.left + 1) ELSE d2[1].kind # "CHUNK"
    BY <2>2, <2>3, <2>4 DEF Continues
  <2>6. Alive(src)' => IF d2 = <<>> THEN ~Midst' ELSE ~Partial(d2[Len(d2)])
    BY <1>1, <2>1, <2>2, <2>4
  <2> QED
    BY <2>2, <2>3, <2>5, <2>6 DEF ChunkInv
<1>6. CASE SourceTurns
  <2>1. d2 = d /\ (Alive(src)' => Alive(src))
    BY <1>0, <1>6 DEF SourceTurns, SameWire, SameServer, Alive, Clients
  <2>2. CASE Completed(src) \/ Begun(src)
    <3>1. cli'[src].reader = "line" /\ ~Midst
      <4>1. CASE Completed(src)
        BY <1>0, <4>1 DEF Completed, Midst, Clients
      <4>2. CASE Begun(src)
        <5>1. cli[src].phase = "open" /\ cli'[src].reader = "line"
          BY <4>2 DEF Begun
        <5>2. pc = "open"
          BY <5>1 DEF OpenFirst
        <5> QED
          BY <5>1, <5>2 DEF Quiet, Midst
      <4> QED
        BY <2>2, <4>1, <4>2
    <3> QED
      BY <1>1, <2>1, <3>1 DEF ChunkInv, Midst
  <2>3. CASE Broken(src)
    <3>1. cli'[src].reader = "off" /\ d = <<>> /\ cli'[src].closed
      BY <2>3 DEF Broken, Eof
    <3> QED
      BY <1>1, <2>1, <3>1 DEF ChunkInv, Midst, Alive
  <2>4. CASE Cleared(src)
    <3>1. cli'[src].reader = cli[src].reader /\ cli'[src].to = cli[src].to /\ cli'[src].left = cli[src].left
      BY <2>4 DEF Cleared
    <3>2. Midst' = Midst
      BY <3>1 DEF Midst
    <3> QED
      BY <1>1, <2>1, <3>1, <3>2 DEF ChunkInv
  <2> QED
    BY <1>6, <2>2, <2>3, <2>4 DEF SourceTurns
<1>7. CASE SourceCloses
  <2>1. SameReader(src) /\ cli'[src].closed
    BY <1>7 DEF SourceCloses
  <2>2. PICK n \in 0..Len(d) : d2 = SubSeq(d, 1, n)
    BY <1>7 DEF SourceCloses
  <2>3. Flowing(d2) /\ (d2 # <<>> => d # <<>> /\ d2[1] = d[1])
    BY <1>0, <1>1, <2>2, FlowPrefix
  <2> QED
    BY <1>1, <1>s, <2>1, <2>3 DEF ChunkInv, Alive
<1>8. CASE SourceServes
  <2>1. SameReader(src) /\ cli'[src].closed = cli[src].closed
    BY <1>8 DEF SourceServes, Unmoved
  <2>2. CASE up'[src] = up[src] /\ d2 = d /\ srv'[src].on = srv[src].on
    <3>1. Alive(src)' = Alive(src)
      BY <2>1, <2>2 DEF Alive
    <3> QED
      BY <1>1, <1>s, <2>1, <2>2, <3>1 DEF ChunkInv
  <2>3. ASSUME ~srv'[src].on, NEW n \in 0..Len(d), d2 = SubSeq(d, 1, n)
        PROVE  ChunkInv'
    <3>1. Flowing(d2) /\ (d2 # <<>> => d # <<>> /\ d2[1] = d[1])
      BY <1>0, <1>1, <2>3, FlowPrefix
    <3> QED
      BY <1>1, <1>s, <2>1, <2>3, <3>1 DEF ChunkInv, Alive
  <2>4. ASSUME NEW a \in Seq(Replies), SourceAnswers(a)
        PROVE  ChunkInv'
    <3>1. /\ srv[src].on /\ a # <<>> /\ Flowing(a) /\ a[1].kind # "CHUNK" /\ ~Partial(a[Len(a)])
          /\ d2 = IF cli[src].closed THEN d ELSE d \o a
      BY <2>4 DEF SourceAnswers
    <3>2. CASE cli[src].closed
      BY <1>1, <1>s, <2>1, <3>1, <3>2 DEF ChunkInv, Alive
    <3>3. CASE ~cli[src].closed
      <4>1. IF d = <<>> THEN ~Midst ELSE ~Partial(d[Len(d)])
        BY <1>1, <3>1, <3>3 DEF Alive
      <4>2. IF d = <<>> THEN TRUE ELSE Continues(d[Len(d)], a[1])
        BY <3>1, <4>1 DEF Continues
      <4>3. /\ Flowing(d \o a) /\ d \o a # <<>> /\ (d \o a)[Len(d \o a)] = a[Len(a)]
            /\ (d \o a)[1] = IF d = <<>> THEN a[1] ELSE d[1]
        BY <1>0, <1>1, <3>1, <4>2, FlowCat
      <4>4. d2 = d \o a
        BY <3>1, <3>3
      <4>5. d2 # <<>> /\ ~Partial(d2[Len(d2)])
        BY <3>1, <4>3, <4>4
      <4>6. IF Midst' THEN IsChunk(d2[1], cli'[src].to, Size[cli'[src].to] - cli'[src].left + 1)
            ELSE d2[1].kind # "CHUNK"
        BY <1>1, <1>s, <2>1, <3>1, <4>1, <4>3, <4>4
      <4> QED
        BY <1>s, <2>1, <4>3, <4>4, <4>5, <4>6 DEF ChunkInv
    <3> QED
      BY <3>2, <3>3
  <2> QED
    BY <1>8, <2>2, <2>3, <2>4, SourceServed
<1> QED
  BY <1>2, <1>3, <1>4, <1>5, <1>6, <1>7, <1>8 DEF SourceStep

-----------------------------------------------------------------------------
(* Bodies come in the order of the rows: OrderInv *)

\* What is read is no body.
LEMMA OrderSkip ==
  ASSUME NEW d \in Seq(Replies), d # <<>>, Head(d).kind # "BODY", NEW a \in Nat, NEW n \in Int,
         InOrder(d, a, n)
  PROVE  InOrder(Tail(d), a, n)
<1> DEFINE t == Tail(d)
<1>1. /\ Len(d) \in Nat \ {0} /\ DOMAIN t = 1..(Len(d) - 1) /\ DOMAIN d = 1..Len(d)
      /\ \A i \in 1..(Len(d) - 1) : t[i] = d[i + 1]
      /\ Head(d) = d[1]
  BY SeqTail
<1> HIDE DEF t
<1>2. \A i \in DOMAIN t : t[i] = d[i + 1] /\ i + 1 \in DOMAIN d /\ i \in Nat
  BY <1>1
<1>3. \A i \in DOMAIN t : t[i].kind = "BODY" => \E r \in a..n : t[i].msg = Rows[r]
  BY <1>2 DEF InOrder
<1>4. ASSUME NEW i \in DOMAIN t, NEW r \in (a + 1)..n, BodyAt(t, i, r)
      PROVE  \E j \in 1..(i - 1) : BodyAt(t, j, r - 1)
  <2>1. BodyAt(d, i + 1, r) /\ i + 1 \in DOMAIN d
    BY <1>2, <1>4 DEF BodyAt
  <2>2. PICK j \in 1..((i + 1) - 1) : BodyAt(d, j, r - 1)
    BY <2>1 DEF InOrder
  <2>3. j # 1
    BY <1>1, <2>2 DEF BodyAt
  <2>4. PICK l : l = j - 1
    OBVIOUS
  <2>5. l \in 1..(i - 1) /\ l \in DOMAIN t /\ j = l + 1
    BY <1>1, <1>2, <2>2, <2>3, <2>4
  <2>6. BodyAt(t, l, r - 1)
    BY <1>2, <2>2, <2>5 DEF BodyAt
  <2> QED
    BY <2>5, <2>6
<1>5. ASSUME NEW i \in DOMAIN t, NEW j \in DOMAIN t, NEW r \in 1..n, NEW q \in 1..n,
             i < j, BodyAt(t, i, r), BodyAt(t, j, q)
      PROVE  r < q
  <2>1. i + 1 \in DOMAIN d /\ j + 1 \in DOMAIN d /\ i + 1 < j + 1
    BY <1>2, <1>5
  <2>2. BodyAt(d, i + 1, r) /\ BodyAt(d, j + 1, q)
    BY <1>2, <1>5 DEF BodyAt
  <2> QED
    BY <2>1, <2>2 DEF InOrder
<1> QED
  BY <1>3, <1>4, <1>5 DEF InOrder, t

\* A body that is read is the first one.
LEMMA OrderFirst ==
  ASSUME NEW d \in Seq(Replies), d # <<>>, Head(d).kind = "BODY", NEW a \in Nat \ {0}, NEW n \in Int,
         InOrder(d, a, n)
  PROVE  a <= n /\ BodyAt(d, 1, a)
<1>1. 1 \in DOMAIN d /\ Head(d) = d[1]
  BY SeqTail, SeqDomain
<1>2. PICK r \in a..n : d[1].msg = Rows[r]
  BY <1>1 DEF InOrder
<1>3. ~(r > a)
  <2> SUFFICES ASSUME r > a
               PROVE  FALSE
    OBVIOUS
  <2>1. r \in (a + 1)..n
    BY <1>2
  <2>2. BodyAt(d, 1, r)
    BY <1>1, <1>2 DEF BodyAt
  <2>3. \E j \in 1..(1 - 1) : BodyAt(d, j, r - 1)
    BY <1>1, <2>1, <2>2 DEF InOrder
  <2> QED
    BY <2>3
<1>4. r = a /\ a <= n
  BY <1>2, <1>3
<1> QED
  BY <1>1, <1>2, <1>4 DEF BodyAt

\* It is read.
LEMMA OrderRead ==
  ASSUME NEW d \in Seq(Replies), d # <<>>, Head(d).kind = "BODY", NEW a \in Nat \ {0}, NEW n \in Int,
         n <= Len(Rows), InOrder(d, a, n)
  PROVE  InOrder(Tail(d), a + 1, n)
<1> USE Constants
<1> DEFINE t == Tail(d)
<1>0. a <= n /\ BodyAt(d, 1, a) /\ a \in 1..n /\ a \in 1..Len(Rows)
  <2>1. a <= n /\ BodyAt(d, 1, a)
    BY OrderFirst
  <2>2. a \in 1..n /\ a \in 1..Len(Rows)
    BY <2>1
  <2> QED
    BY <2>1, <2>2
<1>1. /\ Len(d) \in Nat \ {0} /\ DOMAIN t = 1..(Len(d) - 1) /\ DOMAIN d = 1..Len(d)
      /\ \A i \in 1..(Len(d) - 1) : t[i] = d[i + 1]
      /\ Head(d) = d[1]
  BY SeqTail
<1> HIDE DEF t
<1>2. \A i \in DOMAIN t : t[i] = d[i + 1] /\ i + 1 \in DOMAIN d /\ i \in Nat /\ 1 < i + 1 /\ 1 \in DOMAIN d
  BY <1>1
<1>3. ASSUME NEW i \in DOMAIN t, t[i].kind = "BODY"
      PROVE  \E r \in (a + 1)..n : t[i].msg = Rows[r]
  <2>1. PICK r \in a..n : d[i + 1].msg = Rows[r]
    BY <1>2, <1>3 DEF InOrder
  <2>2. BodyAt(d, i + 1, r) /\ r \in 1..n
    BY <1>2, <1>3, <2>1 DEF BodyAt
  <2>3. a < r
    BY <1>0, <1>2, <2>2 DEF InOrder
  <2>4. r \in (a + 1)..n
    BY <2>1, <2>3
  <2> QED
    BY <1>2, <2>1, <2>4
<1>4. ASSUME NEW i \in DOMAIN t, NEW r \in ((a + 1) + 1)..n, BodyAt(t, i, r)
      PROVE  \E j \in 1..(i - 1) : BodyAt(t, j, r - 1)
  <2>1. BodyAt(d, i + 1, r) /\ i + 1 \in DOMAIN d /\ r \in (a + 1)..n
    BY <1>2, <1>4 DEF BodyAt
  <2>2. PICK j \in 1..((i + 1) - 1) : BodyAt(d, j, r - 1)
    BY <2>1 DEF InOrder
  <2>3. j # 1
    <3>1. r - 1 \in 1..Len(Rows) /\ r - 1 # a
      BY <1>4
    <3>2. Rows[r - 1] # Rows[a]
      BY <1>0, <3>1, RowsApart
    <3> QED
      BY <1>0, <2>2, <3>2 DEF BodyAt
  <2>4. PICK l : l = j - 1
    OBVIOUS
  <2>5. l \in 1..(i - 1) /\ l \in DOMAIN t /\ j = l + 1
    BY <1>1, <1>2, <2>2, <2>3, <2>4
  <2>6. BodyAt(t, l, r - 1)
    BY <1>2, <2>2, <2>5 DEF BodyAt
  <2> QED
    BY <2>5, <2>6
<1>5. ASSUME NEW i \in DOMAIN t, NEW j \in DOMAIN t, NEW r \in 1..n, NEW q \in 1..n,
             i < j, BodyAt(t, i, r), BodyAt(t, j, q)
      PROVE  r < q
  <2>1. i + 1 \in DOMAIN d /\ j + 1 \in DOMAIN d /\ i + 1 < j + 1
    BY <1>2, <1>5
  <2>2. BodyAt(d, i + 1, r) /\ BodyAt(d, j + 1, q)
    BY <1>2, <1>5 DEF BodyAt
  <2> QED
    BY <2>1, <2>2 DEF InOrder
<1> QED
  BY <1>3, <1>4, <1>5 DEF InOrder, t

LEMMA OrderPrefix ==
  ASSUME NEW d \in Seq(Replies), NEW l \in 0..Len(d), NEW a \in Nat, NEW n \in Int, InOrder(d, a, n)
  PROVE  InOrder(SubSeq(d, 1, l), a, n)
<1> DEFINE t == SubSeq(d, 1, l)
<1>1. /\ Len(d) \in Nat /\ DOMAIN t = 1..l /\ DOMAIN d = 1..Len(d) /\ \A i \in 1..l : t[i] = d[i]
  BY SeqPrefix, SeqDomain
<1> HIDE DEF t
<1>2. \A i \in DOMAIN t : t[i] = d[i] /\ i \in DOMAIN d /\ i \in Nat
  BY <1>1
<1>3. \A i \in DOMAIN t : t[i].kind = "BODY" => \E r \in a..n : t[i].msg = Rows[r]
  BY <1>2 DEF InOrder
<1>4. ASSUME NEW i \in DOMAIN t, NEW r \in (a + 1)..n, BodyAt(t, i, r)
      PROVE  \E j \in 1..(i - 1) : BodyAt(t, j, r - 1)
  <2>1. PICK j \in 1..(i - 1) : BodyAt(d, j, r - 1)
    BY <1>2, <1>4 DEF InOrder, BodyAt
  <2>2. j \in DOMAIN t
    BY <1>1, <1>4, <2>1
  <2> QED
    BY <1>2, <2>1, <2>2 DEF BodyAt
<1>5. ASSUME NEW i \in DOMAIN t, NEW j \in DOMAIN t, NEW r \in 1..n, NEW q \in 1..n,
             i < j, BodyAt(t, i, r), BodyAt(t, j, q)
      PROVE  r < q
  BY <1>2, <1>5 DEF InOrder, BodyAt
<1> QED
  BY <1>3, <1>4, <1>5 DEF InOrder, t

\* One more row is fetched.
LEMMA OrderGrows ==
  ASSUME NEW d \in Seq(Replies), NEW a \in Nat \ {0}, NEW n \in Nat, n + 1 \in 1..Len(Rows), InOrder(d, a, n)
  PROVE  InOrder(d, a, n + 1)
<1> USE Constants
<1>1. ASSUME NEW i \in DOMAIN d, BodyAt(d, i, n + 1)
      PROVE  FALSE
  <2>1. PICK r \in a..n : d[i].msg = Rows[r]
    BY <1>1 DEF InOrder, BodyAt
  <2>2. Rows[r] = Rows[n + 1] /\ r \in 1..Len(Rows) /\ r # n + 1
    BY <1>1, <2>1 DEF BodyAt
  <2> QED
    BY <2>2, RowsApart
<1>2. \A r \in Int : r <= n + 1 => r = n + 1 \/ r <= n
  OBVIOUS
<1>3. \A i \in DOMAIN d : d[i].kind = "BODY" => \E r \in a..(n + 1) : d[i].msg = Rows[r]
  <2>1. a..n \subseteq a..(n + 1)
    OBVIOUS
  <2> QED
    BY <2>1 DEF InOrder
<1>4. ASSUME NEW i \in DOMAIN d, NEW r \in (a + 1)..(n + 1), BodyAt(d, i, r)
      PROVE  \E j \in 1..(i - 1) : BodyAt(d, j, r - 1)
  <2>1. r # n + 1
    BY <1>1, <1>4
  <2>2. r \in (a + 1)..n
    BY <2>1
  <2> QED
    BY <1>4, <2>2 DEF InOrder
<1>5. ASSUME NEW i \in DOMAIN d, NEW j \in DOMAIN d, NEW r \in 1..(n + 1), NEW q \in 1..(n + 1),
             i < j, BodyAt(d, i, r), BodyAt(d, j, q)
      PROVE  r < q
  <2>1. r # n + 1 /\ q # n + 1
    BY <1>1, <1>5
  <2>2. r \in 1..n /\ q \in 1..n
    BY <2>1
  <2> QED
    BY <1>5, <2>2 DEF InOrder
<1> QED
  BY <1>3, <1>4, <1>5 DEF InOrder

\* An answer that has the body of row b, the next one, or none.
LEMMA OrderCat ==
  ASSUME NEW d \in Seq(Replies), NEW s \in Seq(Replies), NEW a \in Nat \ {0}, NEW n \in Nat, NEW b \in a..n,
         n <= Len(Rows), InOrder(d, a, n),
         \A i \in DOMAIN s : s[i].kind = "BODY" => i = 1 /\ s[1].msg = Rows[b],
         b = a \/ \E j \in DOMAIN d : BodyAt(d, j, b - 1),
         \A j \in DOMAIN d, r \in 1..Len(Rows) : BodyAt(d, j, r) => r < b
  PROVE  InOrder(d \o s, a, n)
<1> USE Constants
<1> DEFINE t == d \o s
           l == Len(d)
<1>1. /\ l \in Nat /\ DOMAIN d = 1..l
      /\ \A i \in DOMAIN d : t[i] = d[i] /\ i \in DOMAIN t
      /\ \A i \in DOMAIN t : i \in Nat /\ (i \in DOMAIN d \/ i > l)
  BY SeqCat, SeqDomain
<1>2. ASSUME NEW i \in DOMAIN t, t[i].kind = "BODY"
      PROVE  (i \in DOMAIN d /\ t[i] = d[i]) \/ (i = l + 1 /\ t[i].msg = Rows[b])
  <2>1. \/ i \in 1..Len(d) /\ t[i] = d[i]
        \/ i - Len(d) \in 1..Len(s) /\ t[i] = s[i - Len(d)]
    BY SeqEither
  <2>2. CASE i \in 1..Len(d) /\ t[i] = d[i]
    BY <1>1, <2>2
  <2>3. CASE i - Len(d) \in 1..Len(s) /\ t[i] = s[i - Len(d)]
    <3>1. PICK x : x = i - l
      OBVIOUS
    <3>2. x \in DOMAIN s /\ t[i] = s[x] /\ i = l + x
      BY <1>1, <2>3, <3>1
    <3>3. x = 1 /\ t[i].msg = Rows[b]
      BY <1>2, <3>2
    <3> QED
      BY <3>2, <3>3
  <2> QED
    BY <2>1, <2>2, <2>3
<1>b. b \in 1..Len(Rows)
  OBVIOUS
<1>3. ASSUME NEW i \in DOMAIN t, t[i].kind = "BODY"
      PROVE  \E r \in a..n : t[i].msg = Rows[r]
  <2>1. CASE i \in DOMAIN d /\ t[i] = d[i]
    BY <1>3, <2>1 DEF InOrder
  <2> QED
    BY <1>2, <1>3, <2>1
<1>4. ASSUME NEW i \in DOMAIN t, NEW r \in (a + 1)..n, BodyAt(t, i, r)
      PROVE  \E j \in 1..(i - 1) : BodyAt(t, j, r - 1)
  <2>1. CASE i \in DOMAIN d /\ t[i] = d[i]
    <3>1. PICK j \in 1..(i - 1) : BodyAt(d, j, r - 1)
      BY <1>4, <2>1 DEF InOrder, BodyAt
    <3>2. j \in DOMAIN d
      BY <1>1, <2>1, <3>1
    <3> QED
      BY <1>1, <3>1, <3>2 DEF BodyAt
  <2>2. CASE i = l + 1 /\ t[i].msg = Rows[b]
    <3>1. r \in 1..Len(Rows) /\ Rows[r] = Rows[b]
      BY <1>4, <2>2 DEF BodyAt
    <3>2. r = b
      BY <1>b, <3>1, RowsApart
    <3>3. b # a
      BY <1>4, <3>2
    <3>4. PICK j \in DOMAIN d : BodyAt(d, j, b - 1)
      BY <3>3
    <3>5. j \in 1..(i - 1) /\ BodyAt(t, j, r - 1)
      BY <1>1, <2>2, <3>2, <3>4 DEF BodyAt
    <3> QED
      BY <3>5
  <2> QED
    BY <1>2, <1>4, <2>1, <2>2 DEF BodyAt
<1>5. ASSUME NEW i \in DOMAIN t, NEW j \in DOMAIN t, NEW r \in 1..n, NEW q \in 1..n,
             i < j, BodyAt(t, i, r), BodyAt(t, j, q)
      PROVE  r < q
  <2>0. r \in 1..Len(Rows) /\ q \in 1..Len(Rows)
    OBVIOUS
  <2>1. i \in DOMAIN d /\ t[i] = d[i]
    <3>1. CASE i = l + 1
      <4>1. j \in DOMAIN d \/ j = l + 1
        BY <1>2, <1>5 DEF BodyAt
      <4> QED
        BY <1>1, <1>5, <3>1, <4>1
    <3> QED
      BY <1>2, <1>5, <3>1 DEF BodyAt
  <2>2. BodyAt(d, i, r)
    BY <1>5, <2>1 DEF BodyAt
  <2>3. CASE j \in DOMAIN d /\ t[j] = d[j]
    <3>1. BodyAt(d, j, q)
      BY <1>5, <2>3 DEF BodyAt
    <3> QED
      BY <1>5, <2>1, <2>2, <2>3, <3>1 DEF InOrder
  <2>4. CASE j = l + 1 /\ t[j].msg = Rows[b]
    <3>1. Rows[q] = Rows[b]
      BY <1>5, <2>4 DEF BodyAt
    <3>2. q = b
      BY <1>b, <2>0, <3>1, RowsApart
    <3> QED
      BY <2>0, <2>1, <2>2, <3>2
  <2> QED
    BY <1>2, <1>5, <2>3, <2>4 DEF BodyAt
<1> HIDE DEF t, l
<1>6. InOrder(t, a, n)
  BY <1>3, <1>4, <1>5 DEF InOrder
<1> QED
  BY <1>6 DEF t

-----------------------------------------------------------------------------
(* What is asked for and not yet answered *)

NoFetch(e) == e.verb # "UID FETCH"
RowFetch(e, r) == e.verb = "UID FETCH" /\ e.msg = Rows[r]

LEMMA AsksOther ==
  ASSUME NEW u \in Seq(Lines), NEW b \in Int, NEW f \in Int, Asks(u, b, f), NEW e \in Lines, NoFetch(e)
  PROVE  Asks(Append(u, e), b, f)
<1> DEFINE t == Append(u, e)
<1>1. /\ Len(u) \in Nat /\ DOMAIN t = 1..(Len(u) + 1) /\ DOMAIN u = 1..Len(u)
      /\ \A i \in 1..Len(u) : t[i] = u[i]
      /\ t[Len(u) + 1] = e
  BY SeqAppend
<1> HIDE DEF t
<1>a. \A i \in DOMAIN t : (i \in DOMAIN u /\ t[i] = u[i]) \/ t[i] = e
  BY <1>1
<1>2. \A i \in DOMAIN t : t[i].verb = "UID FETCH" => i \in DOMAIN u /\ t[i] = u[i]
  BY <1>a DEF NoFetch
<1>3. \A i \in DOMAIN u : t[i] = u[i] /\ i \in DOMAIN t
  BY <1>1
<1>4. \A i \in DOMAIN t : t[i].verb = "UID FETCH" => \E r \in b..(f - 1) : t[i].msg = Rows[r]
  BY <1>2 DEF Asks
<1>5. \A r \in b..(f - 1) : \E j \in DOMAIN t : FetchAt(t, j, r)
  BY <1>3 DEF Asks, FetchAt
<1>6. ASSUME NEW i \in DOMAIN t, NEW j \in DOMAIN t, NEW r \in 1..Len(Rows), NEW q \in 1..Len(Rows),
             i < j, FetchAt(t, i, r), FetchAt(t, j, q)
      PROVE  r < q
  BY <1>2, <1>6 DEF Asks, FetchAt
<1> QED
  BY <1>4, <1>5, <1>6 DEF Asks, t

LEMMA AsksMore ==
  ASSUME NEW u \in Seq(Lines), NEW b \in Nat \ {0}, NEW f \in 1..Len(Rows), b <= f, Asks(u, b, f),
         NEW e \in Lines, RowFetch(e, f)
  PROVE  Asks(Append(u, e), b, f + 1)
<1> USE Constants
<1> DEFINE t == Append(u, e)
<1>1. /\ Len(u) \in Nat /\ DOMAIN t = 1..(Len(u) + 1) /\ DOMAIN u = 1..Len(u)
      /\ \A i \in 1..Len(u) : t[i] = u[i]
      /\ t[Len(u) + 1] = e
  BY SeqAppend
<1> HIDE DEF t
<1>2. \A i \in DOMAIN t : (i \in DOMAIN u /\ t[i] = u[i]) \/ (i = Len(u) + 1 /\ t[i] = e)
  BY <1>1
<1>3. \A i \in DOMAIN u : t[i] = u[i] /\ i \in DOMAIN t
  BY <1>1
<1>4. b..(f - 1) \subseteq b..((f + 1) - 1) /\ f \in b..((f + 1) - 1)
  OBVIOUS
<1>5. \A i \in DOMAIN t : t[i].verb = "UID FETCH" => \E r \in b..((f + 1) - 1) : t[i].msg = Rows[r]
  <2> SUFFICES ASSUME NEW i \in DOMAIN t, t[i].verb = "UID FETCH"
               PROVE  \E r \in b..((f + 1) - 1) : t[i].msg = Rows[r]
    OBVIOUS
  <2>1. CASE i \in DOMAIN u /\ t[i] = u[i]
    BY <1>4, <2>1 DEF Asks
  <2> QED
    BY <1>2, <1>4, <2>1 DEF RowFetch
<1>6. ASSUME NEW r \in b..((f + 1) - 1)
      PROVE  \E j \in DOMAIN t : FetchAt(t, j, r)
  <2>1. CASE r = f
    <3>1. Len(u) + 1 \in DOMAIN t
      BY <1>1
    <3> QED
      BY <1>1, <2>1, <3>1 DEF FetchAt, RowFetch
  <2>2. CASE r # f
    <3>1. r \in b..(f - 1)
      BY <2>2
    <3> QED
      BY <1>3, <3>1 DEF Asks, FetchAt
  <2> QED
    BY <2>1, <2>2
<1>7. ASSUME NEW i \in DOMAIN t, NEW j \in DOMAIN t, NEW r \in 1..Len(Rows), NEW q \in 1..Len(Rows),
             i < j, FetchAt(t, i, r), FetchAt(t, j, q)
      PROVE  r < q
  <2>1. i \in DOMAIN u /\ t[i] = u[i]
    BY <1>1, <1>2, <1>7
  <2>2. CASE j \in DOMAIN u /\ t[j] = u[j]
    BY <1>7, <2>1, <2>2 DEF Asks, FetchAt
  <2>3. CASE t[j] = e
    <3>1. Rows[q] = Rows[f]
      BY <1>7, <2>3 DEF FetchAt, RowFetch
    <3>2. q = f
      BY <3>1, RowsApart
    <3>3. PICK x \in b..(f - 1) : u[i].msg = Rows[x]
      BY <1>7, <2>1 DEF Asks, FetchAt
    <3>4. Rows[x] = Rows[r]
      BY <1>7, <2>1, <3>3 DEF FetchAt
    <3>a. x \in 1..Len(Rows)
      OBVIOUS
    <3>5. x = r
      BY <3>4, <3>a, RowsApart
    <3> QED
      BY <3>2, <3>3, <3>5
  <2> QED
    BY <1>2, <2>2, <2>3
<1> QED
  BY <1>5, <1>6, <1>7 DEF Asks, t

\* The server reads a line.
LEMMA AsksRead ==
  ASSUME NEW u \in Seq(Lines), u # <<>>, NEW b \in Nat \ {0}, NEW f \in Nat, f <= Len(Rows) + 1, Asks(u, b, f)
  PROVE  /\ Head(u).verb # "UID FETCH" => Asks(Tail(u), b, f)
         /\ Head(u).verb = "UID FETCH" => b < f /\ Head(u).msg = Rows[b] /\ Asks(Tail(u), b + 1, f)
<1> USE Constants
<1> DEFINE t == Tail(u)
<1>1. /\ Len(u) \in Nat \ {0} /\ DOMAIN t = 1..(Len(u) - 1) /\ DOMAIN u = 1..Len(u)
      /\ \A i \in 1..(Len(u) - 1) : t[i] = u[i + 1]
      /\ Head(u) = u[1]
  BY SeqTail
<1> HIDE DEF t
<1>2. /\ \A i \in DOMAIN t : t[i] = u[i + 1] /\ i + 1 \in DOMAIN u /\ i \in Nat /\ 1 < i + 1
      /\ 1 \in DOMAIN u
  BY <1>1
<1>3. ASSUME NEW j \in DOMAIN u, j # 1, NEW r, FetchAt(u, j, r)
      PROVE  \E i \in DOMAIN t : FetchAt(t, i, r)
  <2>1. PICK i : i = j - 1
    OBVIOUS
  <2>2. i \in DOMAIN t /\ j = i + 1
    BY <1>1, <1>3, <2>1
  <2>3. FetchAt(t, i, r)
    BY <1>2, <1>3, <2>2 DEF FetchAt
  <2> QED
    BY <2>2, <2>3
<1>4. ASSUME NEW i \in DOMAIN t, NEW j \in DOMAIN t, NEW r \in 1..Len(Rows), NEW q \in 1..Len(Rows),
             i < j, FetchAt(t, i, r), FetchAt(t, j, q)
      PROVE  r < q
  <2>1. i + 1 \in DOMAIN u /\ j + 1 \in DOMAIN u /\ i + 1 < j + 1
    BY <1>2, <1>4
  <2>2. FetchAt(u, i + 1, r) /\ FetchAt(u, j + 1, q)
    BY <1>2, <1>4 DEF FetchAt
  <2> QED
    BY <2>1, <2>2 DEF Asks
<1>5. ASSUME NEW i \in DOMAIN t, t[i].verb = "UID FETCH"
      PROVE  \E r \in b..(f - 1) : t[i].msg = Rows[r]
  <2>1. u[i + 1].verb = "UID FETCH" /\ i + 1 \in DOMAIN u /\ t[i] = u[i + 1]
    BY <1>2, <1>5
  <2> QED
    BY <2>1 DEF Asks
<1>6. CASE Head(u).verb # "UID FETCH"
  <2>1. ASSUME NEW r \in b..(f - 1)
        PROVE  \E i \in DOMAIN t : FetchAt(t, i, r)
    <3>1. PICK j \in DOMAIN u : FetchAt(u, j, r)
      BY DEF Asks
    <3>2. j # 1
      BY <1>1, <1>6, <3>1 DEF FetchAt
    <3> QED
      BY <1>3, <3>1, <3>2
  <2> QED
    BY <1>4, <1>5, <1>6, <2>1 DEF Asks, t
<1>7. CASE Head(u).verb = "UID FETCH"
  <2>1. PICK x \in b..(f - 1) : u[1].msg = Rows[x]
    BY <1>1, <1>2, <1>7 DEF Asks
  <2>2. b \in b..(f - 1) /\ b \in 1..Len(Rows) /\ x \in 1..Len(Rows) /\ b < f
    BY <2>1
  <2>3. FetchAt(u, 1, x)
    BY <1>1, <1>7, <2>1 DEF FetchAt
  <2>4. x = b
    <3>1. PICK j \in DOMAIN u : FetchAt(u, j, b)
      BY <2>2 DEF Asks
    <3>2. CASE j = 1
      <4>1. Rows[x] = Rows[b]
        BY <2>1, <3>1, <3>2 DEF FetchAt
      <4> QED
        BY <2>2, <4>1, RowsApart
    <3>3. CASE j # 1
      <4>1. 1 < j
        BY <1>1, <3>1, <3>3
      <4>2. x < b
        BY <1>2, <2>2, <2>3, <3>1, <4>1 DEF Asks
      <4> QED
        BY <2>1, <4>2
    <3> QED
      BY <3>2, <3>3
  <2>5. ASSUME NEW i \in DOMAIN t, t[i].verb = "UID FETCH"
        PROVE  \E r \in (b + 1)..(f - 1) : t[i].msg = Rows[r]
    <3>1. PICK r \in b..(f - 1) : t[i].msg = Rows[r]
      BY <1>5, <2>5
    <3>a. t[i] = u[i + 1] /\ i + 1 \in DOMAIN u /\ 1 < i + 1 /\ 1 \in DOMAIN u
      BY <1>2
    <3>2. FetchAt(u, i + 1, r)
      BY <2>5, <3>1, <3>a DEF FetchAt
    <3>b. r \in 1..Len(Rows)
      OBVIOUS
    <3>3. x < r
      BY <2>2, <2>3, <3>2, <3>a, <3>b DEF Asks
    <3>4. r \in (b + 1)..(f - 1)
      BY <2>4, <3>1, <3>3
    <3> QED
      BY <3>1, <3>4
  <2>6. ASSUME NEW r \in (b + 1)..(f - 1)
        PROVE  \E i \in DOMAIN t : FetchAt(t, i, r)
    <3>0. r \in b..(f - 1) /\ r \in 1..Len(Rows) /\ r # b
      OBVIOUS
    <3>1. PICK j \in DOMAIN u : FetchAt(u, j, r)
      BY <3>0 DEF Asks
    <3>2. j # 1
      <4> SUFFICES ASSUME j = 1
                   PROVE  FALSE
        OBVIOUS
      <4>1. Rows[r] = Rows[b]
        BY <2>3, <2>4, <3>1 DEF FetchAt
      <4> QED
        BY <2>2, <3>0, <4>1, RowsApart
    <3> QED
      BY <1>3, <3>1, <3>2
  <2>7. Asks(t, b + 1, f)
    BY <1>4, <2>5, <2>6 DEF Asks
  <2> QED
    BY <1>1, <1>7, <2>1, <2>2, <2>4, <2>7 DEF t
<1> QED
  BY <1>6, <1>7

LEMMA UptoSkip ==
  ASSUME NEW d \in Seq(Replies), d # <<>>, Head(d).kind # "BODY", NEW a, NEW b, UpToRow(d, a, b)
  PROVE  UpToRow(Tail(d), a, b)
<1> DEFINE t == Tail(d)
<1>1. /\ Len(d) \in Nat \ {0} /\ DOMAIN t = 1..(Len(d) - 1) /\ DOMAIN d = 1..Len(d)
      /\ \A i \in 1..(Len(d) - 1) : t[i] = d[i + 1]
      /\ Head(d) = d[1]
  BY SeqTail
<1> HIDE DEF t
<1>2. \A i \in DOMAIN t : t[i] = d[i + 1] /\ i + 1 \in DOMAIN d
  BY <1>1
<1>3. \A j \in DOMAIN d : j # 1 => \E i \in DOMAIN t : j = i + 1
  <2> SUFFICES ASSUME NEW j \in DOMAIN d, j # 1
               PROVE  \E i \in DOMAIN t : j = i + 1
    OBVIOUS
  <2>1. PICK i : i = j - 1
    OBVIOUS
  <2>2. i \in DOMAIN t /\ j = i + 1
    BY <1>1, <2>1
  <2> QED
    BY <2>2
<1>4. ASSUME NEW j \in DOMAIN d, BodyAt(d, j, b - 1)
      PROVE  \E i \in DOMAIN t : BodyAt(t, i, b - 1)
  <2>1. j # 1
    BY <1>1, <1>4 DEF BodyAt
  <2>2. PICK i \in DOMAIN t : j = i + 1
    BY <1>3, <2>1
  <2>3. BodyAt(t, i, b - 1)
    BY <1>2, <1>4, <2>2 DEF BodyAt
  <2> QED
    BY <2>3
<1>5. ASSUME NEW j \in DOMAIN t, NEW r \in 1..Len(Rows), BodyAt(t, j, r)
      PROVE  r < b
  <2>1. j + 1 \in DOMAIN d /\ BodyAt(d, j + 1, r)
    BY <1>2, <1>5 DEF BodyAt
  <2> QED
    BY <2>1 DEF UpToRow
<1> QED
  BY <1>4, <1>5 DEF UpToRow, t

LEMMA UptoRead ==
  ASSUME NEW d \in Seq(Replies), d # <<>>, Head(d).kind = "BODY", NEW a \in Nat \ {0}, NEW n \in Int,
         n <= Len(Rows), InOrder(d, a, n), NEW b \in a..(n + 1), UpToRow(d, a, b)
  PROVE  a < b /\ UpToRow(Tail(d), a + 1, b)
<1> USE Constants
<1> DEFINE t == Tail(d)
<1>0. a <= n /\ BodyAt(d, 1, a)
  BY OrderFirst
<1>1. /\ Len(d) \in Nat \ {0} /\ DOMAIN t = 1..(Len(d) - 1) /\ DOMAIN d = 1..Len(d)
      /\ \A i \in 1..(Len(d) - 1) : t[i] = d[i + 1]
      /\ Head(d) = d[1]
  BY SeqTail
<1> HIDE DEF t
<1>2. (\A i \in DOMAIN t : t[i] = d[i + 1] /\ i + 1 \in DOMAIN d) /\ 1 \in DOMAIN d
  BY <1>1
<1>3. \A j \in DOMAIN d : j # 1 => \E i \in DOMAIN t : j = i + 1
  <2> SUFFICES ASSUME NEW j \in DOMAIN d, j # 1
               PROVE  \E i \in DOMAIN t : j = i + 1
    OBVIOUS
  <2>1. PICK i : i = j - 1
    OBVIOUS
  <2>2. i \in DOMAIN t /\ j = i + 1
    BY <1>1, <2>1
  <2> QED
    BY <2>2
<1>a. a \in 1..Len(Rows)
  BY <1>0
<1>4. a < b
  BY <1>0, <1>2, <1>a DEF UpToRow
<1>5. b = a + 1 \/ \E i \in DOMAIN t : BodyAt(t, i, b - 1)
  <2> SUFFICES ASSUME b # a + 1
               PROVE  \E i \in DOMAIN t : BodyAt(t, i, b - 1)
    OBVIOUS
  <2>1. PICK j \in DOMAIN d : BodyAt(d, j, b - 1)
    BY <1>4 DEF UpToRow
  <2>2. j # 1
    <3> SUFFICES ASSUME j = 1
                 PROVE  FALSE
      OBVIOUS
    <3>1. Rows[a] = Rows[b - 1]
      BY <1>0, <2>1 DEF BodyAt
    <3>2. b - 1 \in 1..Len(Rows) /\ b - 1 # a
      BY <1>4
    <3> QED
      BY <1>a, <3>1, <3>2, RowsApart
  <2>3. PICK i \in DOMAIN t : j = i + 1
    BY <1>3, <2>2
  <2>4. BodyAt(t, i, b - 1)
    BY <1>2, <2>1, <2>3 DEF BodyAt
  <2> QED
    BY <2>4
<1>6. ASSUME NEW j \in DOMAIN t, NEW r \in 1..Len(Rows), BodyAt(t, j, r)
      PROVE  r < b
  <2>1. j + 1 \in DOMAIN d /\ BodyAt(d, j + 1, r)
    BY <1>2, <1>6 DEF BodyAt
  <2> QED
    BY <2>1 DEF UpToRow
<1> QED
  BY <1>4, <1>5, <1>6 DEF UpToRow, t

LEMMA UptoOther ==
  ASSUME NEW d \in Seq(Replies), NEW s \in Seq(Replies), NEW a, NEW b, UpToRow(d, a, b),
         \A i \in DOMAIN s : s[i].kind # "BODY"
  PROVE  UpToRow(d \o s, a, b)
<1> DEFINE t == d \o s
<1>1. \A i \in DOMAIN d : t[i] = d[i] /\ i \in DOMAIN t
  BY SeqCat, SeqDomain
<1>2. ASSUME NEW i \in DOMAIN t, t[i].kind = "BODY"
      PROVE  i \in DOMAIN d /\ t[i] = d[i]
  <2>1. \/ i \in 1..Len(d) /\ t[i] = d[i]
        \/ i - Len(d) \in 1..Len(s) /\ t[i] = s[i - Len(d)]
    BY SeqEither
  <2>2. DOMAIN d = 1..Len(d) /\ DOMAIN s = 1..Len(s)
    OBVIOUS
  <2> QED
    BY <1>2, <2>1, <2>2
<1> HIDE DEF t
<1>3. b = a \/ \E j \in DOMAIN t : BodyAt(t, j, b - 1)
  BY <1>1 DEF UpToRow, BodyAt
<1>4. ASSUME NEW j \in DOMAIN t, NEW r \in 1..Len(Rows), BodyAt(t, j, r)
      PROVE  r < b
  BY <1>2, <1>4 DEF UpToRow, BodyAt
<1> QED
  BY <1>3, <1>4 DEF UpToRow, t

LEMMA UptoBody ==
  ASSUME NEW d \in Seq(Replies), NEW s \in Seq(Replies), NEW a \in Nat, NEW b \in 1..Len(Rows), UpToRow(d, a, b),
         s # <<>>, s[1].kind = "BODY", s[1].msg = Rows[b],
         \A i \in DOMAIN s : s[i].kind = "BODY" => i = 1
  PROVE  UpToRow(d \o s, a, b + 1)
<1> USE Constants
<1> DEFINE t == d \o s
<1>1. /\ \A i \in DOMAIN d : t[i] = d[i] /\ i \in DOMAIN t
      /\ Len(d) + 1 \in DOMAIN t /\ t[Len(d) + 1] = s[1]
  <2>1. Len(s) >= 1 /\ Len(s) \in Nat /\ Len(d) \in Nat /\ DOMAIN d = 1..Len(d)
    BY SeqDomain
  <2>2. DOMAIN t = 1..(Len(d) + Len(s)) /\ (\A i \in 1..Len(d) : t[i] = d[i])
        /\ \A i \in 1..Len(s) : t[Len(d) + i] = s[i]
    BY SeqCat
  <2> HIDE DEF t
  <2> QED
    BY <2>1, <2>2
<1>2. ASSUME NEW i \in DOMAIN t, t[i].kind = "BODY"
      PROVE  (i \in DOMAIN d /\ t[i] = d[i]) \/ t[i].msg = Rows[b]
  <2>1. \/ i \in 1..Len(d) /\ t[i] = d[i]
        \/ i - Len(d) \in 1..Len(s) /\ t[i] = s[i - Len(d)]
    BY SeqEither
  <2>2. DOMAIN d = 1..Len(d) /\ DOMAIN s = 1..Len(s)
    OBVIOUS
  <2> QED
    BY <1>2, <2>1, <2>2
<1> HIDE DEF t
<1>3. BodyAt(t, Len(d) + 1, (b + 1) - 1)
  BY <1>1 DEF BodyAt
<1>4. ASSUME NEW j \in DOMAIN t, NEW r \in 1..Len(Rows), BodyAt(t, j, r)
      PROVE  r < b + 1
  <2>1. CASE j \in DOMAIN d /\ t[j] = d[j]
    <3>1. r < b
      BY <1>4, <2>1 DEF UpToRow, BodyAt
    <3> QED
      BY <3>1
  <2>2. CASE t[j].msg = Rows[b]
    <3>1. Rows[r] = Rows[b]
      BY <1>4, <2>2 DEF BodyAt
    <3>2. r = b
      BY <3>1, RowsApart
    <3> QED
      BY <3>2
  <2> QED
    BY <1>2, <1>4, <2>1, <2>2 DEF BodyAt
<1> QED
  BY <1>1, <1>3, <1>4 DEF UpToRow, t

LEMMA OrderLocal ==
  ASSUME Typed, FifoInv
  PROVE  /\ down[src] \in Seq(Replies) /\ up[src] \in Seq(Lines)
         /\ Front1 \in Nat \ {0} /\ Front1 <= next /\ next \in 1..(Len(Rows) + 1) /\ next \in Nat
         /\ cli[src].fifo \in Seq(Msg) /\ Len(cli[src].fifo) \in Nat /\ Front1 = next - Len(cli[src].fifo)
<1>1. Front1 \in 1..next /\ next \in Nat
  BY FifoLocal
<1>2. Front1 \in Nat \ {0} /\ Front1 <= next
  BY <1>1
<1> QED
  BY <1>2, Local, FifoLocal, Constants

\* The source is asked for one more row.
LEMMA OrderFetches ==
  ASSUME Typed, FifoInv, OrderInv, SourceFetches
  PROVE  OrderInv'
<1> USE Constants
<1>0. /\ down[src] \in Seq(Replies) /\ up[src] \in Seq(Lines)
      /\ Front1 \in Nat \ {0} /\ Front1 <= next /\ next \in Nat
      /\ cli[src].fifo \in Seq(Msg) /\ Len(cli[src].fifo) \in Nat /\ Front1 = next - Len(cli[src].fifo)
  BY OrderLocal
<1>1. /\ next' = next + 1 /\ cli'[src].fifo = Append(cli[src].fifo, Rows[next]) /\ next \in 1..Len(Rows)
      /\ cli'[src].closed = cli[src].closed /\ SameServer(src) /\ down'[src] = down[src]
      /\ IF cli[src].closed THEN up'[src] = up[src]
         ELSE \E e \in Lines : /\ e.verb = "UID FETCH" /\ e.msg = Rows[next]
                               /\ up'[src] = Append(up[src], e)
  <2>1. next \in 1..(Len(Rows) + 1) /\ next <= Len(Rows) /\ Len(Rows) \in Nat
    BY OrderLocal DEF SourceFetches, Fetched, WantsMore
  <2>2. next \in 1..Len(Rows)
    BY <2>1
  <2> QED
    BY <2>2 DEF SourceFetches, Fetched
<1>r. next \in 1..Len(Rows) /\ next' = next + 1 /\ Front1 \in Nat \ {0} /\ Front1 <= next /\ next \in Nat
  BY <1>0, <1>1
<1>2. Front1' = Front1
  <2>0. Rows[next] \in Msg
    BY <1>r
  <2>1. Len(cli'[src].fifo) = Len(cli[src].fifo) + 1
    <3>1. cli'[src].fifo = Append(cli[src].fifo, Rows[next]) /\ cli[src].fifo \in Seq(Msg)
      BY <1>0, <1>1
    <3> QED
      BY <2>0, <3>1, SeqAppend
  <2>2. Front1' = (next + 1) - (Len(cli[src].fifo) + 1)
    BY <1>1, <2>1 DEF Front1
  <2> QED
    BY <1>0, <2>2
<1>3. InOrder(down[src], Front1, next)
  <2>1. PICK n : n = next - 1
    OBVIOUS
  <2>2. n \in Nat /\ n + 1 = next
    BY <1>r, <2>1
  <2>3. InOrder(down[src], Front1, n)
    BY <2>1 DEF OrderInv
  <2> QED
    BY <1>0, <1>1, <2>2, <2>3, OrderGrows
<1>4. next' - 1 = next
  BY <1>r
<1>5. ASSUME Alive(src)'
      PROVE  Pending(down[src], up'[src], Front1, next + 1)
  <2>1. Alive(src) /\ ~cli[src].closed
    BY <1>1, <1>5 DEF Alive, SameServer
  <2>2. PICK e \in Lines : e.verb = "UID FETCH" /\ e.msg = Rows[next] /\ up'[src] = Append(up[src], e)
    BY <1>1, <2>1
  <2>3. PICK b \in Front1..next : \E f \in b..next : /\ f = next \/ f = Len(Rows)
                                                     /\ UpToRow(down[src], Front1, b) /\ Asks(up[src], b, f)
    BY <2>1 DEF OrderInv, Pending
  <2>4. PICK f \in b..next : /\ f = next \/ f = Len(Rows)
                             /\ UpToRow(down[src], Front1, b) /\ Asks(up[src], b, f)
    BY <2>3
  <2>5. f = next /\ b \in Nat \ {0} /\ b <= f /\ f \in 1..Len(Rows)
    <3>1. f = next
      BY <1>r, <2>4
    <3> QED
      BY <1>r, <2>3, <3>1
  <2>6. Asks(Append(up[src], e), b, f + 1)
    <3>1. RowFetch(e, f)
      BY <2>2, <2>5 DEF RowFetch
    <3> QED
      BY <1>0, <2>4, <2>5, <3>1, AsksMore
  <2>7. b \in Front1..(next + 1) /\ f + 1 \in b..(next + 1) /\ f + 1 = next + 1
    BY <1>0, <2>3, <2>5
  <2> QED
    BY <2>2, <2>4, <2>6, <2>7 DEF Pending
<1> QED
  BY <1>1, <1>2, <1>3, <1>4, <1>5 DEF OrderInv

\* Something is read that is no body.
LEMMA OrderSkips ==
  ASSUME Typed, FifoInv, OrderInv, SourceTakes, Head(down[src]).kind # "BODY",
         Front1' = Front1, next' = next, Alive(src)' => Alive(src)
  PROVE  OrderInv'
<1>0. /\ down[src] \in Seq(Replies) /\ Front1 \in Nat \ {0} /\ next \in Nat
  BY OrderLocal
<1>1. down[src] # <<>> /\ down'[src] = Tail(down[src]) /\ up'[src] = up[src]
  BY DEF SourceTakes, SameEnd
<1>2. InOrder(down'[src], Front1, next - 1)
  <2>1. Front1 \in Nat /\ next - 1 \in Int
    BY <1>0
  <2> QED
    BY <1>0, <1>1, <2>1, OrderSkip DEF OrderInv
<1>3. ASSUME Alive(src)'
      PROVE  Pending(down'[src], up[src], Front1, next)
  <2>1. PICK b \in Front1..next : \E f \in b..next : /\ f = next \/ f = Len(Rows)
                                                     /\ UpToRow(down[src], Front1, b) /\ Asks(up[src], b, f)
    BY <1>3 DEF OrderInv, Pending
  <2>2. UpToRow(down'[src], Front1, b)
    BY <1>0, <1>1, <2>1, UptoSkip
  <2> QED
    BY <2>1, <2>2 DEF Pending
<1> QED
  BY <1>1, <1>2, <1>3 DEF OrderInv

\* A body is read.
LEMMA OrderReads ==
  ASSUME Typed, FifoInv, OrderInv, SourceTakes, Announced(src), Alive(src)' => Alive(src)
  PROVE  OrderInv'
<1> USE Constants
<1>0. /\ down[src] \in Seq(Replies) /\ Front1 \in Nat \ {0} /\ next \in Nat
      /\ Front1 <= next /\ next \in 1..(Len(Rows) + 1)
      /\ cli[src].fifo \in Seq(Msg) /\ Len(cli[src].fifo) \in Nat /\ Front1 = next - Len(cli[src].fifo)
  BY OrderLocal
<1>1. down[src] # <<>> /\ down'[src] = Tail(down[src]) /\ up'[src] = up[src]
  BY DEF SourceTakes, SameEnd
<1>2. Head(down[src]).kind = "BODY" /\ next' = next
  BY DEF Announced
<1>3. PICK n : n = next - 1
  OBVIOUS
<1>4. n \in Int /\ n <= Len(Rows) /\ n + 1 = next
  BY <1>0, <1>3
<1>5. InOrder(down[src], Front1, n)
  BY <1>3 DEF OrderInv
<1>6. Front1 <= n
  BY <1>0, <1>1, <1>2, <1>4, <1>5, OrderFirst
<1>7. Front1' = Front1 + 1
  <2>1. Len(cli[src].fifo) # 0
    BY <1>0, <1>4, <1>6
  <2>2. cli[src].fifo # <<>>
    BY <1>0, <2>1
  <2>3. Len(cli'[src].fifo) = Len(cli[src].fifo) - 1
    <3>1. cli'[src].fifo = Tail(cli[src].fifo)
      BY <2>2 DEF Announced
    <3> QED
      BY <1>0, <2>2, <3>1, SeqTail
  <2>4. Front1' = next - (Len(cli[src].fifo) - 1)
    BY <1>2, <2>3 DEF Front1
  <2> QED
    BY <1>0, <2>4
<1>8. InOrder(down'[src], Front1 + 1, next - 1)
  <2>1. InOrder(down'[src], Front1 + 1, n)
    <3>1. PICK d, a : d = down[src] /\ a = Front1
      OBVIOUS
    <3>2. /\ d \in Seq(Replies) /\ d # <<>> /\ Head(d).kind = "BODY" /\ a \in Nat \ {0} /\ n \in Int
          /\ n <= Len(Rows) /\ InOrder(d, a, n)
      BY <1>0, <1>1, <1>2, <1>4, <1>5, <3>1
    <3>3. InOrder(Tail(d), a + 1, n)
      BY <3>2, OrderRead
    <3> QED
      BY <1>1, <3>1, <3>3
  <2> QED
    BY <1>3, <2>1
<1>9. ASSUME Alive(src)'
      PROVE  Pending(down'[src], up[src], Front1 + 1, next)
  <2>1. PICK b \in Front1..next : \E f \in b..next : /\ f = next \/ f = Len(Rows)
                                                     /\ UpToRow(down[src], Front1, b) /\ Asks(up[src], b, f)
    BY <1>9 DEF OrderInv, Pending
  <2>2. b \in Front1..(n + 1)
    BY <1>4, <2>1
  <2>3. Front1 < b /\ UpToRow(down'[src], Front1 + 1, b)
    <3>1. PICK d, a : d = down[src] /\ a = Front1
      OBVIOUS
    <3>2. /\ d \in Seq(Replies) /\ d # <<>> /\ Head(d).kind = "BODY" /\ a \in Nat \ {0} /\ n \in Int
          /\ n <= Len(Rows) /\ InOrder(d, a, n) /\ b \in a..(n + 1) /\ UpToRow(d, a, b)
      BY <1>0, <1>1, <1>2, <1>4, <1>5, <2>1, <2>2, <3>1
    <3>3. a < b /\ UpToRow(Tail(d), a + 1, b)
      BY <3>2, UptoRead
    <3> QED
      BY <1>1, <3>1, <3>3
  <2>4. b \in (Front1 + 1)..next
    <3>1. PICK a, m : a = Front1 /\ m = next
      OBVIOUS
    <3>2. a \in Nat /\ m \in Nat /\ b \in a..m /\ a < b
      BY <1>0, <2>1, <2>3, <3>1
    <3>3. b \in (a + 1)..m
      BY <3>2
    <3> QED
      BY <3>1, <3>3
  <2> QED
    BY <2>1, <2>3, <2>4 DEF Pending
<1> QED
  BY <1>1, <1>2, <1>7, <1>8, <1>9 DEF OrderInv

\* Nothing is fetched, read or answered.
LEMMA OrderRests ==
  ASSUME OrderInv, down'[src] = down[src], Front1' = Front1, next' = next, Alive(src)' => Alive(src),
         Alive(src)' => up'[src] = up[src]
  PROVE  OrderInv'
  BY DEF OrderInv

LEMMA OrderOther ==
  ASSUME NEW d \in Seq(Replies), NEW s \in Seq(Replies), NEW a \in Nat, NEW n \in Int, InOrder(d, a, n),
         \A i \in DOMAIN s : s[i].kind # "BODY"
  PROVE  InOrder(d \o s, a, n)
<1> DEFINE t == d \o s
<1>0. DOMAIN d = 1..Len(d) /\ DOMAIN s = 1..Len(s) /\ Len(d) \in Nat
  OBVIOUS
<1>1. \A i \in DOMAIN d : t[i] = d[i] /\ i \in DOMAIN t
  BY SeqCat, SeqDomain
<1>2. ASSUME NEW i \in DOMAIN t, t[i].kind = "BODY"
      PROVE  i \in DOMAIN d /\ t[i] = d[i]
  <2>1. \/ i \in 1..Len(d) /\ t[i] = d[i]
        \/ i - Len(d) \in 1..Len(s) /\ t[i] = s[i - Len(d)]
    BY SeqEither
  <2> QED
    BY <1>0, <1>2, <2>1
<1> HIDE DEF t
<1>3. \A i \in DOMAIN t : t[i].kind = "BODY" => \E r \in a..n : t[i].msg = Rows[r]
  BY <1>2 DEF InOrder
<1>4. ASSUME NEW i \in DOMAIN t, NEW r \in (a + 1)..n, BodyAt(t, i, r)
      PROVE  \E j \in 1..(i - 1) : BodyAt(t, j, r - 1)
  <2>1. i \in DOMAIN d /\ BodyAt(d, i, r)
    BY <1>2, <1>4 DEF BodyAt
  <2>2. PICK j \in 1..(i - 1) : BodyAt(d, j, r - 1)
    BY <2>1 DEF InOrder
  <2>3. j \in DOMAIN d
    BY <1>0, <2>1, <2>2
  <2>4. BodyAt(t, j, r - 1)
    BY <1>1, <2>2, <2>3 DEF BodyAt
  <2> QED
    BY <2>4
<1>5. ASSUME NEW i \in DOMAIN t, NEW j \in DOMAIN t, NEW r \in 1..n, NEW q \in 1..n,
             i < j, BodyAt(t, i, r), BodyAt(t, j, q)
      PROVE  r < q
  <2>1. i \in DOMAIN d /\ j \in DOMAIN d /\ BodyAt(d, i, r) /\ BodyAt(d, j, q)
    BY <1>2, <1>5 DEF BodyAt
  <2> QED
    BY <1>5, <2>1 DEF InOrder
<1> QED
  BY <1>3, <1>4, <1>5 DEF InOrder, t

\* The server answers: with the body of the next row, or, if that has vanished, as
\* the last row may have, with none.
LEMMA OrderAnswers ==
  ASSUME Typed, FifoInv, SourceInv, OrderInv, Kept,
         next' = next, Front1' = Front1, ~cli[src].closed,
         NEW s \in Seq(Replies), SourceAnswers(s)
  PROVE  OrderInv'
<1> USE Constants
<1> DEFINE d == down[src]
           u == up[src]
           e == Head(u)
           a == Front1
<1>0. /\ d \in Seq(Replies) /\ u \in Seq(Lines) /\ a \in Nat \ {0} /\ a <= next /\ next \in Nat
      /\ next \in 1..(Len(Rows) + 1)
  BY OrderLocal
<1>1. /\ srv[src].on /\ u # <<>> /\ up'[src] = Tail(u) /\ down'[src] = d \o s /\ s # <<>>
      /\ \A i \in DOMAIN s : s[i].kind = "BODY" <=> i = 1 /\ Bodied(e)
      /\ Bodied(e) => s[1].msg = e.msg
  BY DEF SourceAnswers
<1>2. Alive(src)
  BY <1>1 DEF Alive
<1>3. PICK n : n = next - 1
  OBVIOUS
<1>4. n \in Nat /\ n <= Len(Rows) /\ next = n + 1
  BY <1>0, <1>3
<1>5. InOrder(d, a, n) /\ Pending(d, u, a, next)
  BY <1>2, <1>3 DEF OrderInv
<1>6. PICK b \in a..next : \E f \in b..next : /\ f = next \/ f = Len(Rows)
                                              /\ UpToRow(d, a, b) /\ Asks(u, b, f)
  BY <1>5 DEF Pending
<1>7. PICK f \in b..next : /\ f = next \/ f = Len(Rows)
                           /\ UpToRow(d, a, b) /\ Asks(u, b, f)
  BY <1>6
<1> HIDE DEF d, u, e, a
<1>8. b \in Nat \ {0} /\ f \in Nat /\ f <= Len(Rows) + 1 /\ b <= f /\ f <= n + 1 /\ a <= b /\ b <= n + 1
  BY <1>0, <1>4, <1>6, <1>7
<1>9. /\ e.verb # "UID FETCH" => Asks(Tail(u), b, f)
      /\ e.verb = "UID FETCH" => b < f /\ e.msg = Rows[b] /\ Asks(Tail(u), b + 1, f)
  BY <1>0, <1>1, <1>7, <1>8, AsksRead DEF e
<1>10. SUFFICES InOrder(d \o s, a, n) /\ Pending(d \o s, Tail(u), a, next)
  BY <1>1, <1>3 DEF OrderInv, a
<1>11. ASSUME ~Bodied(e)
       PROVE  InOrder(d \o s, a, n) /\ UpToRow(d \o s, a, b)
  <2>1. \A i \in DOMAIN s : s[i].kind # "BODY"
    BY <1>1, <1>11
  <2>2. InOrder(d \o s, a, n)
    BY <1>0, <1>4, <1>5, <2>1, OrderOther
  <2>3. UpToRow(d \o s, a, b)
    BY <1>0, <1>7, <2>1, UptoOther
  <2> QED
    BY <2>2, <2>3
<1>12. CASE e.verb # "UID FETCH"
  <2>1. ~Bodied(e)
    BY <1>12 DEF Bodied
  <2> QED
    BY <1>6, <1>7, <1>9, <1>11, <1>12, <2>1 DEF Pending
<1>13. CASE e.verb = "UID FETCH" /\ e.msg \in here
  <2>1. Bodied(e)
    BY <1>13 DEF Bodied
  <2>2. b < f /\ e.msg = Rows[b] /\ Asks(Tail(u), b + 1, f)
    BY <1>9, <1>13
  <2>3. b \in a..n /\ b \in 1..Len(Rows) /\ b + 1 \in a..next /\ f \in (b + 1)..next
    BY <1>0, <1>4, <1>8, <2>2
  <2>4. 1 \in DOMAIN s /\ s[1].kind = "BODY" /\ s[1].msg = Rows[b]
    <3>1. 1 \in DOMAIN s
      BY <1>1, SeqDomain
    <3> QED
      BY <1>1, <2>1, <2>2, <3>1
  <2>5. \A i \in DOMAIN s : s[i].kind = "BODY" => i = 1
    BY <1>1
  <2>6. InOrder(d \o s, a, n)
    <3>1. \A i \in DOMAIN s : s[i].kind = "BODY" => i = 1 /\ s[1].msg = Rows[b]
      BY <2>4, <2>5
    <3>2. /\ b = a \/ \E j \in DOMAIN d : BodyAt(d, j, b - 1)
          /\ \A j \in DOMAIN d, r \in 1..Len(Rows) : BodyAt(d, j, r) => r < b
      BY <1>7 DEF UpToRow
    <3> QED
      BY <1>0, <1>4, <1>5, <2>3, <3>1, <3>2, OrderCat
  <2>7. UpToRow(d \o s, a, b + 1)
    <3>1. a \in Nat
      BY <1>0
    <3> QED
      BY <1>0, <1>1, <1>7, <2>3, <2>4, <2>5, <3>1, UptoBody
  <2> QED
    BY <1>7, <2>2, <2>3, <2>6, <2>7 DEF Pending
<1>14. CASE e.verb = "UID FETCH" /\ e.msg \notin here
  <2>1. ~Bodied(e)
    BY <1>14 DEF Bodied
  <2>2. b < f /\ e.msg = Rows[b] /\ Asks(Tail(u), b + 1, f)
    BY <1>9, <1>14
  <2>3. b \in 1..Len(Rows)
    BY <1>8, <2>2
  <2>4. Rows[b] \notin here
    BY <1>14, <2>2
  <2>5. b = Len(Rows)
    <3>1. ~(b \in 1..(Len(Rows) - 1))
      BY <2>4 DEF Kept
    <3> QED
      BY <2>3, <3>1
  <2>6. f = b + 1
    BY <1>4, <1>8, <2>2, <2>5
  <2>7. Asks(Tail(u), b, b)
    <3>1. (b + 1)..(f - 1) = {} /\ b..(b - 1) = {}
      BY <1>8, <2>6
    <3> QED
      BY <2>2, <3>1 DEF Asks
  <2>8. b \in a..next /\ b \in b..next
    BY <1>6, <1>8, <1>4
  <2> QED
    BY <1>11, <2>1, <2>5, <2>7, <2>8 DEF Pending
<1> QED
  BY <1>12, <1>13, <1>14

LEMMA OrderNext ==
  ASSUME Typed, Typed', OpenFirst, Quiet, PeerKnows(src), SourceInv, ChunkInv, OrderInv, FifoInv,
         Kept, Listening', SourceStep
  PROVE  OrderInv'
<1> USE Constants
<1>0. /\ cli[src] \in Clients /\ cli'[src] \in Clients /\ down[src] \in Seq(Replies)
      /\ Alive(src) = (srv[src].on /\ ~cli[src].closed)
      /\ Alive(src)' = (srv'[src].on /\ ~cli'[src].closed)
  BY Local DEF Typed, ClientsTyped, Alive
<1>s. SameReader(src) /\ next' = next => Front1' = Front1
  BY DEF SameReader, Front1
<1>1. CASE SourceRests
  <2>1. down'[src] = down[src] /\ up'[src] = up[src] /\ Front1' = Front1 /\ next' = next
    BY <1>1, <1>s DEF SourceRests, SameWire
  <2>2. Alive(src)' => Alive(src)
    BY <1>0, <1>1 DEF SourceRests, SameWire, SameServer
  <2> QED
    BY <2>1, <2>2, OrderRests
<1>2. CASE SourceAsks
  <2>1. /\ down'[src] = down[src] /\ Front1' = Front1 /\ next' = next /\ Alive(src)' = Alive(src)
    BY <1>0, <1>2, <1>s DEF SourceAsks, Unmoved, SameServer
  <2>2. PICK e \in Lines : e.verb # "UID FETCH" /\ up'[src] = Append(up[src], e)
    BY <1>2 DEF SourceAsks
  <2>3. ASSUME Alive(src)
        PROVE  Pending(down[src], up'[src], Front1, next)
    <3>1. PICK b \in Front1..next : \E f \in b..next : /\ f = next \/ f = Len(Rows)
                                                       /\ UpToRow(down[src], Front1, b) /\ Asks(up[src], b, f)
      BY <2>3 DEF OrderInv, Pending
    <3>2. PICK f \in b..next : /\ f = next \/ f = Len(Rows)
                               /\ UpToRow(down[src], Front1, b) /\ Asks(up[src], b, f)
      BY <3>1
    <3>3. Asks(Append(up[src], e), b, f)
      <4>1. NoFetch(e)
        BY <2>2 DEF NoFetch
      <4>2. b \in Int /\ f \in Int /\ up[src] \in Seq(Lines)
        BY <3>1, <3>2, OrderLocal
      <4> QED
        BY <3>2, <4>1, <4>2, AsksOther
    <3> QED
      BY <2>2, <3>1, <3>2, <3>3 DEF Pending
  <2> QED
    BY <2>1, <2>3 DEF OrderInv
<1>3. CASE SourceFetches
  BY <1>3, OrderFetches
<1>4. CASE SourceSkips
  <2>1. /\ SourceTakes /\ Head(down[src]).kind # "BODY" /\ next' = next /\ Front1' = Front1
        /\ Alive(src)' = Alive(src)
    BY <1>0, <1>4, <1>s DEF SourceSkips, SourceTakes, SameEnd, Unmoved, SameServer
  <2> QED
    BY <2>1, OrderSkips
<1>5. CASE SourceReads
  <2>1. SourceTakes /\ Alive(src)' = Alive(src)
    BY <1>0, <1>5 DEF SourceReads, SourceTakes, SameEnd, SameServer
  <2>2. CASE Announced(src)
    BY <2>1, <2>2, OrderReads
  <2>3. CASE Received(src)
    <3>1. next' = next /\ Front1' = Front1 /\ Midst /\ down[src] # <<>>
      BY <2>3 DEF Received, Front1, Midst
    <3>2. Head(down[src]).kind # "BODY"
      <4>1. Head(down[src]) = down[src][1]
        BY <1>0, <3>1, SeqTail
      <4>2. down[src][1].kind = "CHUNK"
        BY <3>1 DEF ChunkInv, IsChunk
      <4> QED
        BY <4>1, <4>2
    <3> QED
      BY <2>1, <3>1, <3>2, OrderSkips
  <2> QED
    BY <1>5, <2>2, <2>3 DEF SourceReads
<1>6. CASE SourceTurns
  <2>1. down'[src] = down[src] /\ up'[src] = up[src]
    BY <1>6 DEF SourceTurns, SameWire
  <2>2. CASE Cleared(src)
    <3>1. cli'[src].closed /\ cli'[src].fifo = <<>>
      BY <1>6, <2>2 DEF SourceTurns, Cleared
    <3> QED
      BY <3>1 DEF Listening
  <2>3. CASE Completed(src) \/ Begun(src) \/ Broken(src)
    <3>1. Front1' = Front1 /\ next' = next
      BY <2>3 DEF Completed, Begun, Broken, Front1
    <3>2. Alive(src)' => Alive(src)
      BY <1>0, <1>6 DEF SourceTurns, SameWire, SameServer
    <3> QED
      BY <2>1, <3>1, <3>2, OrderRests
  <2> QED
    BY <1>6, <2>2, <2>3 DEF SourceTurns
<1>7. CASE SourceCloses
  <2>1. next' = next /\ Front1' = Front1 /\ ~Alive(src)'
    BY <1>0, <1>7, <1>s DEF SourceCloses
  <2>2. PICK n \in 0..Len(down[src]) : down'[src] = SubSeq(down[src], 1, n)
    BY <1>7 DEF SourceCloses
  <2>3. Front1 \in Nat /\ next - 1 \in Int
    BY OrderLocal
  <2>4. InOrder(down'[src], Front1, next - 1)
    BY <1>0, <2>2, <2>3, OrderPrefix DEF OrderInv
  <2> QED
    BY <2>1, <2>4 DEF OrderInv
<1>8. CASE SourceServes
  <2>1. next' = next /\ Front1' = Front1 /\ cli'[src].closed = cli[src].closed
    BY <1>8, <1>s DEF SourceServes, Unmoved
  <2>2. CASE up'[src] = up[src] /\ down'[src] = down[src] /\ srv'[src].on = srv[src].on
    BY <1>0, <2>1, <2>2, OrderRests
  <2>3. ASSUME ~srv'[src].on, NEW n \in 0..Len(down[src]), down'[src] = SubSeq(down[src], 1, n)
        PROVE  OrderInv'
    <3>1. Front1 \in Nat /\ next - 1 \in Int
      BY OrderLocal
    <3>2. InOrder(down'[src], Front1, next - 1)
      BY <1>0, <2>3, <3>1, OrderPrefix DEF OrderInv
    <3> QED
      BY <1>0, <2>1, <2>3, <3>2 DEF OrderInv
  <2>4. ASSUME NEW s \in Seq(Replies), SourceAnswers(s)
        PROVE  OrderInv'
    <3>1. CASE ~cli[src].closed
      BY <2>1, <2>4, <3>1, OrderAnswers
    <3>2. CASE cli[src].closed
      <4>1. down'[src] = down[src]
        BY <2>4, <3>2 DEF SourceAnswers
      <4> QED
        BY <1>0, <2>1, <3>2, <4>1, OrderRests
    <3> QED
      BY <3>1, <3>2
  <2> QED
    BY <1>8, <2>2, <2>3, <2>4, SourceServed
<1> QED
  BY <1>1, <1>2, <1>3, <1>4, <1>5, <1>6, <1>7, <1>8 DEF SourceStep

-----------------------------------------------------------------------------
(* A connection is closed for a cause *)

WhyInv == \A k \in Conn : cli[k].closed => cli[k].why # "none"
SameCause(k) == cli'[k].closed = cli[k].closed /\ cli'[k].why = cli[k].why
Caused(k) == SameCause(k) \/ cli'[k].why # "none"

LEMMA OneCause ==
  ASSUME Typed, NEW k \in Conn, NEW c, cli' = [cli EXCEPT ![k] = c],
         (c.closed = cli[k].closed /\ c.why = cli[k].why) \/ c.why # "none", NEW j \in Conn
  PROVE  Caused(j)
  BY OneClient DEF Caused, SameCause

LEMMA OpenCaused ==
  ASSUME Typed, NEW k \in Conn, Open(k), NEW j \in Conn
  PROVE  Caused(j)
<1>0. cli[k] \in Clients /\ cli \in [Conn -> Clients]
  BY Local DEF Typed, ClientsTyped
<1>1. CASE ReadGreeting(k)
  <2>1. PICK f, h : cli' = [cli EXCEPT ![k] = [cli[k] EXCEPT !.phase = f, !.caps = h]]
    BY <1>0, <1>1 DEF ReadGreeting
  <2>2. [cli[k] EXCEPT !.phase = f, !.caps = h].closed = cli[k].closed
        /\ [cli[k] EXCEPT !.phase = f, !.caps = h].why = cli[k].why
    BY <1>0 DEF Clients
  <2> QED
    BY <2>1, <2>2, OneCause
<1>2. CASE Starttls(k)
  <2>1. PICK f : cli' = [cli EXCEPT ![k] = [cli[k] EXCEPT !.sent = TRUE, !.result = f]]
    BY <1>0, <1>2 DEF Starttls
  <2>2. [cli[k] EXCEPT !.sent = TRUE, !.result = f].closed = cli[k].closed
        /\ [cli[k] EXCEPT !.sent = TRUE, !.result = f].why = cli[k].why
    BY <1>0 DEF Clients
  <2> QED
    BY <2>1, <2>2, OneCause
<1>3. CASE StarttlsDone(k)
  <2>1. cli' = [cli EXCEPT ![k] = [cli[k] EXCEPT !.phase = "open", !.sent = FALSE, !.tls = TRUE, !.caps = "none"]]
    BY <1>0, <1>3 DEF StarttlsDone
  <2>2. LET c == [cli[k] EXCEPT !.phase = "open", !.sent = FALSE, !.tls = TRUE, !.caps = "none"]
        IN c.closed = cli[k].closed /\ c.why = cli[k].why
    BY <1>0 DEF Clients
  <2> QED
    BY <2>1, <2>2, OneCause
<1>4. CASE StartReader(k)
  <2>1. PICK f : cli' = [cli EXCEPT ![k] = [cli[k] EXCEPT !.reader = "line", !.phase = f]]
    BY <1>0, <1>4 DEF StartReader
  <2>2. [cli[k] EXCEPT !.reader = "line", !.phase = f].closed = cli[k].closed
        /\ [cli[k] EXCEPT !.reader = "line", !.phase = f].why = cli[k].why
    BY <1>0 DEF Clients
  <2> QED
    BY <2>1, <2>2, OneCause
<1>5. CASE Ask(k)
  <2> DEFINE v == Verb(cli[k].phase)
  <2>1. PICK i : i = Issue(cli[k], v)
    OBVIOUS
  <2>2. v \in Verbs
    BY <1>5 DEF Ask, Asking, Verb, Verbs
  <2>3. i \in Clients /\ i.closed = cli[k].closed /\ i.why = cli[k].why
    BY <2>1, <2>2, IssueCalled DEF Called
  <2>4. cli' = [cli EXCEPT ![k] = [i EXCEPT !.sent = TRUE]]
    BY <1>0, <1>5, <2>1 DEF Ask
  <2>5. [i EXCEPT !.sent = TRUE].closed = i.closed /\ [i EXCEPT !.sent = TRUE].why = i.why
    BY <2>3 DEF Clients
  <2> QED
    BY <2>3, <2>4, <2>5, OneCause
<1>6. CASE Answered(k)
  <2>0. PICK f, z : cli' = [cli EXCEPT ![k].phase = f, ![k].sent = FALSE, ![k].zout = z]
    BY <1>6 DEF Answered
  <2>1. cli' = [cli EXCEPT ![k] = [cli[k] EXCEPT !.phase = f, !.sent = FALSE, !.zout = z]]
    BY <1>0, <2>0
  <2>2. LET c == [cli[k] EXCEPT !.phase = f, !.sent = FALSE, !.zout = z]
        IN c.closed = cli[k].closed /\ c.why = cli[k].why
    BY <1>0 DEF Clients
  <2> QED
    BY <2>1, <2>2, OneCause
<1>7. CASE OpenFails(k)
  <2>1. PICK w : w = (IF cli[k].why = "none" THEN "lost" ELSE cli[k].why)
    OBVIOUS
  <2>2. cli' = [cli EXCEPT ![k] = [cli[k] EXCEPT !.phase = "failed", !.closed = TRUE, !.why = w]]
    BY <1>0, <1>7, <2>1 DEF OpenFails
  <2>3. [cli[k] EXCEPT !.phase = "failed", !.closed = TRUE, !.why = w].why = w
    BY <1>0 DEF Clients
  <2>4. w # "none"
    BY <2>1
  <2> QED
    BY <2>2, <2>3, <2>4, OneCause
<1> QED
  BY <1>1, <1>2, <1>3, <1>4, <1>5, <1>6, <1>7 DEF Open

LEMMA ClosedCause ==
  ASSUME NEW c \in Clients, NEW why \in {"lost", "kick"}
  PROVE  LET d == Closed(c, why)
         IN d \in Clients /\ ((d.closed = c.closed /\ d.why = c.why) \/ d.why # "none")
<1>1. Closed(c, why) \in Clients
  BY ClosedTyped DEF Causes
<1> QED
  BY <1>1 DEF Closed, Clients

LEMMA AbortCaused ==
  ASSUME Typed, NEW k \in Conn, NEW why \in {"lost", "kick"}, Abort(k, why), NEW j \in Conn
  PROVE  Caused(j)
<1>0. cli[k] \in Clients /\ cli \in [Conn -> Clients]
  BY Local DEF Typed, ClientsTyped
<1>1. PICK d : d = Closed(cli[k], why)
  OBVIOUS
<1>2. (d.closed = cli[k].closed /\ d.why = cli[k].why) \/ d.why # "none"
  BY <1>0, <1>1, ClosedCause
<1>3. cli' = cli \/ cli' = [cli EXCEPT ![k] = d]
  BY <1>0, <1>1 DEF Abort
<1> QED
  BY <1>2, <1>3, OneCause DEF Caused, SameCause

LEMMA ReaderCaused ==
  ASSUME Typed, NEW k \in Conn, Reader(k) \/ TellWaiters(k), NEW j \in Conn
  PROVE  Caused(j)
<1>0. cli[k] \in Clients /\ cli \in [Conn -> Clients]
  BY Local DEF Typed, ClientsTyped
<1>1. CASE ReadResponse(k)
  <2>1. PICK e : e = Head(down[k])
    OBVIOUS
  <2>2. PICK a : a = [cli[k] EXCEPT !.idle = 0]
    OBVIOUS
  <2>3. PICK r : r = Routed(a, k, e)
    OBVIOUS
  <2>4. down[k] # <<>> /\ cli' = [cli EXCEPT ![k] = r]
    BY <1>1, <2>1, <2>2, <2>3 DEF ReadResponse, Readable, NextResponse
  <2>5. e \in Replies
    BY <2>1, <2>4, TailTyped DEF Typed
  <2>6. a \in Clients /\ a.closed = cli[k].closed /\ a.why = cli[k].why
    BY <1>0, <2>2 DEF Clients
  <2>7. Takes(a, e, r)
    BY <2>3, <2>5, <2>6, RoutedVoice
  <2>8. r.closed = a.closed /\ r.why = a.why
    BY <2>7 DEF Takes
  <2> QED
    BY <2>4, <2>6, <2>8, OneCause
<1>2. CASE ReadChunk(k)
  <2>1. PICK l : cli' = [cli EXCEPT ![k] = [cli[k] EXCEPT !.left = l, !.idle = 0]]
    BY <1>0, <1>2 DEF ReadChunk
  <2>2. [cli[k] EXCEPT !.left = l, !.idle = 0].closed = cli[k].closed
        /\ [cli[k] EXCEPT !.left = l, !.idle = 0].why = cli[k].why
    BY <1>0 DEF Clients
  <2> QED
    BY <2>1, <2>2, OneCause
<1>3. CASE EndLiteral(k)
  <2>1. cli' = [cli EXCEPT ![k] = [cli[k] EXCEPT !.reader = "line", !.to = None]]
    BY <1>0, <1>3 DEF EndLiteral
  <2>2. [cli[k] EXCEPT !.reader = "line", !.to = None].closed = cli[k].closed
        /\ [cli[k] EXCEPT !.reader = "line", !.to = None].why = cli[k].why
    BY <1>0 DEF Clients
  <2> QED
    BY <2>1, <2>2, OneCause
<1>4. CASE ReadEof(k)
  <2>1. PICK d : d = Closed(cli[k], "lost")
    OBVIOUS
  <2>2. d \in Clients /\ ((d.closed = cli[k].closed /\ d.why = cli[k].why) \/ d.why # "none")
    BY <1>0, <2>1, ClosedCause
  <2>3. cli' = [cli EXCEPT ![k] = [d EXCEPT !.reader = "off", !.to = None]]
    BY <1>0, <1>4, <2>1 DEF ReadEof
  <2>4. [d EXCEPT !.reader = "off", !.to = None].closed = d.closed
        /\ [d EXCEPT !.reader = "off", !.to = None].why = d.why
    BY <2>2 DEF Clients
  <2> QED
    BY <2>2, <2>3, <2>4, OneCause
<1>5. CASE TellWaiters(k)
  <2>1. PICK r : cli' = [cli EXCEPT ![k] = [cli[k] EXCEPT !.told = TRUE, !.pend = {}, !.fifo = <<>>, !.result = r]]
    BY <1>0, <1>5 DEF TellWaiters
  <2>2. LET c == [cli[k] EXCEPT !.told = TRUE, !.pend = {}, !.fifo = <<>>, !.result = r]
        IN c.closed = cli[k].closed /\ c.why = cli[k].why
    BY <1>0 DEF Clients
  <2> QED
    BY <2>1, <2>2, OneCause
<1> QED
  BY <1>1, <1>2, <1>3, <1>4, <1>5 DEF Reader

LEMMA WorkCaused ==
  ASSUME Typed, Work, NEW j \in Conn
  PROVE  Caused(j)
<1> USE Constants
<1>1. cli' = cli => Caused(j)
  BY DEF Caused, SameCause
<1>0. \A k \in Conn : cli[k] \in Clients
  BY Local
<1>c. ASSUME NEW k \in Conn, NEW verb \in Verbs, CmdNowait(k, verb)
      PROVE  Caused(j)
  <2>1. PICK i : i = Issue(cli[k], verb)
    OBVIOUS
  <2>2. i.closed = cli[k].closed /\ i.why = cli[k].why
    BY <2>1, IssueCalled DEF Called
  <2>3. cli' = [cli EXCEPT ![k] = i]
    BY <1>c, <2>1 DEF CmdNowait
  <2> QED
    BY <2>2, <2>3, OneCause
<1>2. CASE Opened \/ Selected \/ Filled \/ WaitSize \/ StreamEnds \/ Room \/ Ended
  BY <1>1, <1>2 DEF Opened, Selected, Filled, WaitSize, StreamEnds, Room, Ended, client
<1>3. CASE Select
  BY <1>3, <1>c DEF Select, Verbs
<1>4. CASE Begin
  <2>1. PICK i : i = Issue(cli[dst], "APPEND")
    OBVIOUS
  <2>2. i \in Clients /\ i.closed = cli[dst].closed /\ i.why = cli[dst].why
    BY <2>1, IssueCalled DEF Called, Verbs
  <2>3. PICK o : cli' = [cli EXCEPT ![dst] = IF cli[dst].closed THEN i ELSE [i EXCEPT !.owed = o]]
    BY <1>4, <2>1 DEF Begin, AppendBegin
  <2>4. [i EXCEPT !.owed = o].closed = i.closed /\ [i EXCEPT !.owed = o].why = i.why
    BY <2>2 DEF Clients
  <2> QED
    BY <2>2, <2>3, <2>4, OneCause
<1>5. CASE StartMore
  <2>1. PICK i : i = Issue(cli[src], "UID FETCH")
    OBVIOUS
  <2>2. i \in Clients /\ i.closed = cli[src].closed /\ i.why = cli[src].why
    BY <2>1, IssueCalled DEF Called, Verbs
  <2>3. PICK f : cli' = [cli EXCEPT ![src] = [i EXCEPT !.fifo = f]]
    BY <1>5, <2>1 DEF StartMore, BodyFetch
  <2>4. [i EXCEPT !.fifo = f].closed = i.closed /\ [i EXCEPT !.fifo = f].why = i.why
    BY <2>2 DEF Clients
  <2> QED
    BY <2>2, <2>3, <2>4, OneCause
<1>6. CASE Continue \/ SettleOne \/ StreamChunk \/ Finish
  <2> DEFINE o == cli[dst].owed - 1
  <2>1. \/ cli' = [cli EXCEPT ![dst] = [cli[dst] EXCEPT !.owed = o]]
        \/ cli' = [cli EXCEPT ![dst] = [cli[dst] EXCEPT !.cont = 0]]
        \/ cli' = [cli EXCEPT ![dst] = [cli[dst] EXCEPT !.idle = 0]]
    BY <1>6, Local DEF Continue, SettleOne, StreamChunk, Finish, AppendDone, Typed, ClientsTyped
  <2> HIDE DEF o
  <2>2. \A c \in {[cli[dst] EXCEPT !.owed = o], [cli[dst] EXCEPT !.cont = 0], [cli[dst] EXCEPT !.idle = 0]} :
          c.closed = cli[dst].closed /\ c.why = cli[dst].why
    BY Local DEF Clients
  <2> QED
    BY <2>1, <2>2, OneCause
<1>7. CASE ClosePair \/ LoggedOut
  <2>1. Head(closing) \in Conn
    BY <1>7 DEF ClosePair, LoggedOut, Typed, WorkerTyped
  <2>2. CmdNowait(Head(closing), "LOGOUT") \/ Abort(Head(closing), "lost")
    BY <1>7 DEF ClosePair, LoggedOut
  <2> QED
    BY <1>c, <2>1, <2>2, AbortCaused DEF Verbs
<1> QED
  BY <1>2, <1>3, <1>4, <1>5, <1>6, <1>7 DEF Work

\* A connection is never closed without a cause.
LEMMA WhyNext ==
  ASSUME Typed, WhyInv, [Next]_vars
  PROVE  WhyInv'
<1> SUFFICES ASSUME NEW j \in Conn PROVE Caused(j)
  BY DEF WhyInv, Caused, SameCause
<1>1. cli' = cli => Caused(j)
  BY DEF Caused, SameCause
<1>2. CASE Work
  BY <1>2, WorkCaused
<1>3. CASE \E m \in Msg : Drain(m)
  BY <1>1, <1>3 DEF Drain
<1>4. ASSUME NEW k \in Conn, Goroutines(k)
      PROVE  Caused(j)
  <2>1. CASE Watchdog(k) \/ KickOne(k)
    BY <2>1, AbortCaused DEF Watchdog, KickOne
  <2> QED
    BY <1>4, <2>1, OpenCaused, ReaderCaused DEF Goroutines, Opener
<1>5. CASE Time
  <2>1. Pass(Timed)
    BY <1>5, TimeIs
  <2>2. PICK i : cli'[j] = [cli[j] EXCEPT !.idle = i]
    BY <2>1 DEF Pass
  <2> QED
    BY <2>2, Local DEF Clients, Caused, SameCause
<1>6. CASE \E k \in Conn : Server(k)
  BY <1>1, <1>6 DEF Server, client
<1>7. CASE \E m \in Msg : Vanish(m) /\ UNCHANGED <<client, worker>>
  BY <1>1, <1>7 DEF client
<1>8. CASE Kick \/ UNCHANGED vars
  BY <1>1, <1>8 DEF Kick, vars, client
<1> QED
  BY <1>2, <1>3, <1>4, <1>5, <1>6, <1>7, <1>8 DEF Next, Process, Busy

-----------------------------------------------------------------------------
(* The rows in hand *)

LEMMA QueueLocal ==
  ASSUME Typed
  PROVE  /\ fetchQ \in Seq(Msg) /\ Len(fetchQ) \in Nat /\ DOMAIN fetchQ = 1..Len(fetchQ)
         /\ next \in Nat /\ Len(Rows) \in Nat /\ next \in 1..(Len(Rows) + 1)
         /\ None \notin Msg
  BY Constants DEF Typed, WorkerTyped

\* The worker goes on with what it has in hand.
LEMMA QueueStays ==
  ASSUME QueueInv, next' = next, fetchQ' = fetchQ, item' = item \/ (item' = None /\ pc' \notin {"size", "begin"}),
         pc' = "room" => pc = "room" \/ item' = None,
         pc' \in Copying => item' # None,
         pc' \in {"begin", "size"} => item # None,
         Running' => Running /\ drained' = drained
  PROVE  QueueInv'
<1>1. Next1' = Next1
  BY DEF Next1
<1> QED
  BY <1>1 DEF QueueInv, Copying

LEMMA QueueFetches ==
  ASSUME Typed, QueueInv, StartMore
  PROVE  QueueInv'
<1> USE QueueLocal
<1>1. /\ next' = next + 1 /\ fetchQ' = Append(fetchQ, Rows[next]) /\ item' = item /\ drained' = drained
      /\ pc = "fill" /\ pc' \in {"fill", "close"} /\ next <= Len(Rows)
  BY DEF StartMore, WantsMore, Leave
<1>2. Rows[next] \in Msg
  BY <1>1, Constants
<1>3. Next1 \in 1..next /\ Next1 = next - Len(fetchQ) /\ \A i \in 1..Len(fetchQ) : fetchQ[i] = Rows[Next1 + i - 1]
  BY DEF QueueInv, Next1
<1> DEFINE f == Append(fetchQ, Rows[next])
<1>4. /\ Len(f) = Len(fetchQ) + 1 /\ DOMAIN f = 1..(Len(fetchQ) + 1)
      /\ \A i \in 1..Len(fetchQ) : f[i] = fetchQ[i]
      /\ f[Len(fetchQ) + 1] = Rows[next]
  BY <1>2, SeqAppend
<1> HIDE DEF f
<1>5. fetchQ' = f
  BY <1>1 DEF f
<1>6. Next1' = Next1
  BY <1>1, <1>3, <1>4, <1>5 DEF Next1
<1>7. \A i \in DOMAIN f : f[i] = Rows[Next1 + i - 1]
  <2> SUFFICES ASSUME NEW i \in DOMAIN f PROVE f[i] = Rows[Next1 + i - 1]
    OBVIOUS
  <2>1. CASE i \in 1..Len(fetchQ)
    BY <1>3, <1>4, <2>1
  <2>2. CASE i = Len(fetchQ) + 1
    <3>1. Next1 + i - 1 = next
      BY <1>3, <2>2
    <3> QED
      BY <1>4, <2>2, <3>1
  <2> QED
    BY <1>4, <2>1, <2>2
<1>8. Next1 \in 1..next'
  BY <1>1, <1>3
<1> QED
  BY <1>1, <1>5, <1>6, <1>7, <1>8 DEF QueueInv, Running, Copying

LEMMA QueueTakes ==
  ASSUME Typed, QueueInv, Filled
  PROVE  QueueInv'
<1> USE QueueLocal
<1>1. CASE item = None /\ fetchQ # <<>>
  <2>1. /\ next' = next /\ fetchQ' = Tail(fetchQ) /\ item' = Head(fetchQ) /\ drained' = drained
        /\ pc = "fill" /\ pc' = "fill"
    BY <1>1 DEF Filled
  <2>2. Next1 \in 1..next /\ Next1 = next - Len(fetchQ) /\ \A i \in 1..Len(fetchQ) : fetchQ[i] = Rows[Next1 + i - 1]
    BY DEF QueueInv, Next1
  <2> DEFINE f == Tail(fetchQ)
  <2>3. /\ Len(f) = Len(fetchQ) - 1 /\ DOMAIN f = 1..(Len(fetchQ) - 1)
        /\ \A i \in 1..(Len(fetchQ) - 1) : f[i] = fetchQ[i + 1]
        /\ Head(fetchQ) = fetchQ[1] /\ Len(fetchQ) >= 1
    BY <1>1, SeqTail
  <2> HIDE DEF f
  <2>4. fetchQ' = f
    BY <2>1 DEF f
  <2>5. Next1' = Next1 + 1
    BY <2>1, <2>2, <2>3, <2>4 DEF Next1
  <2>6. \A i \in DOMAIN f : f[i] = Rows[Next1 + 1 + i - 1]
    <3> SUFFICES ASSUME NEW i \in DOMAIN f PROVE f[i] = Rows[Next1 + 1 + i - 1]
      OBVIOUS
    <3>1. i + 1 \in 1..Len(fetchQ) /\ f[i] = fetchQ[i + 1]
      BY <2>3
    <3>2. fetchQ[i + 1] = Rows[Next1 + (i + 1) - 1]
      BY <2>2, <3>1
    <3>3. Next1 + (i + 1) - 1 = Next1 + 1 + i - 1
      BY <2>2, <2>3
    <3> QED
      BY <3>1, <3>2, <3>3
  <2>7. Next1 + 1 \in 1..next /\ Next1 + 1 > 1
    BY <2>2, <2>3
  <2>8. item' = Rows[Next1 + 1 - 1]
    <3>1. 1 \in 1..Len(fetchQ) /\ Next1 + 1 - 1 = Next1 + 1 - 1
      BY <2>3
    <3> QED
      BY <2>1, <2>2, <2>3, <3>1
  <2> QED
    <3>1. Next1' \in 1..next' /\ Next1' > 1 /\ item' = Rows[Next1' - 1] /\ item' # None
      <4>1. item' # None
        BY <1>1, <2>1, SeqTail
      <4>2. Next1' \in 1..next' /\ Next1' > 1
        BY <2>1, <2>5, <2>7
      <4>3. Next1' - 1 = Next1 + 1 - 1
        BY <2>2, <2>5
      <4>4. item' = Rows[Next1' - 1]
        BY <2>8, <4>3
      <4> QED
        BY <4>1, <4>2, <4>4
    <3>2. \A i \in DOMAIN fetchQ' : fetchQ'[i] = Rows[Next1' + i - 1]
      BY <2>4, <2>5, <2>6
    <3>3. drained' = {} /\ pc' = "fill"
      BY <2>1 DEF QueueInv, Running
    <3> QED
      BY <3>1, <3>2, <3>3 DEF QueueInv, Copying
<1>2. CASE ~(item = None /\ fetchQ # <<>>)
  <2>1. /\ next' = next /\ fetchQ' = fetchQ /\ item' = item /\ drained' = drained
        /\ pc = "fill" /\ pc' = IF item = None THEN "drain" ELSE "size"
    BY <1>2 DEF Filled
  <2> QED
    BY <2>1, QueueStays DEF Running, Copying
<1> QED
  BY <1>1, <1>2

\* The rows in hand are the last ones that are fetched, in order.
LEMMA QueueNext ==
  ASSUME Typed, QueueInv, [Next]_vars
  PROVE  QueueInv'
<1> USE QueueLocal
<1>1. CASE UNCHANGED worker
  BY <1>1, QueueStays DEF worker, QueueInv, Running, Copying
<1>2. CASE Work
  <2>1. CASE Opened \/ Select \/ Selected
    BY <2>1, QueueStays DEF Opened, Select, Selected, Leave, Running, Copying
  <2>2. CASE WaitSize
    BY <2>2, QueueStays DEF WaitSize, QueueInv, Leave, Running, Copying
  <2>3. CASE Begin \/ Continue
    BY <2>3, QueueStays DEF Begin, Continue, QueueInv, Leave, Running, Copying
  <2>4. CASE StreamChunk \/ StreamEnds \/ Finish
    BY <2>4, QueueStays DEF StreamChunk, StreamEnds, Finish, QueueInv, Leave, Running, Copying
  <2>5. CASE Room \/ SettleOne
    BY <2>5, QueueStays DEF Room, SettleOne, Leave, Running, Copying
  <2>6. CASE ClosePair \/ LoggedOut \/ Ended
    BY <2>6, QueueStays DEF ClosePair, LoggedOut, Ended, Running, Copying
  <2> QED
    BY <1>2, <2>1, <2>2, <2>3, <2>4, <2>5, <2>6, QueueFetches, QueueTakes DEF Work
<1>3. CASE ~Work
  BY <1>1, <1>3, TimeIs DEF Next, Process, Busy, Drain, Server, Vanish, Kick, vars, worker
<1> QED
  BY <1>2, <1>3

-----------------------------------------------------------------------------
(* The sizes of the bodies *)

\* A body fails only with its connection, and only if it is being read, or waits.
FailsLate(m) ==
  body'[m].err # "none" =>
     \/ body[m].err # "none" /\ (body[m].shut => body'[m].shut)
     \/ /\ Silent' /\ body'[m].shut
        /\ cli[src].to = m \/ \E r \in Front1..(next - 1) : m = Rows[r]

LEMMA SizesStay ==
  ASSUME Typed, FifoInv, Sizes, next' = next, Front1' >= Front1, Front1' \in Nat,
         Silent => Silent', cli'[src].to \in {cli[src].to, None},
         \A m \in Msg : body'[m].size = body[m].size /\ FailsLate(m)
  PROVE  Sizes'
<1>0. /\ next \in 1..(Len(Rows) + 1) /\ next \in Nat /\ Len(Rows) \in Nat
      /\ Front1 \in 1..next /\ Rows \in [1..Len(Rows) -> Msg]
  BY FifoLocal
<1>1. \A r \in 1..(next - 1) : r \in 1..Len(Rows) /\ Rows[r] \in Msg
  BY <1>0
<1>2. \A m \in Msg : body'[m].err # "none" => Silent' /\ body'[m].shut
  BY DEF Sizes, FailsLate
<1>3. \A r \in 1..(next - 1) : r >= Front1' => body'[Rows[r]].size = -1
  <2> SUFFICES ASSUME NEW r \in 1..(next - 1), r >= Front1' PROVE body'[Rows[r]].size = -1
    OBVIOUS
  <2>1. r >= Front1
    BY <1>0
  <2> QED
    BY <1>1, <2>1 DEF Sizes
<1>4. ASSUME NEW r \in 1..(next - 1), NEW q \in 1..(next - 1), r < q,
             cli'[src].to = Rows[r] \/ body'[Rows[r]].err # "none"
      PROVE  body'[Rows[q]].size = -1
  <2>1. body'[Rows[q]].size = body[Rows[q]].size
    BY <1>1
  <2>2. CASE cli[src].to = Rows[r] \/ body[Rows[r]].err # "none"
    BY <1>4, <2>1, <2>2 DEF Sizes
  <2>3. CASE \E p \in Front1..(next - 1) : Rows[r] = Rows[p]
    <3>1. PICK p \in Front1..(next - 1) : Rows[r] = Rows[p]
      BY <2>3
    <3>2. p = r
      <4>1. p \in 1..Len(Rows) /\ r \in 1..Len(Rows)
        BY <1>0
      <4> QED
        BY <3>1, <4>1, RowsApart
    <3>3. q >= Front1
      BY <1>0, <1>4, <3>2
    <3> QED
      BY <2>1, <3>3 DEF Sizes
  <2>4. cli[src].to = Rows[r] \/ body[Rows[r]].err # "none" \/ \E p \in Front1..(next - 1) : Rows[r] = Rows[p]
    <3>1. Rows[r] \in Msg /\ None \notin Msg
      BY <1>1, Constants
    <3>2. FailsLate(Rows[r])
      BY <3>1
    <3>3. cli'[src].to = Rows[r] => cli[src].to = Rows[r]
      BY <3>1
    <3> QED
      BY <1>4, <3>2, <3>3 DEF FailsLate
  <2> QED
    BY <2>2, <2>3, <2>4
<1> QED
  BY <1>2, <1>3, <1>4 DEF Sizes

LEMMA SizesFetched ==
  ASSUME Typed, FifoInv, Sizes, Fetched, Running'
  PROVE  Sizes'
<1>0. /\ next \in 1..Len(Rows) /\ next \in Nat /\ Len(Rows) \in Nat /\ next' = next + 1
      /\ Front1 \in 1..next /\ Rows \in [1..Len(Rows) -> Msg] /\ body \in [Msg -> Handles]
  BY FifoLocal DEF Fetched, WantsMore, Typed, BodiesTyped
<1>1. \A r \in 1..(next - 1) : r \in 1..Len(Rows) /\ Rows[r] \in Msg /\ Rows[r] # Rows[next]
  BY <1>0, RowsApart
<1>2. Rows[next] \in Msg /\ cli'[src].to = cli[src].to
  BY <1>0 DEF Fetched
<1>3. Front1' = Front1
  <2>1. cli[src].fifo \in Seq(Msg) /\ Front1 = next - Len(cli[src].fifo)
    BY FifoLocal
  <2>2. cli'[src].fifo = Append(cli[src].fifo, Rows[next])
    BY DEF Fetched
  <2>3. Len(cli'[src].fifo) = Len(cli[src].fifo) + 1 /\ Len(cli[src].fifo) \in Nat
    BY <1>2, <2>1, <2>2
  <2> QED
    BY <1>0, <2>1, <2>3 DEF Front1
<1>4. PICK h : body' = [body EXCEPT ![Rows[next]] = h] /\ h.size = -1
               /\ (h.err # "none" => cli[src].closed /\ h.shut)
  <2>1. NewHandle.size = -1 /\ NewHandle.err = "none" /\ NewHandle.failed = FALSE
    BY DEF NewHandle
  <2>2. Fail(NewHandle, cli[src].why).size = -1 /\ Fail(NewHandle, cli[src].why).shut
    BY DEF NewHandle, Fail
  <2> QED
    BY <2>1, <2>2 DEF Fetched
<1>5. body'[Rows[next]] = h /\ \A m \in Msg \ {Rows[next]} : body'[m] = body[m]
  BY <1>0, <1>4
<1>c. ~cli[src].closed
  BY DEF Fetched, Running
<1>6. \A m \in Msg : body'[m].err = "none"
  BY <1>4, <1>5, <1>c DEF Sizes, Silent
<1>7. \A r \in 1..next : r >= Front1 => body'[Rows[r]].size = -1
  <2> SUFFICES ASSUME NEW r \in 1..next, r >= Front1 PROVE body'[Rows[r]].size = -1
    OBVIOUS
  <2>1. CASE r = next
    BY <1>4, <1>5, <2>1
  <2>2. CASE r # next
    <3>1. r \in 1..(next - 1)
      BY <1>0, <2>2
    <3> QED
      BY <1>1, <1>5, <3>1 DEF Sizes
  <2> QED
    BY <2>1, <2>2
<1>8. ASSUME NEW r \in 1..next, NEW q \in 1..next, r < q,
             cli'[src].to = Rows[r] \/ body'[Rows[r]].err # "none"
      PROVE  body'[Rows[q]].size = -1
  <2>1. r \in 1..(next - 1)
    BY <1>0, <1>8
  <2>2. body'[Rows[r]] = body[Rows[r]]
    BY <1>1, <1>5, <2>1
  <2>3. CASE q = next
    BY <1>4, <1>5, <2>3
  <2>4. CASE q # next
    <3>1. q \in 1..(next - 1)
      BY <1>0, <2>4
    <3> QED
      BY <1>1, <1>2, <1>5, <1>8, <2>1, <2>2, <3>1 DEF Sizes
  <2> QED
    BY <2>3, <2>4
<1>9. next' - 1 = next
  BY <1>0
<1> QED
  BY <1>3, <1>6, <1>7, <1>8, <1>9 DEF Sizes

LEMMA SizesAnnounced ==
  ASSUME Typed, FifoInv, Sizes, Announced(src), cli[src].fifo # <<>>
  PROVE  Sizes'
<1>0. /\ next \in 1..(Len(Rows) + 1) /\ next \in Nat /\ Len(Rows) \in Nat /\ next' = next
      /\ Front1 \in 1..next /\ Rows \in [1..Len(Rows) -> Msg] /\ body \in [Msg -> Handles]
      /\ cli[src].fifo \in Seq(Msg) /\ Front1 = next - Len(cli[src].fifo)
  BY FifoLocal DEF Announced, Typed, BodiesTyped
<1>1. \A m \in Msg : body[m].err = "none"
  BY DEF Silent, Announced, Sizes
<1>2. /\ Len(cli[src].fifo) \in Nat /\ Len(cli[src].fifo) >= 1
      /\ Head(cli[src].fifo) = cli[src].fifo[1] /\ Len(Tail(cli[src].fifo)) = Len(cli[src].fifo) - 1
  BY <1>0, SeqTail
<1>3. cli[src].fifo[1] = Rows[Front1] /\ Front1 \in 1..(next - 1)
  <2>1. cli[src].fifo[1] = Rows[Front1 + 1 - 1]
    <3>1. 1 \in 1..Len(cli[src].fifo)
      BY <1>2
    <3> QED
      BY <3>1, FifoLocal
  <2>2. Front1 + 1 - 1 = Front1 /\ Front1 \in 1..(next - 1)
    BY <1>0, <1>2
  <2> QED
    BY <2>1, <2>2
<1>4. PICK n : body' = [body EXCEPT ![Rows[Front1]].size = n]
  BY <1>2, <1>3 DEF Announced
<1>5. cli'[src].to = Rows[Front1] /\ cli'[src].fifo = Tail(cli[src].fifo)
  BY <1>2, <1>3 DEF Announced
<1>6. Front1' = Front1 + 1
  <2>0. \A k, l \in Nat : k - (l - 1) = (k - l) + 1
    OBVIOUS
  <2>1. Front1' = next - (Len(cli[src].fifo) - 1)
    BY <1>0, <1>2, <1>5 DEF Front1
  <2> QED
    BY <1>0, <1>2, <2>0, <2>1
<1>7. \A r \in 1..(next - 1) : r \in 1..Len(Rows) /\ Rows[r] \in Msg /\ (r # Front1 => Rows[r] # Rows[Front1])
  <2>1. \A k, l \in Nat : k \in 1..(l + 1) => \A r \in 1..(k - 1) : r \in 1..l
    OBVIOUS
  <2>2. \A r \in 1..(next - 1) : r \in 1..Len(Rows)
    BY <1>0, <2>1
  <2> QED
    BY <1>0, <1>3, <2>2, RowsApart
<1>8. \A m \in Msg : body'[m].err = "none" /\ (m # Rows[Front1] => body'[m] = body[m])
  BY <1>0, <1>1, <1>4 DEF Handles
<1>9. \A r \in 1..(next - 1) : r >= Front1 + 1 => body'[Rows[r]].size = -1
  <2> SUFFICES ASSUME NEW r \in 1..(next - 1), r >= Front1 + 1 PROVE body'[Rows[r]].size = -1
    OBVIOUS
  <2>1. r # Front1 /\ r >= Front1
    BY <1>0
  <2> QED
    BY <1>7, <1>8, <2>1 DEF Sizes
<1>10. ASSUME NEW r \in 1..(next - 1), NEW q \in 1..(next - 1), r < q,
              cli'[src].to = Rows[r] \/ body'[Rows[r]].err # "none"
       PROVE  body'[Rows[q]].size = -1
  <2>1. r = Front1
    BY <1>5, <1>7, <1>8, <1>10
  <2>2. q >= Front1 + 1
    BY <1>0, <1>10, <2>1
  <2> QED
    BY <1>9, <2>2
<1> QED
  BY <1>0, <1>6, <1>8, <1>9, <1>10 DEF Sizes

\* The queue of the source and what is next are as they were.
LEMMA FrontSame ==
  ASSUME Typed, FifoInv, next' = next, cli'[src].fifo = cli[src].fifo
  PROVE  Front1' >= Front1 /\ Front1' = Front1 /\ Front1' \in Nat
<1>1. Front1' = Front1
  BY DEF Front1
<1> QED
  BY <1>1, FifoLocal

LEMMA SizesSame ==
  ASSUME Typed, FifoInv, Sizes, next' = next, cli'[src].fifo = cli[src].fifo, cli'[src].to = cli[src].to,
         Silent => Silent',
         \A m \in Msg : /\ body'[m].size = body[m].size /\ body'[m].err = body[m].err
                        /\ body'[m].shut = body[m].shut
  PROVE  Sizes'
<1>1. \A m \in Msg : body'[m].size = body[m].size /\ FailsLate(m)
  BY DEF FailsLate
<1> QED
  BY <1>1, FrontSame, SizesStay

\* The destination reads no body.
LEMMA SizesElsewhere ==
  ASSUME Typed, FifoInv, Sizes, Silent => Silent', cli[src].closed => cli'[src].closed,
         Begun(dst) \/ Announced(dst) \/ Received(dst) \/ Completed(dst) \/ Broken(dst) \/ Cleared(dst)
  PROVE  Sizes'
<1>1. cli[dst].fifo = <<>> /\ cli[dst].to = None
  BY DEF FifoInv
<1>2. next' = next /\ cli'[src].fifo = cli[src].fifo /\ cli'[src].to = cli[src].to
  BY Constants DEF Begun, Announced, Received, Completed, Broken, Cleared, Others, SameReader
<1>3. \A m \in Msg : body'[m] = body[m]
  <2>1. CASE Cleared(dst)
    <3>1. ToSet(cli[dst].fifo) = {}
      BY <1>1 DEF ToSet
    <3> QED
      BY <2>1, <3>1 DEF Cleared
  <2> QED
    BY <1>1, <2>1 DEF Begun, Announced, Received, Completed, Broken
<1> QED
  BY <1>2, <1>3, Constants, SizesSame

LEMMA SizesRead ==
  ASSUME Typed, FifoInv, Sizes, Silent => Silent', cli[src].closed => cli'[src].closed,
         Begun(src) \/ Announced(src) \/ Received(src) \/ Completed(src) \/ Broken(src) \/ Cleared(src)
  PROVE  Sizes'
<1>0. /\ body \in [Msg -> Handles] /\ cli[src].to \in Msg \union {None} /\ cli[src].fifo \in Seq(Msg)
  BY Local, Constants DEF Typed, BodiesTyped, Clients
<1>1. CASE Begun(src)
  <2>1. next' = next /\ body' = body /\ cli'[src].fifo = cli[src].fifo /\ cli'[src].to = cli[src].to
    BY <1>1 DEF Begun
  <2> QED
    BY <1>0, <2>1, SizesSame
<1>2. CASE Announced(src)
  <2>1. CASE cli[src].fifo = <<>>
    <3>1. next' = next /\ body' = body /\ cli'[src].fifo = cli[src].fifo /\ cli'[src].to = None
      BY <1>2, <2>1 DEF Announced
    <3>2. \A m \in Msg : body'[m].size = body[m].size /\ FailsLate(m)
      BY <3>1 DEF FailsLate
    <3> QED
      BY <1>0, <3>1, <3>2, FrontSame, SizesStay
  <2> QED
    BY <1>2, <2>1, SizesAnnounced
<1>3. CASE Received(src)
  <2>1. next' = next /\ cli'[src].fifo = cli[src].fifo /\ cli'[src].to = cli[src].to
    BY <1>3 DEF Received
  <2>2. PICK x : body' = body \/ (body' = [body EXCEPT ![cli[src].to].ch = x] /\ cli[src].to \in Msg)
    BY <1>0, <1>3 DEF Received
  <2>3. \A m \in Msg : /\ body'[m].size = body[m].size /\ body'[m].err = body[m].err
                       /\ body'[m].shut = body[m].shut
    <3>1. CASE body' = [body EXCEPT ![cli[src].to].ch = x] /\ cli[src].to \in Msg
      BY <1>0, <3>1 DEF Handles
    <3> QED
      BY <2>2, <3>1
  <2> QED
    BY <1>0, <2>1, <2>3, SizesSame
<1>4. CASE Completed(src)
  <2>1. next' = next /\ cli'[src].fifo = cli[src].fifo /\ cli'[src].to = None
    BY <1>4 DEF Completed
  <2>2. body' = body \/ (body' = [body EXCEPT ![cli[src].to].shut = TRUE, ![cli[src].to].failed = TRUE] /\ cli[src].to \in Msg)
    BY <1>0, <1>4 DEF Completed
  <2>3. \A m \in Msg : /\ body'[m].size = body[m].size /\ body'[m].err = body[m].err
                       /\ body[m].shut => body'[m].shut
    <3>1. CASE body' = [body EXCEPT ![cli[src].to].shut = TRUE, ![cli[src].to].failed = TRUE] /\ cli[src].to \in Msg
      <4>1. PICK t \in Msg : t = cli[src].to
        BY <3>1
      <4>2. /\ body'[t] = [body[t] EXCEPT !.shut = TRUE, !.failed = TRUE]
            /\ \A m \in Msg \ {t} : body'[m] = body[m]
        BY <1>0, <3>1, <4>1
      <4>3. body'[t].size = body[t].size /\ body'[t].err = body[t].err /\ body'[t].shut
        BY <1>0, <4>2 DEF Handles
      <4> QED
        BY <4>2, <4>3
    <3> QED
      BY <2>2, <3>1
  <2>4. \A m \in Msg : body'[m].size = body[m].size /\ FailsLate(m)
    BY <2>3 DEF FailsLate
  <2> QED
    BY <1>0, <2>1, <2>4, FrontSame, SizesStay
<1>5. CASE Broken(src)
  <2>1. next' = next /\ cli'[src].fifo = cli[src].fifo /\ cli'[src].to = None /\ Silent'
    BY <1>5 DEF Broken, Silent
  <2>2. \A m \in Msg : body'[m] = body[m] \/ (m = cli[src].to /\ body'[m] = Fail(body[m], "lost"))
    BY <1>0, <1>5 DEF Broken
  <2>3. \A m \in Msg : body'[m].size = body[m].size /\ FailsLate(m)
    <3> SUFFICES ASSUME NEW m \in Msg PROVE body'[m].size = body[m].size /\ FailsLate(m)
      OBVIOUS
    <3>1. CASE body'[m] = body[m]
      BY <3>1 DEF FailsLate
    <3>2. CASE m = cli[src].to /\ body'[m] = Fail(body[m], "lost") /\ body[m].failed
      BY <3>2 DEF FailsLate, Fail
    <3>3. CASE m = cli[src].to /\ body'[m] = Fail(body[m], "lost") /\ ~body[m].failed
      <4>1. body'[m] = [body[m] EXCEPT !.failed = TRUE, !.err = "lost", !.shut = TRUE] /\ body[m] \in Handles
        BY <1>0, <3>3 DEF Fail
      <4>2. body'[m].size = body[m].size /\ body'[m].shut
        BY <4>1 DEF Handles
      <4> QED
        BY <2>1, <3>3, <4>2 DEF FailsLate
    <3> QED
      BY <2>2, <3>1, <3>2, <3>3
  <2> QED
    BY <1>0, <2>1, <2>3, FrontSame, SizesStay
<1>6. CASE Cleared(src)
  <2>1. next' = next /\ cli'[src].fifo = <<>> /\ cli'[src].to = cli[src].to /\ Silent'
    BY <1>6 DEF Cleared, Silent
  <2>2. next \in Nat /\ Front1 \in 1..next
    BY FifoLocal
  <2>3. Front1' = next
    BY <2>1, <2>2 DEF Front1
  <2>4. \A m \in Msg : body'[m] = body[m] \/ (m \in ToSet(cli[src].fifo) /\ body'[m] = Fail(body[m], cli[src].why))
    BY <1>6 DEF Cleared
  <2>5. \A m \in Msg : body'[m].size = body[m].size /\ FailsLate(m)
    <3> SUFFICES ASSUME NEW m \in Msg PROVE body'[m].size = body[m].size /\ FailsLate(m)
      OBVIOUS
    <3>1. CASE body'[m] = body[m]
      BY <3>1 DEF FailsLate
    <3>2. CASE body'[m] = Fail(body[m], cli[src].why) /\ body[m].failed
      BY <3>2 DEF FailsLate, Fail
    <3>3. CASE m \in ToSet(cli[src].fifo) /\ body'[m] = Fail(body[m], cli[src].why) /\ ~body[m].failed
      <4>1. body'[m] = [body[m] EXCEPT !.failed = TRUE, !.err = cli[src].why, !.shut = TRUE] /\ body[m] \in Handles
        BY <1>0, <3>3 DEF Fail
      <4>2. body'[m].size = body[m].size /\ body'[m].shut
        BY <4>1 DEF Handles
      <4>3. PICK i \in 1..Len(cli[src].fifo) : m = cli[src].fifo[i]
        BY <1>0, <3>3, FifoLocal DEF ToSet
      <4>4. Front1 + i - 1 \in Front1..(next - 1) /\ m = Rows[Front1 + i - 1]
        BY <4>3, FifoLocal
      <4> QED
        BY <2>1, <4>2, <4>4 DEF FailsLate
    <3> QED
      BY <2>4, <3>1, <3>2, <3>3
  <2>6. Front1' >= Front1 /\ Front1' \in Nat
    BY <2>2, <2>3
  <2> QED
    BY <1>0, <2>1, <2>5, <2>6, SizesStay
<1> QED
  BY <1>1, <1>2, <1>3, <1>4, <1>5, <1>6

\* Before the pass nothing is fetched.
LEMMA UnreadNext ==
  ASSUME Typed, Unread, [Next]_vars
  PROVE  Unread'
<1> USE Constants
<1> SUFFICES ASSUME pc' = "open"
             PROVE  cli'[src].fifo = <<>>
  BY DEF Unread
<1>1. ~Work
  BY DEF Work, Opened, Select, Selected, StartMore, Filled, WaitSize, Begin, Continue, StreamChunk,
     StreamEnds, Finish, Room, SettleOne, ClosePair, LoggedOut, Ended, Leave
<1>2. pc = "open" /\ ~Fetched
  BY <1>1, TimeIs DEF Next, Process, Busy, Drain, Server, Vanish, Kick, vars, worker, Fetched
<1>3. cli[src].fifo = <<>>
  BY <1>2 DEF Unread
<1>4. CASE AllSame \/ \E m \in Msg : Taken(m)
  BY <1>3, <1>4 DEF AllSame, SameReader, Taken
<1>5. ASSUME NEW k \in Conn, Begun(k) \/ Announced(k) \/ Received(k) \/ Completed(k) \/ Broken(k) \/ Cleared(k)
      PROVE  cli'[src].fifo = <<>>
  <2>1. CASE k = src
    BY <1>3, <1>5, <2>1 DEF Begun, Announced, Received, Completed, Broken, Cleared
  <2>2. CASE k # src
    BY <1>3, <1>5, <2>2 DEF Begun, Announced, Received, Completed, Broken, Cleared, Others, SameReader
  <2> QED
    BY <2>1, <2>2
<1> QED
  BY <1>2, <1>4, <1>5, BodySteps

\* A reader that has fallen silent stays so.
LEMMA SilentStays ==
  ASSUME Typed, CodingInv, Unread, [Next]_vars, Running', Silent
  PROVE  Silent'
<1> USE Constants
<1>1. cli'[src].closed
  BY Moves, ClosedStays DEF CodingInv, Silent
<1>2. ~Fetched
  BY DEF Fetched, Running, Silent
<1>3. CASE AllSame \/ \E m \in Msg : Taken(m)
  BY <1>1, <1>3 DEF AllSame, SameReader, Taken, Silent
<1>4. ASSUME NEW k \in Conn, Begun(k) \/ Announced(k) \/ Received(k) \/ Completed(k) \/ Broken(k) \/ Cleared(k)
      PROVE  Silent'
  <2>1. CASE k # src
    BY <1>1, <1>4, <2>1 DEF Begun, Announced, Received, Completed, Broken, Cleared, Others, SameReader, Silent
  <2>2. CASE k = src /\ Begun(k)
    <3>1. pc = "open"
      BY <2>2 DEF Begun, CodingInv, OpenFirst
    <3> QED
      BY <1>1, <2>2, <3>1 DEF Begun, Unread, Silent
  <2>3. CASE k = src /\ (Announced(k) \/ Received(k) \/ Completed(k))
    <3>1. cli[src].fifo = <<>>
      BY <2>3 DEF Announced, Received, Completed, Silent
    <3>2. cli'[src].fifo = <<>>
      BY <2>3, <3>1 DEF Announced, Received, Completed
    <3> QED
      BY <1>1, <3>2 DEF Silent
  <2>4. CASE k = src /\ (Broken(k) \/ Cleared(k))
    BY <1>1, <2>4 DEF Broken, Cleared, Silent
  <2> QED
    BY <1>4, <2>1, <2>2, <2>3, <2>4
<1> QED
  BY <1>2, <1>3, <1>4, BodySteps

\* Sizes are announced in the order of the rows; nothing is after a broken body.
LEMMA SizesNext ==
  ASSUME Typed, CodingInv, FifoInv, Unread, Sizes, [Next]_vars, Running'
  PROVE  Sizes'
<1> USE Constants
<1>1. /\ cli[src].closed => cli'[src].closed
      /\ Silent => Silent'
  BY Moves, ClosedStays, SilentStays DEF CodingInv
<1>2. CASE next' = next /\ body' = body /\ AllSame
  BY <1>1, <1>2, SizesSame DEF AllSame, SameReader
<1>3. CASE Fetched
  BY <1>3, SizesFetched
<1>4. ASSUME NEW m \in Msg, Taken(m)
      PROVE  Sizes'
  <2>1. next' = next /\ AllSame /\ \E x : body' = [body EXCEPT ![m].ch = x]
    BY <1>4 DEF Taken, Typed, BodiesTyped
  <2>2. \A n \in Msg : /\ body'[n].size = body[n].size /\ body'[n].err = body[n].err
                       /\ body'[n].shut = body[n].shut
    BY <2>1 DEF Typed, BodiesTyped, Handles
  <2> QED
    BY <1>1, <2>1, <2>2, SizesSame DEF AllSame, SameReader
<1>5. ASSUME NEW k \in Conn, Begun(k) \/ Announced(k) \/ Received(k) \/ Completed(k) \/ Broken(k) \/ Cleared(k)
      PROVE  Sizes'
  <2>1. CASE k = src
    BY <1>1, <1>5, <2>1, SizesRead
  <2>2. CASE k = dst
    BY <1>1, <1>5, <2>2, SizesElsewhere
  <2> QED
    BY <2>1, <2>2
<1> QED
  BY <1>2, <1>3, <1>4, <1>5, BodySteps

-----------------------------------------------------------------------------
(* What a body holds *)

\* Nobody but its reader can tell.
LEMMA HeldSame ==
  ASSUME NEW m \in Msg, NEW y, Held(m, y),
         \/ body'[m] = body[m]
         \/ /\ body'[m].size = body[m].size /\ body'[m].ch = body[m].ch
            /\ body'[m].shut /\ body'[m].err # "none",
         cli'[src].to = m => cli[src].to = m /\ cli'[src].left = cli[src].left
  PROVE  Held(m, y)'
  BY DEF Held

LEMMA FailsWell ==
  ASSUME NEW b \in Handles, NEW why \in Causes \ {"none"}
  PROVE  LET f == Fail(b, why)
         IN f = b \/ (f.size = b.size /\ f.ch = b.ch /\ f.shut /\ f.err # "none")
<1>1. CASE b.failed
  BY <1>1 DEF Fail
<1>2. CASE ~b.failed
  <2>1. Fail(b, why) = [b EXCEPT !.failed = TRUE, !.err = why, !.shut = TRUE]
    BY <1>2 DEF Fail
  <2>2. [b EXCEPT !.failed = TRUE, !.err = why, !.shut = TRUE].size = b.size
        /\ [b EXCEPT !.failed = TRUE, !.err = why, !.shut = TRUE].ch = b.ch
        /\ [b EXCEPT !.failed = TRUE, !.err = why, !.shut = TRUE].shut
        /\ [b EXCEPT !.failed = TRUE, !.err = why, !.shut = TRUE].err = why
    BY DEF Handles
  <2> QED
    BY <2>1, <2>2
<1> QED
  BY <1>1, <1>2

\* A body is taken up by the reader: that of the row it was fetched for.
LEMMA HeldAnnounced ==
  ASSUME Typed, FifoInv, Inflow, Running, Announced(src), cli[src].fifo # <<>>, NEW m \in Msg, NEW y \in Nat, Held(m, y)
  PROVE  Held(m, y)'
<1>0. /\ next \in Nat /\ Front1 \in 1..next /\ Rows \in [1..Len(Rows) -> Msg]
      /\ cli[src].fifo \in Seq(Msg) /\ Front1 = next - Len(cli[src].fifo)
      /\ down[src] \in Seq(Replies) /\ body \in [Msg -> Handles]
  BY FifoLocal, Constants, Local DEF Typed, BodiesTyped
<1>i. ChunkInv /\ InOrder(down[src], Front1, next - 1) /\ Sizes
  BY DEF Inflow, Attending, Listening, OrderInv
<1>1. /\ Len(cli[src].fifo) \in Nat /\ Len(cli[src].fifo) >= 1
      /\ Head(cli[src].fifo) = cli[src].fifo[1]
  BY <1>0, SeqTail
<1>2. cli[src].fifo[1] = Rows[Front1] /\ Front1 \in 1..(next - 1) /\ ~body[Rows[Front1]].shut
      /\ Rows[Front1] \in Msg
  <2>1. 1 \in 1..Len(cli[src].fifo) /\ DOMAIN cli[src].fifo = 1..Len(cli[src].fifo)
    BY <1>1, FifoLocal
  <2>2. cli[src].fifo[1] = Rows[Front1 + 1 - 1]
    BY <2>1, FifoLocal
  <2>3. Front1 + 1 - 1 = Front1 /\ Front1 \in 1..(next - 1)
    BY <1>0, <1>1
  <2>4. ~Gone
    BY DEF Gone
  <2>5. ~body[cli[src].fifo[1]].shut
    BY <2>1, <2>4 DEF FifoInv
  <2>6. cli[src].fifo[1] \in Msg
    BY <1>0, <2>1
  <2> QED
    BY <2>2, <2>3, <2>5, <2>6
<1>3. PICK n : n = Head(down[src]).part
  OBVIOUS
<1>4. n = Size[Rows[Front1]] /\ n \in Nat
  <2>1. down[src] # <<>> /\ Head(down[src]).kind = "BODY"
    BY DEF Announced
  <2>2. BodyAt(down[src], 1, Front1)
    <3>1. Front1 \in Nat \ {0} /\ next - 1 \in Int
      BY <1>0
    <3> QED
      BY <1>0, <1>i, <2>1, <3>1, OrderFirst
  <2>3. Head(down[src]) = down[src][1] /\ 1 \in DOMAIN down[src]
    BY <1>0, <2>1, SeqTail, SeqDomain
  <2>4. Proper(down[src][1])
    BY <1>i, <2>3 DEF ChunkInv, Flowing
  <2>5. n = Size[Rows[Front1]]
    BY <1>3, <2>1, <2>2, <2>3, <2>4 DEF Proper, BodyAt
  <2> QED
    BY <1>2, <2>5, Constants
<1>5. /\ cli'[src].to = Rows[Front1] /\ cli'[src].left = n
      /\ body' = [body EXCEPT ![Rows[Front1]].size = n]
  BY <1>1, <1>2, <1>3 DEF Announced
<1>6. CASE m = Rows[Front1]
  <2>1. body[m].size = -1
    <3>1. Front1 >= Front1
      BY <1>0
    <3> QED
      BY <1>i, <1>2, <1>6, <3>1 DEF Sizes
  <2>2. y = 0 /\ body[m].ch = <<>>
    BY <2>1 DEF Held
  <2>3. body'[m] = [body[m] EXCEPT !.size = n] /\ body[m] \in Handles
    BY <1>0, <1>5, <1>6
  <2>4. body'[m].size = n /\ body'[m].ch = <<>> /\ ~body'[m].shut
    BY <1>2, <1>6, <2>2, <2>3 DEF Handles
  <2> HIDE <1>5, <2>3
  <2>5. n # -1 /\ 0 + 0 <= n /\ 0 + 0 = n - n
    BY <1>4
  <2>6. Len(body'[m].ch) = 0 /\ DOMAIN body'[m].ch = {}
    BY <2>4
  <2>7. cli'[src].left = n
    BY <1>5
  <2> QED
    BY <1>4, <1>6, <2>2, <2>4, <2>5, <2>6, <2>7 DEF Held
<1>7. CASE m # Rows[Front1]
  <2>1. body'[m] = body[m] /\ cli'[src].to # m
    BY <1>0, <1>5, <1>7
  <2> QED
    BY <2>1, HeldSame
<1> QED
  BY <1>6, <1>7

\* A chunk comes for it: the next one.
LEMMA HeldReceived ==
  ASSUME Typed, FifoInv, Inflow, Running, Received(src), NEW m \in Msg, NEW y \in Nat, Held(m, y)
  PROVE  Held(m, y)'
<1>0. body \in [Msg -> Handles] /\ Size[m] \in Nat /\ cli[src] \in Clients
  BY Constants, Local DEF Typed, BodiesTyped
<1>1. CASE cli[src].to # m
  <2>1. cli'[src].to # m /\ body'[m] = body[m]
    BY <1>0, <1>1 DEF Received
  <2> QED
    BY <2>1, HeldSame
<1>2. CASE cli[src].to = m
  <2>1. PICK l \in Int : l = cli[src].left
    BY <1>0 DEF Clients
  <2>2. PICK c \in Seq(Chunks) : c = body[m].ch
    BY <1>0 DEF Handles
  <2>3. Len(c) \in Nat /\ DOMAIN c = 1..Len(c)
    BY <2>2
  <2>4. /\ body[m].size = Size[m] /\ y + Len(c) = Size[m] - l /\ l > 0 /\ y + Len(c) <= Size[m]
        /\ \A j \in 1..Len(c) : c[j] = <<m, y + j>>
    BY <1>2, <2>1, <2>2, <2>3 DEF Held, Received
  <2>5. ~body[m].shut
    BY <1>2, Constants DEF FifoInv, Gone
  <2>6. PICK x : x = <<Head(down[src]).msg, Head(down[src]).part>>
    OBVIOUS
  <2>7. x = <<m, Size[m] - l + 1>>
    <3>1. Midst /\ down[src] # <<>>
      BY DEF Received, Midst
    <3>2. down[src] \in Seq(Replies) /\ Head(down[src]) = down[src][1]
      BY <3>1, Local, Constants, SeqTail
    <3>i. ChunkInv
      BY <1>2, Constants DEF Inflow, Attending
    <3>3. IsChunk(down[src][1], m, Size[m] - l + 1)
      BY <1>2, <2>1, <3>1, <3>i DEF ChunkInv
    <3> QED
      BY <2>6, <3>2, <3>3 DEF IsChunk
  <2>8. /\ cli'[src].to = m /\ cli'[src].left = l - 1
        /\ body' = [body EXCEPT ![m].ch = Append(c, x)]
    BY <1>2, <2>1, <2>2, <2>6, Constants DEF Received
  <2>9. /\ body'[m].size = Size[m] /\ body'[m].ch = Append(c, x) /\ ~body'[m].shut
    BY <1>0, <2>4, <2>5, <2>8 DEF Handles
  <2>10. x \in Chunks
    BY <1>0, <2>1, <2>7 DEF Chunks
  <2>11. /\ Len(Append(c, x)) = Len(c) + 1 /\ DOMAIN Append(c, x) = 1..(Len(c) + 1)
         /\ \A j \in 1..Len(c) : Append(c, x)[j] = c[j]
         /\ Append(c, x)[Len(c) + 1] = x
    BY <2>10, SeqAppend
  <2>12. \A j \in DOMAIN Append(c, x) : Append(c, x)[j] = <<m, y + j>>
    <3> SUFFICES ASSUME NEW j \in 1..(Len(c) + 1) PROVE Append(c, x)[j] = <<m, y + j>>
      BY <2>11
    <3>1. CASE j \in 1..Len(c)
      BY <2>4, <2>11, <3>1
    <3>2. CASE j = Len(c) + 1
      <4>1. y + j = Size[m] - l + 1
        BY <1>0, <2>1, <2>3, <2>4, <3>2
      <4> QED
        BY <2>7, <2>11, <3>2, <4>1
    <3> QED
      BY <2>3, <3>1, <3>2
  <2>13. Size[m] # -1 /\ y + (Len(c) + 1) <= Size[m] /\ y + (Len(c) + 1) = Size[m] - (l - 1)
    <3>1. PICK s \in Nat : s = Size[m]
      BY <1>0
    <3>2. PICK n \in Nat : n = Len(c)
      BY <2>3
    <3>3. y + n = s - l /\ l > 0
      BY <2>4, <3>1, <3>2
    <3>4. s # -1 /\ y + (n + 1) <= s /\ y + (n + 1) = s - (l - 1)
      BY <3>3
    <3> QED
      BY <3>1, <3>2, <3>4
  <2> HIDE <2>1, <2>2
  <2> QED
    BY <2>8, <2>9, <2>11, <2>12, <2>13 DEF Held
<1> QED
  BY <1>1, <1>2

\* It is complete.
LEMMA HeldCompleted ==
  ASSUME Typed, FifoInv, Completed(src), NEW m \in Msg, NEW y \in Nat, Held(m, y)
  PROVE  Held(m, y)'
<1>0. body \in [Msg -> Handles] /\ Size[m] \in Nat /\ None \notin Msg
  BY Constants DEF Typed, BodiesTyped
<1>1. cli'[src].to # m
  BY <1>0 DEF Completed
<1>2. CASE cli[src].to # m
  <2>1. body'[m] = body[m]
    BY <1>0, <1>2 DEF Completed
  <2> QED
    BY <1>1, <2>1, HeldSame
<1>3. CASE cli[src].to = m
  <2>1. y + Len(body[m].ch) = Size[m]
    BY <1>0, <1>3 DEF Held, Completed
  <2>2. body' = [body EXCEPT ![m].shut = TRUE, ![m].failed = TRUE]
    BY <1>0, <1>3 DEF Completed
  <2>3. body'[m].size = body[m].size /\ body'[m].ch = body[m].ch /\ body'[m].err = body[m].err
    BY <1>0, <2>2 DEF Handles
  <2> QED
    BY <1>1, <2>1, <2>3 DEF Held
<1> QED
  BY <1>2, <1>3

LEMMA HeldBroken ==
  ASSUME Typed, Broken(src), NEW m \in Msg, NEW y \in Nat, Held(m, y)
  PROVE  Held(m, y)'
<1>0. body \in [Msg -> Handles] /\ body[m] \in Handles /\ None \notin Msg
  BY Constants DEF Typed, BodiesTyped
<1>1. cli'[src].to # m
  BY <1>0 DEF Broken
<1>2. body'[m] = body[m] \/ body'[m] = Fail(body[m], "lost")
  BY <1>0 DEF Broken
<1>3. LET f == Fail(body[m], "lost")
      IN f = body[m] \/ (f.size = body[m].size /\ f.ch = body[m].ch /\ f.shut /\ f.err # "none")
  BY <1>0, FailsWell DEF Causes
<1> QED
  BY <1>1, <1>2, <1>3, HeldSame

LEMMA HeldCleared ==
  ASSUME Typed, WhyInv, Cleared(src), NEW m \in Msg, NEW y \in Nat, Held(m, y)
  PROVE  Held(m, y)'
<1>0. body[m] \in Handles /\ cli[src].why \in Causes \ {"none"}
  BY Constants, Local DEF Typed, BodiesTyped, WhyInv, Cleared
<1>1. cli'[src].to = cli[src].to /\ cli'[src].left = cli[src].left
  BY DEF Cleared
<1>2. body'[m] = body[m] \/ body'[m] = Fail(body[m], cli[src].why)
  BY DEF Cleared
<1>3. LET f == Fail(body[m], cli[src].why)
      IN f = body[m] \/ (f.size = body[m].size /\ f.ch = body[m].ch /\ f.shut /\ f.err # "none")
  BY <1>0, FailsWell
<1> QED
  BY <1>1, <1>2, <1>3, HeldSame

\* A row that is fetched has an empty handle, which may have failed at once.
LEMMA HeldFetched ==
  ASSUME Typed, FifoInv, WhyInv, Fetched
  PROVE  /\ \A m \in Msg : m = Rows[next] => Held(m, 0)'
         /\ \A m \in Msg \ {Rows[next]}, y \in Nat : Held(m, y) => Held(m, y)'
<1>0. /\ body \in [Msg -> Handles] /\ next \in 1..Len(Rows) /\ Rows[next] \in Msg
      /\ Size[Rows[next]] \in Nat /\ Len(Rows) \in Nat
  <2>1. Len(Rows) \in Nat /\ next \in 1..(Len(Rows) + 1) /\ next <= Len(Rows) /\ body \in [Msg -> Handles]
    BY Constants DEF Typed, BodiesTyped, WorkerTyped, Fetched, WantsMore
  <2>2. next \in 1..Len(Rows)
    BY <2>1
  <2>3. Rows[next] \in Msg
    BY <2>2, Constants
  <2> QED
    BY <2>1, <2>2, <2>3, Constants
<1>1. cli'[src].to = cli[src].to /\ cli'[src].left = cli[src].left
  BY DEF Fetched
<1>2. PICK h : body' = [body EXCEPT ![Rows[next]] = h] /\ h.size = -1 /\ h.ch = <<>>
               /\ (h.shut => h.err # "none")
  <2>1. NewHandle.size = -1 /\ NewHandle.ch = <<>> /\ ~NewHandle.shut /\ NewHandle \in Handles
    BY DEF NewHandle, Handles, Causes
  <2>2. CASE ~cli[src].closed
    BY <2>1, <2>2 DEF Fetched
  <2>3. CASE cli[src].closed
    <3>1. cli[src].why \in Causes \ {"none"}
      BY <2>3, Constants, Local DEF WhyInv
    <3>2. LET f == Fail(NewHandle, cli[src].why)
          IN f = NewHandle \/ (f.size = NewHandle.size /\ f.ch = NewHandle.ch /\ f.shut /\ f.err # "none")
      BY <2>1, <3>1, FailsWell
    <3> QED
      BY <2>1, <2>3, <3>2 DEF Fetched
  <2> QED
    BY <2>2, <2>3
<1>3. body'[Rows[next]] = h /\ \A m \in Msg \ {Rows[next]} : body'[m] = body[m]
  BY <1>0, <1>2
<1>4. cli'[src].to # Rows[next]
  <2>1. CASE cli[src].to # None
    <3>1. next # Len(Rows) + 1
      BY <1>0
    <3> QED
      BY <1>1, <2>1, <3>1, ReadApart
  <2>2. CASE cli[src].to = None
    BY <1>0, <1>1, <2>2, Constants
  <2> QED
    BY <2>1, <2>2
<1>5. ASSUME NEW m \in Msg, m = Rows[next]
      PROVE  Held(m, 0)'
  <2>1. h.ch = <<>> /\ DOMAIN h.ch = {} /\ Len(h.ch) = 0
    BY <1>2
  <2>2. PICK b : b = body'[Rows[next]]
    OBVIOUS
  <2>3. b.size = -1 /\ b.ch = <<>> /\ Len(b.ch) = 0 /\ DOMAIN b.ch = {} /\ (b.shut => b.err # "none")
    BY <1>2, <1>3, <2>1, <2>2
  <2>4. /\ 0 + Len(b.ch) <= Size[m] /\ b.size \in {-1, Size[m]}
        /\ \A j \in DOMAIN b.ch : b.ch[j] = <<m, 0 + j>>
    BY <1>0, <1>5, <2>3
  <2> QED
    BY <1>4, <1>5, <2>2, <2>3, <2>4 DEF Held
<1>6. \A m \in Msg \ {Rows[next]}, y \in Nat : Held(m, y) => Held(m, y)'
  BY <1>1, <1>3, HeldSame
<1> QED
  BY <1>5, <1>6

\* The next chunk is taken.
LEMMA HeldTaken ==
  ASSUME Typed, NEW m \in Msg, Taken(m), NEW y \in Nat, Held(m, y)
  PROVE  /\ Head(body[m].ch) = <<m, y + 1>> /\ y + 1 \in 0..Size[m]
         /\ Held(m, y + 1)'
<1>0. body \in [Msg -> Handles] /\ Size[m] \in Nat /\ body[m].ch # <<>>
  BY Constants DEF Typed, BodiesTyped, Taken
<1>1. PICK c \in Seq(Chunks) : c = body[m].ch
  BY <1>0 DEF Handles
<1>2. PICK n \in Nat \ {0} : /\ n = Len(c) /\ DOMAIN c = 1..n /\ Head(c) = c[1]
                             /\ DOMAIN Tail(c) = 1..(n - 1) /\ Len(Tail(c)) = n - 1
                             /\ \A i \in 1..(n - 1) : Tail(c)[i] = c[i + 1]
  <2>1. DOMAIN c = 1..Len(c)
    BY <1>1, SeqDomain
  <2> QED
    BY <1>0, <1>1, <2>1, SeqTail
<1>3. /\ body[m].size \in {-1, Size[m]} /\ body[m].size # -1 /\ y + n <= Size[m]
      /\ \A j \in 1..n : c[j] = <<m, y + j>>
  BY <1>0, <1>1, <1>2 DEF Held
<1>4. /\ body' = [body EXCEPT ![m].ch = Tail(c)]
      /\ cli'[src].to = cli[src].to /\ cli'[src].left = cli[src].left
  BY <1>1, Constants DEF Taken, AllSame, SameReader
<1>5. PICK b : b = body'[m]
  OBVIOUS
<1>6. b.ch = Tail(c) /\ b.size = body[m].size /\ b.shut = body[m].shut /\ b.err = body[m].err
  BY <1>0, <1>4, <1>5 DEF Handles
<1>7. Head(c) = <<m, y + 1>>
  BY <1>2, <1>3
<1>8. \A j \in 1..(n - 1) : Tail(c)[j] = <<m, (y + 1) + j>>
  <2> SUFFICES ASSUME NEW j \in 1..(n - 1) PROVE Tail(c)[j] = <<m, (y + 1) + j>>
    OBVIOUS
  <2>1. j + 1 \in 1..n /\ y + (j + 1) = (y + 1) + j
    OBVIOUS
  <2> QED
    BY <1>2, <1>3, <2>1
<1>9. PICK s \in Nat : s = Size[m]
  BY <1>0
<1>10. y + 1 \in 0..s /\ (y + 1) + (n - 1) = y + n /\ y + n <= s
  <2>1. y + n <= s
    BY <1>3, <1>9
  <2> HIDE <1>9
  <2> QED
    BY <2>1
<1>11. /\ cli[src].to = m => y + n = Size[m] - cli[src].left
       /\ body[m].shut /\ body[m].err = "none" => y + n = Size[m]
  BY <1>1, <1>2 DEF Held
<1> HIDE <1>4
<1>12. Held(m, y + 1)'
  <2>1. /\ b.size \in {-1, Size[m]} /\ b.size # -1
        /\ (y + 1) + Len(b.ch) <= Size[m]
        /\ \A j \in DOMAIN b.ch : b.ch[j] = <<m, (y + 1) + j>>
    BY <1>2, <1>3, <1>6, <1>8, <1>9, <1>10
  <2>2. b.shut /\ b.err = "none" => (y + 1) + Len(b.ch) = Size[m]
    BY <1>2, <1>6, <1>10, <1>11
  <2>3. cli'[src].to = m => (y + 1) + Len(b.ch) = Size[m] - cli'[src].left
    BY <1>2, <1>4, <1>6, <1>10, <1>11
  <2> QED
    BY <1>5, <2>1, <2>2, <2>3 DEF Held
<1> QED
  BY <1>1, <1>7, <1>9, <1>10, <1>12

\* Every other step leaves a body with what it holds, and adds what comes next.
LEMMA HeldStays ==
  ASSUME Typed, CodingInv, FifoInv, WhyInv, Inflow, Running, [Next]_vars,
         NEW m \in Msg, ~Taken(m), Fetched => m # Rows[next], NEW y \in Nat, Held(m, y)
  PROVE  Held(m, y)'
<1> USE Constants
<1>1. CASE next' = next /\ body' = body /\ AllSame
  BY <1>1, HeldSame DEF AllSame, SameReader
<1>2. CASE Fetched
  BY <1>2, HeldFetched
<1>3. ASSUME NEW n \in Msg, Taken(n)
      PROVE  Held(m, y)'
  <2>1. body'[m] = body[m]
    BY <1>3 DEF Taken, Typed, BodiesTyped
  <2>2. cli'[src].to = cli[src].to /\ cli'[src].left = cli[src].left
    BY <1>3 DEF Taken, AllSame, SameReader
  <2> QED
    BY <2>1, <2>2, HeldSame
<1>4. CASE Begun(dst) \/ Announced(dst) \/ Received(dst) \/ Completed(dst) \/ Broken(dst) \/ Cleared(dst)
  <2>1. cli[dst].fifo = <<>> /\ cli[dst].to = None
    BY DEF FifoInv
  <2>2. cli'[src].to = cli[src].to /\ cli'[src].left = cli[src].left
    BY <1>4 DEF Begun, Announced, Received, Completed, Broken, Cleared, Others, SameReader
  <2>3. body'[m] = body[m]
    <3>1. CASE Cleared(dst)
      <4>1. ToSet(cli[dst].fifo) = {}
        BY <2>1 DEF ToSet
      <4> QED
        BY <3>1, <4>1 DEF Cleared
    <3> QED
      BY <1>4, <2>1, <3>1 DEF Begun, Announced, Received, Completed, Broken
  <2> QED
    BY <2>2, <2>3, HeldSame
<1>5. CASE Begun(src)
  BY <1>5, HeldSame DEF Begun
<1>6. CASE Announced(src)
  <2>1. CASE cli[src].fifo = <<>>
    <3>1. body' = body /\ cli'[src].to = None
      BY <1>6, <2>1 DEF Announced
    <3> QED
      BY <3>1, HeldSame
  <2>2. CASE cli[src].fifo # <<>>
    BY <1>6, <2>2, HeldAnnounced
  <2> QED
    BY <2>1, <2>2
<1> QED
  BY <1>1, <1>2, <1>3, <1>4, <1>5, <1>6, BodySteps, HeldReceived, HeldCompleted, HeldBroken, HeldCleared

\* What is shut gets no more chunks, a size does not change, and none is announced
\* by a reader that is silent.
LEMMA BodyKeeps ==
  ASSUME Typed, CodingInv, FifoInv, Inflow, Running, [Next]_vars,
         NEW m \in Msg, ~Taken(m), Fetched => m # Rows[next]
  PROVE  /\ body[m].shut => body'[m].shut /\ body'[m].ch = body[m].ch
         /\ body[m].size # -1 => body'[m].size = body[m].size
         /\ Silent => body'[m].size = body[m].size
<1> DEFINE Same == body'[m].shut = body[m].shut /\ body'[m].ch = body[m].ch /\ body'[m].size = body[m].size
           Goal == /\ body[m].shut => body'[m].shut /\ body'[m].ch = body[m].ch
                   /\ body[m].size # -1 => body'[m].size = body[m].size
                   /\ Silent => body'[m].size = body[m].size
<1> SUFFICES Goal
  OBVIOUS
<1>0. body \in [Msg -> Handles] /\ body[m] \in Handles /\ cli[src] \in Clients /\ None \notin Msg
      /\ src \in Conn /\ dst \in Conn /\ Conn = {src, dst}
  BY Constants, Local DEF Typed, BodiesTyped
<1>s. body'[m] = body[m] => Goal
  OBVIOUS
<1>1. CASE Fetched
  <2>1. body'[m] = body[m]
    BY <1>0, <1>1 DEF Fetched
  <2> QED
    BY <1>s, <2>1
<1>2. ASSUME NEW n \in Msg, Taken(n)
      PROVE  Goal
  <2>1. n # m
    BY <1>2
  <2>2. body'[m] = body[m]
    BY <1>0, <1>2, <2>1 DEF Taken
  <2> QED
    BY <1>s, <2>2
<1>3. CASE Begun(dst) \/ Announced(dst) \/ Received(dst) \/ Completed(dst) \/ Broken(dst) \/ Cleared(dst)
  <2>1. cli[dst].fifo = <<>> /\ cli[dst].to = None
    BY DEF FifoInv
  <2>2. body'[m] = body[m]
    <3>1. CASE Cleared(dst)
      <4>1. ToSet(cli[dst].fifo) = {}
        BY <2>1 DEF ToSet
      <4> QED
        BY <3>1, <4>1 DEF Cleared
    <3> QED
      BY <1>3, <2>1, <3>1 DEF Begun, Announced, Received, Completed, Broken
  <2> QED
    BY <1>s, <2>2
<1>4. CASE Announced(src)
  <2>2. CASE cli[src].fifo = <<>>
    BY <1>4, <1>s, <2>2 DEF Announced
  <2>3. CASE cli[src].fifo # <<>>
    <3>s. ~Silent
      BY <1>4, <2>3 DEF Announced, Silent
    <3>0. PICK f \in Msg : f = Head(cli[src].fifo)
      <4>1. cli[src].fifo \in Seq(Msg)
        BY <1>0 DEF Clients
      <4> QED
        BY <2>3, <4>1, SeqTail
    <3>1. PICK n : f = Head(cli[src].fifo) /\ body' = [body EXCEPT ![f].size = n]
      BY <1>4, <2>3, <3>0 DEF Announced
    <3>2. body[f].size = -1
      <4>0. cli[src].fifo \in Seq(Msg) /\ Len(cli[src].fifo) \in Nat /\ Front1 = next - Len(cli[src].fifo) /\ next \in Nat
        BY FifoLocal
      <4>1. 1 \in 1..Len(cli[src].fifo) /\ f = cli[src].fifo[1]
        BY <2>3, <3>1, <4>0, SeqTail
      <4>2. f = Rows[Front1 + 1 - 1] /\ Front1 + 1 - 1 \in Front1..(next - 1) /\ Front1 \in Nat /\ Front1 \in 1..next
        BY <4>1, FifoLocal
      <4>3. f = Rows[Front1] /\ Front1 \in 1..(next - 1) /\ Front1 >= Front1
        BY <4>0, <4>2
      <4> QED
        BY <4>3 DEF Inflow, Sizes
    <3>3. CASE f # m
      <4>1. body'[m] = body[m]
        BY <1>0, <3>1, <3>3
      <4> QED
        BY <1>s, <4>1
    <3>4. CASE f = m
      <4>1. body'[m].shut = body[m].shut /\ body'[m].ch = body[m].ch
        BY <1>0, <3>1, <3>4 DEF Handles
      <4> QED
        BY <3>s, <3>2, <3>4, <4>1
    <3> QED
      BY <3>3, <3>4
  <2> QED
    BY <2>2, <2>3
<1>5. CASE Received(src)
  <2>1. CASE cli[src].to # m
    <3>1. body'[m] = body[m]
      BY <1>0, <1>5, <2>1 DEF Received
    <3> QED
      BY <1>s, <3>1
  <2>2. CASE cli[src].to = m
    <3>1. PICK x : body' = [body EXCEPT ![m].ch = x]
      BY <1>0, <1>5, <2>2 DEF Received
    <3>2. body'[m].size = body[m].size
      BY <1>0, <3>1 DEF Handles
    <3>3. ~body[m].shut
      BY <1>0, <2>2 DEF FifoInv, Gone
    <3> QED
      BY <3>2, <3>3
  <2> QED
    BY <2>1, <2>2
<1>6. CASE Completed(src)
  <2>1. body'[m] = body[m] \/ body' = [body EXCEPT ![m].shut = TRUE, ![m].failed = TRUE]
    BY <1>0, <1>6 DEF Completed
  <2>2. CASE body' = [body EXCEPT ![m].shut = TRUE, ![m].failed = TRUE]
    <3>1. body'[m].shut /\ body'[m].ch = body[m].ch /\ body'[m].size = body[m].size
      BY <1>0, <2>2 DEF Handles
    <3> QED
      BY <3>1
  <2> QED
    BY <1>s, <2>1, <2>2
<1>7. CASE Broken(src) \/ Cleared(src)
  <2>1. body'[m] = body[m] \/ \E why : body'[m] = Fail(body[m], why)
    BY <1>0, <1>7 DEF Broken, Cleared
  <2>2. ASSUME NEW why, body'[m] = Fail(body[m], why)
        PROVE  Goal
    <3>1. CASE body[m].failed
      BY <1>s, <2>2, <3>1 DEF Fail
    <3>2. CASE ~body[m].failed
      <4>1. body'[m] = [body[m] EXCEPT !.failed = TRUE, !.err = why, !.shut = TRUE]
        BY <2>2, <3>2 DEF Fail
      <4>2. body'[m].shut /\ body'[m].ch = body[m].ch /\ body'[m].size = body[m].size
        BY <1>0, <4>1 DEF Handles
      <4> QED
        BY <4>2
    <3> QED
      BY <3>1, <3>2
  <2> QED
    BY <1>s, <2>1, <2>2
<1>8. CASE Begun(src)
  BY <1>8, <1>s DEF Begun
<1>9. CASE body' = body
  BY <1>9, <1>s
<1> HIDE DEF Goal
<1> QED
  BY <1>0, <1>1, <1>2, <1>3, <1>4, <1>5, <1>6, <1>7, <1>8, <1>9, BodySteps

-----------------------------------------------------------------------------
(* The runner and the rows in hand *)

\* What it does to the queue and the item while the pass goes on.
LEMMA QueueWorks ==
  ASSUME Typed, [Next]_vars, Running'
  PROVE  /\ Running /\ pc # "closed"
         /\ \/ fetchQ' = fetchQ /\ item' \in {item, None}
            \/ StartMore /\ fetchQ' = Append(fetchQ, Rows[next]) /\ item' = item
            \/ Filled /\ fetchQ # <<>> /\ fetchQ' = Tail(fetchQ) /\ item' = Head(fetchQ)
         /\ item' # None /\ pc' \notin Copying => pc \notin Copying
         /\ pc' \in Copying \union {"begin"} =>
              \/ pc \in Copying \union {"begin"} /\ item' = item
              \/ WaitSize /\ item' = item /\ body[item].size >= 0
         /\ pc' = "finish" => pc = "finish" \/ StreamEnds
<1>1. CASE UNCHANGED worker
  BY <1>1 DEF worker, Running, Copying
<1>2. CASE Opened \/ Select \/ Selected
  BY <1>2 DEF Opened, Select, Selected, Leave, Running, Copying
<1>3. CASE StartMore
  BY <1>3 DEF StartMore, Leave, Running, Copying
<1>4. CASE Filled
  BY <1>4 DEF Filled, Running, Copying
<1>5. CASE WaitSize
  BY <1>5 DEF WaitSize, Leave, Running, Copying
<1>6. CASE Begin \/ Continue
  BY <1>6 DEF Begin, Continue, Leave, Running, Copying
<1>7. CASE StreamChunk
  BY <1>7 DEF StreamChunk, Leave, Running, Copying
<1>8. CASE StreamEnds
  BY <1>8 DEF StreamEnds, Leave, Running, Copying
<1>9. CASE Finish
  BY <1>9 DEF Finish, Leave, Running, Copying
<1>10. CASE Room
  BY <1>10 DEF Room, Leave, Running, Copying
<1>11. CASE SettleOne
  BY <1>11 DEF SettleOne, Leave, Running, Copying
<1>12. CASE ClosePair \/ LoggedOut \/ Ended
  BY <1>12 DEF ClosePair, LoggedOut, Ended, Running
<1>13. ~Work => UNCHANGED worker
  BY TimeIs DEF Next, Process, Busy, Drain, Server, Vanish, Kick, vars, worker
<1> QED
  BY <1>1, <1>2, <1>3, <1>4, <1>5, <1>6, <1>7, <1>8, <1>9, <1>10, <1>11, <1>12, <1>13 DEF Work

\* The rows that wait in the queue are neither being copied nor fetched again.
LEMMA QueueApart ==
  ASSUME Typed, FifoInv, QueueInv, NEW i \in DOMAIN fetchQ
  PROVE  /\ fetchQ[i] \in Msg /\ fetchQ[i] # item
         /\ next \in 1..Len(Rows) => fetchQ[i] # Rows[next]
<1>0. /\ fetchQ \in Seq(Msg) /\ Len(fetchQ) \in Nat /\ DOMAIN fetchQ = 1..Len(fetchQ)
      /\ next \in Nat /\ Len(Rows) \in Nat /\ next \in 1..(Len(Rows) + 1) /\ None \notin Msg
  BY QueueLocal
<1>1. /\ Next1 \in 1..next /\ Next1 = next - Len(fetchQ) /\ fetchQ[i] = Rows[Next1 + i - 1] /\ fetchQ[i] \in Msg
      /\ item # None => Next1 > 1 /\ item = Rows[Next1 - 1]
  BY <1>0 DEF QueueInv, Next1
<1>2. i \in 1..Len(fetchQ)
  BY <1>0
<1>3. Next1 + i - 1 \in 1..(next - 1) /\ Next1 + i - 1 \in 1..Len(Rows) /\ Next1 - 1 # Next1 + i - 1
  BY <1>0, <1>1, <1>2
<1>4. item # None => Next1 - 1 \in 1..Len(Rows)
  BY <1>0, <1>1
<1>5. PICK r \in 1..Len(Rows) : r = Next1 + i - 1 /\ fetchQ[i] = Rows[r]
  BY <1>1, <1>3
<1>6. fetchQ[i] # item
  <2>1. CASE item # None
    <3>1. PICK q \in 1..Len(Rows) : q = Next1 - 1 /\ item = Rows[q]
      BY <1>1, <1>4, <2>1
    <3>2. q # r
      BY <1>3, <1>5, <3>1
    <3> QED
      BY <1>5, <3>1, <3>2, RowsApart
  <2> QED
    BY <1>0, <1>1, <2>1
<1>7. ASSUME next \in 1..Len(Rows)
      PROVE  fetchQ[i] # Rows[next]
  <2>1. r # next
    BY <1>0, <1>3, <1>5
  <2> QED
    BY <1>5, <1>7, <2>1, RowsApart
<1> QED
  BY <1>1, <1>6, <1>7

LEMMA ItemApart ==
  ASSUME Typed, QueueInv, item # None, next \in 1..Len(Rows)
  PROVE  item # Rows[next]
<1>0. next \in Nat /\ Len(Rows) \in Nat
  BY QueueLocal
<1>1. Next1 \in 1..next /\ Next1 > 1 /\ item = Rows[Next1 - 1]
  BY DEF QueueInv
<1>2. PICK q \in 1..Len(Rows) : q = Next1 - 1 /\ item = Rows[q] /\ q # next
  BY <1>0, <1>1
<1> QED
  BY <1>2, RowsApart

\* Until the pass is left only the runner takes chunks: those of its item.
LEMMA TakenItem ==
  ASSUME QueueInv, Running, NEW m, Taken(m)
  PROVE  StreamChunk /\ m = item /\ pc = "stream"
  BY DEF QueueInv, Taken, StreamChunk

LEMMA HeldNext ==
  ASSUME Typed, CodingInv, FifoInv, WhyInv, Inflow, QueueInv, HeldInv, [Next]_vars
  PROVE  HeldInv'
<1> SUFFICES ASSUME Running'
             PROVE  /\ \A i \in DOMAIN fetchQ' : \A m \in Msg : m = fetchQ'[i] => Held(m, 0)'
                    /\ \A m \in Msg : m = item' /\ pc' \notin Copying => Held(m, 0)'
  <2>1. \A i \in DOMAIN fetchQ' : fetchQ'[i] \in Msg
    BY TypedNext, SeqDomain DEF Typed, WorkerTyped
  <2>2. item' \in Msg \union {None}
    BY TypedNext DEF Typed, WorkerTyped
  <2> SUFFICES ASSUME Running',
                      \A i \in DOMAIN fetchQ' : \A m \in Msg : m = fetchQ'[i] => Held(m, 0)',
                      \A m \in Msg : m = item' /\ pc' \notin Copying => Held(m, 0)'
               PROVE  HeldInv'
    BY DEF HeldInv
  <2>3. \A i \in DOMAIN fetchQ' : (Held(fetchQ[i], 0))'
    <3> SUFFICES ASSUME NEW i \in DOMAIN fetchQ' PROVE (Held(fetchQ[i], 0))'
      OBVIOUS
    <3>1. PICK m \in Msg : m = fetchQ'[i]
      BY <2>1
    <3>2. Held(m, 0)'
      BY <3>1
    <3> QED
      BY <3>1, <3>2 DEF Held
  <2>4. item' # None /\ pc' \notin Copying => (Held(item, 0))'
    <3> SUFFICES ASSUME item' # None, pc' \notin Copying PROVE (Held(item, 0))'
      OBVIOUS
    <3>1. PICK m \in Msg : m = item'
      BY <2>2
    <3>2. Held(m, 0)'
      BY <3>1
    <3> QED
      BY <3>1, <3>2 DEF Held
  <2> QED
    BY <2>3, <2>4 DEF HeldInv
<1>1. Running /\ next \in Nat /\ fetchQ \in Seq(Msg) /\ DOMAIN fetchQ = 1..Len(fetchQ) /\ Len(fetchQ) \in Nat
      /\ None \notin Msg
  BY QueueWorks, QueueLocal
<1>2. Fetched => next \in 1..Len(Rows) /\ pc = "fill"
  <2>1. next \in Nat /\ Len(Rows) \in Nat /\ next \in 1..(Len(Rows) + 1)
    BY QueueLocal
  <2> QED
    BY <2>1 DEF Fetched, WantsMore
<1>3. ASSUME NEW i \in DOMAIN fetchQ, NEW m \in Msg, m = fetchQ[i]
      PROVE  Held(m, 0)'
  <2>1. m # item /\ (next \in 1..Len(Rows) => m # Rows[next])
    BY <1>3, QueueApart
  <2>2. ~Taken(m)
    BY <1>1, <2>1, TakenItem
  <2>3. Held(m, 0)
    BY <1>1, <1>3 DEF HeldInv
  <2> QED
    BY <1>1, <1>2, <2>1, <2>2, <2>3, HeldStays
<1>4. ASSUME NEW m \in Msg, m = item, pc \notin Copying
      PROVE  Held(m, 0)'
  <2>1. ~Taken(m)
    BY <1>1, <1>4, TakenItem DEF Copying
  <2>2. next \in 1..Len(Rows) => m # Rows[next]
    BY <1>1, <1>4, ItemApart
  <2>3. Held(m, 0)
    BY <1>1, <1>4 DEF HeldInv
  <2> QED
    BY <1>1, <1>2, <2>1, <2>2, <2>3, HeldStays
<1>5. CASE fetchQ' = fetchQ /\ item' \in {item, None}
  BY <1>1, <1>3, <1>4, <1>5, QueueWorks
<1>6. CASE StartMore /\ fetchQ' = Append(fetchQ, Rows[next]) /\ item' = item
  <2>0. Fetched /\ pc \notin Copying
    BY <1>2, <1>6, StartMoreFetches DEF Copying
  <2>1. Rows[next] \in Msg
    BY <1>2, <2>0, Constants
  <2>2. /\ DOMAIN fetchQ' = 1..(Len(fetchQ) + 1)
        /\ \A i \in 1..Len(fetchQ) : fetchQ'[i] = fetchQ[i]
        /\ fetchQ'[Len(fetchQ) + 1] = Rows[next]
    BY <1>1, <1>6, <2>1, SeqAppend
  <2>3. ASSUME NEW i \in DOMAIN fetchQ', NEW m \in Msg, m = fetchQ'[i]
        PROVE  Held(m, 0)'
    <3>1. CASE i \in 1..Len(fetchQ)
      BY <1>1, <1>3, <2>2, <2>3, <3>1
    <3>2. CASE i = Len(fetchQ) + 1
      BY <2>0, <2>2, <2>3, <3>2, HeldFetched
    <3> QED
      BY <1>1, <2>2, <3>1, <3>2
  <2> QED
    BY <1>4, <1>6, <2>0, <2>3
<1>7. CASE Filled /\ fetchQ # <<>> /\ fetchQ' = Tail(fetchQ) /\ item' = Head(fetchQ)
  <2>1. /\ DOMAIN fetchQ' = 1..(Len(fetchQ) - 1) /\ \A i \in 1..(Len(fetchQ) - 1) : fetchQ'[i] = fetchQ[i + 1]
        /\ item' = fetchQ[1] /\ 1 \in DOMAIN fetchQ
    BY <1>1, <1>7, SeqTail, SeqDomain
  <2>2. ASSUME NEW i \in DOMAIN fetchQ', NEW m \in Msg, m = fetchQ'[i]
        PROVE  Held(m, 0)'
    <3>1. i + 1 \in DOMAIN fetchQ /\ m = fetchQ[i + 1]
      BY <1>1, <2>1, <2>2
    <3> QED
      BY <1>3, <3>1
  <2> QED
    BY <1>3, <2>1, <2>2
<1> QED
  BY <1>5, <1>6, <1>7, QueueWorks

\* Where an item is copied, its size is known; where it is finished, nothing is left.
LEMMA SizesToldNext ==
  ASSUME Typed, CodingInv, FifoInv, Inflow, SizesTold, QueueInv, [Next]_vars
  PROVE  SizesTold'
<1> SUFFICES ASSUME pc' \in Copying \union {"begin"}
             PROVE  /\ body'[item'].size # -1
                    /\ pc' = "finish" => body'[item'].ch = <<>> /\ body'[item'].shut
  BY DEF SizesTold, Copying
<1>0. Running' /\ Running
  BY QueueWorks DEF Running, Copying
<1>1. CASE pc \in Copying \union {"begin"} /\ item' = item
  <2>1. item \in Msg /\ body[item].size # -1
    BY <1>1 DEF Typed, WorkerTyped, SizesTold, Copying
  <2>2. ~Fetched
    BY <1>1 DEF Fetched, Copying
  <2>3. CASE ~Taken(item)
    <3>1. body'[item].size = body[item].size /\ (body[item].shut => body'[item].shut /\ body'[item].ch = body[item].ch)
      BY <1>0, <2>1, <2>2, <2>3, BodyKeeps
    <3>2. ASSUME pc' = "finish"
          PROVE  body[item].shut /\ body[item].ch = <<>>
      <4>1. CASE pc = "finish"
        BY <4>1 DEF SizesTold
      <4>2. CASE StreamEnds
        BY <3>2, <4>2 DEF StreamEnds, Leave
      <4> QED
        BY <1>0, <3>2, <4>1, <4>2, QueueWorks
    <3> QED
      BY <1>1, <2>1, <3>1, <3>2
  <2>4. CASE Taken(item)
    <3>1. StreamChunk
      BY <1>0, <2>4, TakenItem
    <3>2. pc' # "finish"
      BY <3>1 DEF StreamChunk, Leave
    <3>3. body' = [body EXCEPT ![item].ch = Tail(@)]
      BY <2>4 DEF Taken
    <3>4. body'[item].size = body[item].size
      BY <2>1, <3>3 DEF Typed, BodiesTyped, Handles
    <3> QED
      BY <1>1, <2>1, <3>2, <3>4
  <2> QED
    BY <2>3, <2>4
<1>2. CASE WaitSize /\ item' = item /\ body[item].size >= 0
  <2>1. body' = body /\ pc' # "finish"
    BY <1>2 DEF WaitSize, client, Leave
  <2>2. body[item].size # -1
    BY <1>2
  <2> QED
    BY <1>2, <2>1, <2>2
<1> QED
  BY <1>0, <1>1, <1>2, QueueWorks

-----------------------------------------------------------------------------
(* What the server of the destination reads *)

\* A line, the line of an APPEND, a part of its literal, or what ends it.
EatsLine(s, u, s2) == s.cmd = NoLine /\ u[1].verb # "APPEND" /\ s2.cmd = NoLine /\ s2.got = s.got
EatsAppend(s, u, s2) == s.cmd = NoLine /\ u[1].verb = "APPEND" /\ s2.cmd = u[1] /\ s2.got = <<>>
EatsPart(s, u, s2) ==
  /\ s.cmd # NoLine /\ Len(s.got) < s.cmd.part /\ s2.cmd = s.cmd
  /\ \/ u[1].verb = "DATA" /\ s2.got = Append(s.got, <<u[1].msg, u[1].part>>)
     \/ u[1].verb # "DATA" /\ Len(s.got) + 1 = s.cmd.part /\ s2.got = Append(s.got, Stray)
     \/ u[1].verb # "DATA" /\ s2.got = s.got
EatsEnd(s, u, s2) == s.cmd # NoLine /\ Len(s.got) = s.cmd.part /\ s2.cmd = NoLine /\ s2.got = <<>>
Eats(s, u, s2) == EatsLine(s, u, s2) \/ EatsAppend(s, u, s2) \/ EatsPart(s, u, s2) \/ EatsEnd(s, u, s2)

LEMMA PrefixIs ==
  ASSUME NEW m, NEW y \in Nat
  PROVE  /\ Prefix(m, y) \in Seq({m} \X Nat) /\ Len(Prefix(m, y)) = y
         /\ Append(Prefix(m, y), <<m, y + 1>>) = Prefix(m, y + 1)
         /\ Prefix(m, 0) = <<>>
<1>1. ASSUME NEW n \in Nat
      PROVE  /\ Prefix(m, n) \in Seq({m} \X Nat) /\ Len(Prefix(m, n)) = n /\ DOMAIN Prefix(m, n) = 1..n
             /\ \A i \in 1..n : Prefix(m, n)[i] = <<m, i>>
  BY DEF Prefix
<1>2. <<m, y + 1>> \in {m} \X Nat
  OBVIOUS
<1>3. /\ Prefix(m, y) \in Seq({m} \X Nat) /\ Len(Prefix(m, y)) = y
      /\ \A i \in 1..y : Prefix(m, y)[i] = <<m, i>>
  BY <1>1
<1>y. y + 1 \in Nat
  OBVIOUS
<1>4. /\ Prefix(m, y + 1) \in Seq({m} \X Nat) /\ Len(Prefix(m, y + 1)) = y + 1
      /\ \A i \in 1..(y + 1) : Prefix(m, y + 1)[i] = <<m, i>>
  BY <1>1, <1>y
<1>p. PICK p \in Seq({m} \X Nat) : p = Prefix(m, y)
  BY <1>3
<1>q. PICK q \in Seq({m} \X Nat) : q = Prefix(m, y + 1)
  BY <1>4
<1>5. /\ Append(p, <<m, y + 1>>) \in Seq({m} \X Nat) /\ Len(Append(p, <<m, y + 1>>)) = y + 1
      /\ \A i \in 1..y : Append(p, <<m, y + 1>>)[i] = p[i]
      /\ Append(p, <<m, y + 1>>)[y + 1] = <<m, y + 1>>
  <2>1. Len(p) = y
    BY <1>3, <1>p
  <2> QED
    BY <1>2, <2>1, SeqAppend
<1>a. PICK a \in Seq({m} \X Nat) : a = Append(p, <<m, y + 1>>)
  BY <1>5
<1>6. \A i \in 1..(y + 1) : a[i] = q[i]
  <2> SUFFICES ASSUME NEW i \in 1..(y + 1) PROVE a[i] = q[i]
    OBVIOUS
  <2>1. CASE i \in 1..y
    BY <1>3, <1>4, <1>5, <1>p, <1>q, <1>a, <2>1
  <2>2. CASE i = y + 1
    BY <1>4, <1>5, <1>q, <1>a, <2>2
  <2> QED
    BY <2>1, <2>2
<1>7. a = q
  <2>1. Len(a) = y + 1 /\ Len(q) = y + 1
    BY <1>4, <1>5, <1>q, <1>a
  <2> QED
    BY <1>6, <2>1
<1>8. Prefix(m, 0) = <<>>
  BY DEF Prefix
<1> QED
  BY <1>3, <1>7, <1>8, <1>p, <1>q, <1>a

\* What is read first, and what follows it.
LEMMA LitHead ==
  ASSUME NEW s \in Servers, NEW u \in Seq(Lines), u # <<>>, Lit(s, u)
  PROVE  /\ Sound(u[1]) /\ 1 \in DOMAIN u /\ Len(u) \in Nat \ {0} /\ u[1] \in Lines
         /\ s.cmd = NoLine => u[1].verb \notin Parts
         /\ s.cmd # NoLine => /\ Fits(s.cmd.msg, Len(s.got), u[1]) /\ s.got = Prefix(s.cmd.msg, Len(s.got))
                              /\ s.cmd.msg \in Msg /\ s.cmd.part = Size[s.cmd.msg]
         /\ Len(u) > 1 => Follows(u[1], u[2]) /\ (u[1].verb = "CRLF" => Whole(s, u, 1))
<1>1. 1 \in DOMAIN u /\ Len(u) \in Nat \ {0} /\ u[1] \in Lines
  BY SeqDomain
<1>2. Len(u) > 1 => 1 \in 1..(Len(u) - 1)
  BY <1>1
<1> QED
  BY <1>1, <1>2 DEF Lit

\* What the server has got when it has read an element that continues.
LEMMA EatsWithin ==
  ASSUME NEW s \in Servers, NEW s2 \in Servers, NEW u \in Seq(Lines), u # <<>>, Lit(s, u), Eats(s, u, s2),
         Within(u[1])
  PROVE  /\ s2.cmd # NoLine /\ s2.cmd.msg = u[1].msg /\ s2.cmd.msg \in Msg /\ s2.cmd.part = Size[s2.cmd.msg]
         /\ Len(s2.got) = Written(u[1]) /\ s2.got = Prefix(u[1].msg, Written(u[1]))
         /\ Written(u[1]) \in 0..Size[u[1].msg]
<1>0. u[1].msg \in Msg /\ Written(u[1]) \in 0..Size[u[1].msg] /\ Size[u[1].msg] \in Nat
  BY LitHead, Constants DEF Sound
<1>1. CASE u[1].verb = "APPEND"
  <2>1. s.cmd = NoLine
    <3>1. ~Fits(s.cmd.msg, Len(s.got), u[1])
      BY <1>1 DEF Fits
    <3> QED
      BY <3>1, LitHead
  <2>2. s2.cmd = u[1] /\ s2.got = <<>>
    BY <1>1, <2>1 DEF Eats, EatsLine, EatsAppend, EatsPart, EatsEnd
  <2>3. u[1] # NoLine
    BY <1>1 DEF NoLine, Line
  <2>4. u[1].part = Size[u[1].msg] /\ Written(u[1]) = 0
    BY <1>1, LitHead DEF Sound, Written
  <2> QED
    BY <1>0, <2>2, <2>3, <2>4, PrefixIs
<1>2. CASE u[1].verb = "DATA"
  <2>1. s.cmd # NoLine
    BY <1>2, LitHead DEF Parts
  <2>2. PICK m \in Msg, y \in Nat : m = s.cmd.msg /\ y = Len(s.got)
    BY <2>1, LitHead DEF Servers
  <2>3. /\ u[1].msg = m /\ u[1].part = y + 1 /\ y < Size[m] /\ s.got = Prefix(m, y) /\ s.cmd.part = Size[m]
    BY <1>2, <2>1, <2>2, LitHead DEF Fits
  <2>4. s2.cmd = s.cmd /\ s2.got = Append(s.got, <<m, y + 1>>)
    <3>1. ~EatsEnd(s, u, s2)
      BY <2>2, <2>3, Constants DEF EatsEnd
    <3> QED
      BY <1>2, <2>1, <2>3, <3>1 DEF Eats, EatsLine, EatsAppend, EatsPart
  <2>5. s2.got = Prefix(m, y + 1) /\ Len(s2.got) = y + 1
    <3>1. y + 1 \in Nat
      OBVIOUS
    <3>2. Append(Prefix(m, y), <<m, y + 1>>) = Prefix(m, y + 1)
      BY PrefixIs
    <3>3. Len(Prefix(m, y + 1)) = y + 1
      BY <3>1, PrefixIs
    <3> QED
      BY <2>3, <2>4, <3>2, <3>3
  <2>6. Written(u[1]) = y + 1
    BY <1>2, <2>3 DEF Written
  <2> QED
    BY <1>0, <2>1, <2>2, <2>3, <2>4, <2>5, <2>6
<1> QED
  BY <1>1, <1>2 DEF Within

\* It ends: the next one is the line of another command.
LEMMA EatsOther ==
  ASSUME NEW s \in Servers, NEW s2 \in Servers, NEW u \in Seq(Lines), u # <<>>, Lit(s, u), Eats(s, u, s2),
         ~Within(u[1])
  PROVE  \/ s2.cmd = NoLine
         \/ /\ Len(u) = 1 /\ u[1].verb = "CRLF" /\ ~Whole(s, u, 1)
            /\ s2.cmd = s.cmd /\ s2.cmd.msg \in Msg /\ s2.cmd.part = Size[s2.cmd.msg] /\ Len(s2.got) <= Size[s2.cmd.msg]
<1>1. CASE s.cmd = NoLine
  BY <1>1 DEF Within, Eats, EatsLine, EatsAppend, EatsPart, EatsEnd
<1>2. CASE s.cmd # NoLine
  <2>1. u[1].verb = "CRLF" /\ s.cmd.part = Size[s.cmd.msg] /\ s.cmd.msg \in Msg
    BY <1>2, LitHead DEF Fits, Within
  <2>2. CASE EatsEnd(s, u, s2)
    BY <2>2 DEF EatsEnd
  <2>3. CASE EatsPart(s, u, s2)
    <3>1. PICK g \in Seq(Chunks) : g = s.got
      BY DEF Servers
    <3>n. Len(g) \in Nat
      BY <3>1, SeqDomain
    <3>z. Size[s.cmd.msg] \in Nat
      BY <2>1, Constants
    <3>2. PICK n \in Nat, z \in Nat : n = Len(g) /\ z = Size[s.cmd.msg]
      BY <3>n, <3>z
    <3>3. n < z /\ s2.cmd = s.cmd
      BY <2>1, <2>3, <3>1, <3>2 DEF EatsPart
    <3>4. ~Whole(s, u, 1)
      BY <3>1, <3>2, <3>3 DEF Whole
    <3>5. Len(u) = 1
      <4>0. Len(u) \in Nat \ {0}
        BY LitHead
      <4>1. PICK l \in Nat : l = Len(u) /\ l # 0
        BY <4>0
      <4>2. Len(u) > 1 => (u[1].verb = "CRLF" => Whole(s, u, 1))
        BY LitHead
      <4>3. ~(l > 1)
        BY <2>1, <3>4, <4>1, <4>2
      <4>4. l = 1
        BY <4>1, <4>3
      <4> QED
        BY <4>1, <4>4
    <3>6. Len(s2.got) <= Size[s2.cmd.msg]
      <4>1. Stray \in Chunks
        BY DEF Stray, Chunks
      <4>2. Len(Append(g, Stray)) = n + 1
        BY <3>1, <3>2, <4>1, SeqAppend
      <4>3. s2.got = g \/ s2.got = Append(g, Stray)
        BY <2>1, <2>3, <3>1 DEF EatsPart
      <4>4. n <= z /\ n + 1 <= z
        BY <3>3
      <4> QED
        BY <3>2, <3>3, <4>2, <4>3, <4>4
    <3> QED
      BY <2>1, <3>3, <3>4, <3>5, <3>6
  <2> QED
    BY <1>2, <2>2, <2>3 DEF Eats, EatsLine, EatsAppend
<1> QED
  BY <1>1, <1>2

LEMMA TailOne ==
  ASSUME NEW S, NEW s \in Seq(S), Len(s) = 1
  PROVE  Tail(s) = <<>>
<1>1. s # <<>>
  BY SeqDomain
<1>2. Tail(s) \in Seq(S) /\ Len(Tail(s)) = 0
  BY <1>1, SeqTail
<1> QED
  BY <1>2, SeqDomain

\* What follows is the line of another command, or continues what has been read.
LEMMA WholeEats ==
  ASSUME NEW s \in Servers, NEW s2 \in Servers, NEW u \in Seq(Lines), u # <<>>, Lit(s, u), Eats(s, u, s2),
         NEW i \in Nat, i \in 1..(Len(u) - 1), u[i + 1].verb = "CRLF"
  PROVE  Whole(s2, Tail(u), i) <=> Whole(s, u, i + 1)
<1>1. PICK n \in Nat : n = Len(u)
  BY SeqDomain
<1>2. i \in 1..(n - 1)
  BY <1>1
<1>t. \A j \in 1..(n - 1) : Tail(u)[j] = u[j + 1]
  BY <1>1, SeqTail
<1>3. Whole(s, u, i + 1) <=> Written(u[i]) = Size[u[i].msg]
  <2>1. i + 1 # 1 /\ (i + 1) - 1 = i
    BY <1>2
  <2> QED
    BY <2>1 DEF Whole
<1>4. CASE i = 1
  <2>1. Follows(u[1], u[2])
    <3>1. 1 \in 1..(Len(u) - 1)
      BY <1>4
    <3> QED
      BY <3>1 DEF Lit
  <2>2. Within(u[1])
    BY <1>4, <2>1 DEF Follows, Parts
  <2>3. s2.cmd # NoLine /\ s2.cmd.msg = u[1].msg /\ Len(s2.got) = Written(u[1])
    BY <2>2, EatsWithin
  <2> QED
    BY <1>3, <1>4, <2>3 DEF Whole
<1>5. CASE i # 1
  <2>1. i - 1 \in 1..(n - 1) /\ (i - 1) + 1 = i
    BY <1>2, <1>5
  <2>2. Tail(u)[i - 1] = u[i]
    BY <1>t, <2>1
  <2> QED
    BY <1>3, <1>5, <2>2 DEF Whole
<1> QED
  BY <1>4, <1>5

LEMMA LitEats ==
  ASSUME NEW s \in Servers, NEW s2 \in Servers, NEW u \in Seq(Lines), u # <<>>, Lit(s, u), Eats(s, u, s2)
  PROVE  Lit(s2, Tail(u))
<1>1. PICK n \in Nat : n = Len(u) /\ n >= 1
  BY SeqDomain
<1>t. /\ Len(Tail(u)) = n - 1 /\ DOMAIN Tail(u) = 1..(n - 1) /\ DOMAIN u = 1..n
      /\ \A j \in 1..(n - 1) : Tail(u)[j] = u[j + 1]
  BY <1>1, SeqTail, SeqDomain
<1>2. \A j \in DOMAIN Tail(u) : Sound(Tail(u)[j])
  <2> SUFFICES ASSUME NEW j \in 1..(n - 1) PROVE Sound(u[j + 1])
    BY <1>t
  <2>1. j + 1 \in DOMAIN u
    BY <1>1, <1>t
  <2> QED
    BY <2>1 DEF Lit
<1>3. ASSUME NEW j \in 1..(Len(Tail(u)) - 1)
      PROVE  Follows(Tail(u)[j], Tail(u)[j + 1]) /\ (Tail(u)[j].verb = "CRLF" => Whole(s2, Tail(u), j))
  <2>1. j \in 1..(n - 1) /\ j + 1 \in 1..(n - 1) /\ j \in Nat
    BY <1>1, <1>t, <1>3
  <2>2. Tail(u)[j] = u[j + 1] /\ Tail(u)[j + 1] = u[(j + 1) + 1]
    BY <1>t, <2>1
  <2>3. Follows(u[j + 1], u[(j + 1) + 1]) /\ (u[j + 1].verb = "CRLF" => Whole(s, u, j + 1))
    BY <1>1, <2>1 DEF Lit
  <2>4. u[j + 1].verb = "CRLF" => Whole(s2, Tail(u), j)
    BY <1>1, <2>1, <2>3, WholeEats
  <2> QED
    BY <2>2, <2>3, <2>4
<1>4. CASE Within(u[1])
  <2>1. /\ s2.cmd # NoLine /\ s2.cmd.msg = u[1].msg /\ s2.cmd.msg \in Msg /\ s2.cmd.part = Size[s2.cmd.msg]
        /\ Len(s2.got) = Written(u[1]) /\ s2.got = Prefix(u[1].msg, Written(u[1]))
        /\ Written(u[1]) \in 0..Size[u[1].msg]
    BY <1>4, EatsWithin
  <2>2. Len(s2.got) <= Size[s2.cmd.msg]
    <3>1. PICK z \in Nat : z = Size[u[1].msg]
      BY <2>1, Constants
    <3>2. Written(u[1]) <= z
      BY <2>1, <3>1
    <3> QED
      BY <2>1, <3>1, <3>2
  <2>3. ASSUME Tail(u) # <<>>
        PROVE  Fits(s2.cmd.msg, Len(s2.got), Tail(u)[1])
    <3>1. 1 \in 1..(n - 1)
      <4>1. Len(Tail(u)) # 0
        BY <1>t, <2>3, SeqTail
      <4> QED
        BY <1>1, <1>t, <4>1
    <3>2. Follows(u[1], u[2]) /\ Tail(u)[1] = u[2]
      BY <1>1, <1>t, <3>1 DEF Lit
    <3> QED
      BY <1>4, <2>1, <3>2 DEF Follows
  <2> QED
    BY <1>2, <1>3, <2>1, <2>2, <2>3 DEF Lit
<1>5. CASE ~Within(u[1])
  <2>1. CASE s2.cmd = NoLine
    <3>1. ASSUME Tail(u) # <<>>
          PROVE  Tail(u)[1].verb \notin Parts
      <4>1. 1 \in 1..(n - 1)
        <5>1. Len(Tail(u)) # 0
          BY <1>t, <3>1, SeqTail
        <5> QED
          BY <1>1, <1>t, <5>1
      <4>2. Follows(u[1], u[2]) /\ Tail(u)[1] = u[2]
        BY <1>1, <1>t, <4>1 DEF Lit
      <4> QED
        BY <1>5, <4>2 DEF Follows
    <3> QED
      BY <1>2, <1>3, <2>1, <3>1 DEF Lit
  <2>2. CASE s2.cmd # NoLine
    <3>1. n = 1 /\ s2.cmd.msg \in Msg /\ s2.cmd.part = Size[s2.cmd.msg] /\ Len(s2.got) <= Size[s2.cmd.msg]
      BY <1>1, <1>5, <2>2, EatsOther
    <3>2. Tail(u) = <<>>
      BY <1>t, <3>1, SeqTail
    <3> QED
      BY <1>2, <1>3, <2>2, <3>1, <3>2 DEF Lit
  <2> QED
    BY <2>1, <2>2
<1> QED
  BY <1>4, <1>5

\* What the runner is at is not changed by what the server reads.
LEMMA StreamEats ==
  ASSUME NEW s \in Servers, NEW s2 \in Servers, NEW u \in Seq(Lines), u # <<>>, Lit(s, u), Eats(s, u, s2)
  PROVE  /\ \A m \in Msg, y \in Nat : Inside(s, u, m, y) => Inside(s2, Tail(u), m, y)
         /\ Clean(s, u) => Clean(s2, Tail(u))
         /\ CutShort(s, u) => CutShort(s2, Tail(u))
<1>1. PICK n \in Nat : n = Len(u) /\ n >= 1
  BY SeqDomain
<1>2. CASE n = 1
  <2>1. Tail(u) = <<>>
    <3>1. Len(u) = 1
      BY <1>1, <1>2
    <3> QED
      BY <3>1, TailOne
  <2>2. ASSUME NEW m \in Msg, NEW y \in Nat, Inside(s, u, m, y)
        PROVE  Inside(s2, Tail(u), m, y)
    <3>1. Within(u[1]) /\ u[1].msg = m /\ Written(u[1]) = y
      BY <1>1, <1>2, <2>2 DEF Inside
    <3>2. s2.cmd # NoLine /\ s2.cmd.msg = u[1].msg /\ Len(s2.got) = Written(u[1]) /\ s2.got = Prefix(u[1].msg, Written(u[1]))
      BY <3>1, EatsWithin
    <3> QED
      BY <2>1, <3>1, <3>2 DEF Inside
  <2>3. Clean(s, u) => Clean(s2, Tail(u))
    <3>1. SUFFICES ASSUME Clean(s, u) PROVE s2.cmd = NoLine
      BY <2>1 DEF Clean
    <3>2. ~Within(u[1]) /\ (u[1].verb = "CRLF" => Whole(s, u, 1))
      BY <1>1, <1>2, <3>1 DEF Clean
    <3> QED
      BY <3>2, EatsOther
  <2> QED
    BY <2>1, <2>2, <2>3 DEF CutShort
<1>3. CASE n # 1
  <2>1. /\ Tail(u) # <<>> /\ Len(Tail(u)) = n - 1 /\ n - 1 \in 1..(n - 1) /\ n - 1 \in Nat /\ (n - 1) + 1 = n
        /\ Tail(u)[Len(Tail(u))] = u[n]
    <3>1. Tail(u) # <<>> /\ Tail(u)[Len(Tail(u))] = u[Len(u)]
      BY <1>1, <1>3, TailLast
    <3>2. Len(Tail(u)) = n - 1
      BY <1>1, SeqTail
    <3> QED
      BY <1>1, <1>3, <3>1, <3>2
  <2>2. u[n].verb = "CRLF" => (Whole(s2, Tail(u), n - 1) <=> Whole(s, u, n))
    <3>1. n - 1 \in Nat /\ n - 1 \in 1..(Len(u) - 1) /\ (n - 1) + 1 = n
      BY <1>1, <2>1
    <3>2. u[(n - 1) + 1].verb = "CRLF" => (Whole(s2, Tail(u), n - 1) <=> Whole(s, u, (n - 1) + 1))
      BY <3>1, WholeEats
    <3> QED
      BY <3>1, <3>2
  <2> QED
    BY <1>1, <2>1, <2>2 DEF Inside, Clean, CutShort
<1> QED
  BY <1>2, <1>3

-----------------------------------------------------------------------------
(* What the client writes to the destination *)

LEMMA LitPrefix ==
  ASSUME NEW s \in Servers, NEW u \in Seq(Lines), NEW n \in 0..Len(u), Lit(s, u)
  PROVE  Lit(s, SubSeq(u, 1, n))
<1>1. PICK l \in Nat : l = Len(u) /\ n <= l /\ n \in Nat
  BY SeqDomain
<1>p. PICK p \in Seq(Lines) : p = SubSeq(u, 1, n)
  BY SeqPrefix
<1>t. /\ Len(p) = n /\ DOMAIN p = 1..n /\ DOMAIN u = 1..l
      /\ \A j \in 1..n : p[j] = u[j]
  BY <1>1, <1>p, SeqPrefix, SeqDomain
<1>2. \A j \in DOMAIN p : Sound(p[j])
  BY <1>1, <1>t DEF Lit
<1>3. ASSUME NEW j \in 1..(Len(p) - 1)
      PROVE  Follows(p[j], p[j + 1]) /\ (p[j].verb = "CRLF" => Whole(s, p, j))
  <2>1. j \in 1..(l - 1) /\ j \in 1..n /\ j + 1 \in 1..n
    BY <1>1, <1>t, <1>3
  <2>2. p[j] = u[j] /\ p[j + 1] = u[j + 1]
    BY <1>t, <2>1
  <2>3. Follows(u[j], u[j + 1]) /\ (u[j].verb = "CRLF" => Whole(s, u, j))
    BY <1>1, <2>1 DEF Lit
  <2>4. Whole(s, u, j) => Whole(s, p, j)
    <3>1. CASE j = 1
      BY <3>1 DEF Whole
    <3>2. CASE j # 1
      <4>1. j - 1 \in 1..n
        BY <2>1, <3>2
      <4>2. p[j - 1] = u[j - 1]
        BY <1>t, <4>1
      <4> QED
        BY <3>2, <4>2 DEF Whole
    <3> QED
      BY <3>1, <3>2
  <2> QED
    BY <2>2, <2>3, <2>4
<1>4. p # <<>> => u # <<>> /\ p[1] = u[1]
  <2>1. SUFFICES ASSUME p # <<>> PROVE u # <<>> /\ p[1] = u[1]
    OBVIOUS
  <2>2. n >= 1
    BY <1>t, <2>1, SeqDomain
  <2>3. 1 \in 1..n /\ l >= 1
    BY <1>1, <2>2
  <2> QED
    BY <1>1, <1>t, <2>3, SeqDomain
<1>5. Lit(s, p)
  BY <1>2, <1>3, <1>4 DEF Lit
<1> QED
  BY <1>5, <1>p

\* Does e go on where u ends?
Joins(s, u, e) ==
  IF u = <<>> THEN IF s.cmd = NoLine THEN e.verb \notin Parts
                   ELSE Fits(s.cmd.msg, Len(s.got), e) /\ s.got = Prefix(s.cmd.msg, Len(s.got))
  ELSE Follows(u[Len(u)], e) /\ (u[Len(u)].verb = "CRLF" => Whole(s, u, Len(u)))

LEMMA AppendIs ==
  ASSUME NEW s, NEW u \in Seq(Lines), NEW e \in Lines
  PROVE  LET a == Append(u, e)
         IN /\ a \in Seq(Lines) /\ a # <<>> /\ Len(a) \in Nat \ {0} /\ a[Len(a)] = e
            /\ \A i \in 1..Len(u) : Whole(s, u, i) <=> Whole(s, a, i)
            /\ Whole(s, a, Len(a)) <=> IF u = <<>> THEN s.cmd # NoLine /\ Len(s.got) = Size[s.cmd.msg]
                                       ELSE Written(u[Len(u)]) = Size[u[Len(u)].msg]
<1>1. PICK n \in Nat : n = Len(u) /\ (u # <<>> <=> n >= 1)
  BY SeqDomain
<1>a. PICK a \in Seq(Lines) : a = Append(u, e)
  BY SeqAppend
<1>2. Len(a) = n + 1 /\ a # <<>> /\ (\A i \in 1..n : a[i] = u[i]) /\ a[n + 1] = e
  BY <1>1, <1>a, SeqAppend
<1>3. \A i \in 1..n : Whole(s, u, i) <=> Whole(s, a, i)
  <2> SUFFICES ASSUME NEW i \in 1..n PROVE Whole(s, u, i) <=> Whole(s, a, i)
    OBVIOUS
  <2>1. CASE i = 1
    BY <2>1 DEF Whole
  <2>2. CASE i # 1
    <3>1. i - 1 \in 1..n
      BY <2>2
    <3> QED
      BY <1>2, <2>2, <3>1 DEF Whole
  <2> QED
    BY <2>1, <2>2
<1>4. Whole(s, a, n + 1) <=> IF n = 0 THEN s.cmd # NoLine /\ Len(s.got) = Size[s.cmd.msg]
                             ELSE Written(u[n]) = Size[u[n].msg]
  <2>1. CASE n = 0
    BY <2>1 DEF Whole
  <2>2. CASE n # 0
    <3>1. (n + 1) - 1 = n /\ n + 1 # 1 /\ n \in 1..n
      BY <2>2
    <3> QED
      BY <1>2, <2>2, <3>1 DEF Whole
  <2> QED
    BY <2>1, <2>2
<1>5. u = <<>> <=> n = 0
  BY <1>1
<1>6. Len(a) \in Nat \ {0}
  BY <1>2
<1> QED
  BY <1>1, <1>2, <1>3, <1>4, <1>5, <1>6, <1>a

LEMMA LitJoins ==
  ASSUME NEW s \in Servers, NEW u \in Seq(Lines), NEW e \in Lines, Lit(s, u), Sound(e), Joins(s, u, e)
  PROVE  Lit(s, Append(u, e))
<1>1. PICK n \in Nat : n = Len(u) /\ (u # <<>> <=> n >= 1)
  BY SeqDomain
<1>a. PICK a \in Seq(Lines) : a = Append(u, e)
  BY SeqAppend
<1>2. Len(a) = n + 1 /\ DOMAIN a = 1..(n + 1) /\ (\A i \in 1..n : a[i] = u[i]) /\ a[n + 1] = e /\ DOMAIN u = 1..n
  BY <1>1, <1>a, SeqAppend, SeqDomain
<1>w. \A i \in 1..n : Whole(s, u, i) <=> Whole(s, a, i)
  BY <1>1, <1>a, AppendIs
<1>3. \A j \in DOMAIN a : Sound(a[j])
  <2> SUFFICES ASSUME NEW j \in 1..(n + 1) PROVE Sound(a[j])
    BY <1>2
  <2>1. CASE j \in 1..n
    BY <1>2, <2>1 DEF Lit
  <2>2. CASE j = n + 1
    BY <1>2, <2>2
  <2> QED
    BY <2>1, <2>2
<1>4. ASSUME NEW j \in 1..(Len(a) - 1)
      PROVE  Follows(a[j], a[j + 1]) /\ (a[j].verb = "CRLF" => Whole(s, a, j))
  <2>0. j \in 1..n
    BY <1>2, <1>4
  <2>1. CASE j = n
    <3>1. u # <<>>
      BY <1>1, <2>0, <2>1
    <3>2. Follows(u[n], e) /\ (u[n].verb = "CRLF" => Whole(s, u, n))
      BY <1>1, <3>1 DEF Joins
    <3> QED
      BY <1>2, <1>w, <2>0, <2>1, <3>2
  <2>2. CASE j # n
    <3>1. j \in 1..(n - 1) /\ j + 1 \in 1..n
      BY <2>0, <2>2
    <3>2. Follows(u[j], u[j + 1]) /\ (u[j].verb = "CRLF" => Whole(s, u, j))
      BY <1>1, <3>1 DEF Lit
    <3> QED
      BY <1>2, <1>w, <2>0, <3>1, <3>2
  <2> QED
    BY <2>1, <2>2
<1>5. IF s.cmd = NoLine THEN a[1].verb \notin Parts
      ELSE Fits(s.cmd.msg, Len(s.got), a[1]) /\ s.got = Prefix(s.cmd.msg, Len(s.got))
  <2>1. CASE n = 0
    <3>1. u = <<>> /\ a[1] = e
      BY <1>1, <1>2, <2>1
    <3> QED
      BY <3>1 DEF Joins
  <2>2. CASE n # 0
    <3>1. 1 \in 1..n /\ u # <<>>
      BY <1>1, <2>2
    <3>2. a[1] = u[1]
      BY <1>2, <3>1
    <3> QED
      BY <3>1, <3>2 DEF Lit
  <2> QED
    BY <2>1, <2>2
<1>6. Lit(s, a)
  BY <1>3, <1>4, <1>5 DEF Lit
<1> QED
  BY <1>6, <1>a

\* A command comes where the line is clean.
LEMMA CleanCommand ==
  ASSUME NEW s \in Servers, NEW u \in Seq(Lines), NEW e \in Lines, Lit(s, u), Sound(e), Clean(s, u),
         e.verb \notin Parts
  PROVE  /\ Lit(s, Append(u, e))
         /\ e.verb # "APPEND" => Clean(s, Append(u, e))
         /\ e.verb = "APPEND" => Inside(s, Append(u, e), e.msg, 0)
<1>0. PICK a \in Seq(Lines) : a = Append(u, e)
  BY SeqAppend
<1>1. a = Append(u, e) /\ a # <<>> /\ a[Len(a)] = e
  BY <1>0, AppendIs
<1>2. Joins(s, u, e)
  BY DEF Joins, Clean, Follows
<1>3. Lit(s, a)
  BY <1>1, <1>2, LitJoins
<1>4. e.verb # "APPEND" => Clean(s, a)
  BY <1>1 DEF Clean, Within, Parts
<1>5. e.verb = "APPEND" => Inside(s, a, e.msg, 0)
  BY <1>1 DEF Inside, Within, Written
<1> QED
  BY <1>1, <1>3, <1>4, <1>5

\* In an APPEND comes the next chunk, or the end.
LEMMA InsidePart ==
  ASSUME NEW s \in Servers, NEW u \in Seq(Lines), NEW e \in Lines, Lit(s, u), Sound(e),
         NEW m \in Msg, NEW y \in 0..Size[m], Inside(s, u, m, y), Fits(m, y, e)
  PROVE  /\ Lit(s, Append(u, e))
         /\ e.verb = "DATA" => Inside(s, Append(u, e), m, y + 1)
         /\ e.verb = "CRLF" /\ y = Size[m] => Clean(s, Append(u, e))
         /\ e.verb = "CRLF" /\ y # Size[m] => CutShort(s, Append(u, e))
<1>0. PICK a \in Seq(Lines) : a = Append(u, e)
  BY SeqAppend
<1>1. a = Append(u, e) /\ a # <<>> /\ a[Len(a)] = e
  BY <1>0, AppendIs
<1>w. Whole(s, a, Len(a)) <=> IF u = <<>> THEN s.cmd # NoLine /\ Len(s.got) = Size[s.cmd.msg]
                              ELSE Written(u[Len(u)]) = Size[u[Len(u)].msg]
  BY <1>1, AppendIs
<1>2. Joins(s, u, e)
  <2>1. CASE u = <<>>
    BY <2>1 DEF Joins, Inside
  <2>2. CASE u # <<>>
    <3>1. u[Len(u)].verb # "CRLF"
      BY <2>2 DEF Inside, Within
    <3> QED
      BY <2>2, <3>1 DEF Joins, Inside, Follows
  <2> QED
    BY <2>1, <2>2
<1>3. Lit(s, a)
  BY <1>1, <1>2, LitJoins
<1>4. e.verb = "DATA" => Inside(s, a, m, y + 1)
  BY <1>1 DEF Inside, Within, Written, Fits
<1>5. Whole(s, a, Len(a)) <=> y = Size[m]
  BY <1>w DEF Inside
<1>6. e.verb = "CRLF" => ~Within(e)
  BY DEF Within
<1> QED
  BY <1>1, <1>3, <1>4, <1>5, <1>6 DEF Clean, CutShort

\* Only a prefix still arrives.
LEMMA CutPrefix ==
  ASSUME NEW s \in Servers, NEW u \in Seq(Lines), NEW t \in Servers, Lit(s, u), t.cmd = s.cmd, t.got = s.got
  PROVE  Lit(t, u)
<1>1. \A i : Whole(t, u, i) = Whole(s, u, i)
  BY DEF Whole
<1> QED
  BY <1>1 DEF Lit

-----------------------------------------------------------------------------
(* What a step of others than the runner does to the connection of the destination *)

UpIdle ==
  \/ up'[dst] = up[dst]
  \/ up[dst] # <<>> /\ up'[dst] = Tail(up[dst])
  \/ \E n \in 0..Len(up[dst]) : up'[dst] = SubSeq(up[dst], 1, n)
  \/ \E e \in Lines : e.verb \notin Parts /\ up'[dst] = Append(up[dst], e)

LEMMA IdleUp ==
  ASSUME Typed, [Next]_vars, ~Work
  PROVE  UpIdle
<1> USE Constants
<1>r. up' = up => UpIdle
  BY DEF UpIdle
<1>3. ASSUME NEW k \in Conn, Goroutines(k)
      PROVE  UpIdle
  <2>1. CASE Watchdog(k) \/ KickOne(k)
    <3>1. up' = up \/ \E n \in 0..(IF Appending(k) THEN Len(up[k]) ELSE 0) : up' = [up EXCEPT ![k] = SubSeq(@, 1, n)]
      BY <2>1 DEF Watchdog, KickOne, Abort, Sever
    <3>2. ASSUME NEW n \in 0..(IF Appending(k) THEN Len(up[k]) ELSE 0), up' = [up EXCEPT ![k] = SubSeq(@, 1, n)]
          PROVE  UpIdle
      <4>1. n \in 0..Len(up[k])
        BY <3>2, Local
      <4>2. IF k = dst THEN up'[dst] = SubSeq(up[dst], 1, n) ELSE up'[dst] = up[dst]
        BY <3>2 DEF Typed, WireTyped
      <4> QED
        BY <4>1, <4>2 DEF UpIdle
    <3> QED
      BY <1>r, <3>1, <3>2
  <2>2. CASE Starttls(k) \/ Ask(k)
    <3>1. PICK verb \in Verbs \ Parts : up' = Write(k, Command(k, verb, None))
      BY <2>2 DEF Starttls, Ask, Verb, Asking, Verbs, Parts
    <3>2. Command(k, verb, None) \in Lines
      BY CommandTyped
    <3>3. Command(k, verb, None).verb \notin Parts
      BY <3>1 DEF Command, Line
    <3> HIDE DEF Command
    <3>4. up'[dst] = up[dst] \/ up'[dst] = Append(up[dst], Command(k, verb, None))
      BY <3>1, OneWire
    <3> QED
      BY <3>2, <3>3, <3>4 DEF UpIdle
  <2>3. CASE \/ ReadGreeting(k) \/ StarttlsDone(k) \/ StartReader(k) \/ Answered(k) \/ OpenFails(k)
             \/ Reader(k) \/ TellWaiters(k)
    <3>1. up' = up
      BY <2>3 DEF ReadGreeting, StarttlsDone, StartReader, Answered, OpenFails, Reader, ReadResponse, ReadChunk,
         EndLiteral, ReadEof, TellWaiters, peer
    <3> QED
      BY <1>r, <3>1
  <2> QED
    BY <1>3, <2>1, <2>2, <2>3 DEF Goroutines, Opener, Open
<1>4. CASE Time
  BY <1>4, <1>r, TimeIs DEF Pass, peer
<1>5. ASSUME NEW k \in Conn, Server(k)
      PROVE  UpIdle
  <2>1. up' = up \/ (up[k] # <<>> /\ up' = [up EXCEPT ![k] = Tail(@)])
    BY <1>5 DEF Server, Serve, Trouble, ServeLine, ServeAppend, ServeLiteral, ServeBody, RefuseLine,
       RefuseBody, Cut, Stall, Reading
  <2>2. up'[dst] = up[dst] \/ (up[dst] # <<>> /\ up'[dst] = Tail(up[dst]))
    BY <2>1 DEF Typed, WireTyped
  <2> QED
    BY <2>2 DEF UpIdle
<1>6. CASE \/ \E m \in Msg : Drain(m)
           \/ \E m \in Msg : Vanish(m)
           \/ Kick \/ UNCHANGED vars
  BY <1>6, <1>r DEF Drain, Vanish, Kick, vars, peer
<1> QED
  BY <1>3, <1>4, <1>5, <1>6 DEF Next, Process, Busy

LEMMA NotFed ==
  ASSUME Typed, [Next]_vars, ~Work
  PROVE  ~Feeds(dst)
<1> SUFFICES ASSUME Feeds(dst) PROVE FALSE
  OBVIOUS
<1>1. PICK e \in Lines : e.verb \in Parts /\ up'[dst] = Append(up[dst], e)
  BY DEF Feeds
<1>2. up[dst] \in Seq(Lines)
  BY Local, Constants
<1>3. PICK u \in Seq(Lines) : u = up[dst]
  BY <1>2
<1>4. PICK n \in Nat : n = Len(u)
  BY SeqDomain
<1>5. Len(Append(u, e)) = n + 1 /\ Append(u, e)[n + 1] = e
  BY <1>4, SeqAppend
<1>6. Append(u, e) # u
  BY <1>4, <1>5
<1>7. u # <<>> => Append(u, e) # Tail(u)
  BY <1>4, <1>5, SeqTail
<1>8. \A l \in 0..n : Append(u, e) # SubSeq(u, 1, l)
  <2> SUFFICES ASSUME NEW l \in 0..n PROVE Append(u, e) # SubSeq(u, 1, l)
    OBVIOUS
  <2>1. Len(SubSeq(u, 1, l)) = l
    BY <1>4, SeqPrefix
  <2> QED
    BY <1>5, <2>1
<1>9. \A f \in Lines : f.verb \notin Parts => Append(u, e) # Append(u, f)
  <2> SUFFICES ASSUME NEW f \in Lines, f.verb \notin Parts PROVE Append(u, e) # Append(u, f)
    OBVIOUS
  <2>1. Append(u, f)[n + 1] = f
    BY <1>4, SeqAppend
  <2> QED
    BY <1>1, <1>5, <2>1
<1> QED
  BY <1>1, <1>3, <1>4, <1>6, <1>7, <1>8, <1>9, IdleUp DEF UpIdle

DestKeeps ==
  /\ box'[dst] = box[dst] /\ srv'[dst].on = srv[dst].on /\ srv'[dst].cmd = srv[dst].cmd
  /\ srv'[dst].got = srv[dst].got
DestRests == DestKeeps /\ up'[dst] = up[dst] /\ (cli[dst].closed => cli'[dst].closed)
DestAsks ==
  /\ DestKeeps /\ pc = "open" /\ ~cli[dst].closed /\ ~cli'[dst].closed
  /\ \E e \in Lines : e.verb \notin Parts \union {"APPEND"} /\ up'[dst] = Append(up[dst], e)
DestCloses ==
  /\ DestKeeps /\ cli'[dst].closed
  /\ \E n \in 0..Len(up[dst]) : up'[dst] = SubSeq(up[dst], 1, n)
DestServes == (Serve(dst) \/ Trouble(dst)) /\ cli'[dst].closed = cli[dst].closed

LEMMA DestIdle ==
  ASSUME Typed, OpenFirst, [Next]_vars, ~Work
  PROVE  DestRests \/ DestAsks \/ DestCloses \/ DestServes
<1> USE Constants
<1>0. UNCHANGED worker
  BY TimeIs DEF Next, Process, Busy, Drain, Server, Vanish, Kick, vars, worker
<1>1. Move(dst) /\ ~Feeds(dst) /\ pc' = pc
  BY <1>0, Moves, NotFed DEF worker
<1>2. SameWire(dst) => DestKeeps /\ up'[dst] = up[dst]
  BY DEF SameWire, SameServer, DestKeeps
<1>3. SameServer(dst) => DestKeeps
  BY DEF SameServer, DestKeeps
<1>4. CASE Rests(dst) \/ CallsInVain(dst) \/ Proceeds(dst) \/ Finds(dst) \/ Tells(dst)
  BY <1>2, <1>4 DEF Rests, CallsInVain, Proceeds, Finds, Tells, SameVoice, DestRests
<1>5. CASE Opens1(dst) \/ Hears(dst) \/ IsAnswered(dst)
  <2>1. up'[dst] = up[dst] /\ SameServer(dst) /\ (cli[dst].closed => cli'[dst].closed)
    BY <1>5 DEF Opens1, Hears, IsAnswered, SameVoice
  <2> QED
    BY <1>3, <2>1 DEF DestRests
<1>6. CASE Closes(dst)
  <2>1. srv'[dst] = [srv[dst] EXCEPT !.peer = FALSE] /\ srv[dst] \in Servers /\ box'[dst] = box[dst]
    BY <1>6, Local DEF Closes
  <2>2. DestKeeps
    BY <2>1 DEF Servers, DestKeeps
  <2> QED
    BY <1>6, <2>2 DEF Closes, DestCloses
<1>7. CASE Calls(dst) \/ Greets(dst)
  <2>1. /\ ~cli[dst].closed /\ SameServer(dst) /\ cli'[dst].closed = cli[dst].closed
        /\ cli[dst].phase \in Asking \union {"starttls"}
        /\ \E e \in Lines : /\ e.verb \in {Verb(p) : p \in Asking} \union {"STARTTLS"}
                            /\ up'[dst] = Append(up[dst], e)
    <3>1. CASE Calls(dst)
      BY <1>1, <3>1 DEF Calls
    <3>2. CASE Greets(dst)
      BY <3>2 DEF Greets
    <3> QED
      BY <1>7, <3>1, <3>2
  <2>2. pc = "open"
    BY <2>1 DEF OpenFirst, Asking
  <2>3. \A p \in Asking : Verb(p) \notin Parts \union {"APPEND"}
    BY DEF Asking, Verb, Parts
  <2>4. \E e \in Lines : e.verb \notin Parts \union {"APPEND"} /\ up'[dst] = Append(up[dst], e)
    BY <2>1, <2>3 DEF Parts
  <2> QED
    BY <1>3, <2>1, <2>2, <2>4 DEF DestAsks
<1>8. CASE Serves(dst)
  BY <1>8 DEF Serves, SameVoice, DestServes
<1> QED
  BY <1>1, <1>4, <1>5, <1>6, <1>7, <1>8 DEF Move

-----------------------------------------------------------------------------
(* What the server of the destination does *)

DestStands ==
  /\ up'[dst] = up[dst] /\ box'[dst] = box[dst] /\ srv'[dst].cmd = srv[dst].cmd /\ srv'[dst].got = srv[dst].got
  /\ srv'[dst].on => srv[dst].on
DestStores == box'[dst] = Append(box[dst], [row |-> srv[dst].cmd.msg, body |-> srv[dst].got])
DestEats ==
  /\ up[dst] # <<>> /\ up'[dst] = Tail(up[dst]) /\ srv[dst].on
  /\ Eats(srv[dst], up[dst], srv'[dst])
  /\ box'[dst] = box[dst] \/ (DestStores /\ srv[dst].cmd # NoLine /\ Len(srv[dst].got) = srv[dst].cmd.part)

LEMMA ServedEats ==
  ASSUME Typed, Lit(srv[dst], up[dst]), Serve(dst) \/ Trouble(dst)
  PROVE  DestStands \/ DestEats
<1> USE Constants
<1>0. up[dst] \in Seq(Lines) /\ srv[dst] \in Servers
  BY Local
<1>h. up[dst] # <<>> => Head(up[dst]) = up[dst][1]
  BY <1>0, SeqTail
<1>m. srv[dst].cmd # NoLine => /\ (Missing(dst) = 0 => Len(srv[dst].got) = srv[dst].cmd.part)
                               /\ (Missing(dst) > 0 => Len(srv[dst].got) < srv[dst].cmd.part)
                               /\ (Missing(dst) = 1 => Len(srv[dst].got) + 1 = srv[dst].cmd.part)
  <2>1. Len(srv[dst].got) \in Nat
    BY <1>0 DEF Servers
  <2>2. srv[dst].cmd.part \in Int
    BY <1>0 DEF Servers, Lines
  <2>3. \A n \in Nat, z \in Int : (z - n = 0 => n = z) /\ (z - n > 0 => n < z) /\ (z - n = 1 => n + 1 = z)
    OBVIOUS
  <2> QED
    BY <2>1, <2>2, <2>3 DEF Missing
<1>1. CASE Breaks(dst) \/ Hangs(dst)
  BY <1>1 DEF Breaks, Hangs, DestStands
<1>2. CASE Lined(dst) \/ Refused(dst)
  <2>1. /\ Reads(dst) /\ box'[dst] = box[dst] /\ srv[dst].cmd = NoLine /\ Head(up[dst]).verb # "APPEND"
        /\ srv'[dst].cmd = srv[dst].cmd /\ srv'[dst].got = srv[dst].got
    BY <1>2 DEF Lined, Refused, SameServer
  <2>2. EatsLine(srv[dst], up[dst], srv'[dst])
    BY <1>h, <2>1 DEF EatsLine, Reads
  <2> QED
    BY <2>1, <2>2 DEF Reads, DestEats, Eats
<1>3. CASE Begins(dst)
  <2>1. EatsAppend(srv[dst], up[dst], srv'[dst])
    BY <1>3, <1>h DEF Begins, Reads, EatsAppend
  <2> QED
    BY <1>3, <2>1 DEF Begins, Reads, DestEats, Eats
<1>4. CASE Fills(dst)
  <2>1. EatsPart(srv[dst], up[dst], srv'[dst])
    BY <1>4, <1>h, <1>m DEF Fills, Reads, EatsPart
  <2> QED
    BY <1>4, <2>1 DEF Fills, Reads, DestEats, Eats
<1>5. CASE Stores(dst) \/ Rejects(dst)
  <2>1. EatsEnd(srv[dst], up[dst], srv'[dst]) /\ Len(srv[dst].got) = srv[dst].cmd.part
    BY <1>5, <1>m DEF Stores, Rejects, EatsEnd
  <2>2. box'[dst] = box[dst] \/ DestStores
    BY <1>5 DEF Stores, Rejects, DestStores
  <2> QED
    BY <1>5, <2>1, <2>2 DEF Stores, Rejects, Reads, DestEats, Eats
<1> QED
  BY <1>1, <1>2, <1>3, <1>4, <1>5, ServerCases

-----------------------------------------------------------------------------
(* The newest command is answered last *)

\* What the server answers when it reads the next element.
AnswersNow(s, u, n) ==
  \/ s.cmd = NoLine /\ u[1].verb # "APPEND" /\ u[1].tag = n
  \/ s.cmd # NoLine /\ Len(s.got) = s.cmd.part /\ s.cmd.tag = n

LEMMA AnswersLate ==
  ASSUME NEW s \in Servers, NEW u \in Seq(Lines), u # <<>>, Lit(s, u), NEW n \in Nat \ {0},
         UpTags(u, n), UpOrder(u), CmdTags(s.cmd, u, n), AnswersNow(s, u, n)
  PROVE  Clean(s, u)
<1>1. PICK l \in Nat : l = Len(u) /\ l >= 1 /\ DOMAIN u = 1..l
  BY SeqDomain
<1>2. ASSUME NEW i \in 2..l
      PROVE  u[i].verb \in Parts
  <2>1. i \in 1..l /\ 1 \in 1..l /\ 1 < i
    BY <1>1
  <2>2. u[i] \in Lines /\ u[1] \in Lines
    BY <1>1, <2>1, SeqDomain
  <2>3. u[i].tag = 0
    <3>1. u[i].verb \notin Parts => u[i].tag \in 1..n
      BY <1>1, <2>1 DEF UpTags
    <3>2. PICK t \in Nat : t = u[i].tag
      BY <2>2 DEF Lines
    <3>3. u[i].verb \in Parts => t = 0
      BY <1>1, <2>1, <3>2 DEF UpTags
    <3>4. t <= n
      BY <3>1, <3>2, <3>3
    <3>5. CASE s.cmd = NoLine
      <4>1. u[1].tag = n
        BY <3>5 DEF AnswersNow
      <4>2. t # 0 => n < t
        BY <1>1, <2>1, <3>2, <4>1 DEF UpOrder
      <4> QED
        BY <3>2, <3>4, <4>2
    <3>6. CASE s.cmd # NoLine
      <4>1. s.cmd.tag = n /\ After(s.cmd.tag, u)
        BY <3>6 DEF AnswersNow, CmdTags
      <4>2. t # 0 => n < t
        BY <1>1, <2>1, <3>2, <4>1 DEF After
      <4> QED
        BY <3>2, <3>4, <4>2
    <3> QED
      BY <3>5, <3>6
  <2>4. 0 \notin 1..n
    OBVIOUS
  <2> QED
    BY <1>1, <2>1, <2>3, <2>4 DEF UpTags
<1>3. ~Within(u[1]) /\ (u[1].verb = "CRLF" => Whole(s, u, 1))
  <2>1. CASE s.cmd = NoLine
    <3>1. u[1].verb \notin Parts
      BY <2>1, LitHead
    <3> QED
      BY <2>1, <3>1 DEF AnswersNow, Within, Parts
  <2>2. CASE s.cmd # NoLine
    <3>1. Len(s.got) = s.cmd.part
      BY <2>2 DEF AnswersNow
    <3>2. Fits(s.cmd.msg, Len(s.got), u[1]) /\ s.cmd.part = Size[s.cmd.msg] /\ s.cmd.msg \in Msg
      BY <2>2, LitHead
    <3>3. ~(Len(s.got) < Size[s.cmd.msg])
      <4>1. PICK z \in Nat : z = Size[s.cmd.msg]
        BY <3>2, Constants
      <4> QED
        BY <3>1, <3>2, <4>1
    <3>4. u[1].verb = "CRLF"
      BY <3>2, <3>3 DEF Fits
    <3> QED
      BY <2>2, <3>1, <3>2, <3>4 DEF Within, Whole
  <2> QED
    BY <2>1, <2>2
<1>4. l = 1
  <2>1. SUFFICES ASSUME l # 1 PROVE FALSE
    OBVIOUS
  <2>2. 2 \in 2..l /\ Len(u) > 1
    BY <1>1, <2>1
  <2>3. Follows(u[1], u[2])
    BY <2>2, LitHead
  <2> QED
    BY <1>2, <1>3, <2>2, <2>3 DEF Follows
<1> QED
  BY <1>1, <1>3, <1>4 DEF Clean

\* The runner's place in the stream.
LEMMA CleanApart ==
  ASSUME NEW s, NEW u, u # <<>>, Clean(s, u)
  PROVE  ~CutShort(s, u) /\ \A m, y : ~Inside(s, u, m, y)
  BY DEF Clean, CutShort, Inside

Untouched(d, n) == \A i \in DOMAIN d : d[i].tag # n

LEMMA SentUntouched ==
  ASSUME NEW d \in Seq(Replies), NEW n \in Nat \ {0}, Untouched(d, n),
         NEW es, NEW t, t # n, NEW kind, NEW z, Answers(es, t, kind, z)
  PROVE  Untouched(d \o es, n)
<1>1. LET f == d \o es
      IN /\ DOMAIN f = 1..Len(f)
         /\ f[Len(f)].tag = t
         /\ \A i \in 1..Len(f) : \/ i \in DOMAIN d /\ f[i] = d[i]
                                 \/ i = Len(f)
                                 \/ f[i].tag = 0
  BY CatAnswers
<1> QED
  BY <1>1 DEF Untouched

LEMMA ServedReplies ==
  ASSUME Typed, Lit(srv[dst], up[dst]), Serve(dst) \/ Trouble(dst), NEW n \in Nat \ {0},
         up[dst] # <<>> => ~AnswersNow(srv[dst], up[dst], n),
         Untouched(down[dst], n), srv'[dst].on
  PROVE  Untouched(down'[dst], n)
<1> USE Constants
<1>0. /\ up[dst] \in Seq(Lines) /\ srv[dst] \in Servers /\ down[dst] \in Seq(Replies)
      /\ srv[dst].cmd \in Lines
  BY Local DEF Servers
<1>h. up[dst] # <<>> => Head(up[dst]) = up[dst][1] /\ up[dst][1] \in Lines
  BY <1>0, SeqTail
<1>s. ASSUME NEW es, NEW t, t # n, NEW kind, NEW z, Answers(es, t, kind, z), Sends(dst, es)
      PROVE  Untouched(down'[dst], n)
  <2>1. Untouched(down[dst] \o es, n)
    BY <1>0, <1>s, SentUntouched
  <2> QED
    BY <1>s, <2>1 DEF Sends
<1>m. srv[dst].cmd # NoLine /\ Missing(dst) = 0 => Len(srv[dst].got) = srv[dst].cmd.part
  <2>1. Len(srv[dst].got) \in Nat
    BY <1>0 DEF Servers
  <2>2. srv[dst].cmd.part \in Int
    BY <1>0 DEF Servers, Lines
  <2>3. \A l \in Nat, z \in Int : z - l = 0 => l = z
    OBVIOUS
  <2> QED
    BY <2>1, <2>2, <2>3 DEF Missing
<1>1. CASE Fills(dst) \/ Hangs(dst)
  BY <1>1 DEF Fills, Hangs
<1>2. CASE Lined(dst) \/ Refused(dst)
  <2>1. /\ up[dst] # <<>> /\ srv[dst].cmd = NoLine /\ Head(up[dst]).verb # "APPEND"
    BY <1>2 DEF Lined, Refused, Reads
  <2>2. Head(up[dst]).tag # n /\ Head(up[dst]) \in Lines
    BY <1>h, <2>1 DEF AnswersNow
  <2>3. \E es, kind, z : Answers(es, Head(up[dst]).tag, kind, z) /\ Sends(dst, es)
    <3>1. CASE Lined(dst)
      BY <2>2, <3>1, AnswerAnswers DEF Lined
    <3>2. CASE Refused(dst)
      <4>1. Head(up[dst]).tag \in Nat
        BY <2>2 DEF Lines
      <4>2. Answers(<<Reply("NO", Head(up[dst]).tag, None, 0, srv[dst].zip)>>, Head(up[dst]).tag, "NO", srv[dst].zip)
        BY <4>1, ReplyAnswers DEF Kinds
      <4> QED
        BY <3>2, <4>2 DEF Refused
    <3> QED
      BY <1>2, <3>1, <3>2
  <2> QED
    BY <1>s, <2>2, <2>3
<1>3. CASE Begins(dst)
  <2>1. Answers(<<Reply("+", 0, None, 0, srv[dst].zip)>>, 0, "+", srv[dst].zip)
    <3>1. "+" \in Kinds /\ 0 \in Nat /\ 0 \in Int
      BY DEF Kinds
    <3> QED
      BY <3>1, ReplyAnswers
  <2>2. 0 # n
    OBVIOUS
  <2> QED
    BY <1>3, <1>s, <2>1, <2>2 DEF Begins
<1>4. CASE Stores(dst) \/ Rejects(dst)
  <2>1. up[dst] # <<>> /\ srv[dst].cmd # NoLine /\ Len(srv[dst].got) = srv[dst].cmd.part
    BY <1>4, <1>m DEF Stores, Rejects, Reads
  <2>2. srv[dst].cmd.tag # n /\ srv[dst].cmd.tag \in Nat
    BY <1>0, <2>1 DEF AnswersNow, Lines
  <2>3. \E kind \in {"OK", "NO"}, i \in Int : Sends(dst, <<Reply(kind, srv[dst].cmd.tag, None, i, srv[dst].zip)>>)
    <3>1. CASE Stores(dst)
      <4>1. PICK i \in Nat : Sends(dst, <<Reply("OK", srv[dst].cmd.tag, None, i, srv[dst].zip)>>)
        BY <3>1 DEF Stores
      <4> QED
        BY <4>1
    <3>2. CASE Rejects(dst)
      <4>1. Sends(dst, <<Reply("NO", srv[dst].cmd.tag, None, 0, srv[dst].zip)>>) /\ 0 \in Int
        BY <3>2 DEF Rejects
      <4> QED
        BY <4>1
    <3> QED
      BY <1>4, <3>1, <3>2
  <2>4. \A kind \in {"OK", "NO"}, i \in Int :
          Answers(<<Reply(kind, srv[dst].cmd.tag, None, i, srv[dst].zip)>>, srv[dst].cmd.tag, kind, srv[dst].zip)
    BY <2>2, ReplyAnswers DEF Kinds
  <2> QED
    BY <1>s, <2>2, <2>3, <2>4
<1>5. CASE Breaks(dst)
  BY <1>5 DEF Breaks
<1> QED
  BY <1>1, <1>2, <1>3, <1>4, <1>5, ServerCases

\* Until the line of the newest APPEND has ended as it should, nobody answers it.
LEMMA UnansweredStays ==
  ASSUME Typed, Typed', TagsFresh(dst), Unanswered, Lit(srv[dst], up[dst]),
         up[dst] # <<>> => ~Clean(srv[dst], up[dst]),
         Move(dst), Alive(dst), Alive(dst)', LastTag(dst)' = LastTag(dst)
  PROVE  Unanswered'
<1> USE Constants
<1> DEFINE n == LastTag(dst)
<1>0. /\ up[dst] \in Seq(Lines) /\ srv[dst] \in Servers /\ down[dst] \in Seq(Replies) /\ Len(down[dst]) \in Nat
      /\ cli[dst].result \in Seq(Outcomes) /\ n \in Nat \ {0} /\ n \in Nat
  BY Local DEF Unanswered
<1>1. Untouched(down[dst], n) /\ cli[dst].result[n] = "wait"
  BY DEF Unanswered, Untouched
<1>2. up[dst] # <<>> => ~AnswersNow(srv[dst], up[dst], n)
  BY <1>0, AnswersLate DEF TagsFresh
<1>3. ~cli[dst].closed /\ ~cli'[dst].closed /\ srv'[dst].on
  BY DEF Alive
<1>d. n \in DOMAIN cli[dst].result
  BY <1>0, SeqDomain DEF LastTag
<1> SUFFICES Untouched(down'[dst], n) /\ cli'[dst].result[n] = "wait"
  BY DEF Unanswered, Untouched
<1> HIDE DEF n
<1>t. down[dst] # <<>> => Untouched(Tail(down[dst]), n)
  <2> SUFFICES ASSUME down[dst] # <<>> PROVE Untouched(Tail(down[dst]), n)
    OBVIOUS
  <2>1. /\ DOMAIN Tail(down[dst]) = 1..(Len(down[dst]) - 1)
        /\ \A i \in 1..(Len(down[dst]) - 1) : Tail(down[dst])[i] = down[dst][i + 1]
    BY <1>0, SeqTail
  <2>2. DOMAIN down[dst] = 1..Len(down[dst])
    BY <1>0, SeqDomain
  <2>3. \A i \in 1..(Len(down[dst]) - 1) : i + 1 \in 1..Len(down[dst])
    BY <1>0
  <2> QED
    BY <1>1, <2>1, <2>2, <2>3 DEF Untouched
<1>4. CASE Rests(dst) \/ Feeds(dst) \/ Opens1(dst) \/ Proceeds(dst) \/ Hears(dst)
  <2>1. cli'[dst].result = cli[dst].result
    BY <1>4 DEF Rests, Feeds, Opens1, Proceeds, Hears, SameVoice
  <2>2. down'[dst] = down[dst] \/ (down[dst] # <<>> /\ down'[dst] = Tail(down[dst]))
    BY <1>4 DEF Rests, Feeds, Opens1, Proceeds, Hears, SameWire
  <2> QED
    BY <1>1, <1>t, <2>1, <2>2
<1>5. CASE IsAnswered(dst)
  <2>1. down[dst] # <<>> /\ down'[dst] = Tail(down[dst])
    BY <1>5 DEF IsAnswered
  <2>2. Head(down[dst]).tag # n
    <3>1. Head(down[dst]) = down[dst][1] /\ 1 \in DOMAIN down[dst]
      BY <1>0, <2>1, SeqDomain, SeqTail
    <3> QED
      BY <1>1, <3>1 DEF Untouched
  <2>3. cli'[dst].result[n] = cli[dst].result[n]
    <3>1. \/ cli'[dst].result = cli[dst].result
          \/ cli'[dst].result = [cli[dst].result EXCEPT ![Head(down[dst]).tag] = Head(down[dst]).kind]
      BY <1>5 DEF IsAnswered
    <3> QED
      BY <1>0, <1>d, <2>2, <3>1
  <2> QED
    BY <1>1, <1>t, <2>1, <2>3
<1>6. CASE Calls(dst) \/ CallsInVain(dst) \/ Greets(dst)
  <2>1. \E r \in Outcomes : cli'[dst].result = Append(cli[dst].result, r)
    BY <1>6 DEF Calls, CallsInVain, Greets, Outcomes, Outcome
  <2>2. LastTag(dst)' = LastTag(dst) + 1
    BY <1>0, <2>1, SeqAppend DEF LastTag
  <2> QED
    BY <1>0, <2>2 DEF n
<1>7. CASE Finds(dst) \/ Closes(dst) \/ Tells(dst)
  BY <1>3, <1>7 DEF Finds, Closes, Tells
<1>8. CASE Serves(dst)
  <2>1. cli'[dst].result = cli[dst].result
    BY <1>8 DEF Serves, SameVoice
  <2> QED
    BY <1>0, <1>1, <1>2, <1>3, <1>8, <2>1, ServedReplies DEF Serves
<1> QED
  BY <1>4, <1>5, <1>6, <1>7, <1>8 DEF Move

-----------------------------------------------------------------------------
(* What the runner does to the connection of the destination *)

DestWrites(e) ==
  /\ DestKeeps /\ ~cli[dst].closed /\ ~cli'[dst].closed
  /\ up'[dst] = Append(up[dst], e)
DestLogsOut ==
  /\ pc = "close" /\ graceful
  /\ \E e \in Lines : e.verb = "LOGOUT" /\ DestWrites(e)
DestBegins ==
  /\ Begin /\ ~cli[dst].closed
  /\ \E e \in Lines : e.verb = "APPEND" /\ e.msg = item /\ e.part = body[item].size /\ DestWrites(e)
DestStreams ==
  /\ StreamChunk
  /\ \E e \in Lines : /\ e.verb = "DATA" /\ <<e.msg, e.part>> = Head(body[item].ch) /\ DestWrites(e)
DestFinishes ==
  /\ Finish /\ ~cli[dst].closed
  /\ \E e \in Lines : e.verb = "CRLF" /\ DestWrites(e)
WorkRests == DestRests /\ (Begin \/ StreamChunk \/ Finish => cli[dst].closed)

LEMMA AbortDest ==
  ASSUME Typed, NEW k \in Conn, NEW why \in Causes, Abort(k, why), box' = box
  PROVE  DestRests \/ DestCloses
<1> USE Constants
<1>0. cli \in [Conn -> Clients] /\ srv \in [Conn -> Servers] /\ up \in [Conn -> Seq(Lines)]
  BY DEF Typed, ClientsTyped, ServersTyped, WireTyped
<1>1. CASE k # dst
  <2>1. Elsewhere(dst)
    BY <1>1, OtherEnd
  <2> QED
    BY <2>1 DEF Elsewhere, SameWire, SameServer, DestRests, DestKeeps
<1>2. CASE k = dst /\ cli[k].closed
  BY <1>2 DEF Abort, DestRests, DestKeeps
<1>3. CASE k = dst /\ ~cli[k].closed
  <2>1. cli' = [cli EXCEPT ![k] = Closed(@, why)] /\ Sever(k)
    BY <1>3 DEF Abort
  <2>2. Closed(cli[k], why).closed
    BY <1>0, <1>3 DEF Closed, Clients
  <2>3. cli'[dst].closed
    BY <1>0, <1>3, <2>1, <2>2
  <2>4. srv' = [srv EXCEPT ![dst].peer = FALSE]
    BY <1>3, <2>1 DEF Sever
  <2>5. DestKeeps
    BY <1>0, <2>4 DEF Servers, DestKeeps
  <2>6. \E n \in 0..Len(up[dst]) : up'[dst] = SubSeq(up[dst], 1, n)
    <3>1. PICK n \in 0..(IF Appending(dst) THEN Len(up[dst]) ELSE 0) : up' = [up EXCEPT ![dst] = SubSeq(@, 1, n)]
      BY <1>3, <2>1 DEF Sever
    <3>2. n \in 0..Len(up[dst])
      BY <3>1, Local
    <3>3. up'[dst] = SubSeq(up[dst], 1, n)
      BY <1>0, <3>1
    <3> QED
      BY <3>2, <3>3
  <2> QED
    BY <2>3, <2>5, <2>6 DEF DestCloses
<1> QED
  BY <1>1, <1>2, <1>3

\* A write of the runner.
LEMMA WriteDest ==
  ASSUME Typed, NEW c \in Clients, cli' = [cli EXCEPT ![dst] = c], c.closed = cli[dst].closed,
         NEW e \in Lines, up' = Write(dst, e), srv' = srv, box' = box
  PROVE  IF cli[dst].closed THEN DestRests ELSE DestWrites(e)
<1> USE Constants
<1>1. cli'[dst].closed = cli[dst].closed
  BY OneClient
<1>2. IF cli[dst].closed THEN up'[dst] = up[dst] ELSE up'[dst] = Append(up[dst], e)
  BY OneWire
<1> QED
  BY <1>1, <1>2 DEF DestRests, DestWrites, DestKeeps

LEMMA LogoutDest ==
  ASSUME Typed, NEW k \in Conn, NEW verb \in {"SELECT", "LOGOUT"}, k = dst => verb = "LOGOUT",
         CmdNowait(k, verb), srv' = srv, box' = box
  PROVE  DestRests \/ \E e \in Lines : e.verb = "LOGOUT" /\ DestWrites(e)
<1> USE Constants
<1> DEFINE i == Issue(cli[k], verb)
           e == Command(k, verb, None)
<1>1. cli' = [cli EXCEPT ![k] = i] /\ up' = Write(k, e)
  BY DEF CmdNowait
<1>2. verb \in Verbs
  BY DEF Verbs
<1>3. i \in Clients /\ i.closed = cli[k].closed
  <2>1. i \in Clients
    BY <1>2, Local, IssueTyped
  <2>2. i.closed = cli[k].closed
    BY Local DEF Issue, Clients
  <2> QED
    BY <2>1, <2>2
<1>4. e \in Lines /\ e.verb = verb
  BY <1>2, CommandTyped DEF Command, Line
<1> HIDE DEF i, e
<1>5. CASE k = dst
  <2>1. IF cli[dst].closed THEN DestRests ELSE DestWrites(e)
    BY <1>1, <1>3, <1>4, <1>5, WriteDest
  <2> QED
    BY <1>4, <1>5, <2>1
<1>6. CASE k # dst
  <2>1. cli'[dst] = cli[dst] /\ up'[dst] = up[dst]
    BY <1>1, <1>6, OneClient, OneWire
  <2> QED
    BY <2>1 DEF DestRests, DestKeeps
<1> QED
  BY <1>5, <1>6

LEMMA WorkDest ==
  ASSUME Typed, Work
  PROVE  WorkRests \/ DestCloses \/ DestLogsOut \/ DestBegins \/ DestStreams \/ DestFinishes
<1> USE Constants
<1>0. box' = box
  BY DEF Work, Opened, Select, Selected, StartMore, Filled, WaitSize, Begin, Continue, StreamChunk,
     StreamEnds, Finish, Room, SettleOne, ClosePair, LoggedOut, Ended, peer, rest
<1>c. cli[dst] \in Clients /\ cli \in [Conn -> Clients]
  BY Local DEF Typed, ClientsTyped
<1>p. pc \notin {"begin", "stream", "finish"} => ~Begin /\ ~StreamChunk /\ ~Finish
  BY DEF Begin, StreamChunk, Finish
<1>1. CASE Opened \/ Selected \/ Filled \/ WaitSize \/ StreamEnds \/ Room \/ Ended
  <2>1. UNCHANGED <<cli, up, srv, box>>
    BY <1>1 DEF Opened, Selected, Filled, WaitSize, StreamEnds, Room, Ended, peer, client
  <2>2. ~Begin /\ ~StreamChunk /\ ~Finish
    <3>1. CASE StreamEnds
      <4>1. body' = body /\ up' = up /\ pc = "stream"
        BY <3>1 DEF StreamEnds, client, peer
      <4>2. ~StreamChunk
        <5>1. SUFFICES ASSUME StreamChunk PROVE FALSE
          OBVIOUS
        <5>2. item \in Msg /\ body[item].ch # <<>> /\ body' = [body EXCEPT ![item].ch = Tail(@)]
          BY <5>1 DEF StreamChunk, Typed, WorkerTyped
        <5>3. body[item].ch \in Seq(Chunks) /\ body'[item].ch = Tail(body[item].ch)
          BY <5>2 DEF Typed, BodiesTyped, Handles
        <5>4. PICK c \in Seq(Chunks) : c = body[item].ch
          BY <5>3
        <5>5. c # <<>> /\ Tail(c) = c
          BY <4>1, <5>2, <5>3, <5>4
        <5>6. Len(Tail(c)) = Len(c) - 1 /\ Len(c) \in Nat
          BY <5>5, SeqTail
        <5> QED
          BY <5>5, <5>6
      <4> QED
        BY <4>1, <4>2 DEF Begin, Finish
    <3>2. CASE Opened \/ Selected \/ Filled \/ WaitSize \/ Room \/ Ended
      BY <1>p, <3>2 DEF Opened, Selected, Filled, WaitSize, Room, Ended
    <3> QED
      BY <1>1, <3>1, <3>2
  <2> QED
    BY <2>1, <2>2 DEF WorkRests, DestRests, DestKeeps
<1>2. CASE Select
  <2>1. CmdNowait(src, "SELECT") /\ srv' = srv /\ pc = "select"
    BY <1>2 DEF Select
  <2>2. cli'[dst] = cli[dst] /\ up'[dst] = up[dst]
    BY <2>1, OneClient, OneWire DEF CmdNowait
  <2> QED
    BY <1>0, <1>p, <2>1, <2>2 DEF WorkRests, DestRests, DestKeeps
<1>3. CASE StartMore
  <2>1. BodyFetch(src, Rows[next]) /\ srv' = srv /\ pc = "fill"
    BY <1>3 DEF StartMore
  <2>a. (\E c : cli' = [cli EXCEPT ![src] = c]) /\ \E e : up' = Write(src, e)
    BY <2>1 DEF BodyFetch
  <2>2. cli'[dst] = cli[dst] /\ up'[dst] = up[dst]
    BY <2>a, OneClient, OneWire
  <2> QED
    BY <1>0, <1>p, <2>1, <2>2 DEF WorkRests, DestRests, DestKeeps
<1>4. CASE Continue \/ SettleOne
  <2>1. /\ cli' = cli \/ cli' = [cli EXCEPT ![dst].cont = 0] \/ cli' = [cli EXCEPT ![dst] = AppendDone(@)]
        /\ up' = up /\ srv' = srv /\ pc \notin {"begin", "stream", "finish"}
    BY <1>4 DEF Continue, SettleOne, peer
  <2>2. cli'[dst].closed = cli[dst].closed
    BY <1>c, <2>1 DEF AppendDone, Clients
  <2> QED
    BY <1>0, <1>p, <2>1, <2>2 DEF WorkRests, DestRests, DestKeeps
<1>5. CASE Begin
  <2> DEFINE i == Issue(cli[dst], "APPEND")
             o == i.owed + 1
             c == IF cli[dst].closed THEN i ELSE [i EXCEPT !.owed = o]
             e == Line("APPEND", LastTag(dst) + 1, item, body[item].size, ~NonSync(cli[dst]), cli[dst].zout)
  <2>1. cli' = [cli EXCEPT ![dst] = c] /\ up' = Write(dst, e) /\ srv' = srv
    BY <1>5 DEF Begin, AppendBegin
  <2>2. i \in Clients /\ i.closed = cli[dst].closed
    <3>1. i \in Clients
      BY <1>c, IssueTyped DEF Verbs
    <3>2. i.closed = cli[dst].closed
      BY <1>c DEF Issue, Clients
    <3> QED
      BY <3>1, <3>2
  <2>3. item \in Msg /\ body[item].size \in Int
    BY <1>5 DEF Begin, Typed, WorkerTyped, BodiesTyped, Handles
  <2>4. e \in Lines
    <3>1. cli[dst].zout \in BOOLEAN /\ cli[dst].plus \in BOOLEAN
      BY <1>c DEF Clients
    <3>2. LastTag(dst) + 1 \in Nat
      <4>1. LastTag(dst) \in Nat
        BY Local
      <4> QED
        BY <4>1
    <3>3. (~NonSync(cli[dst])) \in BOOLEAN
      OBVIOUS
    <3> QED
      BY <2>3, <3>1, <3>2, <3>3 DEF Line, Lines, Verbs
  <2>5. e.verb = "APPEND" /\ e.msg = item /\ e.part = body[item].size
    BY DEF Line
  <2>o. o \in Int
    BY <2>2 DEF Clients
  <2> HIDE DEF i, e, o
  <2>6. c \in Clients /\ c.closed = cli[dst].closed
    <3>1. [i EXCEPT !.owed = o] \in Clients /\ [i EXCEPT !.owed = o].closed = i.closed
      BY <2>2, <2>o DEF Clients
    <3> QED
      BY <2>2, <3>1
  <2> HIDE DEF c
  <2>7. IF cli[dst].closed THEN DestRests ELSE DestWrites(e)
    BY <1>0, <2>1, <2>4, <2>6, WriteDest
  <2> QED
    BY <1>5, <2>4, <2>5, <2>7 DEF WorkRests, DestBegins
<1>6. CASE StreamChunk
  <2> DEFINE e == Data(Head(body[item].ch), cli[dst].zout)
             c == [cli[dst] EXCEPT !.idle = 0]
  <2>1. cli' = [cli EXCEPT ![dst] = c] /\ up' = Write(dst, e) /\ srv' = srv
    BY <1>6 DEF StreamChunk
  <2>2. c \in Clients /\ c.closed = cli[dst].closed
    BY <1>c DEF Clients
  <2>3. item \in Msg /\ body[item].ch \in Seq(Chunks) /\ body[item].ch # <<>>
    BY <1>6 DEF StreamChunk, Typed, WorkerTyped, BodiesTyped, Handles
  <2>4. Head(body[item].ch) \in Chunks
    BY <2>3, SeqTail
  <2>5. PICK h \in Chunks : h = Head(body[item].ch)
    BY <2>4
  <2>6. h[1] \in Msg \union {None} /\ h[2] \in Int /\ h = <<h[1], h[2]>>
    BY DEF Chunks
  <2>7. e \in Lines /\ e.verb = "DATA" /\ <<e.msg, e.part>> = Head(body[item].ch)
    BY <1>c, <2>5, <2>6 DEF Data, Line, Lines, Verbs, Clients
  <2> HIDE DEF e, c
  <2>8. IF cli[dst].closed THEN DestRests ELSE DestWrites(e)
    BY <1>0, <2>1, <2>2, <2>7, WriteDest
  <2> QED
    BY <1>6, <2>7, <2>8 DEF WorkRests, DestStreams
<1>7. CASE Finish
  <2> DEFINE e == LineEnd(cli[dst].zout)
             c == [cli[dst] EXCEPT !.idle = 0]
  <2>1. cli' = [cli EXCEPT ![dst] = c] /\ up' = Write(dst, e) /\ srv' = srv
    BY <1>7 DEF Finish
  <2>2. c \in Clients /\ c.closed = cli[dst].closed
    BY <1>c DEF Clients
  <2>3. e \in Lines /\ e.verb = "CRLF"
    BY <1>c DEF LineEnd, Line, Lines, Verbs, Clients
  <2> HIDE DEF e, c
  <2>4. IF cli[dst].closed THEN DestRests ELSE DestWrites(e)
    BY <1>0, <2>1, <2>2, <2>3, WriteDest
  <2> QED
    BY <1>7, <2>3, <2>4 DEF WorkRests, DestFinishes
<1>8. CASE ClosePair \/ LoggedOut
  <2>1. Head(closing) \in Conn
    BY <1>8 DEF ClosePair, LoggedOut, Typed, WorkerTyped
  <2>2. \/ pc = "close" /\ graceful /\ CmdNowait(Head(closing), "LOGOUT") /\ srv' = srv
        \/ Abort(Head(closing), "lost")
    BY <1>8 DEF ClosePair, LoggedOut
  <2>3. pc \in {"close", "logout"}
    BY <1>8 DEF ClosePair, LoggedOut
  <2>4. DestRests \/ DestCloses \/ DestLogsOut
    BY <1>0, <2>1, <2>2, LogoutDest, AbortDest DEF Causes, DestLogsOut
  <2> QED
    BY <1>p, <2>3, <2>4 DEF WorkRests
<1> QED
  BY <1>1, <1>2, <1>3, <1>4, <1>5, <1>6, <1>7, <1>8 DEF Work

-----------------------------------------------------------------------------
(* Literals *)

LEMMA ChunkTaken ==
  ASSUME Typed, StreamChunk
  PROVE  Taken(item) /\ item \in Msg
<1>1. Work /\ ~StartMore
  BY DEF Work, StreamChunk, StartMore
<1>2. AllSame
  BY <1>1, WorkReader DEF AllSame
<1> QED
  BY <1>2 DEF StreamChunk, Taken, Typed, WorkerTyped

\* Where the runner is, as the destination sees it.
LEMMA CleanWhere ==
  ASSUME StreamInv, Alive(dst),
         pc \in {"open", "select", "selected", "fill", "begin", "logout"} \/ (pc = "close" /\ graceful), ~(pc = "fill")
  PROVE  Clean(srv[dst], up[dst])
  BY DEF StreamInv, InPlace, Left, Settling, Copying, Running

LEMMA StreamPlace ==
  ASSUME Typed, StreamInv, DestStreams, srv[dst].on
  PROVE  \E m \in Msg : \E y \in Nat : \E e \in Lines :
           /\ m = item /\ y \in 0..Size[m] /\ Held(m, y) /\ Inside(srv[dst], up[dst], m, y) /\ y + 1 \in 0..Size[m]
           /\ e.verb = "DATA" /\ Fits(m, y, e) /\ Sound(e) /\ DestWrites(e)
<1>1. PICK e \in Lines : e.verb = "DATA" /\ <<e.msg, e.part>> = Head(body[item].ch) /\ DestWrites(e)
  BY DEF DestStreams
<1>2. Alive(dst) /\ pc \in Copying
  BY <1>1 DEF Alive, DestWrites, DestStreams, StreamChunk, Copying
<1>3. PICK m \in Msg : m = item
  BY ChunkTaken DEF DestStreams
<1>z. Size[m] \in Nat
  BY Constants
<1>4. PICK y \in 0..Size[m] : Held(m, y) /\ Inside(srv[dst], up[dst], m, y)
  BY <1>2, <1>3 DEF StreamInv, InPlace, Left, Settling
<1>5. y \in Nat
  BY <1>z
<1>6. Head(body[m].ch) = <<m, y + 1>> /\ y + 1 \in 0..Size[m]
  BY <1>3, <1>4, <1>5, ChunkTaken, HeldTaken DEF DestStreams
<1>7. e.msg = m /\ e.part = y + 1
  BY <1>1, <1>3, <1>6
<1>8. y < Size[m]
  BY <1>z, <1>5, <1>6
<1>9. Fits(m, y, e) /\ Sound(e)
  BY <1>1, <1>6, <1>7, <1>8 DEF Fits, Sound, Within, Written
<1> QED
  BY <1>1, <1>3, <1>4, <1>5, <1>6, <1>9

LEMMA FinishPlace ==
  ASSUME Typed, StreamInv, DestFinishes, srv[dst].on
  PROVE  \E m \in Msg : \E y \in 0..Size[m] : \E e \in Lines :
           /\ m = item /\ Held(m, y) /\ Inside(srv[dst], up[dst], m, y)
           /\ e.verb = "CRLF" /\ Fits(m, y, e) /\ Sound(e) /\ DestWrites(e)
<1>1. PICK e \in Lines : e.verb = "CRLF" /\ DestWrites(e)
  BY DEF DestFinishes
<1>2. Alive(dst) /\ pc \in Copying /\ pc = "finish"
  BY <1>1 DEF Alive, DestWrites, DestFinishes, Finish, Copying
<1>3. PICK m \in Msg : m = item
  BY <1>2 DEF Typed, WorkerTyped
<1>4. PICK y \in 0..Size[m] : Held(m, y) /\ Inside(srv[dst], up[dst], m, y)
  BY <1>2, <1>3 DEF StreamInv, InPlace, Left, Settling
<1>5. Fits(m, y, e) /\ Sound(e)
  BY <1>1 DEF Fits, Sound, Within
<1> QED
  BY <1>1, <1>3, <1>4, <1>5

LEMMA BeginPlace ==
  ASSUME Typed, StreamInv, HeldInv, SizesTold, DestBegins, srv[dst].on
  PROVE  /\ Clean(srv[dst], up[dst])
         /\ item \in Msg /\ body[item].size = Size[item]
         /\ \E e \in Lines : e.verb = "APPEND" /\ e.msg = item /\ Sound(e) /\ DestWrites(e)
<1>1. PICK e \in Lines : e.verb = "APPEND" /\ e.msg = item /\ e.part = body[item].size /\ DestWrites(e)
  BY DEF DestBegins
<1>2. Alive(dst) /\ pc = "begin"
  BY <1>1 DEF Alive, DestWrites, DestBegins, Begin
<1>3. Clean(srv[dst], up[dst])
  BY <1>2, CleanWhere
<1>4. item \in Msg /\ item # None
  BY <1>2, Constants DEF Typed, WorkerTyped
<1>5. Held(item, 0) /\ body[item].size # -1
  BY <1>2, <1>4 DEF HeldInv, SizesTold, Running, Copying
<1>6. body[item].size = Size[item]
  BY <1>5 DEF Held
<1>7. Size[item] \in Nat
  BY <1>4, Constants
<1>8. Sound(e)
  <2>1. Written(e) = 0 /\ 0 \in 0..Size[item]
    BY <1>1, <1>7 DEF Written
  <2> QED
    BY <1>1, <1>4, <1>6, <2>1 DEF Sound
<1> QED
  BY <1>1, <1>3, <1>4, <1>6, <1>8

\* What the server has got is not touched by others.
LEMMA KeepsLit ==
  ASSUME Typed, Typed', DestKeeps, NEW u \in Seq(Lines), Lit(srv[dst], u)
  PROVE  Lit(srv'[dst], u)
<1>1. srv[dst] \in Servers /\ srv'[dst] \in Servers
  BY Constants DEF Typed, ServersTyped
<1> QED
  BY <1>1, CutPrefix DEF DestKeeps

LEMMA LiteralNext ==
  ASSUME Typed, Typed', OpenFirst, LiteralInv, StreamInv, HeldInv, SizesTold, [Next]_vars
  PROVE  LiteralInv'
<1> USE Constants
<1>0. up[dst] \in Seq(Lines) /\ srv[dst] \in Servers /\ srv'[dst] \in Servers /\ up'[dst] \in Seq(Lines)
  BY DEF Typed, ServersTyped, WireTyped
<1> SUFFICES ASSUME srv'[dst].on PROVE Lit(srv'[dst], up'[dst])
  BY DEF LiteralInv
<1>k. ASSUME DestKeeps
      PROVE  srv[dst].on /\ Lit(srv[dst], up[dst]) /\ (\A u \in Seq(Lines) : Lit(srv[dst], u) => Lit(srv'[dst], u))
  <2>1. srv[dst].on
    BY <1>k DEF DestKeeps
  <2> QED
    BY <1>k, <2>1, KeepsLit DEF LiteralInv
<1>1. CASE DestRests \/ WorkRests
  BY <1>0, <1>1, <1>k DEF DestRests, WorkRests
<1>2. CASE DestCloses
  <2>1. PICK n \in 0..Len(up[dst]) : up'[dst] = SubSeq(up[dst], 1, n)
    BY <1>2 DEF DestCloses
  <2>2. Lit(srv[dst], SubSeq(up[dst], 1, n))
    BY <1>0, <1>2, <1>k, LitPrefix DEF DestCloses
  <2> QED
    BY <1>0, <1>2, <1>k, <2>1, <2>2 DEF DestCloses
<1>w. ASSUME NEW e \in Lines, DestWrites(e), Lit(srv[dst], Append(up[dst], e))
      PROVE  Lit(srv'[dst], up'[dst])
  BY <1>0, <1>k, <1>w DEF DestWrites
<1>3. CASE DestAsks \/ DestLogsOut
  <2>1. PICK e \in Lines : e.verb \notin Parts \union {"APPEND"} /\ DestWrites(e)
    BY <1>3 DEF DestAsks, DestLogsOut, DestWrites, Parts
  <2>2. Clean(srv[dst], up[dst])
    <3>1. Alive(dst)
      BY <1>k, <2>1 DEF DestWrites, Alive
    <3> QED
      BY <1>3, <3>1, CleanWhere DEF DestAsks, DestLogsOut
  <2>3. Sound(e)
    BY <2>1 DEF Sound, Within, Parts
  <2>4. Lit(srv[dst], Append(up[dst], e))
    BY <1>0, <1>k, <2>1, <2>2, <2>3, CleanCommand DEF DestWrites
  <2> QED
    BY <1>w, <2>1, <2>4
<1>4. CASE DestBegins
  <2>1. srv[dst].on
    BY <1>4, <1>k DEF DestBegins, DestWrites
  <2>2. PICK e \in Lines : e.verb = "APPEND" /\ Sound(e) /\ DestWrites(e)
    BY <1>4, <2>1, BeginPlace
  <2>3. Lit(srv[dst], Append(up[dst], e))
    BY <1>0, <1>4, <1>k, <2>1, <2>2, BeginPlace, CleanCommand DEF DestWrites, Parts
  <2> QED
    BY <1>w, <2>2, <2>3
<1>5. CASE DestStreams
  <2>1. srv[dst].on
    BY <1>5, <1>k DEF DestStreams, DestWrites
  <2>2. PICK m \in Msg, y \in Nat, e \in Lines :
          y \in 0..Size[m] /\ Inside(srv[dst], up[dst], m, y) /\ Fits(m, y, e) /\ Sound(e) /\ DestWrites(e)
    BY <1>5, <2>1, StreamPlace
  <2>3. Lit(srv[dst], Append(up[dst], e))
    BY <1>0, <1>k, <2>2, InsidePart DEF DestWrites
  <2> QED
    BY <1>w, <2>2, <2>3
<1>6. CASE DestFinishes
  <2>1. srv[dst].on
    BY <1>6, <1>k DEF DestFinishes, DestWrites
  <2>2. PICK m \in Msg : \E y \in 0..Size[m] : \E e \in Lines :
          Inside(srv[dst], up[dst], m, y) /\ Fits(m, y, e) /\ Sound(e) /\ DestWrites(e)
    BY <1>6, <2>1, FinishPlace
  <2>3. PICK y \in 0..Size[m] : \E e \in Lines :
          Inside(srv[dst], up[dst], m, y) /\ Fits(m, y, e) /\ Sound(e) /\ DestWrites(e)
    BY <2>2
  <2>4. PICK e \in Lines : Inside(srv[dst], up[dst], m, y) /\ Fits(m, y, e) /\ Sound(e) /\ DestWrites(e)
    BY <2>3
  <2>5. Lit(srv[dst], Append(up[dst], e))
    BY <1>0, <1>k, <2>4, InsidePart DEF DestWrites
  <2> QED
    BY <1>w, <2>4, <2>5
<1>7. CASE DestServes
  <2>1. srv[dst].on
    BY <1>7 DEF DestServes, Serve, Trouble, ServeLine, ServeAppend, ServeLiteral, ServeBody, RefuseLine,
       RefuseBody, Cut, Stall, Reading
  <2>2. Lit(srv[dst], up[dst])
    BY <2>1 DEF LiteralInv
  <2>3. CASE DestStands
    BY <1>0, <2>2, <2>3, CutPrefix DEF DestStands
  <2>4. CASE DestEats
    BY <1>0, <2>2, <2>4, LitEats DEF DestEats
  <2> QED
    BY <1>7, <2>2, <2>3, <2>4, ServedEats DEF DestServes
<1> QED
  BY <1>1, <1>2, <1>3, <1>4, <1>5, <1>6, <1>7, WorkDest, DestIdle

\* What is stored is the literal of an APPEND, and all of it.
LEMMA ExactNext ==
  ASSUME Typed, OpenFirst, LiteralInv, SourceInv', CopiesAreExact, [Next]_vars
  PROVE  CopiesAreExact'
<1> USE Constants
<1>0. up[dst] \in Seq(Lines) /\ srv[dst] \in Servers /\ box[dst] \in Seq([row : Msg \union {None}, body : Seq(Chunks)])
  BY Local DEF Typed, BoxTyped
<1> SUFFICES \A i \in DOMAIN box'[dst] : box'[dst][i].body = Body(box'[dst][i].row)
  <2>1. \A k \in Conn : k = src \/ k = dst
    OBVIOUS
  <2>2. box'[src] = <<>>
    BY DEF SourceInv
  <2> QED
    BY <2>1, <2>2 DEF CopiesAreExact
<1>1. CASE box'[dst] = box[dst]
  BY <1>1 DEF CopiesAreExact
<1>2. CASE DestServes
  <2>1. srv[dst].on
    BY <1>2 DEF DestServes, Serve, Trouble, ServeLine, ServeAppend, ServeLiteral, ServeBody, RefuseLine,
       RefuseBody, Cut, Stall, Reading
  <2>2. Lit(srv[dst], up[dst])
    BY <2>1 DEF LiteralInv
  <2>3. DestStands \/ DestEats
    BY <1>2, <2>2, ServedEats DEF DestServes
  <2>4. CASE DestEats /\ DestStores /\ srv[dst].cmd # NoLine /\ Len(srv[dst].got) = srv[dst].cmd.part
    <3>1. PICK m \in Msg : m = srv[dst].cmd.msg /\ srv[dst].cmd.part = Size[m] /\ srv[dst].got = Prefix(m, Len(srv[dst].got))
      BY <1>0, <2>2, <2>4, LitHead DEF DestEats
    <3>2. srv[dst].got = Body(m)
      BY <2>4, <3>1 DEF Prefix, Body
    <3> DEFINE r == [row |-> m, body |-> srv[dst].got]
    <3>3. box'[dst] = Append(box[dst], r)
      BY <2>4, <3>1 DEF DestStores
    <3>4. r \in [row : Msg \union {None}, body : Seq(Chunks)] /\ r.row = m /\ r.body = Body(m)
      BY <1>0, <3>2 DEF Servers
    <3> HIDE DEF r
    <3>5. /\ DOMAIN box'[dst] = 1..(Len(box[dst]) + 1) /\ Len(box[dst]) \in Nat
          /\ \A i \in 1..Len(box[dst]) : box'[dst][i] = box[dst][i]
          /\ box'[dst][Len(box[dst]) + 1] = r
      BY <1>0, <3>3, <3>4, SeqAppend
    <3>6. DOMAIN box[dst] = 1..Len(box[dst])
      BY <1>0, SeqDomain
    <3>7. ASSUME NEW i \in DOMAIN box'[dst]
          PROVE  box'[dst][i].body = Body(box'[dst][i].row)
      <4>1. CASE i \in 1..Len(box[dst])
        BY <3>5, <3>6, <4>1 DEF CopiesAreExact
      <4>2. CASE i = Len(box[dst]) + 1
        BY <3>4, <3>5, <4>2
      <4> QED
        BY <3>5, <3>7, <4>1, <4>2
    <3> QED
      BY <3>7
  <2> QED
    BY <1>1, <2>3, <2>4 DEF DestStands, DestEats
<1> QED
  BY <1>1, <1>2, WorkDest, DestIdle DEF WorkRests, DestRests, DestCloses, DestLogsOut, DestBegins, DestStreams, DestFinishes,
     DestWrites, DestAsks, DestKeeps

-----------------------------------------------------------------------------
(* Where the runner is in the stream *)

LEMMA AliveWas ==
  ASSUME Typed, OpenFirst, [Next]_vars, Alive(dst)'
  PROVE  Alive(dst)
<1> USE Constants
<1>1. ~cli[dst].closed
  <2>1. Move(dst)
    BY Moves
  <2>2. ~cli'[dst].closed
    BY DEF Alive
  <2> QED
    BY <2>1, <2>2, ClosedStays
<1>2. srv[dst].on
  <2>1. DestServes => srv[dst].on
    BY DEF DestServes, Serve, Trouble, ServeLine, ServeAppend, ServeLiteral, ServeBody, RefuseLine,
       RefuseBody, Cut, Stall, Reading
  <2>2. srv'[dst].on
    BY DEF Alive
  <2> QED
    BY <2>1, <2>2, WorkDest, DestIdle DEF WorkRests, DestRests, DestCloses, DestLogsOut, DestBegins, DestStreams, DestFinishes,
       DestWrites, DestAsks, DestKeeps
<1> QED
  BY <1>1, <1>2 DEF Alive

Writes == Begin \/ StreamChunk \/ Finish

LEMMA KeepsPlace ==
  ASSUME DestKeeps, NEW u
  PROVE  /\ Clean(srv[dst], u) => Clean(srv'[dst], u)
         /\ CutShort(srv[dst], u) => CutShort(srv'[dst], u)
         /\ \A m, y : Inside(srv[dst], u, m, y) => Inside(srv'[dst], u, m, y)
<1>1. \A i : Whole(srv'[dst], u, i) = Whole(srv[dst], u, i)
  BY DEF Whole, DestKeeps
<1> QED
  BY <1>1 DEF Clean, CutShort, Inside, DestKeeps

LEMMA StandsPlace ==
  ASSUME DestStands, NEW u
  PROVE  /\ Clean(srv[dst], u) => Clean(srv'[dst], u)
         /\ CutShort(srv[dst], u) => CutShort(srv'[dst], u)
         /\ \A m, y : Inside(srv[dst], u, m, y) => Inside(srv'[dst], u, m, y)
<1>1. \A i : Whole(srv'[dst], u, i) = Whole(srv[dst], u, i)
  BY DEF Whole, DestStands
<1> QED
  BY <1>1 DEF Clean, CutShort, Inside, DestStands

LEMMA PlaceStays ==
  ASSUME Typed, Typed', OpenFirst, LiteralInv, [Next]_vars, Alive(dst)', ~Writes
  PROVE  /\ Clean(srv[dst], up[dst]) => Clean(srv'[dst], up'[dst])
         /\ pc # "open" /\ ~(pc = "close" /\ graceful) =>
              /\ CutShort(srv[dst], up[dst]) => CutShort(srv'[dst], up'[dst])
              /\ \A m \in Msg, y \in Nat : Inside(srv[dst], up[dst], m, y) => Inside(srv'[dst], up'[dst], m, y)
<1> USE Constants
<1>0. up[dst] \in Seq(Lines) /\ srv[dst] \in Servers /\ srv'[dst] \in Servers
  BY DEF Typed, ServersTyped, WireTyped
<1>a. Alive(dst) /\ Lit(srv[dst], up[dst])
  BY AliveWas DEF LiteralInv, Alive
<1>1. CASE DestRests \/ WorkRests
  BY <1>1, KeepsPlace DEF DestRests, WorkRests
<1>2. CASE DestAsks \/ DestLogsOut
  <2>1. PICK e \in Lines : e.verb \notin Parts \union {"APPEND"} /\ DestWrites(e)
    BY <1>2 DEF DestAsks, DestLogsOut, DestWrites, Parts
  <2>2. Sound(e)
    BY <2>1 DEF Sound, Within, Parts
  <2>3. Clean(srv[dst], up[dst]) => Clean(srv'[dst], up'[dst])
    <3>1. SUFFICES ASSUME Clean(srv[dst], up[dst]) PROVE Clean(srv'[dst], up'[dst])
      OBVIOUS
    <3>2. Clean(srv[dst], Append(up[dst], e))
      BY <1>0, <1>a, <2>1, <2>2, <3>1, CleanCommand
    <3> QED
      BY <2>1, <3>2, KeepsPlace DEF DestWrites
  <2> QED
    BY <1>2, <2>3 DEF DestAsks, DestLogsOut
<1>3. CASE DestServes
  <2>1. DestStands \/ DestEats
    BY <1>3, <1>a, ServedEats DEF DestServes
  <2>2. CASE DestStands
    BY <2>2, StandsPlace DEF DestStands
  <2>3. CASE DestEats
    BY <1>0, <1>a, <2>3, StreamEats DEF DestEats
  <2> QED
    BY <2>1, <2>2, <2>3
<1>4. ~DestCloses /\ ~DestBegins /\ ~DestStreams /\ ~DestFinishes
  BY DEF Alive, Writes, DestCloses, DestBegins, DestStreams, DestFinishes
<1> QED
  BY <1>1, <1>2, <1>3, <1>4, WorkDest, DestIdle

\* From the APPEND to its answer nothing else is asked of the destination.
LEMMA TagStays ==
  ASSUME Typed, OpenFirst, [Next]_vars, ~cli[dst].closed, pc \in Copying \union Settling
  PROVE  LastTag(dst)' = LastTag(dst)
<1> USE Constants
<1>0. /\ cli[dst] \in Clients /\ cli \in [Conn -> Clients] /\ cli[dst].phase \in {"ready", "failed"}
      /\ Move(dst) /\ cli[dst].result \in Seq(Outcomes)
  BY Local, Moves DEF Typed, ClientsTyped, OpenFirst, Copying, Settling
<1>1. CASE cli'[dst].result = cli[dst].result
  BY <1>1 DEF LastTag
<1>2. CASE pc' = pc
  <2>1. CASE IsAnswered(dst)
    <3> DEFINE e == Head(down[dst])
               r == [cli[dst].result EXCEPT ![e.tag] = e.kind]
    <3>1. e.kind \in Outcomes /\ (cli'[dst].result = r \/ cli'[dst].result = cli[dst].result)
      BY <2>1 DEF IsAnswered, Outcomes, Outcome
    <3>2. Len(r) = Len(cli[dst].result)
      BY <1>0, <3>1, ElementSet
    <3> QED
      BY <3>1, <3>2 DEF LastTag
  <2> QED
    BY <1>0, <1>1, <1>2, <2>1 DEF Move, Rests, Feeds, Calls, CallsInVain, Greets, Opens1, Proceeds, Hears, Tells,
       Finds, Closes, Serves, SameVoice, Asking
<1>3. CASE Work
  <2>1. CASE StartMore
    BY <1>0, <1>1, <2>1 DEF StartMore, BodyFetch
  <2>2. CASE Filled \/ WaitSize \/ StreamEnds \/ Room
    BY <1>1, <2>2 DEF Filled, WaitSize, StreamEnds, Room, client
  <2>3. CASE Continue \/ StreamChunk \/ Finish \/ SettleOne
    <3>1. \/ cli' = [cli EXCEPT ![dst].cont = 0] \/ cli' = [cli EXCEPT ![dst] = AppendDone(@)]
          \/ cli' = [cli EXCEPT ![dst].idle = 0]
      BY <2>3 DEF Continue, StreamChunk, Finish, SettleOne
    <3>2. cli'[dst].result = cli[dst].result
      BY <1>0, <3>1 DEF AppendDone, Clients
    <3> QED
      BY <1>1, <3>2
  <2> QED
    BY <1>3, <2>1, <2>2, <2>3 DEF Work, Opened, Select, Selected, Begin, ClosePair, LoggedOut, Ended, Copying, Settling
<1>4. ~Work => pc' = pc
  BY TimeIs DEF Next, Process, Busy, Drain, Server, Vanish, Kick, vars, worker
<1> QED
  BY <1>2, <1>3, <1>4

\* A pair that is torn stays so until the runner gives it up.
LEMMA TornStays ==
  ASSUME Typed, Typed', CodingInv, FifoInv, Unread, Inflow, QueueInv, LiteralInv, Torn, [Next]_vars,
         Alive(dst)', pc \in Settling, pc' \in Settling, ~Fetched,
         pendQ' # <<>> /\ pendQ'[Len(pendQ')] = pendQ[Len(pendQ)],
         \A i \in DOMAIN fetchQ' : \E j \in DOMAIN fetchQ : fetchQ'[i] = fetchQ[j],
         item' = None \/ item' = item \/ \E j \in DOMAIN fetchQ : item' = fetchQ[j]
  PROVE  Torn'
<1> USE Constants
<1>0. /\ OpenFirst /\ TagsFresh(dst) /\ Move(dst) /\ Move(src) /\ Alive(dst) /\ ~Writes /\ Running
      /\ fetchQ \in Seq(Msg) /\ fetchQ' \in Seq(Msg) /\ item \in Msg \union {None}
  <2>1. OpenFirst
    BY DEF CodingInv
  <2>2. ~Writes /\ Running
    BY DEF Writes, Begin, StreamChunk, Finish, Settling, Running
  <2> QED
    BY <2>1, <2>2, Moves, AliveWas DEF CodingInv, Typed, WorkerTyped
<1>1. LastTag(dst)' = LastTag(dst)
  BY <1>0, TagStays DEF Alive
<1>2. Lit(srv[dst], up[dst]) /\ CutShort(srv[dst], up[dst]) /\ Unanswered
  BY <1>0 DEF LiteralInv, Alive, Torn
<1>3. up[dst] # <<>> => ~Clean(srv[dst], up[dst])
  BY <1>2, CleanApart
<1>4. Unanswered'
  BY <1>0, <1>1, <1>2, <1>3, UnansweredStays
<1>5. CutShort(srv'[dst], up'[dst])
  <2>1. pc # "open" /\ ~(pc = "close" /\ graceful)
    BY DEF Settling
  <2> QED
    BY <1>0, <1>2, <2>1, PlaceStays
<1>6. Silent /\ Silent'
  <2>1. Running' /\ Silent
    BY DEF Torn, Running, Settling
  <2> QED
    BY <2>1, SilentStays
<1>7. \A m \in Msg : ~Taken(m)
  <2>1. ~StreamChunk
    BY <1>0 DEF Writes
  <2> QED
    BY <1>0, <2>1, TakenItem
<1>8. \A m \in Msg : body'[m].size = body[m].size
  BY <1>0, <1>6, <1>7, BodyKeeps
<1>9. /\ \A j \in DOMAIN fetchQ : fetchQ[j] \in Msg /\ body[fetchQ[j]].size = -1
      /\ item # None => item \in Msg /\ body[item].size = -1
  BY <1>0, SeqDomain DEF Torn
<1>10. \A i \in DOMAIN fetchQ' : body'[fetchQ'[i]].size = -1
  BY <1>8, <1>9
<1>11. item' # None => body'[item'].size = -1
  BY <1>8, <1>9
<1>12. pendQ[Len(pendQ)].tag = LastTag(dst)
  BY DEF Torn
<1> QED
  BY <1>1, <1>4, <1>5, <1>6, <1>10, <1>11, <1>12 DEF Torn

LEMMA CopyingUnanswered ==
  ASSUME Typed, Typed', CodingInv, LiteralInv, StreamInv, [Next]_vars, Alive(dst)', pc \in Copying
  PROVE  Unanswered'
<1>1. /\ OpenFirst /\ TagsFresh(dst) /\ Move(dst) /\ Alive(dst)
  <2>1. OpenFirst
    BY DEF CodingInv
  <2> QED
    BY <2>1, Constants, Moves, AliveWas DEF CodingInv
<1>2. LastTag(dst)' = LastTag(dst)
  BY <1>1, TagStays DEF Alive
<1>3. Lit(srv[dst], up[dst])
  BY <1>1 DEF LiteralInv, Alive
<1>4. Unanswered /\ \E y : Inside(srv[dst], up[dst], item, y)
  BY <1>1 DEF StreamInv, InPlace, Left, Settling
<1>5. up[dst] # <<>> => ~Clean(srv[dst], up[dst])
  BY <1>4, CleanApart
<1> QED
  BY <1>1, <1>2, <1>3, <1>4, <1>5, UnansweredStays

\* Whoever else moves, the copy stays where it is.
LEMMA InPlaceStays ==
  ASSUME Typed, Typed', CodingInv, FifoInv, WhyInv, Inflow, QueueInv, LiteralInv,
         StreamInv, [Next]_vars, Alive(dst)', pc \in Copying, ~Writes, item' = item
  PROVE  InPlace'
<1> USE Constants
<1>1. Unanswered'
  BY CopyingUnanswered
<1>2. PICK m \in Msg : m = item
  BY DEF Typed, WorkerTyped, Copying
<1>3. OpenFirst /\ Alive(dst)
  <2>1. OpenFirst
    BY DEF CodingInv
  <2> QED
    BY <2>1, AliveWas
<1>4. PICK y \in 0..Size[m] : Held(m, y) /\ Inside(srv[dst], up[dst], m, y)
  BY <1>2, <1>3 DEF StreamInv, InPlace, Left, Settling
<1>5. y \in Nat
  BY <1>4
<1>6. Running /\ ~Taken(m)
  <2>1. Running /\ ~StreamChunk
    BY DEF Running, Copying, Writes
  <2> QED
    BY <2>1, TakenItem
<1>7. ~Fetched
  BY DEF Fetched, Copying
<1>8. Held(m, y)'
  BY <1>4, <1>5, <1>6, <1>7, HeldStays
<1>9. Inside(srv'[dst], up'[dst], m, y)
  <2>1. pc # "open" /\ ~(pc = "close" /\ graceful)
    BY DEF Copying
  <2> QED
    BY <1>3, <1>4, <1>5, <2>1, PlaceStays
<1>10. m = item'
  BY <1>2
<1> QED
  BY <1>1, <1>4, <1>8, <1>9, <1>10 DEF InPlace, Held

\* A chunk is written: one more is held back, and one more is on its way.
LEMMA StreamInPlace ==
  ASSUME Typed, Typed', CodingInv, LiteralInv, StreamInv, [Next]_vars, Alive(dst)', StreamChunk
  PROVE  InPlace'
<1> USE Constants
<1>0. up[dst] \in Seq(Lines) /\ srv[dst] \in Servers /\ OpenFirst
  BY DEF Typed, ServersTyped, WireTyped, CodingInv
<1>1. pc \in Copying /\ item' = item
  BY DEF StreamChunk, Copying
<1>2. Unanswered'
  BY <1>1, CopyingUnanswered
<1>3. Alive(dst)
  BY <1>0, AliveWas
<1>4. DestStreams
  <2>1. Work /\ ~cli[dst].closed /\ ~cli'[dst].closed
    BY <1>3 DEF Work, Alive
  <2>2. ~Finish /\ ~Begin /\ pc # "close"
    BY DEF StreamChunk, Finish, Begin
  <2> QED
    BY <2>1, <2>2, WorkDest DEF WorkRests, DestCloses, DestLogsOut, DestBegins, DestFinishes
<1>5. PICK m \in Msg : \E y \in Nat : \E e \in Lines :
           /\ m = item /\ y \in 0..Size[m] /\ Held(m, y) /\ Inside(srv[dst], up[dst], m, y) /\ y + 1 \in 0..Size[m]
           /\ e.verb = "DATA" /\ Fits(m, y, e) /\ Sound(e) /\ DestWrites(e)
  BY <1>3, <1>4, StreamPlace DEF Alive
<1>6. PICK y \in Nat : \E e \in Lines :
           /\ m = item /\ y \in 0..Size[m] /\ Held(m, y) /\ Inside(srv[dst], up[dst], m, y) /\ y + 1 \in 0..Size[m]
           /\ e.verb = "DATA" /\ Fits(m, y, e) /\ Sound(e) /\ DestWrites(e)
  BY <1>5
<1>7. PICK e \in Lines :
           /\ m = item /\ y \in 0..Size[m] /\ Held(m, y) /\ Inside(srv[dst], up[dst], m, y) /\ y + 1 \in 0..Size[m]
           /\ e.verb = "DATA" /\ Fits(m, y, e) /\ Sound(e) /\ DestWrites(e)
  BY <1>6
<1>8. Lit(srv[dst], up[dst])
  BY <1>3 DEF LiteralInv, Alive
<1>9. Inside(srv[dst], Append(up[dst], e), m, y + 1)
  BY <1>0, <1>7, <1>8, InsidePart
<1>10. Inside(srv'[dst], up'[dst], m, y + 1)
  BY <1>7, <1>9, KeepsPlace DEF DestWrites
<1>11. Taken(m)
  BY <1>7, ChunkTaken
<1>12. Held(m, y + 1)'
  BY <1>7, <1>11, HeldTaken
<1>13. m = item' /\ y + 1 \in 0..Size[m]
  BY <1>1, <1>7
<1> QED
  BY <1>2, <1>10, <1>12, <1>13 DEF InPlace, Held

\* A new APPEND has no answer yet.
LEMMA BeginUnanswered ==
  ASSUME Typed, TagsFresh(dst), Begin, ~cli[dst].closed
  PROVE  Unanswered'
<1> USE Constants
<1> DEFINE n == LastTag(dst)
           i == Issue(cli[dst], "APPEND")
           o == i.owed + 1
<1>0. /\ cli[dst] \in Clients /\ cli \in [Conn -> Clients] /\ n \in Nat /\ n = Len(cli[dst].result)
      /\ cli[dst].result \in Seq(Outcomes)
  BY Local DEF Typed, ClientsTyped, LastTag
<1>1. down' = down /\ cli' = [cli EXCEPT ![dst] = [i EXCEPT !.owed = o]]
  BY DEF Begin, AppendBegin
<1>2. i \in Clients /\ i.result = Append(cli[dst].result, "wait")
  BY <1>0, IssueCalled DEF Called, Verbs
<1> HIDE DEF i, o
<1>3. cli'[dst].result = Append(cli[dst].result, "wait")
  BY <1>0, <1>1, <1>2 DEF Clients
<1>4. Len(cli'[dst].result) = n + 1 /\ cli'[dst].result[n + 1] = "wait"
  BY <1>0, <1>3
<1>5. LastTag(dst)' = n + 1
  BY <1>4 DEF LastTag
<1>6. DownTags(down[dst], n)
  BY DEF TagsFresh
<1>7. n + 1 >= 1 /\ n + 1 \notin 0..n
  BY <1>0
<1>8. \A j \in DOMAIN down[dst] : down[dst][j].tag # n + 1
  BY <1>6, <1>7 DEF DownTags
<1> HIDE DEF n
<1> QED
  BY <1>1, <1>4, <1>5, <1>7, <1>8 DEF Unanswered

LEMMA BeginInPlace ==
  ASSUME Typed, Typed', CodingInv, FifoInv, WhyInv, Inflow, SizesTold, QueueInv, HeldInv,
         LiteralInv, StreamInv, [Next]_vars, Alive(dst)', Begin, ~cli[dst].closed
  PROVE  InPlace'
<1> USE Constants
<1>0. up[dst] \in Seq(Lines) /\ srv[dst] \in Servers /\ OpenFirst /\ TagsFresh(dst)
  BY DEF Typed, ServersTyped, WireTyped, CodingInv
<1>1. Unanswered'
  BY <1>0, BeginUnanswered
<1>2. Alive(dst)
  BY <1>0, AliveWas
<1>3. DestBegins
  <2>1. Work /\ ~cli'[dst].closed
    BY DEF Work, Alive
  <2>2. ~Finish /\ ~StreamChunk /\ pc # "close"
    BY DEF StreamChunk, Finish, Begin
  <2> QED
    BY <2>1, <2>2, WorkDest DEF WorkRests, DestCloses, DestLogsOut, DestStreams, DestFinishes
<1>4. Clean(srv[dst], up[dst]) /\ item \in Msg
  BY <1>2, <1>3, BeginPlace DEF Alive
<1>5. PICK e \in Lines : e.verb = "APPEND" /\ e.msg = item /\ Sound(e) /\ DestWrites(e)
  BY <1>2, <1>3, BeginPlace DEF Alive
<1>6. Lit(srv[dst], up[dst])
  BY <1>2 DEF LiteralInv, Alive
<1>7. Inside(srv[dst], Append(up[dst], e), item, 0)
  <2>1. e.verb \notin Parts
    BY <1>5 DEF Parts
  <2> QED
    BY <1>0, <1>4, <1>5, <1>6, <2>1, CleanCommand
<1>8. Inside(srv'[dst], up'[dst], item, 0)
  BY <1>5, <1>7, KeepsPlace DEF DestWrites
<1>9. PICK m \in Msg : m = item
  BY <1>4
<1>10. Held(m, 0)
  BY <1>9 DEF HeldInv, Begin, Running, Copying
<1>11. Running /\ ~Taken(m) /\ ~Fetched
  <2>1. Running /\ pc # "stream" /\ ~Fetched
    BY DEF Running, Begin, Fetched
  <2> QED
    BY <2>1, TakenItem
<1>12. Held(m, 0)'
  <2>1. 0 \in Nat
    OBVIOUS
  <2> QED
    BY <1>10, <1>11, <2>1, HeldStays
<1>13. item' = item /\ 0 \in 0..Size[m]
  <2>1. Size[m] \in Nat
    OBVIOUS
  <2> QED
    BY <2>1 DEF Begin
<1> QED
  BY <1>1, <1>8, <1>9, <1>12, <1>13 DEF InPlace, Held

\* If a body ends before its literal does, it failed with its connection: no row
\* after it has a size, and none will get one.
LEMMA ShortIsLost ==
  ASSUME Typed, FifoInv, QueueInv, Sizes, SizesTold, pc = "finish",
         NEW m \in Msg, m = item, NEW y \in 0..Size[m], y # Size[m], Held(m, y)
  PROVE  /\ Silent
         /\ \A i \in DOMAIN fetchQ : body[fetchQ[i]].size = -1
<1>0. /\ fetchQ \in Seq(Msg) /\ Len(fetchQ) \in Nat /\ DOMAIN fetchQ = 1..Len(fetchQ)
      /\ next \in Nat /\ Len(Rows) \in Nat /\ next \in 1..(Len(Rows) + 1) /\ None \notin Msg /\ Size[m] \in Nat
  BY QueueLocal, Constants
<1>1. body[m].ch = <<>> /\ body[m].shut
  BY DEF SizesTold
<1>2. body[m].err # "none"
  <2>1. Len(body[m].ch) = 0 /\ y + 0 = y
    BY <1>0, <1>1
  <2> QED
    BY <1>1, <2>1 DEF Held
<1>3. Silent
  BY <1>2 DEF Sizes
<1>4. item # None
  BY <1>0
<1>5. Next1 \in 1..next /\ Next1 > 1 /\ item = Rows[Next1 - 1] /\ Next1 = next - Len(fetchQ)
      /\ \A i \in DOMAIN fetchQ : fetchQ[i] = Rows[Next1 + i - 1]
  BY <1>4 DEF QueueInv, Next1
<1>6. ASSUME NEW i \in DOMAIN fetchQ
      PROVE  body[fetchQ[i]].size = -1
  <2>1. i \in 1..Len(fetchQ)
    BY <1>0
  <2>2. PICK r \in 1..(next - 1) : r = Next1 - 1 /\ item = Rows[r]
    BY <1>0, <1>5, <2>1
  <2>3. PICK q \in 1..(next - 1) : q = Next1 + i - 1 /\ fetchQ[i] = Rows[q]
    BY <1>0, <1>5, <2>1
  <2>4. r < q
    BY <1>0, <1>5, <2>1, <2>2, <2>3
  <2> QED
    BY <1>2, <2>2, <2>3, <2>4 DEF Sizes
<1> QED
  BY <1>3, <1>6

LEMMA FinishEnds ==
  ASSUME Typed, Typed', CodingInv, FifoInv, Unread, QueueInv, Sizes, SizesTold, LiteralInv, StreamInv,
         [Next]_vars, Alive(dst)', Finish
  PROVE  Clean(srv'[dst], up'[dst]) \/ Torn'
<1> USE Constants
<1>0. up[dst] \in Seq(Lines) /\ srv[dst] \in Servers /\ OpenFirst
  BY DEF Typed, ServersTyped, WireTyped, CodingInv
<1>1. pc \in Copying /\ pc = "finish"
  BY DEF Finish, Copying
<1>2. Unanswered'
  BY <1>1, CopyingUnanswered
<1>3. Alive(dst)
  BY <1>0, AliveWas
<1>4. DestFinishes
  <2>1. Work /\ ~cli[dst].closed /\ ~cli'[dst].closed
    BY <1>3 DEF Work, Alive
  <2>2. ~StreamChunk /\ ~Begin /\ pc # "close"
    BY DEF StreamChunk, Finish, Begin
  <2> QED
    BY <2>1, <2>2, WorkDest DEF WorkRests, DestCloses, DestLogsOut, DestBegins, DestStreams
<1>5. PICK m \in Msg : \E y \in 0..Size[m] : \E e \in Lines :
           /\ m = item /\ Held(m, y) /\ Inside(srv[dst], up[dst], m, y)
           /\ e.verb = "CRLF" /\ Fits(m, y, e) /\ Sound(e) /\ DestWrites(e)
  BY <1>3, <1>4, FinishPlace DEF Alive
<1>6. PICK y \in 0..Size[m] : \E e \in Lines :
           /\ m = item /\ Held(m, y) /\ Inside(srv[dst], up[dst], m, y)
           /\ e.verb = "CRLF" /\ Fits(m, y, e) /\ Sound(e) /\ DestWrites(e)
  BY <1>5
<1>7. PICK e \in Lines :
           /\ m = item /\ Held(m, y) /\ Inside(srv[dst], up[dst], m, y)
           /\ e.verb = "CRLF" /\ Fits(m, y, e) /\ Sound(e) /\ DestWrites(e)
  BY <1>6
<1>8. Lit(srv[dst], up[dst])
  BY <1>3 DEF LiteralInv, Alive
<1>9. CASE y = Size[m]
  <2>1. Clean(srv[dst], Append(up[dst], e))
    BY <1>0, <1>7, <1>8, <1>9, InsidePart
  <2> QED
    BY <1>7, <2>1, KeepsPlace DEF DestWrites
<1>10. CASE y # Size[m]
  <2>1. CutShort(srv[dst], Append(up[dst], e))
    BY <1>0, <1>7, <1>8, <1>10, InsidePart
  <2>2. CutShort(srv'[dst], up'[dst])
    BY <1>7, <2>1, KeepsPlace DEF DestWrites
  <2>3. Silent /\ \A i \in DOMAIN fetchQ : body[fetchQ[i]].size = -1
    BY <1>1, <1>7, <1>10, ShortIsLost
  <2>4. Silent'
    <3>1. Running'
      BY <1>3 DEF Finish, Running, Alive
    <3> QED
      BY <2>3, <3>1, SilentStays
  <2>5. fetchQ' = fetchQ /\ body' = body /\ item' = None
    BY <1>3 DEF Finish, Alive
  <2>6. pendQ' = Append(pendQ, [row |-> item, tag |-> LastTag(dst)])
    BY <1>3 DEF Finish, Alive
  <2>7. pendQ' # <<>> /\ pendQ'[Len(pendQ')].tag = LastTag(dst)
    <3>1. PICK S : pendQ \in Seq(S) /\ [row |-> item, tag |-> LastTag(dst)] \in S
      <4>1. pendQ \in Seq([row : Msg, tag : Nat]) /\ item \in Msg /\ LastTag(dst) \in Nat
        BY <1>5, Local DEF Typed, WorkerTyped
      <4> QED
        BY <4>1
    <3>2. PICK p \in S : p = [row |-> item, tag |-> LastTag(dst)]
      BY <3>1
    <3>3. Len(Append(pendQ, p)) = Len(pendQ) + 1 /\ Append(pendQ, p)[Len(pendQ) + 1] = p /\ Len(pendQ) \in Nat
      BY <3>1, SeqAppend
    <3>4. pendQ' # <<>>
      BY <2>6, <3>2, <3>3
    <3> QED
      BY <2>6, <3>2, <3>3, <3>4
  <2>8. LastTag(dst)' = LastTag(dst)
    BY <1>0, <1>1, <1>3, TagStays DEF Alive
  <2> QED
    BY <1>2, <2>2, <2>3, <2>4, <2>5, <2>7, <2>8 DEF Torn
<1> QED
  BY <1>9, <1>10

\* An answer to the APPEND that was cut short cannot have come.
LEMMA TornSettles ==
  ASSUME Typed, Torn, SettleOne
  PROVE  pendQ' # <<>> /\ pendQ'[Len(pendQ')] = pendQ[Len(pendQ)]
<1>0. pendQ \in Seq([row : Msg, tag : Nat]) /\ pendQ # <<>> /\ Len(pendQ) \in Nat
  BY DEF Torn, Typed, WorkerTyped
<1>1. PICK q \in Seq([row : Msg, tag : Nat]) : q = pendQ /\ q # <<>> /\ Len(q) \in Nat
  BY <1>0
<1>2. Head(q) = q[1] /\ Len(Tail(q)) = Len(q) - 1 /\ \A i \in 1..(Len(q) - 1) : Tail(q)[i] = q[i + 1]
  BY <1>1, SeqTail
<1>3. q[1].tag # q[Len(q)].tag
  <2>1. cli[dst].result[q[Len(q)].tag] = "wait"
    BY <1>1 DEF Torn, Unanswered
  <2>2. cli[dst].result[q[1].tag] # "wait"
    BY <1>1, <1>2 DEF SettleOne
  <2> QED
    BY <2>1, <2>2
<1>4. Len(q) # 1 /\ Len(q) # 0
  BY <1>1, <1>3
<1>5. Len(Tail(q)) >= 1 /\ Tail(q)[Len(Tail(q))] = q[Len(q)]
  <2>1. Len(q) - 1 \in 1..(Len(q) - 1) /\ Len(q) - 1 + 1 = Len(q)
    <3>1. \A a \in Nat : a # 1 /\ a # 0 => a - 1 \in 1..(a - 1) /\ a - 1 + 1 = a
      OBVIOUS
    <3>2. Len(q) \in Nat
      BY <1>1
    <3> QED
      BY <1>4, <3>1, <3>2
  <2> QED
    BY <1>2, <2>1
<1>6. Tail(q) # <<>>
  <2>1. Len(<<>>) = 0 /\ ~(0 >= 1)
    OBVIOUS
  <2> QED
    BY <1>5, <2>1
<1>7. pendQ' = Tail(q)
  BY <1>1 DEF SettleOne
<1> QED
  BY <1>1, <1>5, <1>6, <1>7

LEMMA TornLeft ==
  ASSUME Typed, Typed', CodingInv, FifoInv, Unread, Inflow, QueueInv, LiteralInv, Torn, [Next]_vars,
         Alive(dst)', pc \in Settling, graceful' => Finished'
  PROVE  Left'
<1>0. fetchQ \in Seq(Msg) /\ pc' # "closed"
  <2>1. ~Ended
    BY DEF Settling, Ended
  <2>2. Work => pc' # "closed"
    BY <2>1 DEF Work, Opened, Select, Selected, StartMore, Filled, WaitSize, Begin, Continue, StreamChunk, StreamEnds,
       Finish, Room, SettleOne, ClosePair, LoggedOut, Leave, Settling
  <2>3. ~Work => pc' = pc
    BY TimeIs DEF Next, Process, Busy, Drain, Server, Vanish, Kick, vars, worker
  <2> QED
    BY <2>2, <2>3 DEF Typed, WorkerTyped, Settling
<1>a. Leave(FALSE) /\ (item' # None \/ fetchQ' # <<>> \/ pendQ' # <<>>) => Left'
  BY DEF Leave, Left, Running, Finished
<1>s. ASSUME pc' \in Settling, ~Fetched,
             pendQ' # <<>> /\ pendQ'[Len(pendQ')] = pendQ[Len(pendQ)],
             \A i \in DOMAIN fetchQ' : \E j \in DOMAIN fetchQ : fetchQ'[i] = fetchQ[j],
             item' = None \/ item' = item \/ \E j \in DOMAIN fetchQ : item' = fetchQ[j]
      PROVE  Left'
  <2>1. Torn'
    BY <1>s, TornStays
  <2> QED
    BY <1>s, <2>1 DEF Left
<1>t. pendQ # <<>>
  BY DEF Torn
<1>f. Fetched => StartMore
  <2>1. ~Work => next' = next
    BY TimeIs DEF Next, Process, Busy, Drain, Server, Vanish, Kick, vars, worker
  <2>2. Work => StartMore \/ next' = next
    BY DEF Work, Opened, Select, Selected, Filled, WaitSize, Begin, Continue, StreamChunk, StreamEnds,
       Finish, Room, SettleOne, ClosePair, LoggedOut, Ended, worker
  <2>3. Fetched => next' # next
    BY QueueLocal DEF Fetched
  <2> QED
    BY <2>1, <2>2, <2>3
<1>1. CASE UNCHANGED worker
  <2>1. ~Fetched
    BY <1>1, QueueLocal DEF Fetched, worker
  <2> QED
    BY <1>1, <1>s, <1>t, <2>1 DEF worker
<1>2. CASE StartMore
  <2>1. cli[src].closed /\ pendQ' = pendQ
    BY <1>2 DEF Torn, Silent, StartMore
  <2> QED
    BY <1>2, <1>a, <1>t, <2>1 DEF StartMore
<1>3. CASE Filled
  <2>0. ~Fetched /\ pendQ' = pendQ /\ pc' \in Settling
    BY <1>3, <1>f DEF Filled, StartMore, Settling
  <2>1. CASE fetchQ' = fetchQ /\ item' = item
    BY <1>s, <1>t, <2>0, <2>1
  <2>2. CASE fetchQ # <<>> /\ item' = Head(fetchQ) /\ fetchQ' = Tail(fetchQ)
    <3>1. /\ DOMAIN fetchQ' = 1..(Len(fetchQ) - 1) /\ \A i \in 1..(Len(fetchQ) - 1) : fetchQ'[i] = fetchQ[i + 1]
          /\ item' = fetchQ[1] /\ 1 \in DOMAIN fetchQ /\ DOMAIN fetchQ = 1..Len(fetchQ) /\ Len(fetchQ) \in Nat
      BY <1>0, <2>2, SeqTail, SeqDomain
    <3>2. \A i \in DOMAIN fetchQ' : \E j \in DOMAIN fetchQ : fetchQ'[i] = fetchQ[j]
      <4>1. \A i \in 1..(Len(fetchQ) - 1) : i + 1 \in 1..Len(fetchQ)
        BY <3>1
      <4> QED
        BY <3>1, <4>1
    <3> QED
      BY <1>s, <1>t, <2>0, <3>1, <3>2
  <2> QED
    BY <1>3, <2>1, <2>2 DEF Filled
<1>4. CASE WaitSize
  <2>1. pendQ' = pendQ /\ fetchQ' = fetchQ /\ ~Fetched
    BY <1>4, <1>f DEF WaitSize, StartMore
  <2>2. ~(body[item].size >= 0)
    <3>1. item \in Msg /\ item # None
      BY <1>4, Constants DEF WaitSize, Typed, WorkerTyped
    <3>2. body[item].size = -1
      BY <3>1 DEF Torn
    <3> QED
      BY <3>2
  <2>3. Leave(FALSE) \/ (pc' = "fill" /\ item' = None)
    BY <1>4, <2>2 DEF WaitSize
  <2> QED
    BY <1>a, <1>s, <1>t, <2>1, <2>3 DEF Settling
<1>5. CASE Room
  <2>1. pendQ' = pendQ /\ fetchQ' = fetchQ /\ item' = item /\ ~Fetched /\ pc' = "fill"
    BY <1>5, <1>f, <1>t DEF Room, StartMore
  <2> QED
    BY <1>s, <1>t, <2>1 DEF Settling
<1>6. CASE SettleOne
  <2>1. fetchQ' = fetchQ /\ item' = item /\ ~Fetched
    BY <1>6, <1>f DEF SettleOne, StartMore
  <2>2. pendQ' # <<>> /\ pendQ'[Len(pendQ')] = pendQ[Len(pendQ)]
    BY <1>6, TornSettles
  <2>3. Leave(FALSE) \/ pc' \in Settling
    BY <1>6 DEF SettleOne
  <2> QED
    BY <1>a, <1>s, <2>1, <2>2, <2>3
<1>7. Work => StartMore \/ Filled \/ WaitSize \/ Room \/ SettleOne
  BY DEF Work, Opened, Select, Selected, Begin, Continue, StreamChunk, StreamEnds, Finish, ClosePair, LoggedOut, Ended, Settling
<1>8. ~Work => UNCHANGED worker
  BY TimeIs DEF Next, Process, Busy, Drain, Server, Vanish, Kick, vars, worker
<1> QED
  BY <1>1, <1>2, <1>3, <1>4, <1>5, <1>6, <1>7, <1>8

LEMMA StreamNext ==
  ASSUME Typed, Typed', CodingInv, FifoInv, WhyInv, Unread, Inflow, SizesTold, QueueInv, HeldInv,
         LiteralInv, StreamInv, [Next]_vars, graceful' => Finished'
  PROVE  StreamInv'
<1> SUFFICES ASSUME Alive(dst)'
             PROVE  IF pc' \in Copying THEN InPlace' ELSE Left'
  BY DEF StreamInv, InPlace, Left, Settling, InPlace, Left, Settling
<1>0. OpenFirst /\ Alive(dst) /\ ~cli[dst].closed
  <2>1. OpenFirst
    BY DEF CodingInv
  <2> QED
    BY <2>1, AliveWas DEF Alive
<1>w. UNCHANGED worker \/ Work
  BY TimeIs DEF Next, Process, Busy, Drain, Server, Vanish, Kick, vars, worker
<1>a. Leave(FALSE) /\ item' # None => pc' \notin Copying /\ Left'
  BY DEF Leave, Left, Running, Copying, Finished
<1>c. ASSUME Clean(srv'[dst], up'[dst])
      PROVE  Left'
  BY <1>c DEF Left
<1>1. CASE pc \in Copying
  <2>1. ASSUME pc' \in Copying, item' = item, ~Writes
        PROVE  InPlace'
    BY <1>1, <2>1, InPlaceStays
  <2>2. CASE UNCHANGED worker /\ ~StreamChunk
    <3>1. pc' = pc /\ item' = item
      BY <2>2 DEF worker
    <3>2. ~Begin /\ ~Finish
      BY <1>0, <1>1, <3>1 DEF Begin, Finish, Copying
    <3> QED
      BY <1>1, <2>1, <2>2, <3>1, <3>2 DEF Writes
  <2>3. CASE (Continue \/ StreamEnds) /\ ~StreamChunk
    <3>1. item' = item /\ item # None
      BY <1>1, <2>3, Constants DEF Continue, StreamEnds, Typed, WorkerTyped, Copying
    <3>2. ~Begin /\ ~Finish
      BY <2>3 DEF Continue, StreamEnds, Begin, Finish
    <3>3. Leave(FALSE) \/ pc' \in Copying
      BY <2>3 DEF Continue, StreamEnds, Copying
    <3> QED
      BY <1>a, <2>1, <2>3, <3>1, <3>2, <3>3 DEF Writes
  <2>4. CASE StreamChunk
    <3>1. InPlace'
      BY <2>4, StreamInPlace
    <3>2. pc' \in Copying
      BY <1>0, <1>1, <2>4 DEF StreamChunk
    <3> QED
      BY <3>1, <3>2
  <2>5. CASE Finish
    <3>0. Sizes
      BY <1>1 DEF Inflow, Running, Copying
    <3>1. Clean(srv'[dst], up'[dst]) \/ Torn'
      BY <2>5, <3>0, FinishEnds
    <3>2. pc' = "room"
      BY <1>0, <2>5 DEF Finish
    <3> QED
      BY <3>1, <3>2 DEF Left, Settling, Copying
  <2>6. Work => Continue \/ StreamEnds \/ StreamChunk \/ Finish
    BY <1>1 DEF Work, Opened, Select, Selected, StartMore, Filled, WaitSize, Begin, Room, SettleOne, ClosePair, LoggedOut,
       Ended, Copying
  <2> QED
    BY <1>w, <2>2, <2>3, <2>4, <2>5, <2>6
<1>2. CASE pc \notin Copying
  <2>1. CASE Begin
    <3>1. InPlace'
      BY <1>0, <2>1, BeginInPlace
    <3>2. pc' \in Copying
      BY <1>0, <2>1 DEF Begin, Copying
    <3> QED
      BY <3>1, <3>2
  <2>2. CASE ~Begin
    <3>1. ~Writes
      BY <1>2, <2>2 DEF Writes, StreamChunk, Finish, Copying
    <3>2. pc' \notin Copying
      <4>1. Work => pc' \notin Copying
        BY <1>2, <2>2 DEF Work, Opened, Select, Selected, StartMore, Filled, WaitSize, Continue, StreamChunk, StreamEnds,
           Finish, Room, SettleOne, ClosePair, LoggedOut, Ended, Leave, Copying
      <4> QED
        BY <1>2, <1>w, <4>1 DEF worker
    <3>3. CASE Clean(srv[dst], up[dst])
      BY <1>0, <1>c, <3>1, <3>2, <3>3, PlaceStays
    <3>4. CASE pc \in Settling /\ Torn
      BY <3>2, <3>4, TornLeft
    <3>5. CASE ~Running /\ pc # "logout" /\ ~graceful
      <4>1. Work => ClosePair \/ Ended
        BY <3>5 DEF Work, Opened, Select, Selected, StartMore, Filled, WaitSize, Begin, Continue, StreamChunk, StreamEnds,
           Finish, Room, SettleOne, LoggedOut, Running
      <4>2. Work => pc' \in {"close", "closed"} /\ graceful' = graceful
        BY <3>5, <4>1 DEF ClosePair, Ended
      <4> QED
        BY <1>w, <3>2, <3>5, <4>2 DEF worker, Left, Running
    <3> QED
      BY <1>0, <1>2, <3>2, <3>3, <3>4, <3>5 DEF StreamInv, InPlace, Left, Settling, Settling
  <2> QED
    BY <2>1, <2>2
<1> QED
  BY <1>1, <1>2

-----------------------------------------------------------------------------
(* CopiesAreExact *)

\* The inductive invariant.
ExactInv ==
  /\ Inflow /\ SizesTold /\ HeldInv
  /\ LiteralInv /\ StreamInv
  /\ CopiesAreExact
CopyInv ==
  /\ Typed /\ CodingInv /\ (~LateBuffer => HeardOut) /\ FifoInv
  /\ WhyInv /\ SourceInv /\ QueueInv /\ Unread
  /\ graceful => ~Running
  /\ Fair => ExactInv

LEMMA CopyInit == Init => CopyInv
<1> SUFFICES ASSUME Init PROVE CopyInv
  OBVIOUS
<1> USE Constants
<1>0. Typed /\ CodingInv /\ HeardOut /\ FifoInv
  BY InitTyped, CodingInit, FifoInit
<1>1. PICK plus \in BOOLEAN : cli = [k \in Conn |-> NewClient(plus)]
  BY DEF Init, ClientInit
<1>2. /\ \A k \in Conn : /\ cli[k].to = None /\ ~cli[k].closed /\ cli[k].fifo = <<>> /\ cli[k].reader = "off"
      /\ pc = "open" /\ next = 1 /\ fetchQ = <<>> /\ item = None /\ drained = {} /\ here = Msg /\ ~graceful
  BY <1>1 DEF Init, ServerInit, NewClient
<1>3. /\ up[src] = <<>> /\ up[dst] = <<>>
      /\ srv[src].cmd = NoLine /\ srv[dst].cmd = NoLine
      /\ \A k \in Conn : box[k] = <<>>
  BY DEF Init, ServerInit
<1>4. Len(<<>>) = 0 /\ DOMAIN <<>> = {}
  OBVIOUS
<1>5. \A m \in Msg : body[m].err = "none"
  BY DEF Init, ClientInit, NewHandle
<1>6. Front1 = 1 /\ Next1 = 1
  BY <1>2, <1>4 DEF Front1, Next1
<1>7. WhyInv
  BY <1>2 DEF WhyInv
<1>8. SourceInv
  BY <1>2, <1>3, <1>4 DEF SourceInv
<1>9. /\ DOMAIN down[src] = {1} /\ Len(down[src]) = 1 /\ down[src] # <<>>
      /\ down[src][1].kind = "GREETING"
  <2>1. down[src] = <<Reply("GREETING", 0, None, 0, FALSE)>>
    BY DEF Init, ServerInit
  <2> QED
    BY <2>1 DEF Reply
<1>10. ChunkInv
  <2>1. Flowing(down[src])
    BY <1>9 DEF Flowing, Proper
  <2>2. ~Midst
    BY <1>2 DEF Midst
  <2>3. ~Partial(down[src][Len(down[src])])
    BY <1>9 DEF Partial
  <2> QED
    BY <1>2, <1>9, <2>1, <2>2, <2>3 DEF ChunkInv
<1>11. OrderInv
  <2>1. InOrder(down[src], 1, 0)
    BY <1>9 DEF InOrder, BodyAt
  <2>2. Pending(down[src], up[src], 1, 1)
    <3>1. UpToRow(down[src], 1, 1)
      BY <1>9 DEF UpToRow, BodyAt
    <3>2. Asks(up[src], 1, 1)
      <4>1. 1..(1 - 1) = {}
        OBVIOUS
      <4> QED
        BY <1>3, <1>4, <4>1 DEF Asks, FetchAt
    <3>3. 1 \in 1..1
      OBVIOUS
    <3> QED
      BY <3>1, <3>2, <3>3 DEF Pending
  <2>3. next - 1 = 0
    BY <1>2
  <2> QED
    BY <1>2, <1>6, <2>1, <2>2, <2>3 DEF OrderInv
<1>12. QueueInv
  BY <1>2, <1>4, <1>6 DEF QueueInv, Copying, Running
<1>13. Sizes
  <2>1. 1..(next - 1) = {}
    BY <1>2
  <2> QED
    BY <1>5, <2>1 DEF Sizes
<1>14. SizesTold
  BY <1>2 DEF SizesTold, Copying
<1>15. HeldInv
  BY <1>2, <1>4 DEF HeldInv
<1>16. LiteralInv
  <2>1. 1..(0 - 1) = {}
    OBVIOUS
  <2> QED
    BY <1>3, <1>4, <2>1 DEF LiteralInv, Lit
<1>17. StreamInv
  BY <1>2, <1>3 DEF StreamInv, InPlace, Left, Settling, Clean, Copying
<1>18. CopiesAreExact
  BY <1>3, <1>4 DEF CopiesAreExact
<1>19. Unread
  BY <1>2 DEF Unread
<1>20. Inflow
  BY <1>10, <1>11, <1>13 DEF Inflow
<1> QED
  BY <1>0, <1>2, <1>7, <1>8, <1>12, <1>14, <1>15, <1>16, <1>17, <1>18, <1>19, <1>20 DEF CopyInv, ExactInv

\* Whether LOGOUT is said is decided when the pass is left, and by then the queues
\* are what they will be.
LEMMA GracefulStays ==
  ASSUME Typed, graceful => ~Running, [Next]_vars
  PROVE  /\ graceful' => ~Running'
         /\ graceful => graceful' /\ (Finished' => Finished)
<1>0. Running => ~graceful
  OBVIOUS
<1>a. ASSUME Running, pc' = "close" \/ graceful' = graceful
      PROVE  /\ graceful' => ~Running'
             /\ graceful => graceful' /\ (Finished' => Finished)
  <2>1. CASE pc' = "close"
    BY <1>0, <1>a, <2>1 DEF Running
  <2>2. CASE graceful' = graceful
    BY <1>0, <1>a, <2>2, Zenon
  <2> QED
    BY <1>a, <2>1, <2>2
<1>1. CASE UNCHANGED worker
  <2>1. pc' = pc /\ graceful' = graceful /\ next' = next /\ fetchQ' = fetchQ /\ item' = item /\ pendQ' = pendQ
    BY <1>1 DEF worker
  <2>2. (Running' <=> Running) /\ (Finished' <=> Finished)
    BY <2>1 DEF Running, Finished
  <2> QED
    BY <2>1, <2>2, Zenon
<1>2. CASE Opened \/ Select \/ Selected \/ StartMore \/ Filled \/ WaitSize
  <2>1. Running /\ (pc' = "close" \/ graceful' = graceful)
    BY <1>2 DEF Opened, Select, Selected, StartMore, Filled, WaitSize, Leave, Running
  <2> QED
    BY <1>a, <2>1
<1>3. CASE Begin \/ Continue \/ StreamChunk \/ StreamEnds \/ Finish \/ Room \/ SettleOne
  <2>1. Running /\ (pc' = "close" \/ graceful' = graceful)
    BY <1>3 DEF Begin, Continue, StreamChunk, StreamEnds, Finish, Room, SettleOne, Leave, Running
  <2> QED
    BY <1>a, <2>1
<1>4. CASE ClosePair \/ LoggedOut \/ Ended
  <2>1. /\ graceful' = graceful /\ next' = next /\ fetchQ' = fetchQ /\ item' = item /\ pendQ' = pendQ
        /\ ~Running'
    BY <1>4 DEF ClosePair, LoggedOut, Ended, Running
  <2>2. Finished' <=> Finished
    BY <2>1 DEF Finished
  <2> QED
    BY <2>1, <2>2, Zenon
<1>5. ~Work => UNCHANGED worker
  BY TimeIs DEF Next, Process, Busy, Drain, Server, Vanish, Kick, vars, worker
<1> QED
  BY <1>1, <1>2, <1>3, <1>4, <1>5 DEF Work

\* What is fair, or matters, has been all along.
LEMMA FairWas ==
  ASSUME Typed, graceful => ~Running, [Next]_vars, SourceStep
  PROVE  Fair' => Fair /\ (graceful' => Finished')
<1>1. Kept' => Kept
  BY DEF Kept, SourceStep
<1> QED
  BY <1>1, GracefulStays DEF Fair

LEMMA ReaderWas ==
  ASSUME Typed, CodingInv, Unread, [Next]_vars, Running'
  PROVE  /\ Running
         /\ Attending' => Attending
         /\ Listening' => Listening
<1> USE Constants
<1>0. Running /\ (cli[src].closed => cli'[src].closed)
  BY QueueWorks, Moves, ClosedStays DEF CodingInv
<1> SUFFICES ASSUME cli[src].closed, cli[src].fifo = <<>>
             PROVE  /\ cli'[src].fifo = <<>>
                    /\ cli[src].to = None => cli'[src].to = None
  BY <1>0 DEF Attending, Listening
<1>1. ~Fetched
  BY DEF Fetched, Running
<1>2. CASE AllSame \/ \E m \in Msg : Taken(m)
  BY <1>2 DEF AllSame, SameReader, Taken
<1>3. ASSUME NEW k \in Conn, Begun(k) \/ Announced(k) \/ Received(k) \/ Completed(k) \/ Broken(k) \/ Cleared(k)
      PROVE  /\ cli'[src].fifo = <<>>
             /\ cli[src].to = None => cli'[src].to = None
  <2>1. CASE k = src
    BY <1>3, <2>1 DEF Begun, Announced, Received, Completed, Broken, Cleared
  <2>2. CASE k # src
    BY <1>3, <2>2 DEF Begun, Announced, Received, Completed, Broken, Cleared, Others, SameReader
  <2> QED
    BY <2>1, <2>2
<1> QED
  BY <1>1, <1>2, <1>3, BodySteps

LEMMA InflowNext ==
  ASSUME Typed, Typed', CodingInv, FifoInv, Unread, SourceInv, Kept, Inflow, [Next]_vars, SourceStep
  PROVE  Inflow'
<1>1. OpenFirst /\ Quiet /\ PeerKnows(src)
  BY Constants DEF CodingInv
<1>2. ASSUME Attending'
      PROVE  ChunkInv'
  <2>1. Running' /\ Running /\ Attending
    BY <1>2, ReaderWas DEF Attending
  <2>2. ChunkInv /\ (Listening => InOrder(down[src], Front1, next - 1))
    BY <2>1 DEF Inflow, OrderInv
  <2> QED
    BY <1>1, <1>2, <2>1, <2>2, ChunkNext
<1>3. ASSUME Listening'
      PROVE  OrderInv'
  <2>1. Listening
    BY <1>3, ReaderWas DEF Listening
  <2>2. ChunkInv /\ OrderInv
    BY <2>1 DEF Inflow, Attending, Listening
  <2> QED
    BY <1>1, <1>3, <2>2, OrderNext
<1>4. ASSUME Running'
      PROVE  Sizes'
  <2>1. Sizes
    BY <1>4, ReaderWas DEF Inflow
  <2> QED
    BY <1>4, <2>1, SizesNext
<1> QED
  BY <1>2, <1>3, <1>4 DEF Inflow

LEMMA ExactHolds ==
  ASSUME Typed, Typed', CodingInv, FifoInv, WhyInv, SourceInv, SourceInv', QueueInv, Unread, ExactInv, Kept,
         [Next]_vars, SourceStep, graceful' => Finished'
  PROVE  ExactInv'
<1> USE DEF ExactInv
<1>1. OpenFirst
  BY DEF CodingInv
<1>2. Inflow'
  BY InflowNext
<1>3. SizesTold'
  BY SizesToldNext
<1>4. HeldInv'
  BY HeldNext
<1>5. LiteralInv'
  BY <1>1, LiteralNext
<1>6. StreamInv'
  BY StreamNext
<1>7. CopiesAreExact'
  BY <1>1, ExactNext
<1> QED
  BY <1>2, <1>3, <1>4, <1>5, <1>6, <1>7

LEMMA CopyNext ==
  ASSUME CopyInv, [Next]_vars
  PROVE  CopyInv'
<1> USE DEF CopyInv
<1>1. Typed' /\ CodingInv'
  BY TypedNext, CodingNext
<1>2. ~LateBuffer => HeardOut'
  BY <1>1, HeardOutNext
<1>3. FifoInv'
  BY FifoNext
<1>4. WhyInv'
  BY WhyNext
<1>5. SourceStep
  BY SourceSteps DEF CodingInv
<1>6. SourceInv'
  BY <1>1, <1>5, SourceQuiet
<1>7. QueueInv' /\ Unread'
  BY QueueNext, UnreadNext
<1>8. graceful' => ~Running'
  BY GracefulStays
<1>9. ASSUME Fair'
      PROVE  ExactInv'
  <2>1. Kept /\ ExactInv /\ (graceful' => Finished')
    BY <1>5, <1>9, FairWas DEF Fair
  <2> QED
    BY <1>1, <1>5, <1>6, <2>1, ExactHolds
<1> QED
  BY <1>1, <1>2, <1>3, <1>4, <1>6, <1>7, <1>8, <1>9

\* "duplicates are impossible by design": what is stored for a row is the body of
\* that row's message and all of it.  Bodies come in the order of the fetches, so the
\* n-th is that of the n-th row, and its chunks are written between the line and the
\* end of one APPEND.  Where the source is lost amid a body the literal stays short;
\* then no later row gets a size, also not from what the buffer of the closed
\* connection still holds, so nothing but an Abort follows on the destination, and a
\* literal that is not complete is not stored.  Copies are exact in every state in
\* which the rows but the last are still in the source, and LOGOUT is not to be said
\* unless the pass is through.  Those are the two promises the code does not keep,
\* and TLC finds a wrong copy beyond each: an answer without a body shifts the bodies
\* of the rows behind it, and the pass that uses up the reconnect budget says LOGOUT
\* into the open literal.
THEOREM CopiesAreExactHolds ==
  Spec => []((\A r \in 1..(Len(Rows) - 1) : Rows[r] \in here) /\ (graceful => Finished)
               => CopiesAreExact)
<1>1. Init => CopyInv
  BY CopyInit
<1>2. ASSUME CopyInv, [Next]_vars
      PROVE  CopyInv'
  BY <1>2, CopyNext
<1>3. CopyInv => ((\A r \in 1..(Len(Rows) - 1) : Rows[r] \in here) /\ (graceful => Finished)
                    => CopiesAreExact)
  BY DEF CopyInv, Fair, Kept, ExactInv
<1> QED
  BY <1>1, <1>2, <1>3, PTL DEF Spec

=============================================================================
